------------------------------ MODULE Scrollback ------------------------------
(***************************************************************************)
(* The two ways a finished line takes to the terminal while the TUI is     *)
(* live.  Text that is promoted goes through ScrollbackWriter: a queue, a  *)
(* task that prints one write at a time, and a barrier the turn awaits     *)
(* before its tool batch.  Everything else goes through UiPrinter's        *)
(* batching window: it waits for a timer, or for whoever prints next.      *)
(*                                                                         *)
(* Printing above a live application means suspending it, which takes      *)
(* time.  prompt-toolkit does that for one print after another, in the     *)
(* order they were asked for; an application that exits waits for them.    *)
(* Lines are numbered as they are said.                                    *)
(***************************************************************************)
EXTENDS Integers, Sequences, SequencesExt, FiniteSets

CONSTANTS
  MaxLines,      \* bound: lines said
  MaxBarriers,   \* bound: barriers awaited
  MaxFailures    \* bound: writes that the terminal refuses

VARIABLES
  app,                            \* "running", "exiting" or "stopped"
  open, queue, pump, error,       \* ScrollbackWriter: _open, _queue, _pump, _error
  parts, scheduled, generation,   \* UiPrinter: _scrollback_parts, _scrollback_scheduled, _scrollback_generation
  timers,                         \* callbacks the event loop has for the window
  prints,                         \* what is to be printed above the application, in order
  screen,
  said, submitted, awaited,       \* lines said, those the writer accepted, and the barrier the turn awaits
  cover, passed,                  \* what the writer had accepted when the turn reached its barrier, when it passed
  barriers, failed, reported

writer == <<open, queue, pump, error>>
window == <<parts, scheduled, generation, timers>>
asked  == <<said, submitted, awaited, cover, passed, barriers>>
vars   == <<app, writer, window, prints, screen, asked, failed, reported>>

NoWrite == 0
Write(line) == [kind |-> "write", of |-> line]
Barrier(b)  == [kind |-> "barrier", of |-> b]
End         == [kind |-> "end", of |-> 0]

Init ==
  /\ app = "running"
  /\ open = TRUE /\ queue = <<>> /\ pump = "idle" /\ error = FALSE
  /\ parts = <<>> /\ scheduled = FALSE /\ generation = 0 /\ timers = {}
  /\ prints = <<>> /\ screen = <<>>
  /\ said = 0 /\ submitted = <<>> /\ awaited = 0 /\ cover = {} /\ passed = {}
  /\ barriers = 0 /\ failed = {} /\ reported = FALSE

-----------------------------------------------------------------------------
(***************************************************************************)
(* The batching window.                                                    *)
(***************************************************************************)
Above(by, lines) == [by |-> by, lines |-> lines]
Printed(lines)   == IF lines = <<>> THEN <<>> ELSE <<Above("window", lines)>>

\* Mutant: a drain voids the timer of the window and leaves the window thinking it has one.
drained_StaysScheduled == parts' = <<>> /\ generation' = generation + 1 /\ UNCHANGED scheduled

\* drain_scrollback empties the window: its timer is void.
drained == parts' = <<>> /\ scheduled' = FALSE /\ generation' = generation + 1

\* _queue_scrollback: held is what the window holds before the line.
_queue_scrollback(held, line, g) ==
  /\ parts' = Append(held, line) /\ scheduled' = TRUE /\ generation' = g
  /\ timers' = IF scheduled /\ g = generation THEN timers ELSE timers \cup {[at |-> "soon", generation |-> g]}

\* _scrollback_print: into the window of a live application, else after what it held.  (A line said inside
\* run_in_terminal, while the application is suspended, is printed at once too; nothing of that is here.)
_scrollback_print(line) ==
  IF app # "stopped"
  THEN _queue_scrollback(parts, line, generation) /\ UNCHANGED screen
  ELSE drained /\ screen' = screen \o Append(parts, line) /\ UNCHANGED timers

\* Any line that is not promoted.  The turn says nothing while it waits.
Say ==
  /\ said < MaxLines /\ awaited = 0
  /\ said' = said + 1
  /\ _scrollback_print(said + 1)
  /\ UNCHANGED <<app, writer, prints, submitted, awaited, cover, passed, barriers, failed, reported>>

\* _schedule_scrollback and _flush_scrollback: a callback of an older generation does nothing.
Schedule ==
  /\ app # "stopped"
  /\ \E t \in timers :
       /\ t.at = "soon"
       /\ timers' = (timers \ {t}) \cup (IF scheduled /\ t.generation = generation
                                         THEN {[t EXCEPT !.at = "timer"]} ELSE {})
  /\ UNCHANGED <<app, writer, parts, scheduled, generation, prints, screen, asked, failed, reported>>

Flush ==
  /\ app # "stopped"
  /\ \E t \in timers :
       /\ t.at = "timer" /\ timers' = timers \ {t}
       /\ IF t.generation = generation
          THEN parts' = <<>> /\ scheduled' = FALSE /\ prints' = prints \o Printed(parts)
          ELSE UNCHANGED <<parts, scheduled, prints>>
  /\ UNCHANGED <<app, writer, generation, screen, asked, failed, reported>>

-----------------------------------------------------------------------------
(***************************************************************************)
(* ScrollbackWriter.                                                       *)
(***************************************************************************)
\* submit; a write that comes too late is written directly, after what the window held.
Promote ==
  /\ said < MaxLines /\ awaited = 0
  /\ said' = said + 1
  /\ IF open
     THEN /\ queue' = Append(queue, Write(said + 1)) /\ submitted' = Append(submitted, said + 1)
          /\ UNCHANGED <<window, prints, screen>>
     ELSE /\ IF app # "stopped"
             THEN /\ prints' = prints \o Printed(parts)
                  /\ _queue_scrollback(<<>>, said + 1, generation + 1)
                  /\ UNCHANGED screen
             ELSE _scrollback_print(said + 1) /\ UNCHANGED prints
          /\ UNCHANGED <<queue, submitted>>
  /\ UNCHANGED <<app, open, pump, error, awaited, cover, passed, barriers, failed, reported>>

\* _raise_pending: the first failure is told once.
_raise_pending == reported' = (reported \/ error) /\ error' = FALSE

\* The turn, before its tool batch.
AwaitBarrier ==
  /\ awaited = 0 /\ barriers < MaxBarriers /\ barriers' = barriers + 1
  /\ IF open
     THEN /\ queue' = Append(queue, Barrier(barriers + 1)) /\ awaited' = barriers + 1
          /\ cover' = ToSet(submitted)
          /\ UNCHANGED <<error, reported>>
     ELSE _raise_pending /\ UNCHANGED <<queue, awaited, cover>>
  /\ UNCHANGED <<app, open, pump, window, prints, screen, said, submitted, passed, failed>>

\* Ctrl-C: the turn waits no more, and its barrier stays in the queue.
CancelTurn ==
  /\ awaited # 0 /\ awaited' = 0
  /\ UNCHANGED <<app, writer, window, prints, screen, said, submitted, cover, passed, barriers, failed, reported>>

\* The pump hands one write to the terminal and awaits it; a stopped application has no above.
PumpWrites ==
  /\ pump = "idle" /\ queue # <<>> /\ Head(queue).kind = "write"
  /\ queue' = Tail(queue)
  /\ IF app # "stopped"
     THEN /\ pump' = "writing" /\ prints' = Append(prints, Above("pump", <<Head(queue).of>>))
          /\ UNCHANGED <<screen, parts, scheduled, generation>>
     ELSE drained /\ screen' = screen \o Append(parts, Head(queue).of) /\ UNCHANGED <<pump, prints>>
  /\ UNCHANGED <<app, open, error, timers, asked, failed, reported>>

PumpPasses ==
  /\ pump = "idle" /\ queue # <<>> /\ Head(queue).kind = "barrier"
  /\ queue' = Tail(queue)
  /\ IF Head(queue).of = awaited
     THEN awaited' = 0 /\ passed' = cover /\ _raise_pending
     ELSE UNCHANGED <<awaited, passed, error, reported>>
  /\ UNCHANGED <<app, open, pump, window, prints, screen, said, submitted, cover, barriers, failed>>

PumpEnds ==
  /\ pump = "idle" /\ queue # <<>> /\ Head(queue).kind = "end"
  /\ queue' = Tail(queue) /\ pump' = "ended"
  /\ _raise_pending
  /\ UNCHANGED <<app, open, window, prints, screen, asked, failed>>

-----------------------------------------------------------------------------
(***************************************************************************)
(* The terminal.                                                           *)
(***************************************************************************)
\* The application is suspended, one print is made and it is drawn again.  A write of the pump
\* emits inside the suspension: what the window holds comes out first.
TerminalPrints ==
  /\ prints # <<>> /\ prints' = Tail(prints)
  /\ LET job == Head(prints)
     IN  IF job.by = "pump"
         THEN drained /\ screen' = screen \o parts \o job.lines /\ pump' = "idle"
         ELSE screen' = screen \o job.lines /\ UNCHANGED <<pump, parts, scheduled, generation>>
  /\ UNCHANGED <<app, open, queue, error, timers, asked, failed, reported>>

\* The terminal refuses the pump's write, at what the window held or at the line.
TerminalRefuses ==
  /\ prints # <<>> /\ Head(prints).by = "pump" /\ Cardinality(failed) < MaxFailures
  /\ prints' = Tail(prints) /\ pump' = "idle" /\ error' = TRUE
  /\ drained
  /\ \/ screen' = screen /\ failed' = failed \cup ToSet(parts \o Head(prints).lines)
     \/ screen' = screen \o parts /\ failed' = failed \cup ToSet(Head(prints).lines)
  /\ UNCHANGED <<app, open, queue, timers, asked, reported>>

-----------------------------------------------------------------------------
(***************************************************************************)
(* The end of the session: admission, the accepted writes, the application.*)
(***************************************************************************)
CloseWriter ==
  /\ open /\ awaited = 0
  /\ open' = FALSE /\ queue' = Append(queue, End)
  /\ UNCHANGED <<app, pump, error, window, prints, screen, asked, failed, reported>>

Exit ==
  /\ app = "running" /\ pump = "ended" /\ app' = "exiting"
  /\ UNCHANGED <<writer, window, prints, screen, asked, failed, reported>>

\* The application ends by itself too.  _after_run prints what the window still holds.
Stop ==
  /\ app # "stopped" /\ prints = <<>>
  /\ app' = "stopped"
  /\ drained /\ screen' = screen \o parts
  /\ UNCHANGED <<writer, timers, prints, asked, failed, reported>>

Next ==
  \/ Say \/ Schedule \/ Flush
  \/ Promote \/ AwaitBarrier \/ CancelTurn
  \/ PumpWrites \/ PumpPasses \/ PumpEnds
  \/ TerminalPrints \/ TerminalRefuses
  \/ CloseWriter \/ Exit \/ Stop

Spec == Init /\ [][Next]_vars

-----------------------------------------------------------------------------
(***************************************************************************)
(* Properties.                                                             *)
(***************************************************************************)
Ascends(s) == \A i, j \in DOMAIN s : i < j => s[i] < s[j]

\* Past its barrier, the turn finds on the screen what had been promoted before: its tool batch
\* writes below it.
BarrierHolds == passed \subseteq ToSet(screen) \cup failed

\* A line in the window has a callback on its way to print it, whatever drains came between.
WindowTimed ==
  (parts # <<>> /\ app # "stopped") => scheduled /\ \E t \in timers : t.generation = generation

\* No line is printed twice, and when the session is over each has been printed or was refused,
\* which somebody was told.
Promoted == ToSet(submitted)
NothingLost ==
  /\ IsInjective(screen)
  /\ (app = "stopped" /\ pump = "ended") =>
       /\ ToSet(screen) \cup failed = 1..said
       /\ failed # {} => reported

\* What is promoted comes out in the order of its promotion.
PromotedInOrder ==
  \A i, j \in DOMAIN screen :
    i < j /\ screen[i] \in Promoted /\ screen[j] \in Promoted => screen[i] < screen[j]

ScrollbackSound == BarrierHolds /\ WindowTimed /\ NothingLost /\ PromotedInOrder

\* What the reader sees is the order in which things happened.
AllInOrder == Ascends(screen)
=============================================================================
