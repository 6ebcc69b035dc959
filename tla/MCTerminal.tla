----------------------------- MODULE MCTerminal -----------------------------
(***************************************************************************)
(* Terminal and Scrollback for TLC: the input row with the modal, and the  *)
(* text above it.  They share no state, so a behaviour is one of the first *)
(* or one of the second.                                                   *)
(***************************************************************************)
CONSTANTS Crowded, MaxSteps, MaxLines, MaxBarriers, MaxFailures

VARIABLES
  about,   \* which of the two this behaviour is about
  mode, text, saved, form, focus, reply, by, modal, task, waiters, ready, outside, exiting, closed,
  leftText, overtaken, steps,
  app, open, queue, pump, error, parts, scheduled, generation, timers, prints, screen, said,
  submitted, awaited, cover, passed, barriers, failed, reported

Row    == INSTANCE Terminal
Scroll == INSTANCE Scrollback

rowVars    == <<mode, text, saved, form, focus, reply, by, modal, task, waiters, ready, outside, exiting,
                closed, leftText, overtaken, steps>>
scrollVars == <<app, open, queue, pump, error, parts, scheduled, generation, timers, prints, screen,
                said, submitted, awaited, cover, passed, barriers, failed, reported>>
allVars    == <<about, rowVars, scrollVars>>

-----------------------------------------------------------------------------
TerminalInit ==
  /\ about \in {"row", "scrollback"}
  /\ Row!Init /\ Scroll!Init

InRow    == about = "row"        /\ UNCHANGED <<about, scrollVars>>
InScroll == about = "scrollback" /\ UNCHANGED <<about, rowVars>>

RowNext ==
  \/ InRow /\ Row!Type
  \/ InRow /\ Row!Submit
  \/ InRow /\ Row!Answer
  \/ InRow /\ Row!MoveFocus
  \/ InRow /\ Row!Escape
  \/ InRow /\ Row!ClearRow
  \/ InRow /\ Row!CtrlC
  \/ InRow /\ Row!CtrlD
  \/ InRow /\ Row!ModalKey
  \/ InRow /\ Row!CtrlO
  \/ InRow /\ Row!Recall
  \/ InRow /\ Row!StartOutside
  \/ InRow /\ Row!PickerDone
  \/ InRow /\ Row!EditorDone
  \/ InRow /\ Row!RestoreSubmission
  \/ InRow /\ Row!Dispatch
  \/ InRow /\ Row!TurnStep
  \/ InRow /\ Row!Resume
  \/ InRow /\ Row!CommandReady
  \/ InRow /\ Row!ForceExit
  \/ InRow /\ Row!AfterRun
  \/ InRow /\ \E a \in Row!Tasks : Row!CancelTask(a)

ScrollNext ==
  \/ InScroll /\ Scroll!Say
  \/ InScroll /\ Scroll!Schedule
  \/ InScroll /\ Scroll!Flush
  \/ InScroll /\ Scroll!Promote
  \/ InScroll /\ Scroll!AwaitBarrier
  \/ InScroll /\ Scroll!CancelTurn
  \/ InScroll /\ Scroll!PumpWrites
  \/ InScroll /\ Scroll!PumpPasses
  \/ InScroll /\ Scroll!PumpEnds
  \/ InScroll /\ Scroll!TerminalPrints
  \/ InScroll /\ Scroll!TerminalRefuses
  \/ InScroll /\ Scroll!CloseWriter
  \/ InScroll /\ Scroll!Exit
  \/ InScroll /\ Scroll!Stop

TerminalNext == RowNext \/ ScrollNext

\* The fairness of Terminal, in the behaviours it is about.
TerminalSpec ==
  /\ TerminalInit /\ [][TerminalNext]_allVars
  /\ WF_rowVars(InRow /\ Row!Resume) /\ WF_rowVars(InRow /\ Row!CommandReady)
  /\ WF_rowVars(InRow /\ Row!Shutdown)

-----------------------------------------------------------------------------
\* Their properties, by names a configuration can give.
TerminalSound   == about = "row" => Row!PromptKept /\ Row!ScreenKept
ScrollbackSound == about = "scrollback" => Scroll!ScrollbackSound
ExitCompletes   == Row!ExitCompletes
AllInOrder      == about = "scrollback" => Scroll!AllInOrder
=============================================================================
