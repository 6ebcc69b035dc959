------------------------------ MODULE Terminal ------------------------------
(***************************************************************************)
(* The one input row and the one modal of the terminal application         *)
(* (tui/app.py), and the tasks that compete for them: the turn, with its   *)
(* approvals and its Ask, the tool-output browser, and a slash command     *)
(* with a viewer of its own.                                               *)
(*                                                                         *)
(* A task waits for the modal to be gone on one asyncio.Event; a task      *)
(* whose await is over is in `ready` and resumes in that order.  A key is  *)
(* one callback of the loop, pressed when nothing is ready.  While an      *)
(* editor or fzf owns the terminal no key arrives.  A text is what it was  *)
(* typed for; a reply of "" is what `confirm` reads as an approval.        *)
(***************************************************************************)
EXTENDS Naturals, Sequences, SequencesExt

CONSTANTS
  Crowded,     \* whether all three tasks may want the row or the modal at once
  MaxSteps     \* bound: prompts of a turn, refused submissions and outside programs

VARIABLES
  mode,     \* input_mode: "chat", "dispatch", "running", "approval"
  text,     \* input_buffer: "" or what the text is
  saved,    \* request_input's previous_mode and previous_document
  form,     \* _approval_actions
  focus,    \* the answer of the focused action
  reply,    \* the future of _input_pending: "pending", "cancel", or the submitted line
  by,       \* the key that resolved it
  modal,    \* whose modal is visible
  task,     \* per task: its await, and what for
  waiters,  \* tasks waiting on _modal_idle, in order
  ready,    \* tasks whose await is over, in order
  outside,  \* the program that owns the terminal, and the text it started from
  exiting,  \* the application was told to exit
  closed,   \* _after_run has run
  leftText, \* what the user last left in the row
  overtaken,\* the row was taken while an editor or a refused submission was about to write to it
  steps

rowVars  == <<mode, text, saved, form, focus, reply, by>>
taskVars == <<modal, task, waiters, ready>>
exitVars == <<exiting, closed>>
userVars == <<leftText, overtaken>>
vars     == <<rowVars, taskVars, outside, exitVars, userVars, steps>>

NoTask  == "nobody"
Tasks   == {"turn", "browser", "command"}
Actions == {"", "v", "n"}          \* Approve, View, Refuse
Off     == [at |-> "off", for |-> "none"]
Free    == [program |-> "none", text |-> ""]
Opening == {a \in Tasks : task[a].at \notin {"off", "work", "probe"}}
Room    == Crowded \/ \A a, b \in Opening : a = b

Init ==
  /\ mode = "chat" /\ text = "" /\ saved = [mode |-> "chat", text |-> ""]
  /\ form = FALSE /\ focus = "" /\ reply = "pending" /\ by = "none"
  /\ modal = NoTask /\ task = [a \in Tasks |-> Off] /\ waiters = <<>> /\ ready = <<>>
  /\ outside = Free /\ exiting = FALSE /\ closed = FALSE
  /\ leftText = "" /\ overtaken = FALSE /\ steps = 0

-----------------------------------------------------------------------------
(***************************************************************************)
(* request_input and show_modal, as what the task that calls them does     *)
(* next.  `rest` is what is left of `ready`.                               *)
(***************************************************************************)
\* The input row becomes the prompt of the request.
StartInput(why, rest, row) ==
  /\ saved' = row
  /\ mode' = "approval" /\ text' = "" /\ reply' = "pending" /\ by' = "none"
  /\ task' = [task EXCEPT !["turn"] = [at |-> "input", for |-> why]]
  /\ overtaken' = (overtaken \/ outside.program = "editor")
  /\ ready' = rest
  /\ UNCHANGED <<modal, waiters>>

\* set_approval_form precedes each approval, and nothing else.
Declared(why) == form \/ why = "approve"

\* request_input, from a row that holds `row`: at once, or after the visible modal.
RequestInput(why, rest, row) ==
  /\ form' = Declared(why) /\ focus' = ""
  /\ IF modal = NoTask THEN StartInput(why, rest, row)
     ELSE /\ task' = [task EXCEPT !["turn"] = [at |-> "waitInput", for |-> why]]
          /\ waiters' = Append(waiters, "turn") /\ ready' = rest
          /\ mode' = row.mode /\ text' = row.text
          /\ UNCHANGED <<saved, reply, by, modal, overtaken>>

\* _activate_modal.
Activate(a, why, rest) ==
  /\ modal' = a /\ task' = [task EXCEPT ![a] = [at |-> "modal", for |-> why]]
  /\ ready' = rest /\ UNCHANGED waiters

\* show_modal: answered None once the application has ended; at once, or after the visible one.
ShowModal(a, why, rest) ==
  IF closed THEN /\ task' = [task EXCEPT ![a] = [at |-> "modal", for |-> why]]
                 /\ ready' = <<a>> \o rest /\ UNCHANGED <<modal, waiters>>
  ELSE IF modal = NoTask THEN Activate(a, why, rest)
  ELSE /\ task' = [task EXCEPT ![a] = [at |-> "waitModal", for |-> why]]
       /\ waiters' = Append(waiters, a) /\ ready' = rest
       /\ UNCHANGED modal

\* close_modal: the waiting tasks wake, then the one that showed it.
CloseModal ==
  /\ modal' = NoTask /\ waiters' = <<>>
  /\ ready' = ready \o waiters \o <<modal>>

\* resolve_input: a later answer is ignored.
Resolve(value, key) ==
  IF task["turn"].at = "input" /\ reply = "pending"
  THEN reply' = value /\ by' = key /\ ready' = Append(ready, "turn")
  ELSE UNCHANGED <<reply, by, ready>>

-----------------------------------------------------------------------------
(***************************************************************************)
(* The user.                                                               *)
(***************************************************************************)
Key      == ~exiting /\ ready = <<>> /\ outside = Free
RowKey   == Key /\ modal = NoTask
Asked    == mode = "approval" /\ task["turn"].at = "input"
RowFrame == UNCHANGED <<saved, form, overtaken, outside, exitVars>>
Still    == UNCHANGED <<reply, by, ready>>
Rest     == UNCHANGED <<modal, waiters>>

\* The user, or a program the user started, puts t in the row.
Left(t) == text' = t /\ leftText' = IF mode = "approval" THEN leftText ELSE t

Type ==
  /\ RowKey /\ text = "" /\ mode \in {"chat", "running", "approval"}
  /\ Left(IF mode = "approval" THEN "reason" ELSE "draft")
  /\ RowFrame /\ Still /\ Rest /\ UNCHANGED <<mode, focus, task, steps>>

\* Enter in the chat or running row; the loop or the queue takes the text, or a command starts.
Submit ==
  /\ RowKey /\ text # "" /\ mode \in {"chat", "running"}
  /\ Left("")
  /\ mode' = IF mode = "chat" THEN "dispatch" ELSE mode
  /\ \/ UNCHANGED task
     \/ /\ mode = "running" /\ task["command"] = Off
        /\ task' = [task EXCEPT !["command"] = [at |-> "probe", for |-> "queued"]]
  /\ RowFrame /\ Still /\ Rest /\ UNCHANGED <<focus, steps>>

\* Enter at a prompt: the focused action of an empty line, or the line.
Answer ==
  /\ RowKey /\ Asked
  /\ Resolve(IF text = "" /\ form THEN focus ELSE text, "enter")
  /\ RowFrame /\ Rest /\ UNCHANGED <<mode, text, focus, leftText, task, steps>>

\* Tab and the arrows on an empty line.
MoveFocus ==
  /\ RowKey /\ mode = "approval" /\ form /\ text = ""
  /\ \E f \in Actions \ {focus} : focus' = f
  /\ RowFrame /\ Still /\ Rest /\ UNCHANGED <<mode, text, leftText, task, steps>>

\* Escape at an approval, Ctrl-U.
Escape ==
  /\ RowKey /\ mode = "approval" /\ form
  /\ IF text # "" THEN text' = "" /\ Still ELSE (Resolve("cancel", "escape") /\ UNCHANGED text)
  /\ RowFrame /\ Rest /\ UNCHANGED <<mode, focus, leftText, task, steps>>

ClearRow ==
  /\ RowKey /\ text # "" /\ mode # "dispatch"
  /\ Left("")
  /\ RowFrame /\ Still /\ Rest /\ UNCHANGED <<mode, focus, task, steps>>

\* What Ctrl-C, Ctrl-D on an empty line and the end of the application answer.
Interrupted == "cancel"

\* Ctrl-C: at a modal, at a prompt, in a row with text, at work.
CtrlC ==
  /\ Key /\ RowFrame /\ UNCHANGED <<focus, task, steps>>
  /\ IF modal # NoTask THEN CloseModal /\ UNCHANGED <<mode, text, leftText, reply, by>>
     ELSE /\ Rest
          /\ IF Asked THEN Resolve(Interrupted, "c-c") /\ UNCHANGED <<mode, text, leftText>>
             ELSE IF text # "" THEN Left("") /\ Still /\ UNCHANGED mode
             ELSE /\ mode \in {"dispatch", "running"} /\ mode' = "running"
                  /\ Still /\ UNCHANGED <<text, leftText>>

\* Ctrl-D at a prompt sends the line; elsewhere it deletes, or leaves an empty chat row.
CtrlD ==
  /\ RowKey /\ Rest /\ UNCHANGED <<saved, form, overtaken, outside, closed, mode, focus, task, steps>>
  /\ IF Asked
     THEN /\ Resolve(IF text = "" THEN Interrupted ELSE text, "c-d")
          /\ UNCHANGED <<text, leftText, exiting>>
     ELSE /\ Still
          /\ \/ text # "" /\ mode # "dispatch" /\ Left("") /\ UNCHANGED exiting
             \/ text = "" /\ mode = "chat" /\ exiting' = TRUE /\ UNCHANGED <<text, leftText>>

\* A key of the visible modal that ends it.
ModalKey ==
  /\ Key /\ modal # NoTask /\ CloseModal
  /\ RowFrame /\ UNCHANGED <<mode, text, focus, reply, by, leftText, task, steps>>

\* Ctrl-O, with no browser open.
CtrlO ==
  /\ RowKey /\ task["browser"] = Off /\ Room
  /\ task' = [task EXCEPT !["browser"] = [at |-> "start", for |-> "list"]]
  /\ ready' = Append(ready, "browser")
  /\ RowFrame /\ Rest /\ UNCHANGED <<mode, text, focus, reply, by, leftText, steps>>

\* Up while a turn works: a queued follow-up takes the place of the row's text.
Recall ==
  /\ RowKey /\ mode = "running" /\ steps < MaxSteps /\ steps' = steps + 1
  /\ Left("recalled")
  /\ RowFrame /\ Still /\ Rest /\ UNCHANGED <<mode, focus, task>>

\* Ctrl-G, or Tab on a file mention.
StartOutside ==
  /\ RowKey /\ steps < MaxSteps /\ steps' = steps + 1 /\ mode # "dispatch"
  /\ \/ outside' = [program |-> "editor", text |-> text]
     \/ text # "" /\ outside' = [program |-> "picker", text |-> text]
  /\ Still /\ Rest
  /\ UNCHANGED <<saved, form, overtaken, exitVars, mode, text, focus, leftText, task>>

\* fzf ends: the mention goes in only where the row is what it was.
PickerDone ==
  /\ outside.program = "picker" /\ ~exiting
  /\ outside' = Free
  /\ IF text = outside.text THEN (Left("edited") \/ UNCHANGED <<text, leftText>>)
     ELSE UNCHANGED <<text, leftText>>
  /\ Still /\ Rest /\ UNCHANGED <<saved, form, overtaken, exitVars, mode, focus, task, steps>>

\* The editor ends: an edited text goes in whatever the row is now.
EditorDone ==
  /\ outside.program = "editor" /\ ~exiting
  /\ outside' = Free
  /\ (Left("edited") \/ UNCHANGED <<text, leftText>>)
  /\ Still /\ Rest /\ UNCHANGED <<saved, form, overtaken, exitVars, mode, focus, task, steps>>

\* The runtime could not store an image: the submission goes back to an empty row.
RestoreSubmission ==
  /\ steps < MaxSteps /\ steps' = steps + 1 /\ ~exiting
  /\ IF text = "" THEN Left("refused") /\ overtaken' = (overtaken \/ mode = "approval")
     ELSE UNCHANGED <<text, leftText, overtaken>>
  /\ Still /\ Rest /\ UNCHANGED <<saved, form, outside, exitVars, mode, focus, task>>

User == \/ Type \/ Submit \/ Answer \/ MoveFocus \/ Escape \/ ClearRow \/ CtrlC \/ CtrlD \/ ModalKey
        \/ CtrlO \/ Recall \/ StartOutside \/ PickerDone \/ EditorDone \/ RestoreSubmission

-----------------------------------------------------------------------------
(***************************************************************************)
(* The tasks.                                                              *)
(***************************************************************************)
Frame == UNCHANGED <<outside, exitVars, leftText>>
Quiet == UNCHANGED <<rowVars, overtaken>>
Row   == [mode |-> mode, text |-> text]

\* run_agent_loop takes the input: a command, or a turn.
Dispatch ==
  /\ mode = "dispatch" /\ ~exiting /\ task["turn"] = Off /\ task["command"] = Off
  /\ \/ /\ task' = [task EXCEPT !["command"] = [at |-> "probe", for |-> "dispatch"]]
        /\ UNCHANGED mode
     \/ /\ task' = [task EXCEPT !["turn"] = [at |-> "work", for |-> "turn"]]
        /\ mode' = "running"
  /\ UNCHANGED <<text, saved, form, focus, reply, by, modal, waiters, ready, overtaken, steps>> /\ Frame

\* The turn goes on to an approval, to an Ask, or to its end.
TurnStep ==
  /\ task["turn"].at = "work" /\ ~exiting /\ Frame
  /\ \/ /\ steps < MaxSteps /\ steps' = steps + 1 /\ Room
        /\ \/ RequestInput("approve", ready, Row)
           \/ ShowModal("turn", "ask", ready) /\ Quiet
     \/ /\ task' = [task EXCEPT !["turn"] = Off] /\ mode' = "chat"
        /\ UNCHANGED <<text, saved, form, focus, reply, by, modal, waiters, ready, overtaken, steps>>

Working(rest) == task' = [task EXCEPT !["turn"].at = "work"] /\ ready' = rest /\ UNCHANGED <<modal, waiters>>

\* What request_input's finally puts back.
Restored == saved

\* The form goes with its prompt.
FormAfter == FALSE

\* The answer of a prompt: `v` shows the text and asks again, anything else decides; an answer to
\* an Ask page may lead to the next page.
EndInput(rest) ==
  LET why == task["turn"].for IN
  \/ /\ ~(why = "approve" /\ reply = "v")
     /\ mode' = Restored.mode /\ text' = Restored.text /\ form' = FormAfter
     /\ Working(rest) /\ UNCHANGED <<saved, focus, reply, by, overtaken>>
  \/ /\ why = "approve" /\ reply = "v"
     /\ mode' = Restored.mode /\ text' = Restored.text /\ form' = FormAfter
     /\ ShowModal("turn", "view", rest) /\ UNCHANGED <<saved, focus, reply, by, overtaken>>
  \/ /\ why = "ask" /\ reply # "cancel"
     /\ mode' = Restored.mode /\ text' = Restored.text /\ form' = FormAfter
     /\ ShowModal("turn", "ask", rest) /\ UNCHANGED <<saved, focus, reply, by, overtaken>>

\* The turn resumes.
TurnResumes(rest) ==
  LET at == task["turn"].at  why == task["turn"].for IN
  \/ at = "waitInput" /\ StartInput(why, rest, Row) /\ UNCHANGED <<form, focus>>
  \/ at = "input" /\ EndInput(rest)
  \/ at = "waitModal" /\ Activate("turn", why, rest) /\ Quiet
  \/ at = "modal" /\ why = "view" /\ RequestInput("approve", rest, Row)
  \/ at = "modal" /\ why = "ask" /\ ((Working(rest) /\ Quiet) \/ RequestInput("ask", rest, Row))

\* The browser resumes: its list, a viewer, the list again, or its end.
BrowserResumes(rest) ==
  /\ Quiet
  /\ \/ task["browser"].at = "waitModal" /\ Activate("browser", "list", rest)
     \/ task["browser"].at \in {"start", "modal"} /\ ShowModal("browser", "list", rest)
     \/ /\ task["browser"].at \in {"start", "modal"}
        /\ task' = [task EXCEPT !["browser"] = Off] /\ ready' = rest /\ UNCHANGED <<modal, waiters>>

\* A command ends; one that the loop dispatched gives the prompt back.
CommandEnds(rest) ==
  /\ mode' = IF task["command"].for = "dispatch" THEN "chat" ELSE mode
  /\ task' = [task EXCEPT !["command"] = Off] /\ ready' = rest
  /\ UNCHANGED <<text, saved, form, focus, reply, by, modal, waiters, overtaken>>

CommandResumes(rest) ==
  \/ task["command"].at = "waitModal" /\ Activate("command", task["command"].for, rest) /\ Quiet
  \/ task["command"].at = "modal" /\ CommandEnds(rest)

Resume ==
  /\ ready # <<>> /\ Frame /\ UNCHANGED steps
  /\ \/ Head(ready) = "turn" /\ TurnResumes(Tail(ready))
     \/ Head(ready) = "browser" /\ BrowserResumes(Tail(ready))
     \/ Head(ready) = "command" /\ CommandResumes(Tail(ready))

\* A command that run_agent_loop dispatched is awaited by it: shutdown begins when it has returned,
\* and has no task of its own to cancel.
Dispatched == task["command"] # Off /\ task["command"].for = "dispatch"

\* What a command awaits before its viewer (tmux, the repository) is there.
CommandReady ==
  /\ task["command"].at = "probe" /\ (exiting => Dispatched) /\ Frame /\ UNCHANGED steps
  /\ \/ /\ Room /\ ~closed
        /\ ShowModal("command", task["command"].for, ready) /\ Quiet
     \/ CommandEnds(ready)

-----------------------------------------------------------------------------
(***************************************************************************)
(* The end.                                                                *)
(***************************************************************************)
\* Ctrl-\ at any moment.
ForceExit ==
  /\ Key /\ exiting' = TRUE
  /\ UNCHANGED <<rowVars, taskVars, outside, closed, userVars, steps>>

\* _after_run: what still waits for the user is cancelled.
AfterRun ==
  /\ exiting /\ ~closed /\ closed' = TRUE /\ outside' = Free
  /\ LET open == task["turn"].at = "input" /\ reply = "pending" IN
       /\ reply' = IF open THEN Interrupted ELSE reply
       /\ by' = IF open THEN "exit" ELSE by
       /\ modal' = NoTask
       /\ waiters' = IF modal = NoTask THEN waiters ELSE <<>>
       /\ ready' = ready \o (IF open THEN <<"turn">> ELSE <<>>)
                         \o (IF modal = NoTask THEN <<>> ELSE waiters \o <<modal>>)
  /\ UNCHANGED <<mode, text, saved, form, focus, task, exiting, userVars, steps>>

\* A queue without one of its tasks.
Without(queue, a) ==
  IF Contains(queue, a) THEN RemoveAt(queue, CHOOSE i \in DOMAIN queue : queue[i] = a) ELSE queue

\* Mutant: a task cancelled in show_modal leaves its modal on the screen.
Cancelled_KeepsModal(a) ==
  /\ task' = [task EXCEPT ![a] = Off]
  /\ waiters' = Without(waiters, a) /\ ready' = Without(ready, a) /\ UNCHANGED modal

\* A cancelled task leaves the queues; the modal it showed is closed.
Cancelled(a) ==
  /\ task' = [task EXCEPT ![a] = Off]
  /\ IF modal = a
     THEN modal' = NoTask /\ waiters' = <<>> /\ ready' = Without(ready, a) \o waiters
     ELSE waiters' = Without(waiters, a) /\ ready' = Without(ready, a) /\ UNCHANGED modal

\* _shutdown cancels the turn and every task the runtime started.
CancelTask(a) ==
  /\ exiting /\ ~Dispatched /\ task[a] # Off /\ Cancelled(a)
  /\ IF a = "turn" /\ task[a].at = "input"
     THEN mode' = saved.mode /\ text' = saved.text /\ form' = FormAfter
     ELSE UNCHANGED <<mode, text, form>>
  /\ UNCHANGED <<saved, focus, reply, by, outside, exitVars, userVars, steps>>

Shutdown == AfterRun \/ \E a \in Tasks : CancelTask(a)
Program  == Dispatch \/ TurnStep \/ Resume \/ CommandReady
Next     == User \/ Program \/ ForceExit \/ Shutdown

Spec == Init /\ [][Next]_vars

\* The loop resumes what is ready, a command gets what it awaits, shutdown cancels every task.
FairSpec == Spec /\ WF_vars(Resume) /\ WF_vars(CommandReady) /\ WF_vars(Shutdown)

-----------------------------------------------------------------------------
(***************************************************************************)
(* Properties.                                                             *)
(***************************************************************************)
Texts == {"", "draft", "reason", "recalled", "edited", "refused"}

\* Every variable holds a value of its kind.
TypeOK ==
  /\ mode \in {"chat", "dispatch", "running", "approval"} /\ text \in Texts /\ leftText \in Texts
  /\ form \in BOOLEAN /\ focus \in Actions /\ reply \in {"pending", "cancel"} \cup Actions \cup Texts
  /\ modal \in Tasks \cup {NoTask} /\ overtaken \in BOOLEAN
  /\ waiters \in Seq(Tasks) /\ ready \in Seq(Tasks) /\ IsInjective(waiters \o ready)

\* The row is a prompt exactly while a request for input is on: an answered, cancelled or failed
\* request never strands the prompt, and nothing takes the row from a request.
RowIsTheRequest == (mode = "approval") = (task["turn"].at = "input")

\* The action row belongs to the prompt on screen: an approval has it, a free-text page of Ask never
\* inherits it from an approval that went before.
FormIsThePrompts == task["turn"].at = "input" => form = (task["turn"].for = "approve")

\* What confirm() reads as an approval was given with Enter: no cancellation, end of file or end of
\* the application approves a tool call.
ApprovedByEnter == task["turn"].at = "input" /\ reply = "" => by = "enter"

\* request_input keeps its promises: the prompt is in the row while it is asked and no longer, with
\* its own actions, and only the user approves.
PromptKept == TypeOK /\ RowIsTheRequest /\ FormIsThePrompts /\ ApprovedByEnter

\* A task that shows a modal shows the visible one, a visible modal has a task that shows it, and
\* who waits for the screen waits for a modal that is visible: nobody waits for a modal that
\* nobody can answer.
ModalsExclusive ==
  /\ \A a \in Tasks : task[a].at = "modal" /\ ~Contains(ready, a) => modal = a
  /\ modal # NoTask => task[modal].at = "modal"
  /\ waiters # <<>> => modal # NoTask

\* Unless an editor or a refused submission wrote into a prompt, the row the user comes back to
\* holds what the user left in it, through approvals, viewers, Ask pages and the picker.
DraftKept == mode # "approval" /\ ~overtaken => text = leftText

\* The text a prompt is answered with was typed for it.
AnsweredWithAReply == task["turn"].at = "input" => reply \notin {"draft", "recalled", "refused"}
                        /\ (overtaken => reply # "edited")

\* An application that was told to exit leaves no task behind.  A dispatched command that waits for
\* a modal is woken by _after_run and shows its own on an application that has ended.
ExitCompletes == exiting ~> closed /\ \A a \in Tasks : task[a] = Off

\* Whoever leaves the screen leaves it as it was found: no modal without its task, no draft lost.
ScreenKept == ModalsExclusive /\ DraftKept
=============================================================================
