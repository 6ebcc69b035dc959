----------------------------- MODULE FollowUps -----------------------------
(***************************************************************************)
(* The life of a submitted input: TuiApp's modes, TuiRuntime's submission  *)
(* consumer, input loop, turn task and shutdown, the session's queue with  *)
(* its claim / acknowledge / release transaction, and as much of Agent and *)
(* ModelClient as decides what happens to a claimed follow-up.             *)
(*                                                                         *)
(* Inputs are numbered in the order they are typed.  Every action is what  *)
(* runs on the event loop between two awaits.  A save of the consumer      *)
(* holds the session's gate from its capture until it lands; a save of the *)
(* turn is one step, with the gate free (module SessionLog has the rest).  *)
(***************************************************************************)
EXTENDS Naturals, Sequences, FiniteSets, SequencesExt

CONSTANTS
  MaxSteps,    \* max_agent_steps
  Worlds       \* what a behaviour may meet:
               \*   kinds      bound: what each input typed may be: "text"; "image", which is admitted
               \*              with a wait and may be refused; "command", a slash command with a
               \*              wait (/compact)
               \*   retries    MODEL_REQUEST_RETRIES
               \*   resends    bound: times the user asks for the request to be sent again
               \*   savesFail  whether the consumer's save may raise

Kinds == {"text", "image", "command"}

ASSUME FollowUpsAssumption ==
  /\ MaxSteps \in Nat \ {0}
  /\ Worlds \subseteq [kinds : Seq(SUBSET Kinds), retries : Nat, resends : Nat, savesFail : BOOLEAN]

VARIABLES
  world,        \* the world of this behaviour
  kinds,        \* what was typed, in order
  mode,         \* TuiApp.input_mode; "gone" once the application exited
  submissions,  \* runtime.submissions: kinds "input", "save", "boundary", "exit"
  consumer,     \* _consume_submissions: what it awaits, and for which submission
  turnActive,   \* runtime.turn_active
  cancelPending,\* runtime.cancel_pending
  pending,      \* runtime.pending
  queue,        \* session.pending_user_inputs
  loop,         \* run_agent_loop: "wait", "admit", "command", "turn", "done"
  current,      \* the input run_agent_loop took
  task,         \* the turn task: "none", "engine", "boundary", "placed", "failed"
  engine,       \* Agent: what it awaits, the claimed request, its step and attempt
  cancelling,   \* a cancellation was requested on the turn
  turn,         \* inputs in turn_messages
  checkpoint,   \* inputs in session._active_turn_messages
  spoke,        \* the turn holds more than user messages
  history,      \* inputs in session.messages
  editor,       \* inputs recalled or refused into the editor
  retracted,    \* inputs cancelled before anything answered them
  late,         \* history: inputs recalled out of a request that could not be pulled back
  confirmed,    \* history: follow-ups whose save the consumer has seen land
  disk,         \* inputs the session log holds
  stage,        \* "up", then _shutdown's "drain", "cancel", "closed"
  shutdown,     \* runtime.shutdown
  resends

tuiVars     == <<kinds, mode>>
consumerVars == <<submissions, consumer>>
runVars     == <<loop, current, task>>
turnVars    == <<turn, checkpoint, spoke, history>>
fateVars    == <<editor, retracted, late>>
stageVars   == <<stage, shutdown>>
vars == <<world, kinds, mode, submissions, consumer, turnActive, cancelPending, pending, queue,
          loop, current, task, engine, cancelling, turn, checkpoint, spoke, history,
          editor, retracted, late, confirmed, disk, stage, shutdown, resends>>

NoEngine == [at |-> "none", request |-> <<>>, failed |-> <<>>, step |-> 0, tries |-> 0]
Rest(where)  == [at |-> where, job |-> <<>>, capture |-> {}]
Idle         == Rest("get")
Saving(job, capture) == [at |-> "save", job |-> <<job>>, capture |-> capture]
Input(i) == [kind |-> "input", id |-> i]
Job(k)   == [kind |-> k, id |-> 0]
Ids(q)   == [n \in DOMAIN q |-> q[n].id]
\* The items of s at the places I, in order.
Picked(s, I) == [n \in 1..Cardinality(I) |-> s[CHOOSE i \in I : Cardinality(I \cap (1..i)) = n]]
Waiting(q) == {n \in DOMAIN q : ~q[n].inflight}
Queued(i)  == [id |-> i, inflight |-> FALSE]
typed    == Len(kinds)
Saved    == Range(Ids(queue)) \cup Range(checkpoint) \cup Range(history)
GateFree == consumer.at # "save"

Init ==
  /\ world \in Worlds
  /\ kinds = <<>> /\ mode = "chat" /\ submissions = <<>> /\ consumer = Idle
  /\ turnActive = FALSE /\ cancelPending = FALSE /\ pending = <<>> /\ queue = <<>>
  /\ loop = "wait" /\ current = 0 /\ task = "none" /\ engine = NoEngine /\ cancelling = FALSE
  /\ turn = <<>> /\ checkpoint = <<>> /\ spoke = FALSE /\ history = <<>>
  /\ editor = {} /\ retracted = {} /\ late = {} /\ confirmed = {} /\ disk = {}
  /\ stage = "up" /\ shutdown = FALSE /\ resends = 0

accepting == stage = "up"

-----------------------------------------------------------------------------
(***************************************************************************)
(* The user.                                                               *)
(***************************************************************************)
\* Enter at the idle prompt, or while a turn or a command runs.
Submit ==
  /\ accepting /\ typed < Len(world.kinds) /\ mode \in {"chat", "running"}
  /\ \E k \in world.kinds[typed + 1] :
       /\ mode = "running" => k # "command"
       /\ kinds' = Append(kinds, k)
  /\ mode' = IF mode = "chat" THEN "dispatch" ELSE mode
  /\ submissions' = Append(submissions, Input(typed + 1))
  /\ UNCHANGED <<world, consumer, turnActive, cancelPending, pending, queue, runVars, engine, cancelling,
                 turnVars, fateVars, confirmed, disk, stageVars, resends>>

\* ModelClient.retry_active_request: only an attempt in flight can be claimed, not one that is done.
Claimed == IF engine.at = "attempt" THEN [engine EXCEPT !.at = "claimed"] ELSE engine

\* The request that carries the item goes on without a claim: it is being prepared, waits between two
\* attempts, is done and not yet taken by the engine; or an earlier recall has released the item.
GoesOut(item) == /\ item.id \in Range(engine.request)
                 /\ \/ engine.at \in {"prepare", "backoff", "over"}
                    \/ engine.at = "attempt" /\ ~item.inflight

\* Mutant: a recalled follow-up does not pull back the request that carries it.
Recall_NoRetry ==
  /\ accepting /\ mode = "running" /\ queue # <<>>
  /\ LET item == Last(queue) IN
       /\ queue' = [n \in 1..(Len(queue) - 1) |->
                      IF item.inflight THEN Queued(queue[n].id) ELSE queue[n]]
       /\ editor' = editor \cup {item.id}
       /\ late' = late \cup (IF GoesOut(item) THEN {item.id} ELSE {})
  /\ submissions' = Append(submissions, Job("save"))
  /\ UNCHANGED <<world, tuiVars, engine, consumer, turnActive, cancelPending, pending, runVars, cancelling,
                 turnVars, retracted, confirmed, disk, stageVars, resends>>

\* Up: the newest queued input returns to the editor; a claimed one has its request sent again.
Recall ==
  /\ accepting /\ mode = "running" /\ queue # <<>>
  /\ LET item == Last(queue) IN
       /\ queue' = [n \in 1..(Len(queue) - 1) |->
                      IF item.inflight THEN Queued(queue[n].id) ELSE queue[n]]
       /\ engine' = IF item.inflight THEN Claimed ELSE engine
       /\ editor' = editor \cup {item.id}
       /\ late' = late \cup (IF GoesOut(item) THEN {item.id} ELSE {})
  /\ submissions' = Append(submissions, Job("save"))
  /\ UNCHANGED <<world, tuiVars, consumer, turnActive, cancelPending, pending, runVars, cancelling,
                 turnVars, retracted, confirmed, disk, stageVars, resends>>

\* /resend
Resend ==
  /\ mode = "running" /\ engine.at = "attempt" /\ resends < world.resends
  /\ engine' = Claimed /\ resends' = resends + 1
  /\ UNCHANGED <<world, tuiVars, consumerVars, turnActive, cancelPending, pending, queue, runVars,
                 cancelling, turnVars, fateVars, confirmed, disk, stageVars>>

\* Ctrl-C with an empty editor; Agent.cancel finds a task or nothing.
Interrupt ==
  /\ mode \in {"dispatch", "running"} /\ ~cancelPending
  /\ cancelPending' = TRUE /\ mode' = "running"
  /\ cancelling' = (cancelling \/ task = "engine")
  /\ UNCHANGED <<world, kinds, consumerVars, turnActive, pending, queue, runVars, engine, turnVars,
                 fateVars, confirmed, disk, stageVars, resends>>

\* Ctrl-D at the idle prompt: shut down, with a last save for the resume line.
Exit ==
  /\ mode = "chat" /\ accepting
  /\ mode' = "gone" /\ shutdown' = TRUE
  /\ submissions' = Append(submissions, Job("exit"))
  /\ UNCHANGED <<world, kinds, consumer, turnActive, cancelPending, pending, queue, runVars, engine,
                 cancelling, turnVars, fateVars, confirmed, disk, stage, resends>>

\* Ctrl-backslash, or the terminal going away; the deadline of the former is not modelled.
ForceExit ==
  /\ mode # "gone"
  /\ mode' = "gone" /\ shutdown' = TRUE
  /\ cancelling' = (cancelling \/ task = "engine")
  /\ UNCHANGED <<world, kinds, consumerVars, turnActive, cancelPending, pending, queue, runVars, engine,
                 turnVars, fateVars, confirmed, disk, stage, resends>>

-----------------------------------------------------------------------------
(***************************************************************************)
(* The submission consumer.                                                *)
(***************************************************************************)
\* submit_next(take_pending_inputs()): the first waiting input is next, the rest queue up again.
Flush ==
  LET waiting == Waiting(queue)
      next    == CHOOSE n \in waiting : \A m \in waiting : n <= m IN
  IF waiting = {} THEN UNCHANGED <<world, pending, queue>>
  ELSE /\ pending' = Append(pending, queue[next].id)
       /\ queue' = Picked(queue, DOMAIN queue \ waiting) \o Picked(queue, waiting \ {next})

\* An admitted input is a follow-up of the running turn, or the next task.
Place(i) ==
  IF turnActive
  THEN /\ queue' = Append(queue, Queued(i))
       /\ consumer' = Saving(Input(i), Saved \cup {i})
       /\ UNCHANGED pending
  ELSE /\ pending' = Append(pending, i)
       /\ consumer' = Idle
       /\ UNCHANGED queue

Take ==
  /\ consumer.at = "get" /\ submissions # <<>>
  /\ LET job == Head(submissions) IN
       IF job.kind # "input"
       THEN consumer' = Saving(job, Saved) /\ UNCHANGED <<world, pending, queue>>
       ELSE IF kinds[job.id] = "image"
       THEN consumer' = [at |-> "admit", job |-> <<job>>, capture |-> {}] /\ UNCHANGED <<world, pending, queue>>
       ELSE Place(job.id)
  /\ submissions' = Tail(submissions)
  /\ UNCHANGED <<world, tuiVars, turnActive, cancelPending, runVars, engine, cancelling, turnVars,
                 fateVars, confirmed, disk, stageVars, resends>>

Admitted ==
  /\ consumer.at = "admit"
  /\ Place(consumer.job[1].id)
  /\ UNCHANGED <<world, tuiVars, submissions, turnActive, cancelPending, runVars, engine, cancelling,
                 turnVars, fateVars, confirmed, disk, stageVars, resends>>

\* An image vanished: the draft goes back to the editor.
Refused ==
  /\ consumer.at = "admit"
  /\ editor' = editor \cup {consumer.job[1].id}
  /\ consumer' = Idle
  /\ UNCHANGED <<world, tuiVars, submissions, turnActive, cancelPending, pending, queue, runVars, engine,
                 cancelling, turnVars, retracted, late, confirmed, disk, stageVars, resends>>

\* Mutant: the boundary lets the turn end without flushing the queue.
SaveDone_NoFlush ==
  /\ consumer.at = "save"
  /\ disk' = consumer.capture /\ consumer' = Idle
  /\ LET job == consumer.job[1] IN
       IF job.kind = "boundary"
       THEN turnActive' = FALSE /\ task' = "placed" /\ UNCHANGED <<world, confirmed, pending, queue>>
       ELSE /\ confirmed' = IF job.kind = "input" THEN confirmed \cup {job.id} ELSE confirmed
            /\ UNCHANGED <<world, turnActive, task, pending, queue>>
  /\ UNCHANGED <<world, tuiVars, submissions, cancelPending, loop, current, engine, cancelling, turnVars,
                 fateVars, stageVars, resends>>

SaveDone ==
  /\ consumer.at = "save"
  /\ disk' = consumer.capture /\ consumer' = Idle
  /\ LET job == consumer.job[1] IN
       IF job.kind = "boundary"
       THEN turnActive' = FALSE /\ Flush /\ UNCHANGED confirmed
            /\ task' = IF task = "boundary" THEN "placed" ELSE task
       ELSE /\ confirmed' = IF job.kind = "input" THEN confirmed \cup {job.id} ELSE confirmed
            /\ UNCHANGED <<world, turnActive, task, pending, queue>>
  /\ UNCHANGED <<world, tuiVars, submissions, cancelPending, loop, current, engine, cancelling, turnVars,
                 fateVars, stageVars, resends>>

\* The consumer dies with the error; its done callback asks for the shutdown.
SaveRaises ==
  /\ world.savesFail /\ consumer.at = "save"
  /\ consumer' = Rest("dead") /\ shutdown' = TRUE
  /\ task' = IF consumer.job[1].kind = "boundary" /\ task = "boundary" THEN "failed" ELSE task
  /\ UNCHANGED <<world, tuiVars, submissions, turnActive, cancelPending, pending, queue, loop, current,
                 engine, cancelling, turnVars, fateVars, confirmed, disk, stage, resends>>

-----------------------------------------------------------------------------
(***************************************************************************)
(* The input loop and the turn task.                                       *)
(***************************************************************************)
ResetTurn == /\ mode' = IF mode = "gone" THEN mode ELSE "chat"
             /\ cancelPending' = FALSE

\* An input whose Ctrl-C came first is dropped; an attached one is looked at again.
NextInput ==
  /\ loop = "wait" /\ ~shutdown /\ pending # <<>>
  /\ pending' = Tail(pending)
  /\ LET i == Head(pending) IN
       IF cancelPending
       THEN retracted' = retracted \cup {i} /\ ResetTurn /\ UNCHANGED <<world, loop, current>>
       ELSE loop' = "admit" /\ current' = i /\ UNCHANGED <<world, retracted, mode, cancelPending>>
  /\ UNCHANGED <<world, kinds, consumerVars, turnActive, queue, task, engine, cancelling, turnVars,
                 editor, late, confirmed, disk, stageVars, resends>>

RefusedAgain ==
  /\ loop = "admit" /\ kinds[current] = "image"
  /\ editor' = editor \cup {current}
  /\ loop' = "wait" /\ current' = 0
  /\ UNCHANGED <<world, tuiVars, consumerVars, turnActive, cancelPending, pending, queue, task, engine,
                 cancelling, turnVars, retracted, late, confirmed, disk, stageVars, resends>>

StartCommand ==
  /\ loop = "admit" /\ kinds[current] = "command"
  /\ loop' = "command" /\ mode' = IF mode = "gone" THEN mode ELSE "running"
  /\ UNCHANGED <<world, kinds, consumerVars, turnActive, cancelPending, pending, queue, current, task,
                 engine, cancelling, turnVars, fateVars, confirmed, disk, stageVars, resends>>

\* Mutant: a command that ends leaves the queue where it is and the prompt as it was.
EndCommand_NoReset ==
  /\ loop = "command"
  /\ retracted' = retracted \cup {current}
  /\ loop' = "wait" /\ current' = 0
  /\ UNCHANGED <<world, tuiVars, cancelPending, pending, queue, consumerVars, turnActive, task, engine,
                 cancelling, turnVars, editor, late, confirmed, disk, stageVars, resends>>

\* A handled command is no message: it leaves through `retracted`.
EndCommand ==
  /\ loop = "command"
  /\ Flush /\ ResetTurn
  /\ retracted' = retracted \cup {current}
  /\ loop' = "wait" /\ current' = 0
  /\ UNCHANGED <<world, kinds, consumerVars, turnActive, task, engine, cancelling, turnVars, editor, late,
                 confirmed, disk, stageVars, resends>>

StartTurn ==
  /\ loop = "admit" /\ kinds[current] # "command"
  /\ loop' = "turn" /\ task' = "engine" /\ turnActive' = TRUE
  /\ mode' = IF mode = "gone" THEN mode ELSE "running"
  /\ engine' = [NoEngine EXCEPT !.at = "open"]
  /\ cancelling' = FALSE
  /\ turn' = <<current>> /\ checkpoint' = <<current>> /\ spoke' = FALSE
  /\ current' = 0
  /\ UNCHANGED <<world, kinds, consumerVars, cancelPending, pending, queue, history, fateVars, confirmed,
                 disk, stageVars, resends>>

\* The agent is done: the boundary goes behind everything submitted during the turn.
EndEngine ==
  /\ engine' = NoEngine /\ turn' = <<>> /\ spoke' = FALSE /\ cancelling' = FALSE
  /\ task' = "boundary"
  /\ submissions' = IF accepting THEN Append(submissions, Job("boundary")) ELSE submissions

\* With admission closed the turn saves and flushes for itself.
PlaceAlone ==
  /\ task = "boundary" /\ ~accepting
  /\ \A n \in DOMAIN submissions : submissions[n].kind # "boundary"
  /\ GateFree /\ disk' = Saved /\ turnActive' = FALSE /\ Flush
  /\ task' = "placed"
  /\ UNCHANGED <<world, tuiVars, consumerVars, cancelPending, loop, current, engine, cancelling, turnVars,
                 fateVars, confirmed, stageVars, resends>>

\* run_agent_turn's finally, on every ending of the task.
EndTurn ==
  /\ task \in {"placed", "failed"}
  /\ task' = "none" /\ turnActive' = FALSE /\ ResetTurn
  /\ shutdown' = (shutdown \/ task = "failed")
  /\ UNCHANGED <<world, kinds, consumerVars, pending, queue, loop, current, engine, cancelling, turnVars,
                 fateVars, confirmed, disk, stage, resends>>

\* _turn_until_shutdown returns: the turn is over, or nobody waits for it any longer.
LoopBack ==
  /\ loop = "turn" /\ (task = "none" \/ shutdown)
  /\ loop' = "wait"
  /\ UNCHANGED <<world, tuiVars, consumerVars, turnActive, cancelPending, pending, queue, current, task,
                 engine, cancelling, turnVars, fateVars, confirmed, disk, stageVars, resends>>

-----------------------------------------------------------------------------
(***************************************************************************)
(* The agent.                                                              *)
(***************************************************************************)
EngineFrame == UNCHANGED <<world, tuiVars, consumer, turnActive, cancelPending, pending, loop, current,
                           confirmed, stageVars, resends>>
Running(at) == task = "engine" /\ engine.at = at /\ ~cancelling

\* The opening checkpoint is on disk.
Opened ==
  /\ Running("open") /\ GateFree /\ EngineFrame
  /\ disk' = Saved
  /\ engine' = [engine EXCEPT !.at = "ready", !.step = 1]
  /\ UNCHANGED <<world, submissions, queue, task, cancelling, turnVars, fateVars>>

\* prepare_request claims every queued input, then waits for mentions, images or a compaction.
Prepare ==
  /\ Running("ready") /\ EngineFrame
  /\ queue' = [n \in DOMAIN queue |-> [queue[n] EXCEPT !.inflight = TRUE]]
  /\ engine' = [engine EXCEPT !.at = "prepare", !.request = Ids(queue), !.tries = 0]
  /\ UNCHANGED <<world, submissions, task, cancelling, turnVars, fateVars, disk>>

\* The request is prepared, or the backoff between two attempts is over.
Send ==
  /\ task = "engine" /\ engine.at \in {"prepare", "backoff"} /\ ~cancelling /\ EngineFrame
  /\ engine' = [engine EXCEPT !.at = "attempt", !.failed = engine.request]
  /\ UNCHANGED <<world, submissions, queue, task, cancelling, turnVars, fateVars, disk>>

\* The provider has answered or failed; the engine takes it up when the event loop gets to it.
AttemptEnds ==
  /\ Running("attempt") /\ EngineFrame
  /\ engine' = [engine EXCEPT !.at = "over"]
  /\ UNCHANGED <<world, submissions, queue, task, cancelling, turnVars, fateVars, disk>>

\* A transport error with attempts left.
Backoff ==
  /\ Running("over") /\ engine.tries < world.retries /\ EngineFrame
  /\ engine' = [engine EXCEPT !.at = "backoff", !.tries = @ + 1]
  /\ UNCHANGED <<world, submissions, queue, task, cancelling, turnVars, fateVars, disk>>

\* ModelRequestRetry: whatever a claimed attempt returned is discarded.
Retry ==
  /\ Running("claimed") /\ EngineFrame
  /\ engine' = [engine EXCEPT !.at = "ready"]
  /\ UNCHANGED <<world, submissions, queue, task, cancelling, turnVars, fateVars, disk>>

\* Mutant: acknowledges the whole queue instead of what the request carried.
Acknowledge_All == queue' = <<>>

\* Session.acknowledge_user_inputs
Acknowledge == queue' = Picked(queue, {n \in DOMAIN queue : queue[n].id \notin Range(engine.request)})

\* The answer is a tool batch: the follow-ups it answered are history from here on.
AnswerTools ==
  /\ Running("over") /\ engine.step < MaxSteps /\ EngineFrame
  /\ Acknowledge
  /\ turn' = turn \o engine.request /\ spoke' = TRUE
  /\ engine' = [engine EXCEPT !.at = "tools", !.request = <<>>, !.failed = <<>>]
  /\ UNCHANGED <<world, submissions, task, cancelling, checkpoint, history, fateVars, disk>>

\* The batch ends at the checkpoint, and the next step begins.
BatchDone ==
  /\ Running("tools") /\ GateFree /\ EngineFrame
  /\ checkpoint' = turn
  /\ disk' = Range(Ids(queue)) \cup Range(turn) \cup Range(history)
  /\ engine' = [engine EXCEPT !.at = "ready", !.step = @ + 1]
  /\ UNCHANGED <<world, submissions, queue, task, cancelling, turn, spoke, history, fateVars>>

\* The final answer.
AnswerFinal ==
  /\ Running("over") /\ EngineFrame
  /\ Acknowledge
  /\ history' = history \o turn \o engine.request
  /\ checkpoint' = <<>>
  /\ EndEngine
  /\ UNCHANGED <<world, fateVars, disk>>

\* A model error, while asking or while preparing to ask: failed_request, the last one prepared and
\* not answered, is committed with the turn, what was recalled out of it since included, and what it
\* did not carry is released.
ModelFails ==
  /\ task = "engine" /\ engine.at \in {"prepare", "over"} /\ ~cancelling /\ GateFree /\ EngineFrame
  /\ LET kept == Picked(queue, {n \in DOMAIN queue : queue[n].id \notin Range(engine.failed)}) IN
       queue' = [n \in DOMAIN kept |-> Queued(kept[n].id)]
  /\ history' = history \o turn \o engine.failed
  /\ checkpoint' = <<>>
  /\ disk' = Range(Ids(queue')) \cup Range(history')
  /\ late' = IF engine.at = "prepare" THEN late \cup (editor \cap Range(engine.failed)) ELSE late
  /\ EndEngine
  /\ UNCHANGED <<editor, retracted>>

\* Agent._run_turn's cancellation path: release the claim, settle or retract, save.
Cancelled ==
  /\ task = "engine" /\ cancelling /\ engine.at # "open" /\ GateFree /\ EngineFrame
  /\ queue' = [n \in DOMAIN queue |-> Queued(queue[n].id)]
  /\ checkpoint' = <<>>
  /\ IF spoke THEN history' = history \o turn /\ UNCHANGED retracted
              ELSE retracted' = retracted \cup Range(turn) /\ UNCHANGED history
  /\ disk' = Range(Ids(queue)) \cup Range(history')
  /\ EndEngine
  /\ UNCHANGED <<editor, late>>

\* A cancellation inside the opening checkpoint, which lies before the try.
CancelledOpening ==
  /\ task = "engine" /\ cancelling /\ engine.at = "open" /\ GateFree /\ EngineFrame
  /\ retracted' = retracted \cup Range(turn)
  /\ disk' = Saved
  /\ EndEngine
  /\ UNCHANGED <<world, queue, checkpoint, history, editor, late>>

-----------------------------------------------------------------------------
(***************************************************************************)
(* _shutdown.                                                              *)
(***************************************************************************)
StageFrame == UNCHANGED <<world, kinds, turnActive, cancelPending, pending, queue, current, turnVars,
                          fateVars, confirmed, disk, resends>>

\* run_agent_loop returns; admission closes.
BeginShutdown ==
  /\ stage = "up" /\ shutdown /\ loop = "wait" /\ StageFrame
  /\ stage' = "drain" /\ loop' = "done"
  /\ UNCHANGED <<world, mode, consumerVars, task, engine, cancelling, shutdown>>

\* Mutant: the drain waits for the queue alone, not for the consumer that may have died.
CloseSubmissions_JoinOnly ==
  /\ stage = "drain" /\ StageFrame
  /\ submissions = <<>> /\ consumer.at = "get"
  /\ stage' = "cancel" /\ consumer' = Rest("gone")
  /\ cancelling' = (task = "engine")
  /\ UNCHANGED <<world, mode, submissions, loop, task, engine, shutdown>>

\* _close_submissions ends when everything accepted was consumed, or the consumer is dead.
CloseSubmissions ==
  /\ stage = "drain" /\ StageFrame
  /\ (submissions = <<>> /\ consumer.at = "get") \/ consumer.at = "dead"
  /\ stage' = "cancel" /\ consumer' = Rest("gone")
  /\ cancelling' = (task = "engine")
  /\ UNCHANGED <<world, mode, submissions, loop, task, engine, shutdown>>

\* A turn still waiting for its boundary is cancelled there.
AbandonBoundary ==
  /\ stage = "cancel" /\ task = "boundary" /\ StageFrame
  /\ task' = "failed"
  /\ UNCHANGED <<world, mode, consumerVars, loop, engine, cancelling, stageVars>>

Close ==
  /\ stage = "cancel" /\ task = "none" /\ StageFrame
  /\ stage' = "closed" /\ mode' = "gone"
  /\ UNCHANGED <<world, consumerVars, loop, task, engine, cancelling, shutdown>>

Consumer == Take \/ Admitted \/ Refused \/ SaveDone \/ SaveRaises
RunLoop  == NextInput \/ RefusedAgain \/ StartCommand \/ EndCommand \/ StartTurn \/ LoopBack
TurnTask == PlaceAlone \/ EndTurn
Agent    == \/ Opened \/ Prepare \/ Send \/ AttemptEnds \/ Backoff \/ Retry
            \/ AnswerTools \/ BatchDone \/ AnswerFinal \/ ModelFails
            \/ Cancelled \/ CancelledOpening
Shutdown == BeginShutdown \/ CloseSubmissions \/ AbandonBoundary \/ Close
User     == Submit \/ Recall \/ Resend \/ Interrupt \/ Exit \/ ForceExit
Next     == User \/ Consumer \/ RunLoop \/ TurnTask \/ Agent \/ Shutdown

Spec == Init /\ [][Next]_vars

\* The event loop does not stop while some coroutine's await is over; the provider and the tools answer
\* (the response deadline and the tool timeouts bound them); the user owes nothing.
Fairness == WF_vars(Consumer \/ RunLoop \/ TurnTask \/ Agent \/ Shutdown)
FairSpec == Spec /\ Fairness
-----------------------------------------------------------------------------
(***************************************************************************)
(* Properties.                                                             *)
(***************************************************************************)
Inputs == UNION {DOMAIN w.kinds : w \in Worlds}
Jobs   == {Job(k) : k \in {"save", "boundary", "exit"}} \cup {Input(i) : i \in Inputs}
Said   == Range(history) \cup Range(turn)

\* Every variable holds a value of its kind, and the turn task, its engine and the input loop agree.
TypeOK ==
  /\ world \in Worlds
  /\ typed <= Len(world.kinds) /\ \A i \in 1..typed : kinds[i] \in world.kinds[i]
  /\ mode \in {"chat", "dispatch", "running", "gone"}
  /\ submissions \in Seq(Jobs)
  /\ consumer \in [at : {"get", "dead", "gone"}, job : {<<>>}, capture : {{}}]
                    \cup [at : {"admit", "save"}, job : {<<j>> : j \in Jobs}, capture : SUBSET Inputs]
  /\ turnActive \in BOOLEAN /\ cancelPending \in BOOLEAN /\ cancelling \in BOOLEAN
  /\ pending \in Seq(Inputs) /\ queue \in Seq([id : Inputs, inflight : BOOLEAN])
  /\ loop \in {"wait", "admit", "command", "turn", "done"} /\ current \in 0..typed
  /\ task \in {"none", "engine", "boundary", "placed", "failed"}
  /\ (task = "engine") = (engine.at # "none")
  /\ cancelling => task = "engine"
  /\ (current # 0) = (loop \in {"admit", "command"})
  /\ turn \in Seq(Inputs) /\ checkpoint \in Seq(Inputs) /\ history \in Seq(Inputs)
  /\ spoke \in BOOLEAN /\ shutdown \in BOOLEAN
  /\ editor \subseteq Inputs /\ retracted \subseteq Inputs /\ late \subseteq editor /\ confirmed \subseteq Inputs
  /\ disk \subseteq Inputs
  /\ stage \in {"up", "drain", "cancel", "closed"} /\ resends \in 0..world.resends

\* Nothing the user typed disappears: through claims, releases, retries, recalls, cancellations, the
\* boundary and the shutdown, each input is somewhere.
NoneLost ==
  1..typed \subseteq Range(Ids(submissions)) \cup Range(Ids(consumer.job)) \cup Range(pending)
                    \cup Range(Ids(queue)) \cup {current} \cup Said \cup editor \cup retracted

\* What the conversation holds it holds once, and nobody else owns it: what was cancelled, still waits
\* or was recalled in time (the request that carried it was pulled back, or had not been made) is
\* never delivered.
DeliveredOnce ==
  /\ IsInjective(history \o turn)
  /\ Said \cap (retracted \cup Range(pending) \cup Range(Ids(queue))) = {}
  /\ Said \cap editor \subseteq late

\* Stricter: whatever was recalled is not delivered.
RecallTakesBack == Said \cap editor = {}

\* When the input loop has nothing left to take, no follow-up is left in the session's queue: the
\* boundary and the end of a command flush it, whatever was submitted around them.
AtRest == loop = "wait" /\ task = "none" /\ pending = <<>> /\ submissions = <<>> /\ consumer.at = "get"
NothingStranded == AtRest => queue = <<>>

\* Every input reaches the conversation, the editor or a cancellation, unless the program stops, or the
\* input is left in the queue behind an image refused when its turn had come (run_agent_loop goes back
\* to waiting and does not flush): the next end of a turn or a command takes it up.
LeftBehind(i) == AtRest /\ i \in Range(Ids(queue)) /\ \E j \in editor : j < i /\ kinds[j] = "image"
EveryInputSettles ==
  \A i \in Inputs : typed >= i ~> \/ i \in Range(history) \cup editor \cup retracted
                                 \/ LeftBehind(i) \/ shutdown

\* A submission that took the prompt away gives it back.
PromptReturns == mode \in {"dispatch", "running"} ~> mode \in {"chat", "gone"}

\* A requested shutdown ends, even when the consumer died over a save it still had to do and a turn
\* is waiting for its boundary.
ShutdownCompletes == shutdown ~> stage = "closed"

\* Inputs are answered in the order they were typed.
OrderKept == \A m, n \in DOMAIN (history \o turn) :
               m < n => (history \o turn)[m] < (history \o turn)[n]

\* A follow-up the consumer has saved is in the log after the program quit.
Outstanding == confirmed \ (editor \cup retracted)
QuitKeepsFollowUps == stage = "closed" => Outstanding \subseteq disk

\* A follow-up that joined the turn is in the log while the turn's tools run.
FollowUpsCheckpointed == Outstanding \cap Range(turn) \subseteq disk

\* A Ctrl-C shown as `cancelling` has been asked of the turn that runs.
InterruptIsHeard == cancelPending /\ task = "engine" => cancelling
=============================================================================
