-------------------------------- MODULE Turn --------------------------------
(***************************************************************************)
(* One agent turn: Agent._run_turn and what it calls (engine.py).          *)
(*                                                                         *)
(* A turn builds turn_messages: the opening message, then for every step   *)
(* the follow-ups the request carried, the assistant message, and one      *)
(* result for each of its tool calls.  The provider may also answer with   *)
(* textual tool markup (corrected a bounded number of times), pause, or    *)
(* answer nothing; the user may cancel at any await, queue follow-ups, and *)
(* anybody may save the session meanwhile.  Whatever happens the messages  *)
(* that become history must be ones a provider accepts.                    *)
(***************************************************************************)
EXTENDS Naturals, Sequences, FiniteSets, SequencesExt

CONSTANTS
  MaxTurns,        \* bound: turns run
  MaxSteps,        \* max_agent_steps
  MaxCalls,        \* bound: tool calls in one assistant message
  MaxCorrections,  \* MAX_TEXTUAL_TOOL_CORRECTIONS
  MaxFollowUps,    \* bound: follow-ups queued
  SlowOpening,     \* whether a cancellation can fall inside the opening checkpoint
  Identified       \* what the provider's tool calls may carry: {TRUE}, or also calls with an empty id

ASSUME TurnAssumption ==
  /\ MaxTurns \in Nat /\ MaxSteps \in Nat \ {0} /\ MaxCalls \in Nat
  /\ MaxCorrections \in Nat /\ MaxFollowUps \in Nat /\ SlowOpening \in BOOLEAN
  /\ Identified \subseteq BOOLEAN /\ Identified # {}

VARIABLES
  at,          \* what the turn awaits
  number,      \* turns begun
  step,        \* state.turn_step
  turn,        \* turn_messages
  claimed,     \* the pending inputs of the prepared request
  names,       \* textual calls corrected so far
  batch,       \* outcome of each call of the running batch
  ran,         \* history: the calls that finished, as <<turn, step, call>>
  hints,       \* the running batch is nothing but NextHints calls
  cancelling,  \* the turn's task was asked to cancel
  answered,    \* history: the turn as the provider last answered it
  active,      \* session._active_turn_messages
  messages,    \* session.messages
  queue,       \* session.pending_user_inputs
  typed,       \* follow-ups queued so far
  retracted,   \* history: turns that ended as if never sent
  disk         \* messages the session log holds

vars == <<at, number, step, turn, claimed, names, batch, ran, hints, cancelling, answered,
          active, messages, queue, typed, retracted, disk>>
countVars == <<number, typed>>

Message(kind) == [kind |-> kind, turn |-> number, step |-> step, calls |-> 0, id |-> 0,
                  named |-> TRUE, says |-> ""]
User          == [Message("user") EXCEPT !.turn = number + 1, !.step = 0]
FollowUp(i)   == [Message("followup") EXCEPT !.id = i]
Correction    == Message("correction")
Assistant     == Message("assistant")
Calling(n, b) == [Assistant EXCEPT !.calls = n, !.named = b]
Seen          == Message("observation")
Result(s, i, outcome) == [Message("result") EXCEPT !.step = s, !.id = i, !.says = outcome]
Marker(says)  == [Message("marker") EXCEPT !.says = says]

FollowUps(ids) == [n \in DOMAIN ids |-> FollowUp(ids[n])]
Ids(q)     == [n \in DOMAIN q |-> q[n].id]
Release(q) == [n \in DOMAIN q |-> [q[n] EXCEPT !.inflight = FALSE]]
\* The members of s at the places I, in order.
Picked(s, I) == [n \in 1..Cardinality(I) |-> s[CHOOSE i \in I : Cardinality(I \cap (1..i)) = n]]

Snapshot   == messages \o active
NoBatch    == <<>>

Init ==
  /\ at = "idle" /\ number = 0 /\ step = 0 /\ turn = <<>> /\ claimed = <<>> /\ names = 0
  /\ batch = NoBatch /\ ran = {} /\ hints = FALSE /\ cancelling = FALSE /\ answered = <<>>
  /\ active = <<>> /\ messages = <<>> /\ queue = <<>> /\ typed = 0 /\ retracted = {} /\ disk = <<>>

-----------------------------------------------------------------------------
(***************************************************************************)
(* Around the turn.                                                        *)
(***************************************************************************)
Enqueue ==
  /\ typed < MaxFollowUps /\ typed' = typed + 1
  /\ queue' = Append(queue, [id |-> typed + 1, inflight |-> FALSE])
  /\ UNCHANGED <<at, number, step, turn, claimed, names, batch, ran, hints, cancelling, answered,
                 active, messages, retracted, disk>>

\* The submission consumer, the boundary after the turn, or the next checkpoint.
Save ==
  /\ disk' = Snapshot
  /\ UNCHANGED <<at, countVars, step, turn, claimed, names, batch, ran, hints, cancelling, answered,
                 active, messages, queue, retracted>>

\* Agent.cancel
Cancel ==
  /\ at \notin {"idle", "ended"} /\ ~cancelling
  /\ at = "opening" => SlowOpening
  /\ cancelling' = TRUE
  /\ UNCHANGED <<at, countVars, step, turn, claimed, names, batch, ran, hints, answered, active,
                 messages, queue, retracted, disk>>

\* The caller's own save, once the turn has returned or raised.
Leave ==
  /\ at = "ended"
  /\ at' = "idle" /\ disk' = Snapshot
  /\ UNCHANGED <<countVars, step, turn, claimed, names, batch, ran, hints, cancelling, answered, active,
                 messages, queue, retracted>>

-----------------------------------------------------------------------------
(***************************************************************************)
(* The ways a turn ends.                                                   *)
(***************************************************************************)
Ends == /\ at' = "ended" /\ cancelling' = FALSE /\ claimed' = <<>> /\ batch' = NoBatch
        /\ turn' = <<>> /\ UNCHANGED answered
        /\ UNCHANGED <<countVars, step, names, ran, hints>>

\* The calls that have no result anywhere in the turn, as the place of their message and their number.
Unanswered(t) ==
  {c \in (DOMAIN t) \X (1..MaxCalls) :
     /\ t[c[1]].kind = "assistant" /\ t[c[1]].named /\ c[2] <= t[c[1]].calls
     /\ \A n \in DOMAIN t : ~(t[n].kind = "result" /\ t[n].step = t[c[1]].step /\ t[n].id = c[2])}

\* In the order of the messages, and of the calls of a message.
UpTo(open, c) == {b \in open : b[1] < c[1] \/ (b[1] = c[1] /\ b[2] <= c[2])}
Nth(open, k)  == CHOOSE c \in open : Cardinality(UpTo(open, c)) = k

\* Mutant: only the last call of a message is settled.
Settled_LastOnly(t, says) ==
  LET last == {c \in Unanswered(t) : \A b \in Unanswered(t) : b[2] <= c[2]} IN
  t \o [k \in 1..Cardinality(last) |-> Result(t[Nth(last, k)[1]].step, Nth(last, k)[2], says)]

\* settle_unanswered_tool_calls
Settled(t, says) ==
  LET open == Unanswered(t) IN
  t \o [k \in 1..Cardinality(open) |-> Result(t[Nth(open, k)[1]].step, Nth(open, k)[2], says)]

Spoke(t) == \E n \in DOMAIN t : t[n].kind \in {"assistant", "result"}

\* Agent.finish_turn
Finish(t) ==
  /\ messages' = messages \o t /\ active' = <<>>
  /\ Ends
  /\ UNCHANGED <<retracted, disk>>

\* The `except Exception` path: settle, mark, commit, save.
Fail(t, q) ==
  /\ queue' = Release(q)
  /\ messages' = messages \o Append(Settled(t, "failed"), Marker("failed"))
  /\ active' = <<>>
  /\ disk' = messages'
  /\ Ends
  /\ UNCHANGED retracted

\* Mutant: a correction is not one of the awaits a cancellation can reach.
Cancelled_NotCorrecting ==
  /\ cancelling /\ at \notin {"idle", "ended", "opening", "correcting"}
  /\ queue' = Release(queue)
  /\ active' = <<>>
  /\ IF Spoke(turn)
     THEN messages' = messages \o Append(Settled(turn, "cancelled"), Marker("interrupt"))
          /\ UNCHANGED retracted
     ELSE UNCHANGED messages /\ retracted' = retracted \cup {number}
  /\ disk' = messages'
  /\ Ends

\* The cancellation path: release the claim, settle or retract, save.
Cancelled ==
  /\ cancelling /\ at \notin {"idle", "ended", "opening"}
  /\ queue' = Release(queue)
  /\ active' = <<>>
  /\ IF Spoke(turn)
     THEN messages' = messages \o Append(Settled(turn, "cancelled"), Marker("interrupt"))
          /\ UNCHANGED retracted
     ELSE UNCHANGED messages /\ retracted' = retracted \cup {number}
  /\ disk' = messages'
  /\ Ends

\* The opening checkpoint is awaited before the try: nothing settles the turn.
CancelledOpening ==
  /\ cancelling /\ at = "opening"
  /\ disk' = Snapshot
  /\ retracted' = retracted \cup {number}
  /\ Ends
  /\ UNCHANGED <<active, messages, queue>>

-----------------------------------------------------------------------------
(***************************************************************************)
(* The request loop.                                                       *)
(***************************************************************************)
Begin ==
  /\ at = "idle" /\ number < MaxTurns
  /\ at' = "opening" /\ number' = number + 1 /\ step' = 0 /\ names' = 0
  /\ turn' = <<User>> /\ active' = <<User>> /\ answered' = <<>>
  /\ UNCHANGED <<claimed, batch, ran, hints, cancelling, messages, queue, typed, retracted, disk>>

\* checkpoint_turn, or the opening one, has landed.
Checkpointed ==
  /\ at \in {"opening", "checkpoint", "corrected"} /\ ~cancelling
  /\ disk' = Snapshot
  /\ at' = IF at = "corrected" THEN "correcting" ELSE "ready"
  /\ step' = IF at = "corrected" THEN step ELSE step + 1
  /\ UNCHANGED <<countVars, turn, claimed, names, batch, ran, hints, cancelling, answered, active,
                 messages, queue, retracted>>

\* max_agent_steps used up: the turn ends with a message of its own.
Stop ==
  /\ at = "ready" /\ ~cancelling /\ step > MaxSteps
  /\ Finish(Append(turn, Assistant))
  /\ UNCHANGED queue

\* prepare_request: claim what is queued; the request carries a copy of the turn.
Prepare ==
  /\ at = "ready" /\ ~cancelling /\ step <= MaxSteps
  /\ queue' = [n \in DOMAIN queue |-> [queue[n] EXCEPT !.inflight = TRUE]]
  /\ claimed' = Ids(queue)
  /\ at' = "request"
  /\ UNCHANGED <<countVars, step, turn, names, batch, ran, hints, cancelling, answered, active,
                 messages, retracted, disk>>

\* accept_pending_inputs: what an answered request carried belongs to the turn.
Sent == turn \o FollowUps(claimed)
Unclaimed == Picked(queue, {n \in DOMAIN queue : queue[n].id \notin Range(claimed)})

\* A compaction the prepared context needed failed.  After a retry the request that was sent before is
\* still failed_request, so what it carried is committed with the turn.
PrepareFails ==
  /\ at = "ready" /\ ~cancelling /\ step <= MaxSteps
  /\ Fail(Sent, Unclaimed)

\* ModelRequestRetry: prepared again, with whatever is queued by then.
Retry ==
  /\ at = "request" /\ ~cancelling
  /\ at' = "ready"
  /\ UNCHANGED <<countVars, step, turn, claimed, names, batch, ran, hints, cancelling, answered, active,
                 messages, queue, retracted, disk>>

\* An answer to the request, or to a correction.
Answer == /\ at \in {"request", "correcting"} /\ ~cancelling
          /\ answered' = messages \o turn \o FollowUps(claimed)
          /\ claimed' = <<>>
AnswerFrame == UNCHANGED <<countVars, step, cancelling, messages, retracted, disk>>

\* Textual tool markup: told so, as a message of the turn.
AnswerTextual ==
  /\ Answer /\ names < MaxCorrections
  /\ turn' = Append(Sent, Correction) /\ active' = turn'
  /\ queue' = Unclaimed
  /\ names' = names + 1 /\ at' = "corrected"
  /\ UNCHANGED <<batch, ran, hints>> /\ AnswerFrame

\* A paused provider-side run: the message is sent back as it came.
AnswerPaused ==
  /\ Answer
  /\ turn' = Append(Sent, Assistant) /\ active' = turn'
  /\ queue' = Unclaimed
  /\ at' = "checkpoint"
  /\ UNCHANGED <<names, batch, ran, hints>> /\ AnswerFrame

AnswerFinal ==
  /\ at \in {"request", "correcting"} /\ ~cancelling
  /\ queue' = Unclaimed
  /\ Finish(Append(Sent, Assistant))

AnswerTools ==
  /\ Answer
  /\ \E n \in 1..MaxCalls, only \in BOOLEAN, named \in Identified :
       /\ turn' = Append(Sent, Calling(n, named))
       /\ batch' = [i \in 1..n |-> "waiting"]
       /\ hints' = only
  /\ queue' = Unclaimed
  /\ at' = "batch"
  /\ UNCHANGED <<names, ran, active>> /\ AnswerFrame

\* The last attempt failed, the answer was empty, or markup came once too often: a request that
\* carried follow-ups is committed as it was sent.
RequestFails ==
  /\ at \in {"request", "correcting"} /\ ~cancelling
  /\ Fail(Sent, Unclaimed)

-----------------------------------------------------------------------------
(***************************************************************************)
(* The tool batch.                                                         *)
(***************************************************************************)
\* A call finishes: neighbours run together finish in any order, a cancelled one is awaited first,
\* and one behind a refusal is answered without being run.
FinishCall ==
  /\ at = "batch"
  /\ \E i \in DOMAIN batch, outcome \in {"ok", "seen", "failed", "skipped"} :
       /\ batch[i] = "waiting"
       /\ batch' = [batch EXCEPT ![i] = outcome]
       /\ ran' = IF outcome = "skipped" THEN ran ELSE ran \cup {<<number, step, i>>}
  /\ UNCHANGED <<at, countVars, step, turn, claimed, names, hints, cancelling, answered, active,
                 messages, queue, retracted, disk>>

\* One result per call, in call order, then the images the calls looked at.
Results == [i \in DOMAIN batch |-> Result(step, i, batch[i])]
           \o Picked([i \in DOMAIN batch |-> [Seen EXCEPT !.id = i]], {i \in DOMAIN batch : batch[i] = "seen"})

\* The batch returns its messages in call order.  An all-NextHints batch that produced text or hints
\* ends the turn; one whose every call failed goes on like any other.
BatchReturns ==
  /\ at = "batch" /\ batch # NoBatch /\ \A i \in DOMAIN batch : batch[i] # "waiting"
  /\ turn' = turn \o Results /\ batch' = NoBatch
  /\ active' = IF cancelling THEN active ELSE turn \o Results
  /\ at' = "checkpoint"
  /\ UNCHANGED <<countVars, step, claimed, names, ran, hints, cancelling, answered, messages,
                 queue, retracted, disk>>

\* finish_with_next_hints: with text the answer is a message of its own, without it the results end
\* the turn.
HintsEnd ==
  /\ at = "batch" /\ hints /\ ~cancelling /\ batch # NoBatch
  /\ \A i \in DOMAIN batch : batch[i] # "waiting"
  /\ \E answer \in {<<>>, <<Assistant>>} :
       /\ answer = <<>> => \E i \in DOMAIN batch : batch[i] \in {"ok", "seen"}
       /\ Finish(turn \o Results \o answer)
  /\ UNCHANGED queue

\* A tool raises what no result boundary converts.
BatchRaises ==
  /\ at = "batch" /\ ~cancelling
  /\ Fail(turn, queue)

Answers == \/ AnswerTextual \/ AnswerPaused \/ AnswerFinal \/ AnswerTools \/ RequestFails
Tools   == FinishCall \/ BatchReturns \/ HintsEnd \/ BatchRaises
Progress == \/ Checkpointed \/ Stop \/ Prepare \/ PrepareFails \/ Answers \/ Tools
            \/ Cancelled \/ CancelledOpening \/ Leave
Next == Enqueue \/ Save \/ Cancel \/ Begin \/ Retry \/ Progress

Spec == Init /\ [][Next]_vars

\* Every await ends: the provider and the tools answer within their limits, and a request that the
\* user does not send again for ever is answered.
FairSpec == Spec /\ WF_vars(Progress) /\ SF_vars(Answers)

-----------------------------------------------------------------------------
(***************************************************************************)
(* Properties.                                                             *)
(***************************************************************************)
Places == {"idle", "opening", "ready", "request", "corrected", "correcting", "batch", "checkpoint",
           "ended"}
Says   == {"", "ok", "seen", "failed", "skipped", "cancelled", "interrupt"}
Kinds  == {"user", "followup", "correction", "assistant", "result", "observation", "marker"}
Messages == [kind : Kinds, turn : 0..MaxTurns, step : 0..(MaxSteps + 1), calls : 0..MaxCalls,
             id : Nat, named : BOOLEAN, says : Says]

\* TypeOK: every variable stays in its set; a claim and a batch exist only while a request or a batch
\* is outstanding, no cancellation outlives its turn, and corrections stay within their bound.
TypeOK ==
  /\ at \in Places /\ number \in 0..MaxTurns /\ step \in 0..(MaxSteps + 1)
  /\ turn \in Seq(Messages) /\ active \in Seq(Messages) /\ messages \in Seq(Messages)
  /\ disk \in Seq(Messages) /\ answered \in Seq(Messages)
  /\ claimed \in Seq(1..MaxFollowUps) /\ (claimed # <<>> => at \in {"ready", "request"})
  /\ names \in 0..MaxCorrections /\ hints \in BOOLEAN /\ typed \in 0..MaxFollowUps
  /\ batch \in Seq(Says \cup {"waiting"}) /\ (batch # NoBatch => at = "batch")
  /\ ran \subseteq (1..MaxTurns) \X (1..MaxSteps) \X (1..MaxCalls)
  /\ cancelling \in BOOLEAN /\ (cancelling => at \notin {"idle", "ended"})
  /\ queue \in Seq([id : 1..MaxFollowUps, inflight : BOOLEAN])
  /\ retracted \subseteq 1..MaxTurns

\* Each message that calls tools is followed at once by one result per call, and no result stands
\* anywhere else.
Legal(t) ==
  \A n \in DOMAIN t :
    /\ t[n].calls > 0 =>
         \A i \in 1..t[n].calls : n + i \in DOMAIN t /\ t[n + i].kind = "result"
           /\ t[n + i].step = t[n].step /\ t[n + i].id = i
    /\ t[n].kind = "result" =>
         /\ n > t[n].id /\ t[n - t[n].id].kind = "assistant"
         /\ t[n].id \in 1..t[n - t[n].id].calls

\* HistoryIsLegal: however a turn ends - answered, out of steps, failed, cancelled in the middle of a
\* batch - the history it leaves, every request built on it and every checkpoint a restart would
\* resume from pair each tool call with exactly one result, next to it (settle_unanswered_tool_calls:
\* one dangling call would fail every later request).
HistoryIsLegal ==
  /\ Legal(messages) /\ Legal(disk)
  /\ at = "request" => Legal(messages \o Sent)

\* SentIsHistory: a provider never sees a conversation change behind its back: what it answered, the
\* follow-ups and corrections that rode along included, is a prefix of the conversation from then on,
\* in the order it saw, unless the turn is retracted as a whole.
SentIsHistory == number \notin retracted => IsPrefix(answered, messages \o turn)

\* RetractLeavesNoTrace: once a retracted turn is over, neither the session nor its log holds any
\* message of it.
RetractLeavesNoTrace ==
  at = "idle" => \A n \in DOMAIN disk : disk[n].turn \notin retracted

\* TurnEnds: a turn that began ends, whether it is answered, fails, or is cancelled at any await.
TurnEnds == at # "idle" ~> at = "idle"

\* FollowUpsKept (refuted): a follow-up leaves the queue only for the history or for a turn still
\* running.
FollowUpsKept ==
  \A i \in 1..typed : \/ i \in Range(Ids(queue))
                      \/ \E n \in DOMAIN (messages \o turn) : (messages \o turn)[n].id = i
                                                           /\ (messages \o turn)[n].kind = "followup"

\* NoFalseCancel (refuted): a call recorded as cancelled before it finished did not finish.
NoFalseCancel ==
  \A n \in DOMAIN messages :
    messages[n].kind = "result" /\ messages[n].says = "cancelled"
      => <<messages[n].turn, messages[n].step, messages[n].id>> \notin ran

\* FailedRequestRequeues (refuted): the follow-ups of a request that failed are queued again.
FailedRequestRequeues ==
  [][RequestFails => \A item \in Range(queue) : item.inflight => item.id \in Range(Ids(queue'))]_vars

\* A turn, however it ends, leaves and sends conversations a provider accepts.
TurnSound == TypeOK /\ HistoryIsLegal /\ SentIsHistory
=============================================================================
