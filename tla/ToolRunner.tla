----------------------------- MODULE ToolRunner -----------------------------
(***************************************************************************)
(* One batch of tool calls: ToolRunner.run and the gateway through which a *)
(* ToolScript's worker thread makes nested calls (runner.py).              *)
(*                                                                         *)
(* The batch is cut into segments: neighbouring reads run as child tasks,  *)
(* everything else one call at a time, the edits of a serial segment       *)
(* planned together before its first call runs.  The runner's coroutine is *)
(* at one await at a time; a cancellation lands at any of them, and again  *)
(* while the first is still being unwound.                                 *)
(***************************************************************************)
EXTENDS Naturals, Sequences, FiniteSets, FiniteSetsExt

CONSTANTS
  Kinds,        \* kinds of calls the model emits, among those of AllKinds
  MaxCalls,     \* bound: calls in the batch
  Capacity,     \* max_parallel_tools
  MaxRequests,  \* bound: nested requests a script makes
  MaxCancels    \* bound: cancellations of the turn

\* read: Read, Recall (a bounded worker); search: Search (native); remote: a read-only MCP call
\* (native, of a class that mutates); bash: Bash; view: ViewImage; echo: a provider's own builtin.
AllKinds == {"read", "search", "remote", "edit", "ask", "bash", "view", "script", "echo"}

ASSUME ToolRunnerAssumption ==
  /\ Kinds \subseteq AllKinds /\ MaxCalls \in Nat \ {0} /\ Capacity \in Nat \ {0}
  /\ MaxRequests \in Nat /\ MaxCancels \in Nat

VARIABLES
  calls,      \* the batch
  at,         \* what run() awaits
  i, end,     \* the call at hand and the end of its segment
  work,       \* each call's own task: "idle", "queued" for capacity, "busy", then its outcome
  refused,    \* state["refused"]
  messages,   \* results so far
  seen,       \* observations so far
  planned,    \* edits of the segment's EditBatchPlan
  outdated,   \* something else has written since that plan was built
  cancels,    \* cancellations so far
  script,     \* the script's worker thread
  future,     \* what it waits on: "none", "pending", or the outcome
  posted,     \* _accept is scheduled on the loop
  request,    \* the nested calls handed over
  requests,   \* nested requests so far
  token,      \* the script's cancellation token is set
  open,       \* the gateway admits
  serving,    \* the gateway's task: "none", "confirm", "work" or "stop"
  nested      \* its calls: how many wait for capacity, how many run

batchVars  == <<calls, i, end, refused, messages, seen, planned, outdated>>
threadVars == <<script, request, requests>>
serveVars  == <<serving, nested>>
gateVars   == <<token, open>>
scriptVars == <<threadVars, serveVars, gateVars, future, posted>>
vars == <<batchVars, at, work, cancels, scriptVars>>

\* Mutant: an edit that needs no confirmation counts as a read.
ParallelSafe_Edits(kind) == kind \in {"read", "search", "remote", "edit"}

ParallelSafe(kind) == kind \in {"read", "search", "remote"}

Barrier(kind)      == kind \in {"remote", "bash", "view", "script"}
Bounded(kind)      == kind = "read"
Confirms(kind)     == kind \in {"edit", "bash", "script"}
Writes(kind)       == kind \in {"remote", "bash", "script"}

Together  == {kind \in AllKinds : ParallelSafe(kind)}
OneByOne  == {kind \in AllKinds : ~Barrier(kind)}

\* parallel_segment_end, edit_segment_end: the first call from n on that does not belong.
SegmentEnd(kinds, n) ==
  LET stops == {m \in n..Len(calls) : calls[m] \notin kinds}
  IN IF stops = {} THEN Len(calls) + 1 ELSE Min(stops)

Busy       == {n \in DOMAIN calls : work[n] = "busy"}
Workers    == Cardinality({n \in Busy : Bounded(calls[n])})
NoNested   == [queued |-> 0, busy |-> 0]
LoopRuns   == at # "join"    \* executor.shutdown(wait=True) blocks the loop itself

Init ==
  /\ calls \in UNION {[1..n -> Kinds] : n \in 1..MaxCalls}
  /\ at = "next" /\ i = 1 /\ end = 1 /\ work = [n \in DOMAIN calls |-> "idle"]
  /\ refused = FALSE /\ messages = <<>> /\ seen = <<>> /\ planned = {} /\ outdated = FALSE
  /\ cancels = 0
  /\ script = "none" /\ future = "none" /\ posted = FALSE /\ request = <<>> /\ requests = 0
  /\ token = FALSE /\ open = TRUE /\ serving = "none" /\ nested = NoNested

-----------------------------------------------------------------------------
(***************************************************************************)
(* _run_batch: the segments.                                               *)
(***************************************************************************)
\* The call at hand has its result; the loop or the segment goes on.
Answer(says, next) ==
  /\ messages' = Append(messages, [id |-> i, says |-> says])
  /\ i' = i + 1
  /\ at' = IF i' < end THEN next ELSE "next"
AnswerFrame == UNCHANGED <<calls, end, planned, outdated, cancels, scriptVars>>

Choosing == at = "next" /\ i <= Len(calls)

Skip ==
  /\ Choosing /\ refused
  /\ Answer("skipped", "next")
  /\ UNCHANGED <<work, refused, seen>> /\ AnswerFrame

Echo ==
  /\ Choosing /\ ~refused /\ calls[i] = "echo"
  /\ Answer("ok", "next")
  /\ UNCHANGED <<work, refused, seen>> /\ AnswerFrame

InParallel == SegmentEnd(Together, i) - i >= 2 /\ Capacity > 1

OpenParallel ==
  /\ Choosing /\ ~refused /\ calls[i] # "echo" /\ InParallel
  /\ end' = SegmentEnd(Together, i)
  /\ work' = [n \in DOMAIN calls |-> IF n \in i..(end' - 1)
                THEN IF Bounded(calls[n]) THEN "queued" ELSE "busy" ELSE work[n]]
  /\ at' = "children"
  /\ UNCHANGED <<calls, i, refused, messages, seen, planned, outdated, cancels, scriptVars>>

OpenSerial ==
  /\ Choosing /\ ~refused /\ calls[i] # "echo" /\ ~InParallel
  /\ end' = IF Barrier(calls[i]) THEN i + 1 ELSE SegmentEnd(OneByOne, i)
  /\ planned' = {n \in i..(end' - 1) : calls[n] = "edit"} /\ outdated' = FALSE
  /\ at' = IF planned' = {} THEN "serial" ELSE "plan"
  /\ UNCHANGED <<calls, i, work, refused, messages, seen, cancels, scriptVars>>

\* run()'s finally: close the gateway, then return or raise.
Leave ==
  /\ at = "close" \/ (at = "next" /\ i > Len(calls))
  /\ serving = "none"
  /\ at' = IF at = "close" THEN "raised" ELSE "returned"
  /\ open' = FALSE
  /\ future' = IF future = "pending" THEN "cancelled" ELSE future
  /\ UNCHANGED <<batchVars, work, cancels, threadVars, serveVars, posted, token>>

-----------------------------------------------------------------------------
(***************************************************************************)
(* run_parallel.                                                           *)
(***************************************************************************)
\* A child gets a unit of capacity and its worker starts.
StartChild ==
  /\ at = "children" /\ Workers + nested.busy < Capacity
  /\ \E n \in DOMAIN calls : work[n] = "queued" /\ work' = [work EXCEPT ![n] = "busy"]
  /\ UNCHANGED <<batchVars, at, cancels, scriptVars>>

\* A call's own work ends; a cancelled one is awaited all the same.
FinishChild ==
  /\ at \in {"children", "stop"}
  /\ \E n \in Busy, outcome \in {"ok", "failed"} : work' = [work EXCEPT ![n] = outcome]
  /\ UNCHANGED <<batchVars, at, cancels, scriptVars>>

Gathered ==
  /\ at = "children" /\ \A n \in i..(end - 1) : work[n] \in {"ok", "failed"}
  /\ at' = "publish"
  /\ UNCHANGED <<batchVars, work, cancels, scriptVars>>

\* finalize_outcome, in the order the model issued the calls.
Publish ==
  /\ at = "publish"
  /\ Answer(work[i], "publish")
  /\ UNCHANGED <<work, refused, seen>> /\ AnswerFrame

-----------------------------------------------------------------------------
(***************************************************************************)
(* run_serial, run_one, confirm, call_tool.                                *)
(***************************************************************************)
Planned ==
  /\ at = "plan" /\ at' = "serial"
  /\ UNCHANGED <<batchVars, work, cancels, scriptVars>>

\* An unknown tool, malformed arguments, an edit its plan refused.
Reject ==
  /\ at = "serial"
  /\ Answer("failed", "serial")
  /\ UNCHANGED <<work, refused, seen>> /\ AnswerFrame

Ask ==
  /\ at = "serial" /\ Confirms(calls[i])
  /\ at' = "confirm"
  /\ UNCHANGED <<batchVars, work, cancels, scriptVars>>

\* Refused, or the prompt was dismissed.
Refuse ==
  /\ at = "confirm"
  /\ Answer("refused", "serial") /\ refused' = TRUE
  /\ UNCHANGED <<work, seen>> /\ AnswerFrame

\* Approved, approved automatically, or in no need of it.
Start ==
  /\ at \in {"serial", "confirm"}
  /\ outdated' = (outdated \/ Writes(calls[i]))
  /\ work' = [work EXCEPT ![i] = "busy"]
  /\ IF calls[i] = "script"
     THEN at' = "script" /\ script' = "starting" /\ token' = FALSE /\ requests' = 0
     ELSE at' = "call" /\ UNCHANGED <<script, token, requests>>
  /\ UNCHANGED <<calls, i, end, refused, messages, seen, planned, cancels, request, serveVars, open,
                 future, posted>>

\* The body returns, or the user answers an Ask.
Returns ==
  /\ at = "call" \/ (at = "script" /\ script = "ended")
  /\ work' = [work EXCEPT ![i] = "ok"]
  /\ at' = "store"
  /\ UNCHANGED <<batchVars, cancels, scriptVars>>

Raises ==
  /\ at = "call" \/ (at = "script" /\ script = "ended")
  /\ work' = [work EXCEPT ![i] = "failed"]
  /\ Answer("failed", "serial")
  /\ UNCHANGED <<refused, seen>> /\ AnswerFrame

\* finish, with the artifact and the code index it awaits.
Stored ==
  /\ at = "store"
  /\ Answer("ok", "serial")
  /\ seen' = IF calls[i] = "view" THEN Append(seen, i) ELSE seen
  /\ UNCHANGED <<work, refused>> /\ AnswerFrame

-----------------------------------------------------------------------------
(***************************************************************************)
(* The script's thread and the gateway.                                    *)
(***************************************************************************)
\* The thread publishes its cancellation token; until then a cancellation has none to set.
TokenPublished ==
  /\ script = "starting" /\ script' = "run"
  /\ UNCHANGED <<batchVars, at, work, cancels, request, requests, serveVars, gateVars, future, posted>>

\* A traced line: the script goes on, unless its token is set.
Line ==
  /\ script = "run" /\ ~token /\ requests < MaxRequests
  /\ script' = "calling" /\ requests' = requests + 1
  /\ request' \in {<<"bash">>, <<"read">>, <<"read", "read">>}
  /\ UNCHANGED <<batchVars, at, work, cancels, serveVars, gateVars, future, posted>>

ScriptEnds ==
  /\ script = "run" /\ script' = "ended"
  /\ UNCHANGED <<batchVars, at, work, cancels, request, requests, serveVars, gateVars, future, posted>>

\* _NestedGateway.submit: register the future, then hand the request to the loop.
Register ==
  /\ script = "calling" /\ script' = "posting" /\ future' = "pending"
  /\ UNCHANGED <<batchVars, at, work, cancels, request, requests, serveVars, gateVars, posted>>

Post ==
  /\ script = "posting" /\ script' = "waiting" /\ posted' = TRUE
  /\ UNCHANGED <<batchVars, at, work, cancels, request, requests, serveVars, gateVars, future>>

Wake ==
  /\ script = "waiting" /\ future \notin {"none", "pending"}
  /\ script' = "run" /\ future' = "none"
  /\ UNCHANGED <<batchVars, at, work, cancels, request, requests, serveVars, gateVars, posted>>

\* Mutant: a request that arrives after the gateway closed is served.
Accept_Closed ==
  /\ LoopRuns /\ posted /\ posted' = FALSE
  /\ serving' = IF Len(request) = 1 /\ request[1] = "bash" THEN "confirm" ELSE "work"
  /\ nested' = [queued |-> Len(request), busy |-> 0]
  /\ UNCHANGED <<batchVars, at, work, cancels, threadVars, gateVars, future>>

\* _accept: admitted, or refused because the close got there first.
Accept ==
  /\ LoopRuns /\ posted /\ posted' = FALSE
  /\ IF open
     THEN /\ serving' = IF request = <<"bash">> THEN "confirm" ELSE "work"
          /\ nested' = [queued |-> Len(request), busy |-> 0]
          /\ UNCHANGED future
     ELSE /\ future' = IF future = "pending" THEN "cancelled" ELSE future
          /\ UNCHANGED serveVars
  /\ UNCHANGED <<batchVars, at, work, cancels, threadVars, gateVars>>

\* _settle, at the end of _serve.
Settle(outcome) ==
  /\ future' = IF future = "pending" THEN outcome ELSE future
  /\ serving' = "none" /\ nested' = NoNested

NestedApprove ==
  /\ LoopRuns /\ serving = "confirm" /\ serving' = "work"
  /\ UNCHANGED <<batchVars, at, work, cancels, threadVars, nested, gateVars, future, posted>>

NestedRefuse ==
  /\ LoopRuns /\ serving = "confirm" /\ Settle("refused")
  /\ UNCHANGED <<batchVars, at, work, cancels, threadVars, gateVars, posted>>

NestedStart ==
  /\ LoopRuns /\ serving = "work" /\ nested.queued > 0
  /\ request = <<"bash">> \/ Workers + nested.busy < Capacity
  /\ nested' = [queued |-> nested.queued - 1, busy |-> nested.busy + 1]
  /\ UNCHANGED <<batchVars, at, work, cancels, threadVars, serving, gateVars, future, posted>>

\* A nested worker ends, whether or not the loop is there to notice.
NestedFinish ==
  /\ nested.busy > 0
  /\ nested' = [nested EXCEPT !.busy = @ - 1]
  /\ UNCHANGED <<batchVars, at, work, cancels, threadVars, serving, gateVars, future, posted>>

Served ==
  /\ LoopRuns /\ serving \in {"work", "stop"} /\ nested = NoNested
  /\ Settle(IF serving = "work" THEN "ok" ELSE "cancelled")
  /\ UNCHANGED <<batchVars, at, work, cancels, threadVars, gateVars, posted>>

-----------------------------------------------------------------------------
(***************************************************************************)
(* Cancellation of the turn.                                               *)
(***************************************************************************)
Cancels == cancels < MaxCancels /\ cancels' = cancels + 1

\* Whatever the call at hand was waiting for, there is no work of its own to wait for.
CancelWait ==
  /\ Cancels /\ at \in {"plan", "confirm", "store", "publish"}
  /\ at' = "close"
  /\ UNCHANGED <<batchVars, work, scriptVars>>

\* _execute_readonly_segment, _run_in_executor: ask the work to stop and keep waiting for it.
CancelWork ==
  /\ Cancels /\ at \in {"children", "call"}
  /\ work' = [n \in DOMAIN calls |-> IF work[n] = "queued" THEN "idle" ELSE work[n]]
  /\ at' = "stop"
  /\ UNCHANGED <<batchVars, scriptVars>>

Stopped ==
  /\ at = "stop" /\ Busy = {}
  /\ at' = "close"
  /\ UNCHANGED <<batchVars, work, cancels, scriptVars>>

\* Mutant: the token is set but the gateway stays open until the script has ended.
CancelScript_TokenOnly ==
  /\ Cancels /\ at = "script"
  /\ token' = TRUE /\ at' = "script cancelled"
  /\ UNCHANGED <<batchVars, work, threadVars, serveVars, open, future, posted>>

\* _run_script: set the token, close the gateway.  With no nested call active the close does not
\* wait, and unblocks a thread that has registered; else it awaits the cancelled task first.
CancelScript ==
  /\ Cancels /\ at \in {"script", "script cancelled"}
  /\ token' = (script # "starting") /\ open' = FALSE
  /\ IF serving = "none"
     THEN /\ at' = "script cancelled"
          /\ future' = IF future = "pending" THEN "cancelled" ELSE future
          /\ UNCHANGED serveVars
     ELSE /\ at' = "unwind"
          /\ serving' = "stop" /\ nested' = [nested EXCEPT !.queued = 0]
          /\ UNCHANGED future
  /\ UNCHANGED <<batchVars, work, threadVars, posted>>

\* A second cancellation interrupts the close, which ends only with the tasks it gathers.
CancelAgain ==
  /\ Cancels /\ at = "unwind" /\ at' = "unwind again"
  /\ UNCHANGED <<batchVars, work, scriptVars>>

Unwound ==
  /\ at \in {"unwind", "unwind again"} /\ serving = "none"
  /\ at' = IF at = "unwind" THEN "script cancelled" ELSE "join"
  /\ future' = IF at = "unwind" /\ future = "pending" THEN "cancelled" ELSE future
  /\ UNCHANGED <<batchVars, work, cancels, threadVars, serveVars, gateVars, posted>>

\* The script's thread is over: the cancellation goes up.
Joined ==
  /\ at \in {"script cancelled", "join"} /\ script = "ended"
  /\ work' = [work EXCEPT ![i] = "failed"]
  /\ at' = "close"
  /\ UNCHANGED <<batchVars, cancels, scriptVars>>

-----------------------------------------------------------------------------
Segments == Skip \/ Echo \/ OpenParallel \/ OpenSerial \/ Leave
Children == StartChild \/ FinishChild \/ Gathered \/ Publish \/ Stopped
Serial   == Planned \/ Reject \/ Ask \/ Start \/ Returns \/ Raises \/ Stored
Thread   == TokenPublished \/ Line \/ ScriptEnds \/ Register \/ Post \/ Wake
Gateway  == Accept \/ NestedStart \/ NestedFinish \/ Served \/ Unwound \/ Joined
Human    == Refuse \/ NestedApprove \/ NestedRefuse
Cancel   == CancelWait \/ CancelWork \/ CancelScript \/ CancelAgain
Next     == Segments \/ Children \/ Serial \/ Thread \/ Gateway \/ Human \/ Cancel

Spec == Init /\ [][Next]_vars

\* The loop resumes whatever can go on, a worker asked to stop ends, and a thread runs; the user owes
\* no answer.
FairSpec ==
  /\ Spec /\ WF_vars(Segments) /\ WF_vars(Children) /\ WF_vars(Thread) /\ WF_vars(ScriptEnds)
  /\ WF_vars(NestedStart \/ NestedFinish) /\ WF_vars(Accept \/ Served) /\ WF_vars(Unwound \/ Joined)

-----------------------------------------------------------------------------
(***************************************************************************)
(* Properties.                                                             *)
(***************************************************************************)
Awaits == {"next", "children", "publish", "plan", "serial", "confirm", "call", "script", "store",
           "stop", "script cancelled", "unwind", "unwind again", "join", "close", "returned", "raised"}
Says   == {"ok", "failed", "refused", "skipped"}

\* TypeOK: every variable stays in its set, and a call runs, waits or is asked about only while run()
\* is at the await that goes with it.
TypeOK ==
  /\ calls \in Seq(Kinds) /\ at \in Awaits /\ i \in 1..(MaxCalls + 1) /\ end \in 1..(MaxCalls + 1)
  /\ work \in [DOMAIN calls -> {"idle", "queued", "busy", "ok", "failed"}]
  /\ refused \in BOOLEAN /\ outdated \in BOOLEAN /\ planned \subseteq 1..MaxCalls
  /\ messages \in Seq([id : 1..MaxCalls, says : Says]) /\ seen \in Seq(1..MaxCalls)
  /\ cancels \in 0..MaxCancels /\ requests \in 0..MaxRequests
  /\ script \in {"none", "starting", "run", "calling", "posting", "waiting", "ended"}
  /\ future \in {"none", "pending", "ok", "refused", "cancelled"}
  /\ posted \in BOOLEAN /\ token \in BOOLEAN /\ open \in BOOLEAN
  /\ request \in {<<>>, <<"bash">>, <<"read">>, <<"read", "read">>}
  /\ serving \in {"none", "confirm", "work", "stop"} /\ nested \in [queued : 0..2, busy : 0..2]
  /\ (serving = "none") => nested = NoNested
  /\ (\E n \in DOMAIN calls : work[n] = "queued") => at = "children"

\* ResultsMatchCalls: a batch that returns has one result per call, in the order of the calls,
\* whatever was refused, skipped or failed and in whatever order the reads ended, and the
\* observations of the calls that made one, in the same order.
ResultsMatchCalls ==
  at = "returned" =>
    /\ [n \in DOMAIN messages |-> messages[n].id] = [n \in DOMAIN calls |-> n]
    /\ \A n \in DOMAIN seen : messages[seen[n]].says = "ok"
    /\ \A m, n \in DOMAIN seen : m < n => seen[m] < seen[n]
    /\ {seen[n] : n \in DOMAIN seen} = {n \in DOMAIN calls : calls[n] = "view" /\ messages[n].says = "ok"}

\* MutationsRunAlone: a call that writes or asks the user never overlaps another call of the batch.
MutationsRunAlone ==
  /\ \A n \in Busy : calls[n] \in {"edit", "ask", "bash", "view", "script"} => Busy = {n}
  /\ at = "confirm" => Busy = {}

\* PlansAreFresh: an edit is applied as planned only while nothing but the edits of the same plan has
\* written since the plan read the files.
PlansAreFresh == at = "call" /\ calls[i] = "edit" => i \in planned /\ ~outdated

\* WorkersWithinCapacity: a batch and the script inside it never hold more workers than the setting
\* allows, those still stopping included.
WorkersWithinCapacity ==
  Workers + (IF request = <<"bash">> THEN 0 ELSE nested.busy) <= Capacity

\* Quiescent: when run() has returned or raised, nothing it started is still running: no worker, no
\* nested call, no script, and no thread is left waiting for an answer.
Quiescent ==
  at \in {"returned", "raised"} =>
    Busy = {} /\ serving = "none" /\ nested = NoNested /\ script \in {"none", "ended"}

\* RefusalReachesBarriers: after a refusal no command, script, remote call or image runs any more.
RefusalReachesBarriers ==
  \A m, n \in DOMAIN messages :
    m < n /\ messages[m].says = "refused" /\ Barrier(calls[n]) => messages[n].says = "skipped"

\* RefusalStops (refuted): after a refusal no call of the batch runs any more.
RefusalStops ==
  \A m, n \in DOMAIN messages :
    m < n /\ messages[m].says = "refused" => messages[n].says = "skipped"

\* CancelEnds: a cancelled batch ends, although nobody answers a question it was waiting on and
\* although a script is blocked on a nested call.
CancelEnds == cancels > 0 ~> at \in {"returned", "raised"}

\* A batch gives one result per call, keeps to its workers, and leaves nothing running.
BatchSound == TypeOK /\ ResultsMatchCalls /\ WorkersWithinCapacity /\ Quiescent /\ RefusalReachesBarriers

\* What writes runs alone, on the files it was planned for.
WritesAlone == MutationsRunAlone /\ PlansAreFresh
=============================================================================
