--------------------------- MODULE ToolRunnerProofs ---------------------------
(***************************************************************************)
(* WritesAlone and BatchSound for batches of any length, any capacity, and *)
(* any number of nested requests and cancellations.                        *)
(*                                                                         *)
(* The invariant says, for each await run() can be at, what it stands for: *)
(* which calls of the segment may be running, what is left of the segment, *)
(* which results are there, and what the script's thread and the gateway   *)
(* may be doing meanwhile.                                                 *)
(***************************************************************************)
EXTENDS ToolRunner, FiniteSetTheorems, WellFoundedInduction, TLAPS

Parallel  == {"children", "publish"}
Scripting == {"script", "script cancelled", "unwind", "unwind again", "join"}
Serials   == {"plan", "serial", "confirm", "call", "store"} \cup Scripting
Resting   == {"next", "publish", "plan", "serial", "confirm", "store", "close", "returned", "raised"}

Typed ==
  /\ calls \in Seq(Kinds) /\ Len(calls) \in 1..MaxCalls
  /\ at \in Awaits /\ i \in 1..(Len(calls) + 1) /\ end \in 1..(Len(calls) + 1)
  /\ work \in [1..Len(calls) -> {"idle", "queued", "busy", "ok", "failed"}]
  /\ refused \in BOOLEAN /\ outdated \in BOOLEAN /\ planned \subseteq 1..Len(calls)
  /\ messages \in Seq([id : 1..MaxCalls, says : Says]) /\ seen \in Seq(1..MaxCalls)
  /\ cancels \in 0..MaxCancels

GateTyped ==
  /\ requests \in 0..MaxRequests
  /\ script \in {"none", "starting", "run", "calling", "posting", "waiting", "ended"}
  /\ future \in {"none", "pending", "ok", "refused", "cancelled"}
  /\ posted \in BOOLEAN /\ token \in BOOLEAN /\ open \in BOOLEAN
  /\ request \in {<<>>, <<"bash">>, <<"read">>, <<"read", "read">>}
  /\ serving \in {"none", "confirm", "work", "stop"}
  /\ nested \in [queued : 0..2, busy : 0..2] /\ nested.queued + nested.busy <= 2

\* What is left of a segment.
Rest == i..(end - 1)
Segment ==
  /\ at \in Parallel \cup Serials => i < end
  /\ at \in Parallel => ~refused /\ \A n \in Rest : ParallelSafe(calls[n])
  /\ at \in Serials => end = i + 1 \/ \A n \in Rest : ~Barrier(calls[n])
  /\ at \in Serials => \A n \in Rest : /\ calls[n] = "edit" => n \in planned /\ ~outdated
                                       /\ Barrier(calls[n]) => ~refused

\* Who may be running.
Running ==
  /\ at \in Resting => \A n \in 1..Len(calls) : work[n] # "busy"
  /\ at = "call" \/ at \in Scripting => \A n \in 1..Len(calls) : work[n] = "busy" => n = i
  /\ at = "stop" => \/ \A n \in 1..Len(calls) : work[n] = "busy" => ParallelSafe(calls[n])
                    \/ \A n \in 1..Len(calls) : work[n] = "busy" => n = i
  /\ at = "children" => \A n \in 1..Len(calls) : work[n] \in {"busy", "queued"} => n \in Rest
  /\ \A n \in 1..Len(calls) : work[n] = "queued" => at = "children"
  /\ at = "publish" => \A n \in Rest : work[n] \in {"ok", "failed"}
  /\ at \in Scripting => calls[i] = "script"

\* The results so far.
Results ==
  /\ Len(messages) = i - 1
  /\ \A n \in 1..Len(messages) : messages[n].id = n
  /\ at = "returned" => i = Len(calls) + 1
  /\ \A n \in 1..Len(seen) : seen[n] < i /\ calls[seen[n]] = "view" /\ messages[seen[n]].says = "ok"
  /\ \A m, n \in 1..Len(seen) : m < n => seen[m] < seen[n]
  /\ \A k \in 1..(i - 1) : calls[k] = "view" /\ messages[k].says = "ok" => \E n \in 1..Len(seen) : seen[n] = k

Refusals ==
  /\ \A m \in 1..Len(messages) : messages[m].says = "refused" => refused
  /\ RefusalReachesBarriers

\* The script's thread lives only while run() is at an await of it, and the gateway serves a thread
\* that waits.  Once closed, the gateway owes nobody an answer.
Gates ==
  /\ at \notin Scripting => script \in {"none", "ended"}
  /\ serving # "none" => script = "waiting" /\ future = "pending" /\ ~posted
  /\ posted /\ open => script = "waiting" /\ future = "pending"
  /\ script = "posting" /\ open => future = "pending"
  /\ serving = "none" => nested = NoNested
  /\ at \in Scripting /\ open => at = "script"
  /\ at \in {"returned", "raised"} => serving = "none"
  /\ request # <<"bash">> => nested.busy <= Capacity

\* The workers of the batch, and those of a script, keep to the capacity each by themselves: a script
\* holds no worker of the batch, and runs alone.
BatchInv == Typed /\ Segment /\ Running /\ Results /\ Refusals /\ Workers <= Capacity
GateInv  == GateTyped /\ Gates
IInv     == BatchInv /\ GateInv

-----------------------------------------------------------------------------
(***************************************************************************)
(* Segments and workers.                                                   *)
(***************************************************************************)
\* A set of numbers that is not empty has a least one, and Min is it.
LEMMA MinLeast == ASSUME NEW S \in SUBSET Nat, S # {} PROVE Min(S) \in S /\ \A y \in S : Min(S) <= y
<1>1. PICK x \in S : \A y \in S : ~(<<y, x>> \in OpToRel(<, Nat))
  BY NatLessThanWellFounded, WFMin
<1>2. ASSUME NEW y \in S, y < x PROVE FALSE
  <2>1. <<y, x>> \in Nat \X Nat
    OBVIOUS
  <2>2. <<y, x>>[1] < <<y, x>>[2]
    BY <1>2
  <2>3. <<y, x>> \in OpToRel(<, Nat)
    BY <2>1, <2>2, Zenon DEF OpToRel
  <2> QED
    BY <2>3, <1>1
<1>3. \A y \in S : x <= y
  BY <1>2
<1> QED
  BY <1>3, Zenon DEF Min

\* A segment reaches from its first call to the first that does not belong, or to the end.
LEMMA SegmentEnds ==
  ASSUME calls \in Seq(Kinds), NEW n \in 1..Len(calls), NEW kinds
  PROVE  /\ SegmentEnd(kinds, n) \in n..(Len(calls) + 1)
         /\ \A m \in n..(SegmentEnd(kinds, n) - 1) : calls[m] \in kinds
         /\ calls[n] \in kinds => n < SegmentEnd(kinds, n)
<1> DEFINE stops == {m \in n..Len(calls) : calls[m] \notin kinds}
<1>0. Len(calls) \in Nat
  OBVIOUS
<1>1. CASE stops = {}
  <2>1. SegmentEnd(kinds, n) = Len(calls) + 1
    BY <1>1 DEF SegmentEnd
  <2> QED
    BY <1>0, <1>1, <2>1
<1>2. CASE stops # {}
  <2>1. SegmentEnd(kinds, n) = Min(stops)
    BY <1>2 DEF SegmentEnd
  <2>2. stops \in SUBSET Nat
    BY <1>0
  <2>3. Min(stops) \in stops /\ \A y \in stops : Min(stops) <= y
    BY <1>2, <2>2, MinLeast
  <2>4. \A m \in n..(Min(stops) - 1) : calls[m] \in kinds
    <3> SUFFICES ASSUME NEW m \in n..(Min(stops) - 1), calls[m] \notin kinds PROVE FALSE
      OBVIOUS
    <3>1. m \in stops
      BY <1>0, <2>2, <2>3
    <3>2. Min(stops) \in Nat /\ Min(stops) <= m
      BY <2>2, <2>3, <3>1
    <3> QED
      BY <1>0, <3>2
  <2> HIDE DEF stops
  <2>5. Min(stops) \in n..Len(calls) /\ calls[Min(stops)] \notin kinds
    BY <2>3 DEF stops
  <2> QED
    BY <1>0, <2>1, <2>4, <2>5
<1> QED
  BY <1>1, <1>2

\* A kind of call the model emits is one of those the runner knows, and what writes runs by itself.
LEMMA KindFacts ==
  ASSUME NEW kind \in Kinds
  PROVE  /\ kind \in AllKinds
         /\ kind \in Together <=> ParallelSafe(kind)
         /\ kind \in OneByOne <=> ~Barrier(kind)
         /\ Writes(kind) => Barrier(kind) /\ kind # "edit"
         /\ ParallelSafe(kind) => kind \notin {"edit", "ask", "bash", "view", "script", "echo"}
         /\ kind \in {"script", "view"} => Barrier(kind) /\ ~Bounded(kind)
         /\ kind \in {"edit", "echo"} => ~Barrier(kind)
BY ToolRunnerAssumption DEF Together, OneByOne, ParallelSafe, Barrier, Writes, Bounded, AllKinds

\* The calls of a batch are kinds, its busy calls a finite set of positions.
LEMMA Calls == ASSUME Typed
               PROVE  /\ Len(calls) \in Nat \ {0} /\ Len(calls) <= MaxCalls /\ DOMAIN calls = 1..Len(calls)
                      /\ \A n \in 1..Len(calls) : calls[n] \in Kinds
                      /\ Busy = {n \in 1..Len(calls) : work[n] = "busy"}
<1>1. calls \in Seq(Kinds) /\ Len(calls) \in 1..MaxCalls
  BY DEF Typed
<1>2. MaxCalls \in Nat
  BY ToolRunnerAssumption
<1> QED
  BY <1>1, <1>2 DEF Busy

\* Workers is a number, at most one more when one more call is busy, no more when none is.
LEMMA WorkersGrow ==
  ASSUME Typed, Typed', UNCHANGED calls, NEW k,
         \A n \in 1..Len(calls) : work'[n] = "busy" /\ n # k => work[n] = "busy"
  PROVE  /\ Workers \in Nat /\ Workers' \in Nat /\ Workers' <= Workers + 1
         /\ (k \notin 1..Len(calls) => Workers' <= Workers)
<1> DEFINE S == {n \in Busy : Bounded(calls[n])}
           T == {n \in Busy' : Bounded(calls[n])}
<1>1. /\ Busy = {n \in 1..Len(calls) : work[n] = "busy"}
      /\ Busy' = {n \in 1..Len(calls) : work'[n] = "busy"}
  BY DEF Busy, Typed
<1>2. Len(calls) \in Nat
  BY Calls
<1>3. IsFiniteSet(1..Len(calls))
  BY <1>2, FS_Interval
<1>4. S \subseteq 1..Len(calls) /\ T \subseteq 1..Len(calls)
  BY <1>1
<1>5. IsFiniteSet(S) /\ IsFiniteSet(T)
  BY <1>3, <1>4, FS_Subset
<1>6. T \subseteq S \cup {k}
  BY <1>1
<1>7. IsFiniteSet(S \cup {k}) /\ Cardinality(S \cup {k}) <= Cardinality(S) + 1
  <2>1. IsFiniteSet(S \cup {k}) /\ Cardinality(S \cup {k}) = (IF k \in S THEN Cardinality(S) ELSE Cardinality(S) + 1)
    BY <1>5, FS_AddElement
  <2>2. Cardinality(S) \in Nat
    BY <1>5, FS_CardinalityType
  <2> QED
    BY <2>1, <2>2
<1>8. Cardinality(T) <= Cardinality(S \cup {k})
  BY <1>6, <1>7, FS_Subset
<1>9. k \notin 1..Len(calls) => T \subseteq S
  BY <1>4, <1>6
<1>10. k \notin 1..Len(calls) => Cardinality(T) <= Cardinality(S)
  BY <1>5, <1>9, FS_Subset
<1>11. Cardinality(S) \in Nat /\ Cardinality(T) \in Nat /\ Cardinality(S \cup {k}) \in Nat
  BY <1>5, <1>7, FS_CardinalityType
<1>12. Workers = Cardinality(S) /\ Workers' = Cardinality(T)
  BY DEF Workers
<1> HIDE DEF S, T
<1> QED
  BY <1>7, <1>8, <1>10, <1>11, <1>12

\* Workers is a number.
LEMMA WorkersNat == ASSUME Typed PROVE Workers \in Nat
<1>1. Len(calls) \in Nat /\ Busy \subseteq 1..Len(calls)
  BY Calls
<1>2. IsFiniteSet(1..Len(calls))
  BY <1>1, FS_Interval
<1>3. IsFiniteSet({n \in Busy : Bounded(calls[n])})
  BY <1>1, <1>2, FS_Subset
<1> QED
  BY <1>3, FS_CardinalityType DEF Workers

\* Where no call of a kind that counts is busy after a step there are no workers; where one call is,
\* at most one.
LEMMA FewLater ==
  ASSUME Typed', UNCHANGED calls
  PROVE  /\ (\A n \in 1..Len(calls) : work'[n] = "busy" => ~Bounded(calls[n])) => Workers' = 0
         /\ \A k : (\A n \in 1..Len(calls) : work'[n] = "busy" => n = k) => Workers' <= 1
<1> DEFINE S == {n \in Busy' : Bounded(calls[n])}
<1>1. Busy' = {n \in 1..Len(calls) : work'[n] = "busy"}
  BY DEF Busy, Typed
<1>2. ASSUME \A n \in 1..Len(calls) : work'[n] = "busy" => ~Bounded(calls[n]) PROVE Workers' = 0
  <2>1. S = {}
    BY <1>1, <1>2
  <2> QED
    BY <2>1, FS_EmptySet DEF Workers
<1>3. ASSUME NEW k, \A n \in 1..Len(calls) : work'[n] = "busy" => n = k PROVE Workers' <= 1
  <2>1. S \subseteq {k}
    BY <1>1, <1>3
  <2>2. IsFiniteSet({k}) /\ Cardinality({k}) = 1
    BY FS_Singleton
  <2>3. Cardinality(S) <= 1
    BY <2>1, <2>2, FS_Subset
  <2> QED
    BY <2>3 DEF Workers
<1> QED
  BY <1>2, <1>3

-----------------------------------------------------------------------------
(***************************************************************************)
(* The script's thread and the gateway.                                    *)
(***************************************************************************)
\* A step of the thread or the gateway leaves the batch as it was.
LEMMA BatchKept == ASSUME BatchInv, UNCHANGED <<batchVars, at, work, cancels>> PROVE BatchInv'
<1> USE DEF batchVars, BatchInv
<1>1. Typed'
  BY DEF Typed
<1>2. Segment'
  BY DEF Segment, Rest
<1>3. Running'
  BY DEF Running, Rest
<1>4. Results'
  BY DEF Results
<1>5. Refusals'
  BY DEF Refusals, RefusalReachesBarriers
<1>6. Workers' <= Capacity
  BY DEF Workers, Busy
<1> QED
  BY <1>1, <1>2, <1>3, <1>4, <1>5, <1>6

\* A step of the batch leaves the thread and the gateway as they were.
LEMMA GateKept ==
  ASSUME GateInv, UNCHANGED scriptVars, at \in Scripting => at' \in Scripting \/ script \in {"none", "ended"},
         at' \in Scripting => at' = "script" \/ (at \in Scripting /\ at # "script"),
         at' \in {"returned", "raised"} => at' = at \/ serving = "none"
  PROVE  GateInv'
<1> USE DEF GateInv, scriptVars, threadVars, serveVars, gateVars
<1>1. GateTyped'
  BY DEF GateTyped
<1>2. Gates'
  BY DEF Gates, GateTyped
<1> QED
  BY <1>1, <1>2

\* The thread: its token, its lines, its requests and what it does with an answer.
LEMMA ThreadStep == ASSUME IInv, Thread PROVE IInv'
<1> USE DEF IInv
<1>1. UNCHANGED <<batchVars, at, work, cancels>>
  BY DEF Thread, TokenPublished, Line, ScriptEnds, Register, Post, Wake
<1>2. BatchInv'
  BY <1>1, BatchKept
<1>3. MaxRequests \in Nat /\ requests \in 0..MaxRequests
  BY ToolRunnerAssumption DEF GateInv, GateTyped
<1>4. CASE TokenPublished
  <2>1. GateTyped'
    BY <1>4 DEF TokenPublished, GateInv, GateTyped, serveVars, gateVars
  <2>2. Gates'
    BY <1>1, <1>4 DEF TokenPublished, GateInv, Gates, serveVars, gateVars, NoNested
  <2> QED
    BY <1>2, <2>1, <2>2 DEF GateInv
<1>5. CASE Line
  <2>1. requests' \in 0..MaxRequests
    BY <1>3, <1>5 DEF Line
  <2>2. GateTyped'
    BY <1>5, <2>1 DEF Line, GateInv, GateTyped, serveVars, gateVars
  <2>3. serving = "none" /\ nested = NoNested /\ UNCHANGED <<serving, nested, open, future, posted>>
    BY <1>5 DEF Line, GateInv, Gates, serveVars, gateVars
  <2>4. nested'.busy <= Capacity
    BY <2>3, ToolRunnerAssumption DEF NoNested
  <2>5. Gates'
    BY <1>1, <1>5, <2>3, <2>4 DEF Line, GateInv, Gates
  <2> QED
    BY <1>2, <2>2, <2>5 DEF GateInv
<1>6. CASE ScriptEnds
  <2>1. GateTyped'
    BY <1>6 DEF ScriptEnds, GateInv, GateTyped, serveVars, gateVars
  <2>2. Gates'
    BY <1>1, <1>6 DEF ScriptEnds, GateInv, Gates, serveVars, gateVars
  <2> QED
    BY <1>2, <2>1, <2>2 DEF GateInv
<1>7. CASE Register
  <2>1. GateTyped'
    BY <1>7 DEF Register, GateInv, GateTyped, serveVars, gateVars
  <2>2. Gates'
    BY <1>1, <1>7 DEF Register, GateInv, Gates, serveVars, gateVars
  <2> QED
    BY <1>2, <2>1, <2>2 DEF GateInv
<1>8. CASE Post
  <2>1. GateTyped'
    BY <1>8 DEF Post, GateInv, GateTyped, serveVars, gateVars
  <2>2. Gates'
    BY <1>1, <1>8 DEF Post, GateInv, Gates, serveVars, gateVars
  <2> QED
    BY <1>2, <2>1, <2>2 DEF GateInv
<1>9. CASE Wake
  <2>1. GateTyped'
    BY <1>9 DEF Wake, GateInv, GateTyped, serveVars, gateVars
  <2>2. Gates'
    BY <1>1, <1>9 DEF Wake, GateInv, Gates, serveVars, gateVars
  <2> QED
    BY <1>2, <2>1, <2>2 DEF GateInv
<1> QED
  BY <1>4, <1>5, <1>6, <1>7, <1>8, <1>9 DEF Thread

\* A request reaches the loop: it is served if the gateway is open, and refused if it is not.
LEMMA AcceptStep == ASSUME IInv, Accept PROVE IInv'
<1> USE DEF IInv
<1>1. UNCHANGED <<batchVars, at, work, cancels>> /\ UNCHANGED <<script, request, requests, token, open>>
      /\ posted /\ posted' = FALSE
  BY DEF Accept, threadVars, gateVars
<1>2. BatchInv'
  BY <1>1, BatchKept
<1>3. CASE open
  <2>1. /\ serving' \in {"confirm", "work"} /\ nested' = [queued |-> Len(request), busy |-> 0]
        /\ UNCHANGED future
    BY <1>3 DEF Accept
  <2>2. Len(request) \in 0..2
    BY DEF GateInv, GateTyped
  <2>3. nested' \in [queued : 0..2, busy : 0..2] /\ nested'.busy = 0 /\ nested'.queued + nested'.busy <= 2
    BY <2>1, <2>2
  <2>4. GateTyped'
    BY <1>1, <2>1, <2>3 DEF GateInv, GateTyped
  <2>5. nested'.busy <= Capacity
    BY <2>3, ToolRunnerAssumption
  <2>6. script = "waiting" /\ future = "pending"
    BY <1>1, <1>3 DEF GateInv, Gates
  <2>7. at \in Scripting
    BY <2>6 DEF GateInv, Gates
  <2>8. at' \notin {"returned", "raised"}
    BY <1>1, <2>7 DEF Scripting
  <2>9. Gates'
    BY <1>1, <2>1, <2>5, <2>6, <2>7, <2>8 DEF GateInv, Gates
  <2> QED
    BY <1>2, <2>4, <2>9 DEF GateInv
<1>4. CASE ~open
  <2>1. future' = (IF future = "pending" THEN "cancelled" ELSE future) /\ UNCHANGED <<serving, nested>>
    BY <1>4 DEF Accept, serveVars
  <2>2. GateTyped'
    BY <1>1, <2>1 DEF GateInv, GateTyped
  <2>3. Gates'
    BY <1>1, <1>4, <2>1 DEF GateInv, Gates
  <2> QED
    BY <1>2, <2>2, <2>3 DEF GateInv
<1> QED
  BY <1>3, <1>4

\* The gateway's task ends, and answers the thread it served.
LEMMA SettleStep ==
  ASSUME IInv, NEW outcome \in {"ok", "refused", "cancelled"}, Settle(outcome), serving # "none",
         UNCHANGED <<batchVars, at, work, cancels>>, UNCHANGED <<threadVars, gateVars, posted>>
  PROVE  IInv'
<1> USE DEF IInv
<1>1. BatchInv'
  BY BatchKept
<1>2. /\ future' \in {outcome, future} /\ serving' = "none" /\ nested' = NoNested
      /\ UNCHANGED <<script, request, requests, token, open, posted>>
  BY DEF Settle, threadVars, gateVars
<1>3. NoNested \in [queued : 0..2, busy : 0..2] /\ NoNested.queued + NoNested.busy <= 2 /\ NoNested.busy <= Capacity
  BY ToolRunnerAssumption DEF NoNested
<1>4. GateTyped'
  BY <1>2, <1>3 DEF GateInv, GateTyped
<1>5. ~posted /\ script = "waiting"
  BY DEF GateInv, Gates
<1>6. Gates'
  BY <1>2, <1>3, <1>5 DEF GateInv, Gates
<1> QED
  BY <1>1, <1>4, <1>6 DEF GateInv

\* Nested calls start within the capacity, and end.
LEMMA NestedStep == ASSUME IInv, NestedStart \/ NestedFinish \/ NestedApprove PROVE IInv'
<1> USE DEF IInv
<1>1. UNCHANGED <<batchVars, at, work, cancels>> /\ UNCHANGED <<script, request, requests, token, open, future, posted>>
  BY DEF NestedStart, NestedFinish, NestedApprove, threadVars, gateVars
<1>2. BatchInv'
  BY <1>1, BatchKept
<1>3. nested \in [queued : 0..2, busy : 0..2] /\ nested.queued + nested.busy <= 2
  BY DEF GateInv, GateTyped
<1>4. Workers \in Nat /\ Capacity \in Nat
  BY ToolRunnerAssumption, WorkersNat DEF BatchInv
<1>5. CASE NestedStart
  <2>1. nested' = [queued |-> nested.queued - 1, busy |-> nested.busy + 1] /\ nested.queued > 0
        /\ serving = "work" /\ UNCHANGED serving /\ (request = <<"bash">> \/ Workers + nested.busy < Capacity)
    BY <1>5 DEF NestedStart
  <2>2. nested' \in [queued : 0..2, busy : 0..2] /\ nested'.queued + nested'.busy <= 2
        /\ nested'.busy = nested.busy + 1
    BY <1>3, <2>1
  <2>3. GateTyped'
    BY <1>1, <2>1, <2>2 DEF GateInv, GateTyped
  <2>4. request # <<"bash">> => nested'.busy <= Capacity
    BY <1>3, <1>4, <2>1, <2>2
  <2>5. Gates'
    BY <1>1, <2>1, <2>4 DEF GateInv, Gates
  <2> QED
    BY <1>2, <2>3, <2>5 DEF GateInv
<1>6. CASE NestedFinish
  <2>1. nested' = [nested EXCEPT !.busy = @ - 1] /\ nested.busy > 0 /\ UNCHANGED serving
    BY <1>6 DEF NestedFinish
  <2>2. nested' \in [queued : 0..2, busy : 0..2] /\ nested'.queued + nested'.busy <= 2
        /\ nested'.busy = nested.busy - 1
    BY <1>3, <2>1
  <2>3. GateTyped'
    BY <1>1, <2>1, <2>2 DEF GateInv, GateTyped
  <2>4. request # <<"bash">> => nested'.busy <= Capacity
    <3>1. request # <<"bash">> => nested.busy <= Capacity
      BY DEF GateInv, Gates
    <3> QED
      BY <1>3, <1>4, <2>2, <3>1
  <2>5. serving # "none"
    BY <2>1 DEF GateInv, Gates, NoNested
  <2>6. Gates'
    BY <1>1, <2>1, <2>4, <2>5 DEF GateInv, Gates
  <2> QED
    BY <1>2, <2>3, <2>6 DEF GateInv
<1>7. CASE NestedApprove
  <2>1. serving = "confirm" /\ serving' = "work" /\ UNCHANGED nested
    BY <1>7 DEF NestedApprove
  <2>2. GateTyped'
    BY <1>1, <2>1 DEF GateInv, GateTyped
  <2>3. Gates'
    BY <1>1, <2>1 DEF GateInv, Gates
  <2> QED
    BY <1>2, <2>2, <2>3 DEF GateInv
<1> QED
  BY <1>5, <1>6, <1>7

\* The user refuses the nested calls, or they are all done.
LEMMA ServedStep == ASSUME IInv, Served \/ NestedRefuse PROVE IInv'
<1>1. serving # "none" /\ (\E outcome \in {"ok", "refused", "cancelled"} : Settle(outcome))
      /\ UNCHANGED <<batchVars, at, work, cancels>> /\ UNCHANGED <<threadVars, gateVars, posted>>
  BY DEF Served, NestedRefuse
<1> QED
  BY <1>1, SettleStep

-----------------------------------------------------------------------------
(***************************************************************************)
(* run() goes from one await to the next, and no call starts or ends.      *)
(***************************************************************************)
\* Nothing is busy, and nothing waits for capacity.
NoneBusy == \A n \in 1..Len(calls) : work[n] # "busy"
NoneQueued == \A n \in 1..Len(calls) : work[n] # "queued"

LEMMA AtMoves ==
  ASSUME BatchInv, UNCHANGED <<batchVars, work>>, cancels' \in 0..MaxCancels, at' \in Awaits,
         at' = "returned" => i = Len(calls) + 1,
         at' \in Parallel => at \in Parallel, at' \in Serials => at \in Serials,
         at' \in Resting => NoneBusy, NoneQueued, at' \notin {"call", "stop", "children"},
         at' = "publish" => \A n \in Rest : work[n] \in {"ok", "failed"},
         at' \in Scripting => at \in Scripting
  PROVE  BatchInv'
<1> USE DEF BatchInv, batchVars
<1>1. Typed'
  BY DEF Typed
<1>2. Segment'
  <2>1. Rest' = Rest
    BY DEF Rest
  <2> QED
    BY <2>1 DEF Segment
<1>3. Running'
  <2>1. Rest' = Rest
    BY DEF Rest
  <2>2. at' \in Resting => \A n \in 1..Len(calls) : work[n] # "busy"
    BY DEF NoneBusy
  <2>3. at' \in Scripting => calls[i] = "script" /\ \A n \in 1..Len(calls) : work[n] = "busy" => n = i
    BY DEF Running
  <2> QED
    BY <2>1, <2>2, <2>3 DEF Running, NoneQueued
<1>4. Results'
  BY DEF Results
<1>5. Refusals'
  BY DEF Refusals, RefusalReachesBarriers
<1>6. Workers' <= Capacity
  BY DEF Workers, Busy
<1> QED
  BY <1>1, <1>2, <1>3, <1>4, <1>5, <1>6

\* At an await of its own, run() has no call busy and none queued.
LEMMA AtRest == ASSUME BatchInv, at \in Resting PROVE NoneBusy /\ NoneQueued
BY DEF BatchInv, Running, NoneBusy, NoneQueued, Resting

\* Only the children of a parallel segment wait for capacity.
LEMMA NotQueued == ASSUME BatchInv, at # "children" PROVE NoneQueued
BY DEF BatchInv, Running, NoneQueued

\* The gateway closes and run() is over: its answer to a thread still waiting is a cancellation.
LEMMA LeaveStep == ASSUME IInv, Leave PROVE IInv'
<1> USE DEF IInv
<1>1. /\ at \in {"close", "next"} /\ serving = "none" /\ open' = FALSE
      /\ at' \in {"raised", "returned"} /\ (at' = "returned" => at = "next" /\ i > Len(calls))
      /\ future' = (IF future = "pending" THEN "cancelled" ELSE future)
      /\ UNCHANGED <<batchVars, work, cancels>>
      /\ UNCHANGED <<script, request, requests, serving, nested, posted, token>>
  BY DEF Leave, threadVars, serveVars
<1>2. NoneBusy /\ NoneQueued
  BY <1>1, AtRest DEF Resting
<1>3. i > Len(calls) => i = Len(calls) + 1
  <2>1. i \in 1..(Len(calls) + 1) /\ Len(calls) \in Nat
    BY Calls DEF BatchInv, Typed
  <2> QED
    BY <2>1
<1>4. cancels' \in 0..MaxCancels
  BY <1>1 DEF BatchInv, Typed
<1>5. at' \in Awaits /\ at' \notin Parallel \cup Serials \cup {"stop"}
  BY <1>1 DEF Awaits, Parallel, Serials, Scripting
<1>6. BatchInv'
  BY <1>1, <1>2, <1>3, <1>4, <1>5, AtMoves DEF Parallel, Serials
<1>7. GateTyped'
  BY <1>1 DEF GateInv, GateTyped
<1>8. at \notin Scripting /\ at' \notin Scripting
  BY <1>1 DEF Scripting
<1>9. Gates'
  BY <1>1, <1>8 DEF GateInv, Gates
<1> QED
  BY <1>6, <1>7, <1>9 DEF GateInv

\* Steps of run() from one await to another.
LEMMA MoveStep ==
  ASSUME IInv, Gathered \/ Stopped \/ Planned \/ Ask \/ CancelWait \/ CancelAgain
  PROVE  IInv'
<1> USE DEF IInv
<1>1. UNCHANGED <<batchVars, work, scriptVars>>
  BY DEF Gathered, Stopped, Planned, Ask, CancelWait, CancelAgain
<1>2. cancels \in 0..MaxCancels /\ MaxCancels \in Nat
  BY ToolRunnerAssumption DEF BatchInv, Typed
<1>3. cancels' \in 0..MaxCancels
  <2>1. cancels' = cancels \/ (cancels < MaxCancels /\ cancels' = cancels + 1)
    BY DEF Gathered, Stopped, Planned, Ask, CancelWait, CancelAgain, Cancels
  <2> HIDE DEF IInv
  <2> QED
    BY <1>2, <2>1
<1> USE DEF Parallel, Serials, Scripting, Resting, Awaits
<1>4. CASE Gathered
  <2>1. at = "children" /\ at' = "publish" /\ (\A n \in Rest : work[n] \in {"ok", "failed"})
    BY <1>4 DEF Gathered, Rest
  <2>2. NoneBusy /\ NoneQueued
    <3>1. \A n \in 1..Len(calls) : work[n] = "busy" => n \in Rest
      BY <2>1 DEF BatchInv, Running
    <3>2. NoneBusy
      BY <2>1, <3>1 DEF NoneBusy
    <3>3. NoneQueued
      <4>1. \A n \in 1..Len(calls) : work[n] = "queued" => n \in Rest
        BY <2>1 DEF BatchInv, Running
      <4> QED
        BY <2>1, <4>1 DEF NoneQueued
    <3> QED
      BY <3>2, <3>3
  <2>3. BatchInv'
    BY <1>1, <1>3, <2>1, <2>2, AtMoves
  <2>4. GateInv'
    BY <1>1, <2>1, GateKept
  <2> QED
    BY <2>3, <2>4
<1>5. CASE Stopped
  <2>1. at = "stop" /\ at' = "close" /\ Busy = {}
    BY <1>5 DEF Stopped
  <2>2. NoneBusy /\ NoneQueued
    BY <2>1, Calls, NotQueued DEF NoneBusy, BatchInv
  <2>3. BatchInv'
    BY <1>1, <1>3, <2>1, <2>2, AtMoves
  <2>4. GateInv'
    BY <1>1, <2>1, GateKept
  <2> QED
    BY <2>3, <2>4
<1>6. CASE Planned \/ Ask
  <2>1. at \in {"plan", "serial"} /\ at' \in {"serial", "confirm"}
    BY <1>6 DEF Planned, Ask
  <2>2. NoneBusy /\ NoneQueued
    BY <2>1, AtRest
  <2>3. BatchInv'
    BY <1>1, <1>3, <2>1, <2>2, AtMoves
  <2>4. GateInv'
    BY <1>1, <2>1, GateKept
  <2> QED
    BY <2>3, <2>4
<1>7. CASE CancelWait
  <2>1. at \in {"plan", "confirm", "store", "publish"} /\ at' = "close"
    BY <1>7 DEF CancelWait
  <2>2. NoneBusy /\ NoneQueued
    BY <2>1, AtRest
  <2>3. BatchInv'
    BY <1>1, <1>3, <2>1, <2>2, AtMoves
  <2>4. GateInv'
    BY <1>1, <2>1, GateKept
  <2> QED
    BY <2>3, <2>4
<1>8. CASE CancelAgain
  <2>1. at = "unwind" /\ at' = "unwind again"
    BY <1>8 DEF CancelAgain
  <2>2. NoneQueued
    BY <2>1, NotQueued
  <2>3. BatchInv'
    BY <1>1, <1>3, <2>1, <2>2, AtMoves
  <2>4. GateInv'
    BY <1>1, <2>1, GateKept
  <2> QED
    BY <2>3, <2>4
<1> QED
  BY <1>4, <1>5, <1>6, <1>7, <1>8

-----------------------------------------------------------------------------
(***************************************************************************)
(* Segments open; calls start and end.                                     *)
(***************************************************************************)
\* A step that starts or ends calls leaves the results alone.
LEMMA ResultsKept ==
  ASSUME BatchInv, UNCHANGED <<calls, i, messages, seen>>, (refused => refused'),
         at' # "returned"
  PROVE  Results' /\ Refusals'
<1> USE DEF BatchInv
<1>1. Results'
  BY DEF Results
<1>2. Refusals'
  BY DEF Refusals, RefusalReachesBarriers
<1> QED
  BY <1>1, <1>2

\* Neighbouring reads become children: the native ones run at once, the others wait for capacity.
LEMMA OpenParallelStep == ASSUME IInv, OpenParallel PROVE IInv'
<1> USE DEF IInv
<1> DEFINE e == SegmentEnd(Together, i)
<1>1. /\ at = "next" /\ i <= Len(calls) /\ ~refused /\ e - i >= 2 /\ end' = e /\ at' = "children"
      /\ work' = [n \in DOMAIN calls |-> IF n \in i..(end' - 1)
                    THEN IF Bounded(calls[n]) THEN "queued" ELSE "busy" ELSE work[n]]
      /\ UNCHANGED <<calls, i, refused, messages, seen, planned, outdated, cancels>> /\ UNCHANGED scriptVars
  BY DEF OpenParallel, Choosing, InParallel
<1>2. calls \in Seq(Kinds) /\ i \in 1..Len(calls) /\ Len(calls) \in Nat /\ DOMAIN calls = 1..Len(calls)
  BY <1>1, Calls DEF BatchInv, Typed
<1>3. e \in i..(Len(calls) + 1) /\ (\A m \in i..(e - 1) : calls[m] \in Together)
  BY <1>2, SegmentEnds
<1>4. NoneBusy /\ NoneQueued
  BY <1>1, AtRest DEF Resting
<1> HIDE DEF e
<1>5. i < end' /\ end' \in 1..(Len(calls) + 1)
  BY <1>1, <1>2, <1>3
<1>6. Rest' = i..(e - 1)
  BY <1>1 DEF Rest
<1>7. \A m \in Rest' : m \in 1..Len(calls) /\ ParallelSafe(calls[m])
  BY <1>2, <1>3, <1>6, Calls, KindFacts DEF BatchInv
<1>8. \A n \in 1..Len(calls) :
        work'[n] = IF n \in Rest' THEN IF Bounded(calls[n]) THEN "queued" ELSE "busy" ELSE work[n]
  BY <1>1, <1>2, <1>6
<1>9. Typed'
  <2>1. work' \in [1..Len(calls) -> {"idle", "queued", "busy", "ok", "failed"}]
    BY <1>1, <1>2 DEF BatchInv, Typed
  <2> QED
    BY <1>1, <1>5, <2>1 DEF BatchInv, Typed, Awaits
<1>10. Segment'
  BY <1>1, <1>5, <1>7 DEF Segment, Parallel, Serials, Scripting
<1>11. Running'
  <2>1. \A n \in 1..Len(calls) : work'[n] \in {"busy", "queued"} => n \in Rest'
    BY <1>4, <1>8 DEF NoneBusy, NoneQueued
  <2> QED
    BY <1>1, <2>1 DEF Running, Resting, Scripting
<1>12. Results' /\ Refusals'
  BY <1>1, ResultsKept
<1>13. Workers' <= Capacity
  <2>1. \A n \in 1..Len(calls) : work'[n] = "busy" => ~Bounded(calls[n])
    BY <1>4, <1>8 DEF NoneBusy
  <2>2. Workers' = 0
    BY <1>1, <1>9, <2>1, FewLater
  <2> QED
    BY <2>2, ToolRunnerAssumption
<1>14. GateInv'
  BY <1>1, GateKept DEF Scripting
<1> QED
  BY <1>9, <1>10, <1>11, <1>12, <1>13, <1>14 DEF BatchInv

\* Anything else opens a segment of one call at a time: a call that writes or shows alone in it, with
\* the edits of the segment in one plan.
LEMMA OpenSerialStep == ASSUME IInv, OpenSerial PROVE IInv'
<1> USE DEF IInv
<1> DEFINE e == IF Barrier(calls[i]) THEN i + 1 ELSE SegmentEnd(OneByOne, i)
<1>1. /\ at = "next" /\ i <= Len(calls) /\ ~refused /\ end' = e
      /\ planned' = {n \in i..(end' - 1) : calls[n] = "edit"} /\ outdated' = FALSE
      /\ at' \in {"serial", "plan"}
      /\ UNCHANGED <<calls, i, work, refused, messages, seen, cancels>> /\ UNCHANGED scriptVars
  BY DEF OpenSerial, Choosing
<1>2. calls \in Seq(Kinds) /\ i \in 1..Len(calls) /\ Len(calls) \in Nat /\ DOMAIN calls = 1..Len(calls)
  BY <1>1, Calls DEF BatchInv, Typed
<1>3. NoneBusy /\ NoneQueued
  BY <1>1, AtRest DEF Resting
<1>4. calls[i] \in Kinds /\ (\A n \in 1..Len(calls) : calls[n] \in Kinds)
  BY <1>2, Calls DEF BatchInv
<1>5. e \in (i + 1)..(Len(calls) + 1) /\ (e = i + 1 \/ \A n \in i..(e - 1) : ~Barrier(calls[n]))
  <2>1. CASE Barrier(calls[i])
    BY <1>2, <2>1
  <2>2. CASE ~Barrier(calls[i])
    <3>1. calls[i] \in OneByOne
      BY <1>4, <2>2, KindFacts
    <3>2. /\ SegmentEnd(OneByOne, i) \in i..(Len(calls) + 1) /\ i < SegmentEnd(OneByOne, i)
          /\ \A m \in i..(SegmentEnd(OneByOne, i) - 1) : calls[m] \in OneByOne
      BY <1>2, <3>1, SegmentEnds
    <3>3. e = SegmentEnd(OneByOne, i)
      BY <2>2
    <3> HIDE DEF e
    <3>4. \A m \in i..(e - 1) : m \in 1..Len(calls)
      BY <1>2, <3>2, <3>3
    <3>5. \A m \in i..(e - 1) : ~Barrier(calls[m])
      BY <1>4, <3>2, <3>3, <3>4, KindFacts
    <3> QED
      BY <1>2, <3>2, <3>3, <3>5
  <2> QED
    BY <2>1, <2>2
<1> HIDE DEF e
<1>6. Rest' = i..(e - 1) /\ i < end' /\ end' \in 1..(Len(calls) + 1)
  BY <1>1, <1>2, <1>5 DEF Rest
<1>7. planned' \subseteq 1..Len(calls)
  BY <1>1, <1>2, <1>5
<1>8. Typed'
  BY <1>1, <1>6, <1>7 DEF BatchInv, Typed, Awaits
<1>9. Segment'
  BY <1>1, <1>5, <1>6 DEF Segment, Parallel, Serials, Scripting
<1>10. Running'
  BY <1>1, <1>3 DEF Running, Resting, Scripting, NoneBusy, NoneQueued
<1>11. Results' /\ Refusals'
  BY <1>1, ResultsKept
<1>12. Workers' <= Capacity
  BY <1>1 DEF BatchInv, Workers, Busy
<1>13. GateInv'
  BY <1>1, GateKept DEF Scripting
<1> QED
  BY <1>8, <1>9, <1>10, <1>11, <1>12, <1>13 DEF BatchInv

\* One child starts, or ends.
LEMMA ChildStep == ASSUME IInv, StartChild \/ FinishChild PROVE IInv'
<1> USE DEF IInv
<1>1. UNCHANGED <<batchVars, at, cancels>> /\ UNCHANGED scriptVars /\ at \in {"children", "stop"}
  BY DEF StartChild, FinishChild
<1>2. PICK k \in 1..Len(calls), value \in {"busy", "ok", "failed"} :
        /\ work' = [work EXCEPT ![k] = value]
        /\ value = "busy" => at = "children" /\ work[k] = "queued" /\ Workers + nested.busy < Capacity
        /\ value # "busy" => work[k] = "busy"
  BY Calls DEF StartChild, FinishChild, BatchInv
<1>3. work \in [1..Len(calls) -> {"idle", "queued", "busy", "ok", "failed"}]
  BY DEF BatchInv, Typed
<1>4. /\ work' \in [1..Len(calls) -> {"idle", "queued", "busy", "ok", "failed"}]
      /\ \A n \in 1..Len(calls) : n # k => work'[n] = work[n]
      /\ work'[k] = value
  BY <1>2, <1>3
<1>5. UNCHANGED <<calls, i, end, refused, messages, seen, planned, outdated>>
  BY <1>1 DEF batchVars
<1>6. Typed'
  BY <1>1, <1>4, <1>5 DEF BatchInv, Typed
<1>7. Segment'
  BY <1>1, <1>5 DEF BatchInv, Segment, Rest
<1>8. Running'
  <2>1. Rest' = Rest
    BY <1>5 DEF Rest
  <2>2. CASE at = "children"
    <3>1. \A n \in 1..Len(calls) : work[n] \in {"busy", "queued"} => n \in Rest
      BY <2>2 DEF BatchInv, Running
    <3>2. \A n \in 1..Len(calls) : work'[n] \in {"busy", "queued"} => n \in Rest'
      BY <1>2, <1>4, <2>1, <3>1
    <3> QED
      BY <1>1, <1>5, <2>2, <3>2 DEF Running, Resting, Scripting
  <2>3. CASE at = "stop"
    <3>1. \A n \in 1..Len(calls) : work'[n] = "busy" => work[n] = "busy"
      BY <1>2, <1>4, <2>3
    <3>2. \A n \in 1..Len(calls) : work'[n] # "queued"
      BY <1>2, <1>4, <2>3 DEF BatchInv, Running
    <3>3. \/ \A n \in 1..Len(calls) : work[n] = "busy" => ParallelSafe(calls[n])
          \/ \A n \in 1..Len(calls) : work[n] = "busy" => n = i
      BY <2>3 DEF BatchInv, Running
    <3> QED
      BY <1>1, <1>5, <2>3, <3>1, <3>2, <3>3 DEF Running, Resting, Scripting
  <2> QED
    BY <1>1, <2>2, <2>3
<1>9. Results' /\ Refusals'
  BY <1>1, <1>5, ResultsKept
<1>10. Workers' <= Capacity
  <2>1. Workers \in Nat /\ Workers' \in Nat /\ Workers' <= Workers + 1
    BY <1>4, <1>5, <1>6, WorkersGrow DEF BatchInv
  <2>2. Capacity \in Nat /\ nested.busy \in Nat /\ Workers <= Capacity
    BY ToolRunnerAssumption DEF BatchInv, GateInv, GateTyped
  <2>3. CASE value = "busy"
    BY <1>2, <2>1, <2>2, <2>3
  <2>4. CASE value # "busy"
    <3>1. \A n \in 1..Len(calls) : work'[n] = "busy" /\ n # 0 => work[n] = "busy"
      BY <1>2, <1>4, <2>4
    <3>2. 0 \notin 1..Len(calls)
      BY Calls DEF BatchInv
    <3>3. Workers' <= Workers
      BY <1>5, <1>6, <3>1, <3>2, WorkersGrow DEF BatchInv
    <3> QED
      BY <2>1, <2>2, <3>3
  <2> QED
    BY <2>3, <2>4
<1>11. GateInv'
  BY <1>1, GateKept DEF Scripting
<1> QED
  BY <1>6, <1>7, <1>8, <1>9, <1>10, <1>11 DEF BatchInv

\* The calls that may be busy are known: none but the one at hand.
LEMMA OneBusy ==
  ASSUME BatchInv, Typed', UNCHANGED calls, \A n \in 1..Len(calls) : work'[n] = "busy" => n = i
  PROVE  Workers' <= Capacity
<1>1. Workers' <= 1
  BY FewLater
<1>2. Workers' \in Nat
  BY WorkersGrow DEF BatchInv
<1> QED
  BY <1>1, <1>2, ToolRunnerAssumption

\* The call at hand starts: its own segment has nothing else running.
LEMMA StartStep == ASSUME IInv, Start PROVE IInv'
<1> USE DEF IInv
<1>1. /\ at \in {"serial", "confirm"}
      /\ outdated' = (outdated \/ Writes(calls[i]))
      /\ work' = [work EXCEPT ![i] = "busy"]
      /\ UNCHANGED <<calls, i, end, refused, messages, seen, planned, cancels>>
      /\ UNCHANGED <<request, serving, nested, open, future, posted>>
  BY DEF Start, serveVars
<1>2. /\ calls[i] = "script" => at' = "script" /\ script' = "starting" /\ token' = FALSE /\ requests' = 0
      /\ calls[i] # "script" => at' = "call" /\ UNCHANGED <<script, token, requests>>
  BY DEF Start
<1>3. i \in 1..Len(calls) /\ i < end /\ i \in Rest /\ Rest \subseteq 1..Len(calls)
  <2>1. i \in 1..(Len(calls) + 1) /\ end \in 1..(Len(calls) + 1) /\ Len(calls) \in Nat
    BY Calls DEF BatchInv, Typed
  <2>2. i < end
    BY <1>1 DEF BatchInv, Segment, Serials
  <2> QED
    BY <2>1, <2>2 DEF Rest
<1>4. NoneBusy /\ NoneQueued
  BY <1>1, AtRest DEF Resting
<1>5. /\ work' \in [1..Len(calls) -> {"idle", "queued", "busy", "ok", "failed"}]
      /\ \A n \in 1..Len(calls) : n # i => work'[n] = work[n]
      /\ work'[i] = "busy"
  BY <1>1, <1>3 DEF BatchInv, Typed
<1>6. outdated' \in BOOLEAN /\ at' \in {"script", "call"}
  BY <1>1, <1>2 DEF BatchInv, Typed
<1>7. Typed'
  BY <1>1, <1>5, <1>6 DEF BatchInv, Typed, Awaits
<1>8. Segment'
  <2>1. Rest' = Rest
    BY <1>1 DEF Rest
  <2>2. \A n \in Rest : calls[n] = "edit" => n \in planned /\ ~outdated'
    <3> SUFFICES ASSUME NEW n \in Rest, calls[n] = "edit" PROVE n \in planned /\ ~outdated'
      OBVIOUS
    <3>1. n \in planned /\ ~outdated
      BY <1>1 DEF BatchInv, Segment, Serials
    <3>2. end = i + 1 \/ \A m \in Rest : ~Barrier(calls[m])
      BY <1>1 DEF BatchInv, Segment, Serials
    <3>3. ~Writes(calls[i])
      <4>1. calls[i] \in Kinds
        BY <1>3, Calls DEF BatchInv
      <4>2. CASE end = i + 1
        <5>1. n = i
          BY <1>3, <4>2, Calls DEF Rest, BatchInv, Typed
        <5> QED
          BY <4>1, <5>1, KindFacts
      <4>3. CASE \A m \in Rest : ~Barrier(calls[m])
        BY <1>3, <4>1, <4>3, KindFacts
      <4> QED
        BY <3>2, <4>2, <4>3
    <3> QED
      BY <1>1, <3>1, <3>3
  <2> QED
    BY <1>1, <1>6, <2>1, <2>2 DEF BatchInv, Segment, Parallel, Serials, Scripting
<1>9. Running'
  BY <1>1, <1>2, <1>4, <1>5, <1>6 DEF Running, NoneBusy, NoneQueued, Resting, Scripting
<1>10. Results' /\ Refusals'
  BY <1>1, <1>6, ResultsKept
<1>11. Workers' <= Capacity
  BY <1>1, <1>4, <1>5, <1>7, OneBusy DEF NoneBusy
<1>12. script \in {"none", "ended"} /\ serving = "none"
  BY <1>1 DEF GateInv, Gates, Scripting
<1>13. requests' \in 0..MaxRequests /\ token' \in BOOLEAN
       /\ script' \in {"none", "ended", "starting"} /\ (at' # "script" => script' # "starting")
  <2>1. requests \in 0..MaxRequests /\ MaxRequests \in Nat /\ token \in BOOLEAN
    BY ToolRunnerAssumption DEF GateInv, GateTyped
  <2>2. CASE calls[i] = "script"
    <3>1. requests' = 0 /\ token' = FALSE /\ script' = "starting" /\ at' = "script"
      BY <1>2, <2>2
    <3>2. 0 \in 0..MaxRequests
      BY <2>1
    <3> QED
      BY <3>1, <3>2
  <2>3. CASE calls[i] # "script"
    BY <1>2, <1>12, <2>1, <2>3
  <2> QED
    BY <2>2, <2>3
<1>14. GateTyped'
  BY <1>1, <1>13 DEF GateInv, GateTyped
<1>15. posted /\ open => FALSE
  BY <1>12 DEF GateInv, Gates
<1>16. Gates'
  BY <1>1, <1>6, <1>12, <1>13, <1>15 DEF GateInv, Gates, Scripting
<1> QED
  BY <1>7, <1>8, <1>9, <1>10, <1>11, <1>14, <1>16 DEF BatchInv, GateInv

\* The call at hand has returned, or its script is over after a cancellation: nothing runs any more.
LEMMA EndStep ==
  ASSUME IInv, Returns \/ Joined
  PROVE  IInv'
<1> USE DEF IInv
<1>1. PICK value \in {"ok", "failed"} :
        /\ work' = [work EXCEPT ![i] = value]
        /\ at = "call" \/ (at \in Scripting /\ script = "ended")
        /\ at' \in {"store", "close"} /\ (at' = "close" => value = "failed")
        /\ UNCHANGED <<calls, i, end, refused, messages, seen, planned, outdated, cancels>> /\ UNCHANGED scriptVars
  BY DEF Returns, Joined, Scripting, batchVars
<1>2. \A n \in 1..Len(calls) : work[n] = "busy" => n = i
  BY <1>1 DEF BatchInv, Running
<1>3. NoneQueued
  BY <1>1, NotQueued DEF Scripting
<1>4. /\ work' \in [1..Len(calls) -> {"idle", "queued", "busy", "ok", "failed"}]
      /\ \A n \in 1..Len(calls) : work'[n] # "busy" /\ work'[n] # "queued"
  BY <1>1, <1>2, <1>3 DEF BatchInv, Typed, NoneQueued
<1>5. Typed'
  BY <1>1, <1>4 DEF BatchInv, Typed, Awaits
<1>6. Segment'
  BY <1>1 DEF BatchInv, Segment, Rest, Parallel, Serials, Scripting
<1>7. Running'
  BY <1>1, <1>4 DEF Running, Resting, Scripting
<1>8. Results' /\ Refusals'
  BY <1>1, ResultsKept
<1>9. Workers' <= Capacity
  BY <1>1, <1>4, <1>5, OneBusy
<1>10. GateInv'
  BY <1>1, GateKept DEF Scripting
<1> QED
  BY <1>5, <1>6, <1>7, <1>8, <1>9, <1>10 DEF BatchInv

\* A cancellation: what waits for capacity will not start, what runs is waited for.
LEMMA CancelWorkStep == ASSUME IInv, CancelWork PROVE IInv'
<1> USE DEF IInv
<1>1. /\ at \in {"children", "call"} /\ at' = "stop"
      /\ work' = [n \in DOMAIN calls |-> IF work[n] = "queued" THEN "idle" ELSE work[n]]
      /\ UNCHANGED <<calls, i, end, refused, messages, seen, planned, outdated>> /\ UNCHANGED scriptVars
  BY DEF CancelWork, batchVars
<1>2. cancels' \in 0..MaxCancels
  <2>1. cancels < MaxCancels /\ cancels' = cancels + 1
    BY DEF CancelWork, Cancels
  <2>2. cancels \in 0..MaxCancels /\ MaxCancels \in Nat
    BY ToolRunnerAssumption DEF BatchInv, Typed
  <2> HIDE DEF IInv
  <2> QED
    BY <2>1, <2>2
<1>3. /\ work' \in [1..Len(calls) -> {"idle", "queued", "busy", "ok", "failed"}]
      /\ \A n \in 1..Len(calls) : work'[n] # "queued" /\ (work'[n] = "busy" => work[n] = "busy")
  BY <1>1, Calls DEF BatchInv, Typed
<1>4. Typed'
  BY <1>1, <1>2, <1>3 DEF BatchInv, Typed, Awaits
<1>5. Segment'
  BY <1>1 DEF Segment, Parallel, Serials, Scripting
<1>6. Running'
  <2>1. CASE at = "children"
    <3>1. \A n \in Rest : ParallelSafe(calls[n])
      BY <2>1 DEF BatchInv, Segment, Parallel
    <3>2. \A n \in 1..Len(calls) : work[n] = "busy" => n \in Rest
      BY <2>1 DEF BatchInv, Running
    <3>3. \A n \in 1..Len(calls) : work'[n] = "busy" => ParallelSafe(calls[n])
      BY <1>3, <3>1, <3>2
    <3> QED
      BY <1>1, <1>3, <3>3 DEF Running, Resting, Scripting
  <2>2. CASE at = "call"
    <3>1. \A n \in 1..Len(calls) : work'[n] = "busy" => n = i
      BY <1>3, <2>2 DEF BatchInv, Running
    <3> QED
      BY <1>1, <1>3, <3>1 DEF Running, Resting, Scripting
  <2> QED
    BY <1>1, <2>1, <2>2
<1>7. Results' /\ Refusals'
  BY <1>1, ResultsKept
<1>8. Workers' <= Capacity
  <2>1. \A n \in 1..Len(calls) : work'[n] = "busy" /\ n # 0 => work[n] = "busy"
    BY <1>3
  <2>2. 0 \notin 1..Len(calls)
    BY Calls DEF BatchInv
  <2>3. Workers' <= Workers /\ Workers \in Nat /\ Workers' \in Nat
    BY <1>1, <1>4, <2>1, <2>2, WorkersGrow DEF BatchInv
  <2>4. Workers <= Capacity /\ Capacity \in Nat
    BY ToolRunnerAssumption DEF BatchInv
  <2> QED
    BY <2>3, <2>4
<1>9. GateInv'
  BY <1>1, GateKept DEF Scripting
<1> QED
  BY <1>4, <1>5, <1>6, <1>7, <1>8, <1>9 DEF BatchInv

\* A script is cancelled: its gateway closes before anything else is awaited.
LEMMA CancelScriptStep == ASSUME IInv, CancelScript PROVE IInv'
<1> USE DEF IInv
<1>1. /\ at \in {"script", "script cancelled"} /\ at' \in {"script cancelled", "unwind"}
      /\ token' = (script # "starting") /\ open' = FALSE
      /\ UNCHANGED <<batchVars, work>> /\ UNCHANGED <<script, request, requests, posted>>
  BY DEF CancelScript, threadVars
<1>2. cancels' \in 0..MaxCancels
  <2>1. cancels < MaxCancels /\ cancels' = cancels + 1
    BY DEF CancelScript, Cancels
  <2>2. cancels \in 0..MaxCancels /\ MaxCancels \in Nat
    BY ToolRunnerAssumption DEF BatchInv, Typed
  <2> HIDE DEF IInv
  <2> QED
    BY <2>1, <2>2
<1>3. NoneQueued
  BY <1>1, NotQueued
<1>4. at' \in Awaits /\ at' \notin Parallel /\ at' \in Serials /\ at \in Serials /\ at \in Scripting /\ at' \notin Resting
  BY <1>1 DEF Awaits, Parallel, Serials, Scripting, Resting
<1>5. at' \notin {"call", "stop", "children", "publish", "returned"}
  BY <1>1
<1>6. BatchInv'
  BY <1>1, <1>2, <1>3, <1>4, <1>5, AtMoves
<1>7. CASE serving = "none"
  <2>1. future' = (IF future = "pending" THEN "cancelled" ELSE future) /\ UNCHANGED <<serving, nested>>
    BY <1>7 DEF CancelScript, serveVars
  <2>2. GateTyped'
    BY <1>1, <2>1 DEF GateInv, GateTyped
  <2>3. Gates'
    BY <1>1, <1>7, <2>1 DEF GateInv, Gates, Scripting
  <2> QED
    BY <1>6, <2>2, <2>3 DEF GateInv
<1>8. CASE serving # "none"
  <2>1. serving' = "stop" /\ nested' = [nested EXCEPT !.queued = 0] /\ UNCHANGED future
    BY <1>8 DEF CancelScript
  <2>2. nested \in [queued : 0..2, busy : 0..2] /\ nested.queued + nested.busy <= 2
    BY DEF GateInv, GateTyped
  <2>3. nested' \in [queued : 0..2, busy : 0..2] /\ nested'.queued + nested'.busy <= 2 /\ nested'.busy = nested.busy
    BY <2>1, <2>2
  <2>4. GateTyped'
    BY <1>1, <2>1, <2>3 DEF GateInv, GateTyped
  <2>5. Gates'
    BY <1>1, <1>8, <2>1, <2>3 DEF GateInv, Gates, Scripting
  <2> QED
    BY <1>6, <2>4, <2>5 DEF GateInv
<1> QED
  BY <1>7, <1>8

\* The gateway's task has been waited for.
LEMMA UnwoundStep == ASSUME IInv, Unwound PROVE IInv'
<1> USE DEF IInv
<1>1. /\ at \in {"unwind", "unwind again"} /\ at' \in {"script cancelled", "join"} /\ serving = "none"
      /\ future' = (IF at = "unwind" /\ future = "pending" THEN "cancelled" ELSE future)
      /\ UNCHANGED <<batchVars, work, cancels>>
      /\ UNCHANGED <<script, request, requests, serving, nested, token, open, posted>>
  BY DEF Unwound, threadVars, serveVars, gateVars
<1>2. cancels' \in 0..MaxCancels
  BY <1>1 DEF BatchInv, Typed
<1>3. NoneQueued
  BY <1>1, NotQueued
<1>4. at' \in Awaits /\ at' \notin Parallel /\ at' \in Serials /\ at \in Serials /\ at \in Scripting /\ at' \notin Resting
  BY <1>1 DEF Awaits, Parallel, Serials, Scripting, Resting
<1>5. at' \notin {"call", "stop", "children", "publish", "returned"}
  BY <1>1
<1>6. BatchInv'
  BY <1>1, <1>2, <1>3, <1>4, <1>5, AtMoves
<1>7. GateTyped'
  BY <1>1 DEF GateInv, GateTyped
<1>8. Gates'
  <2>1. ~open
    BY <1>1 DEF GateInv, Gates, Scripting
  <2> QED
    BY <1>1, <2>1 DEF GateInv, Gates, Scripting
<1> QED
  BY <1>6, <1>7, <1>8 DEF GateInv

-----------------------------------------------------------------------------
(***************************************************************************)
(* A call has its result.                                                  *)
(***************************************************************************)
\* What a sequence with one more element is.
LEMMA Appended ==
  ASSUME NEW S, NEW s \in Seq(S), NEW e \in S
  PROVE  /\ Append(s, e) \in Seq(S) /\ Len(Append(s, e)) = Len(s) + 1
         /\ \A n \in 1..Len(s) : Append(s, e)[n] = s[n]
         /\ Append(s, e)[Len(s) + 1] = e
OBVIOUS

\* A result is appended for the call at hand, and an observation for an image that was shown.
LEMMA ResultAppended ==
  ASSUME Typed, Results, Refusals, NEW says \in Says, i \in 1..Len(calls),
         messages' = Append(messages, [id |-> i, says |-> says]), i' = i + 1, UNCHANGED calls,
         seen' = IF calls[i] = "view" /\ says = "ok" THEN Append(seen, i) ELSE seen,
         refused \/ says = "refused" => refused', Barrier(calls[i]) /\ refused => says = "skipped",
         at' # "returned"
  PROVE  /\ messages' \in Seq([id : 1..MaxCalls, says : Says]) /\ seen' \in Seq(1..MaxCalls)
         /\ Results' /\ Refusals'
<1> DEFINE m == [id |-> i, says |-> says]
<1>1. /\ Len(calls) \in Nat /\ Len(calls) <= MaxCalls /\ MaxCalls \in Nat /\ i \in Nat \ {0} /\ i <= MaxCalls
      /\ messages \in Seq([id : 1..MaxCalls, says : Says]) /\ seen \in Seq(1..MaxCalls)
      /\ Len(messages) = i - 1
  <2>1. MaxCalls \in Nat
    BY ToolRunnerAssumption
  <2>2. messages \in Seq([id : 1..MaxCalls, says : Says]) /\ seen \in Seq(1..MaxCalls) /\ Len(messages) = i - 1
    BY DEF Typed, Results
  <2> QED
    BY <2>1, <2>2, Calls
<1>2. m \in [id : 1..MaxCalls, says : Says] /\ m.id = i /\ m.says = says
  BY <1>1
<1> HIDE DEF m
<1>3. messages' = Append(messages, m)
  BY DEF m
<1>4. /\ messages' \in Seq([id : 1..MaxCalls, says : Says]) /\ Len(messages') = i
      /\ \A n \in 1..(i - 1) : messages'[n] = messages[n]
      /\ messages'[i] = m
  BY <1>1, <1>2, <1>3
<1>5. Len(seen) \in Nat /\ \A n \in 1..Len(seen) : seen[n] \in 1..MaxCalls
  BY <1>1
<1>6. Refusals'
  <2>1. \A n \in 1..Len(messages') : messages'[n].says = "refused" => refused'
    <3> SUFFICES ASSUME NEW n \in 1..Len(messages'), messages'[n].says = "refused" PROVE refused'
      OBVIOUS
    <3>1. CASE n = i
      BY <1>2, <1>4, <3>1
    <3>2. CASE n # i
      <4>1. n \in 1..Len(messages) /\ messages'[n] = messages[n]
        BY <1>1, <1>4, <3>2
      <4> QED
        BY <4>1 DEF Refusals
    <3> QED
      BY <3>1, <3>2
  <2>2. ASSUME NEW k \in DOMAIN messages', NEW n \in DOMAIN messages', k < n,
               messages'[k].says = "refused", Barrier(calls[n])
        PROVE  messages'[n].says = "skipped"
    <3>1. k \in 1..i /\ n \in 1..i /\ k \in 1..(i - 1) /\ DOMAIN messages = 1..(i - 1)
      BY <1>1, <1>4, <2>2
    <3>2. messages[k].says = "refused"
      BY <1>4, <2>2, <3>1
    <3>3. refused
      BY <1>1, <3>1, <3>2 DEF Refusals
    <3>4. CASE n = i
      BY <1>2, <1>4, <2>2, <3>3, <3>4
    <3>5. CASE n # i
      <4>1. n \in 1..(i - 1)
        BY <1>1, <3>1, <3>5
      <4>2. messages[n].says = "skipped"
        BY <2>2, <3>1, <3>2, <4>1 DEF Refusals, RefusalReachesBarriers
      <4> QED
        BY <1>4, <4>1, <4>2
    <3> QED
      BY <3>4, <3>5
  <2> QED
    BY <2>1, <2>2 DEF Refusals, RefusalReachesBarriers
<1>7. \A n \in 1..Len(messages') : messages'[n].id = n
  <2> SUFFICES ASSUME NEW n \in 1..Len(messages') PROVE messages'[n].id = n
    OBVIOUS
  <2>1. CASE n = i
    BY <1>2, <1>4, <2>1
  <2>2. CASE n # i
    <3>1. n \in 1..Len(messages) /\ messages'[n] = messages[n]
      BY <1>1, <1>4, <2>2
    <3> QED
      BY <3>1 DEF Results
  <2> QED
    BY <2>1, <2>2
<1>8. \A n \in 1..Len(seen) : seen[n] \in 1..(i - 1) /\ calls[seen[n]] = "view" /\ messages'[seen[n]].says = "ok"
  <2> SUFFICES ASSUME NEW n \in 1..Len(seen)
               PROVE  seen[n] \in 1..(i - 1) /\ calls[seen[n]] = "view" /\ messages'[seen[n]].says = "ok"
    OBVIOUS
  <2>1. seen[n] < i /\ calls[seen[n]] = "view" /\ messages[seen[n]].says = "ok"
    BY DEF Results
  <2>2. seen[n] \in 1..(i - 1)
    BY <1>1, <1>5, <2>1
  <2> QED
    BY <1>4, <2>1, <2>2
<1>9. \A k, n \in 1..Len(seen) : k < n => seen[k] < seen[n]
  BY DEF Results
<1>10. \A k \in 1..(i - 1) : calls[k] = "view" /\ messages'[k].says = "ok" => \E n \in 1..Len(seen) : seen[n] = k
  BY <1>4 DEF Results
<1>11. CASE calls[i] = "view" /\ says = "ok"
  <2>1. seen' = Append(seen, i)
    BY <1>11
  <2>2. /\ seen' \in Seq(1..MaxCalls) /\ Len(seen') = Len(seen) + 1
        /\ \A n \in 1..Len(seen) : seen'[n] = seen[n]
        /\ seen'[Len(seen) + 1] = i
    <3>1. i \in 1..MaxCalls /\ seen \in Seq(1..MaxCalls)
      BY <1>1
    <3>2. seen' = Append(seen, i)
      BY <2>1
    <3>3. /\ Append(seen, i) \in Seq(1..MaxCalls) /\ Len(Append(seen, i)) = Len(seen) + 1
          /\ \A n \in 1..Len(seen) : Append(seen, i)[n] = seen[n]
          /\ Append(seen, i)[Len(seen) + 1] = i
      BY <3>1, Appended
    <3> QED
      BY <3>2, <3>3, Zenon
  <2>3. \A n \in 1..Len(seen') : seen'[n] < i' /\ calls'[seen'[n]] = "view" /\ messages'[seen'[n]].says = "ok"
    <3> SUFFICES ASSUME NEW n \in 1..Len(seen')
                 PROVE  seen'[n] < i' /\ calls[seen'[n]] = "view" /\ messages'[seen'[n]].says = "ok"
      OBVIOUS
    <3>1. CASE n = Len(seen) + 1
      BY <1>1, <1>2, <1>4, <1>11, <2>2, <3>1
    <3>2. CASE n # Len(seen) + 1
      <4>1. n \in 1..Len(seen)
        BY <1>5, <2>2, <3>2
      <4>2. seen[n] \in 1..(i - 1) /\ calls[seen[n]] = "view" /\ messages'[seen[n]].says = "ok"
        BY <1>8, <4>1
      <4>3. seen'[n] = seen[n] /\ seen[n] < i'
        BY <1>1, <2>2, <4>1, <4>2
      <4> QED
        BY <4>2, <4>3
    <3> QED
      BY <3>1, <3>2
  <2>4. \A k, n \in 1..Len(seen') : k < n => seen'[k] < seen'[n]
    <3> SUFFICES ASSUME NEW k \in 1..Len(seen'), NEW n \in 1..Len(seen'), k < n PROVE seen'[k] < seen'[n]
      OBVIOUS
    <3>1. k \in 1..Len(seen) /\ seen'[k] = seen[k]
      BY <1>5, <2>2
    <3>2. CASE n = Len(seen) + 1
      BY <1>1, <1>8, <2>2, <3>1, <3>2
    <3>3. CASE n # Len(seen) + 1
      <4>1. n \in 1..Len(seen) /\ seen'[n] = seen[n]
        BY <1>5, <2>2, <3>3
      <4> QED
        BY <1>9, <3>1, <4>1
    <3> QED
      BY <3>2, <3>3
  <2>5. \A k \in 1..(i' - 1) : calls'[k] = "view" /\ messages'[k].says = "ok" => \E n \in 1..Len(seen') : seen'[n] = k
    <3> SUFFICES ASSUME NEW k \in 1..(i' - 1), calls[k] = "view", messages'[k].says = "ok"
                 PROVE  \E n \in 1..Len(seen') : seen'[n] = k
      OBVIOUS
    <3>1. CASE k = i
      <4>1. Len(seen) + 1 \in 1..Len(seen')
        BY <1>5, <2>2
      <4> QED
        BY <2>2, <3>1, <4>1
    <3>2. CASE k # i
      <4>1. k \in 1..(i - 1)
        BY <1>1, <3>2
      <4>2. PICK n \in 1..Len(seen) : seen[n] = k
        BY <1>10, <4>1
      <4>3. n \in 1..Len(seen') /\ seen'[n] = k
        BY <1>5, <2>2, <4>2
      <4> QED
        BY <4>3
    <3> QED
      BY <3>1, <3>2
  <2>6. Len(messages') = i' - 1
    BY <1>1, <1>4
  <2> QED
    BY <1>4, <1>6, <1>7, <2>2, <2>3, <2>4, <2>5, <2>6 DEF Results
<1>12. CASE ~(calls[i] = "view" /\ says = "ok")
  <2>1. seen' = seen
    BY <1>12
  <2>2. \A n \in 1..Len(seen) : seen[n] < i'
    BY <1>1, <1>5, <1>8
  <2>3. \A k \in 1..(i' - 1) : calls[k] = "view" /\ messages'[k].says = "ok" => \E n \in 1..Len(seen) : seen[n] = k
    <3> SUFFICES ASSUME NEW k \in 1..(i' - 1), calls[k] = "view", messages'[k].says = "ok"
                 PROVE  \E n \in 1..Len(seen) : seen[n] = k
      OBVIOUS
    <3>1. k # i
      BY <1>2, <1>4, <1>12
    <3>2. k \in 1..(i - 1)
      BY <1>1, <3>1
    <3> QED
      BY <1>10, <3>2
  <2>4. Len(messages') = i' - 1
    BY <1>1, <1>4
  <2>5. \A n \in 1..Len(seen') : seen'[n] < i' /\ calls'[seen'[n]] = "view" /\ messages'[seen'[n]].says = "ok"
    BY <1>8, <2>1, <2>2
  <2>6. \A k, n \in 1..Len(seen') : k < n => seen'[k] < seen'[n]
    BY <1>9, <2>1
  <2>7. \A k \in 1..(i' - 1) : calls'[k] = "view" /\ messages'[k].says = "ok" => \E n \in 1..Len(seen') : seen'[n] = k
    <3> SUFFICES ASSUME NEW k \in 1..(i' - 1), calls'[k] = "view", messages'[k].says = "ok"
                 PROVE  \E n \in 1..Len(seen') : seen'[n] = k
      OBVIOUS
    <3>1. calls[k] = "view"
      OBVIOUS
    <3>2. PICK n \in 1..Len(seen) : seen[n] = k
      BY <2>3, <3>1
    <3> QED
      BY <2>1, <3>2
  <2>8. Results'
    BY <1>7, <2>4, <2>5, <2>6, <2>7 DEF Results
  <2> QED
    BY <1>1, <1>4, <1>6, <2>1, <2>8
<1> QED
  BY <1>11, <1>12

\* A command, script, remote call or image at hand in a serial segment means that nothing was refused.
LEMMA BarrierFree ==
  ASSUME BatchInv, at \in Serials, i \in 1..Len(calls)
  PROVE  Barrier(calls[i]) => ~refused
<1>1. i < end /\ end \in Nat /\ i \in Nat
  BY Calls DEF BatchInv, Segment, Typed
<1>2. i \in Rest
  BY <1>1 DEF Rest
<1> QED
  BY <1>2 DEF BatchInv, Segment

\* The call at hand is answered: the segment goes on with what is left of it, or the next one is cut.
LEMMA AnswerStep ==
  ASSUME IInv, NEW says \in Says, NEW next \in {"next", "publish", "serial"}, Answer(says, next),
         UNCHANGED <<calls, end, planned, outdated, cancels>>, UNCHANGED scriptVars,
         i \in 1..Len(calls), at \in Scripting => script \in {"none", "ended"},
         next = "publish" => at = "publish" /\ says # "refused" /\ UNCHANGED work,
         next = "serial" => at \in Serials,
         work' \in [1..Len(calls) -> {"idle", "queued", "busy", "ok", "failed"}],
         \A n \in 1..Len(calls) : work'[n] # "busy" /\ work'[n] # "queued",
         refused' \in BOOLEAN, refused' <=> refused \/ says = "refused",
         Barrier(calls[i]) /\ refused => says = "skipped",
         seen' = IF calls[i] = "view" /\ says = "ok" THEN Append(seen, i) ELSE seen
  PROVE  IInv'
<1> USE DEF IInv
<1>1. /\ messages' = Append(messages, [id |-> i, says |-> says]) /\ i' = i + 1
      /\ at' = IF i' < end THEN next ELSE "next"
  BY DEF Answer
<1>2. at' \in {"next", "publish", "serial"} /\ (at' # "next" => i' < end /\ at' = next)
  BY <1>1
<1>3. /\ messages' \in Seq([id : 1..MaxCalls, says : Says]) /\ seen' \in Seq(1..MaxCalls)
      /\ Results' /\ Refusals'
  BY <1>1, <1>2, ResultAppended DEF BatchInv
<1>4. Len(calls) \in Nat /\ i' \in 1..(Len(calls) + 1) /\ end \in 1..(Len(calls) + 1) /\ i \in Nat
  BY <1>1, Calls DEF BatchInv, Typed
<1>5. Typed'
  BY <1>2, <1>3, <1>4 DEF BatchInv, Typed, Awaits
<1>6. Rest' \subseteq Rest
  BY <1>1, <1>4 DEF Rest
<1>7. Segment'
  <2>1. CASE at' = "next"
    BY <2>1 DEF Segment, Parallel, Serials, Scripting
  <2>2. CASE at' = "publish"
    <3>1. at = "publish" /\ i' < end /\ says # "refused"
      BY <1>2, <2>2
    <3>2. ~refused /\ \A n \in Rest : ParallelSafe(calls[n])
      BY <3>1 DEF BatchInv, Segment, Parallel
    <3> QED
      BY <1>6, <2>2, <3>1, <3>2 DEF Segment, Parallel, Serials, Scripting
  <2>3. CASE at' = "serial"
    <3>1. at \in Serials /\ i' < end
      BY <1>2, <2>3
    <3>2. end # i + 1
      BY <1>1, <1>4, <3>1
    <3>3. \A n \in Rest : ~Barrier(calls[n]) /\ (calls[n] = "edit" => n \in planned /\ ~outdated)
      BY <3>1, <3>2 DEF BatchInv, Segment
    <3>4. \A n \in Rest' : ~Barrier(calls[n]) /\ (calls[n] = "edit" => n \in planned /\ ~outdated)
      BY <1>6, <3>3
    <3> QED
      BY <2>3, <3>1, <3>4 DEF Segment, Parallel, Serials, Scripting
  <2> QED
    BY <1>2, <2>1, <2>2, <2>3
<1>8. Running'
  <2>1. at' = "publish" => \A n \in Rest' : work'[n] \in {"ok", "failed"}
    <3> SUFFICES ASSUME at' = "publish", NEW n \in Rest' PROVE work'[n] \in {"ok", "failed"}
      OBVIOUS
    <3>1. at = "publish" /\ work' = work
      BY <1>2
    <3>2. n \in Rest
      BY <1>6
    <3> QED
      BY <3>1, <3>2 DEF BatchInv, Running
  <2> QED
    BY <1>2, <2>1 DEF Running, Resting, Scripting
<1>9. Workers' <= Capacity
  BY <1>5, OneBusy
<1>10. GateInv'
  BY <1>2, GateKept DEF Scripting
<1> QED
  BY <1>3, <1>5, <1>7, <1>8, <1>9, <1>10 DEF BatchInv

\* Every action that gives a call its result.
LEMMA AnsweredStep ==
  ASSUME IInv, Skip \/ Echo \/ Publish \/ Reject \/ Refuse \/ Raises \/ Stored
  PROVE  IInv'
<1> USE DEF IInv
<1>0. work \in [1..Len(calls) -> {"idle", "queued", "busy", "ok", "failed"}] /\ refused \in BOOLEAN
  BY DEF BatchInv, Typed
<1>1. UNCHANGED <<calls, end, planned, outdated, cancels>> /\ UNCHANGED scriptVars
  BY DEF Skip, Echo, Publish, Reject, Refuse, Raises, Stored, AnswerFrame
<1>2. i \in 1..Len(calls) /\ calls[i] \in Kinds
  <2>1. i \in 1..(Len(calls) + 1) /\ end \in 1..(Len(calls) + 1) /\ Len(calls) \in Nat
    BY Calls DEF BatchInv, Typed
  <2>2. i <= Len(calls)
    <3>1. CASE Skip \/ Echo
      BY <3>1 DEF Skip, Echo, Choosing
    <3>2. CASE Publish \/ Reject \/ Refuse \/ Raises \/ Stored
      <4>1. at \in Parallel \cup Serials
        BY <3>2 DEF Publish, Reject, Refuse, Raises, Stored, Parallel, Serials, Scripting
      <4>2. i < end
        BY <4>1 DEF BatchInv, Segment
      <4> QED
        BY <2>1, <4>2
    <3> QED
      BY <3>1, <3>2
  <2> QED
    BY <2>1, <2>2, Calls DEF BatchInv
<1>3. at # "children" => NoneQueued
  BY NotQueued
<1>4. CASE Skip \/ Echo
  <2>1. /\ at = "next" /\ UNCHANGED <<work, refused, seen>>
        /\ \/ refused /\ Answer("skipped", "next")
           \/ ~refused /\ calls[i] = "echo" /\ Answer("ok", "next")
    BY <1>4 DEF Skip, Echo, Choosing
  <2>2. NoneBusy /\ NoneQueued
    BY <2>1, AtRest DEF Resting
  <2>3. \A n \in 1..Len(calls) : work'[n] # "busy" /\ work'[n] # "queued"
    BY <2>1, <2>2 DEF NoneBusy, NoneQueued
  <2>4. CASE refused
    BY <1>0, <1>1, <1>2, <2>1, <2>3, <2>4, AnswerStep DEF Says, Scripting
  <2>5. CASE ~refused
    BY <1>0, <1>1, <1>2, <2>1, <2>3, <2>5, AnswerStep DEF Says, Scripting
  <2> QED
    BY <2>4, <2>5
<1>5. CASE Publish
  <2>1. at = "publish" /\ Answer(work[i], "publish") /\ UNCHANGED <<work, refused, seen>>
    BY <1>5 DEF Publish
  <2>2. i \in Rest
    <3>1. i < end /\ i \in Nat /\ end \in Nat
      BY <2>1 DEF BatchInv, Segment, Parallel, Typed
    <3> QED
      BY <3>1 DEF Rest
  <2>3. work[i] \in {"ok", "failed"} /\ ~refused /\ ParallelSafe(calls[i])
    BY <2>1, <2>2 DEF BatchInv, Segment, Running, Parallel
  <2>4. calls[i] # "view"
    BY <1>2, <2>3, KindFacts
  <2>5. NoneBusy /\ NoneQueued
    BY <2>1, AtRest DEF Resting
  <2>6. \A n \in 1..Len(calls) : work'[n] # "busy" /\ work'[n] # "queued"
    BY <2>1, <2>5 DEF NoneBusy, NoneQueued
  <2>7. work[i] \in Says /\ work[i] # "refused"
    BY <2>3 DEF Says
  <2> QED
    BY <1>0, <1>1, <1>2, <2>1, <2>3, <2>4, <2>6, <2>7, AnswerStep DEF Scripting
<1>6. CASE Reject \/ Refuse
  <2>1. /\ at \in {"serial", "confirm"} /\ UNCHANGED <<work, seen>>
        /\ \/ Answer("failed", "serial") /\ UNCHANGED refused
           \/ Answer("refused", "serial") /\ refused' = TRUE
    BY <1>6 DEF Reject, Refuse
  <2>2. NoneBusy /\ NoneQueued
    BY <2>1, AtRest DEF Resting
  <2>3. \A n \in 1..Len(calls) : work'[n] # "busy" /\ work'[n] # "queued"
    BY <2>1, <2>2 DEF NoneBusy, NoneQueued
  <2>4. Barrier(calls[i]) => ~refused
    BY <1>2, <2>1, BarrierFree DEF Serials
  <2>5. at \in Serials /\ at \notin Scripting
    BY <2>1 DEF Serials, Scripting
  <2>6. CASE Answer("failed", "serial") /\ UNCHANGED refused
    BY <1>0, <1>1, <1>2, <2>1, <2>3, <2>4, <2>5, <2>6, AnswerStep DEF Says
  <2>7. CASE Answer("refused", "serial") /\ refused' = TRUE
    BY <1>0, <1>1, <1>2, <2>1, <2>3, <2>4, <2>5, <2>7, AnswerStep DEF Says
  <2> QED
    BY <2>1, <2>6, <2>7
<1>7. CASE Raises
  <2>1. /\ at = "call" \/ (at = "script" /\ script = "ended")
        /\ work' = [work EXCEPT ![i] = "failed"]
        /\ Answer("failed", "serial") /\ UNCHANGED <<refused, seen>>
    BY <1>7 DEF Raises
  <2>2. \A n \in 1..Len(calls) : work[n] = "busy" => n = i
    BY <2>1 DEF BatchInv, Running, Scripting
  <2>3. NoneQueued
    BY <1>3, <2>1
  <2>4. /\ work' \in [1..Len(calls) -> {"idle", "queued", "busy", "ok", "failed"}]
        /\ \A n \in 1..Len(calls) : work'[n] # "busy" /\ work'[n] # "queued"
    BY <1>0, <2>1, <2>2, <2>3 DEF NoneQueued
  <2>5. at \in Serials /\ (at \in Scripting => script \in {"none", "ended"})
    BY <2>1 DEF Serials, Scripting
  <2>6. Barrier(calls[i]) => ~refused
    BY <1>2, <2>5, BarrierFree
  <2> QED
    BY <1>0, <1>1, <1>2, <2>1, <2>4, <2>5, <2>6, AnswerStep DEF Says
<1>8. CASE Stored
  <2>1. /\ at = "store" /\ Answer("ok", "serial") /\ UNCHANGED <<work, refused>>
        /\ seen' = IF calls[i] = "view" THEN Append(seen, i) ELSE seen
    BY <1>8 DEF Stored
  <2>2. NoneBusy /\ NoneQueued
    BY <2>1, AtRest DEF Resting
  <2>3. \A n \in 1..Len(calls) : work'[n] # "busy" /\ work'[n] # "queued"
    BY <2>1, <2>2 DEF NoneBusy, NoneQueued
  <2>4. at \in Serials /\ at \notin Scripting
    BY <2>1 DEF Serials, Scripting
  <2>5. Barrier(calls[i]) => ~refused
    BY <1>2, <2>4, BarrierFree
  <2> QED
    BY <1>0, <1>1, <1>2, <2>1, <2>3, <2>4, <2>5, AnswerStep DEF Says
<1> QED
  BY <1>4, <1>5, <1>6, <1>7, <1>8

-----------------------------------------------------------------------------
(***************************************************************************)
(* The theorems.                                                           *)
(***************************************************************************)
\* A batch starts with none of its calls begun.
LEMMA Starting == Init => IInv
<1> SUFFICES ASSUME Init PROVE IInv
  OBVIOUS
<1>1. /\ at = "next" /\ i = 1 /\ end = 1 /\ work = [n \in DOMAIN calls |-> "idle"]
      /\ refused = FALSE /\ messages = <<>> /\ seen = <<>> /\ planned = {} /\ outdated = FALSE /\ cancels = 0
      /\ script = "none" /\ future = "none" /\ posted = FALSE /\ request = <<>> /\ requests = 0
      /\ token = FALSE /\ open = TRUE /\ serving = "none" /\ nested = NoNested
  BY DEF Init
<1>2. MaxCalls \in Nat /\ Capacity \in Nat \ {0} /\ MaxRequests \in Nat /\ MaxCancels \in Nat
  BY ToolRunnerAssumption
<1>3. PICK k \in 1..MaxCalls : calls \in [1..k -> Kinds]
  BY DEF Init
<1>4. calls \in Seq(Kinds) /\ Len(calls) = k /\ Len(calls) \in 1..MaxCalls /\ DOMAIN calls = 1..Len(calls)
  BY <1>2, <1>3
<1>5. /\ work \in [1..Len(calls) -> {"idle", "queued", "busy", "ok", "failed"}]
      /\ \A n \in 1..Len(calls) : work[n] = "idle"
  BY <1>1, <1>4
<1>6. Typed
  <2>1. i \in 1..(Len(calls) + 1) /\ end \in 1..(Len(calls) + 1) /\ cancels \in 0..MaxCancels
    BY <1>1, <1>2, <1>4
  <2>2. messages \in Seq([id : 1..MaxCalls, says : Says]) /\ seen \in Seq(1..MaxCalls)
    BY <1>1
  <2>3. planned \subseteq 1..Len(calls) /\ at \in Awaits /\ refused \in BOOLEAN /\ outdated \in BOOLEAN
    BY <1>1 DEF Awaits
  <2> QED
    BY <1>4, <1>5, <2>1, <2>2, <2>3 DEF Typed
<1>7. nested \in [queued : 0..2, busy : 0..2] /\ nested.queued + nested.busy <= 2 /\ nested.busy = 0
  BY <1>1 DEF NoNested
<1>8. GateTyped
  <2>1. requests \in 0..MaxRequests
    BY <1>1, <1>2
  <2> QED
    BY <1>1, <1>7, <2>1 DEF GateTyped
<1>9. Gates
  BY <1>1, <1>2, <1>7 DEF Gates, Scripting
<1>10. Segment /\ Running
  BY <1>1, <1>5 DEF Segment, Running, Parallel, Serials, Scripting, Resting
<1>11. Results /\ Refusals
  BY <1>1 DEF Results, Refusals, RefusalReachesBarriers
<1>12. Workers <= Capacity
  <2>1. Busy = {}
    BY <1>4, <1>5 DEF Busy
  <2>2. Workers = 0
    BY <2>1, FS_EmptySet DEF Workers
  <2> QED
    BY <1>2, <2>2
<1> QED
  BY <1>6, <1>8, <1>9, <1>10, <1>11, <1>12 DEF IInv, BatchInv, GateInv

\* Every step keeps the invariant.
LEMMA Stepping == IInv /\ [Next]_vars => IInv'
<1> SUFFICES ASSUME IInv, [Next]_vars PROVE IInv'
  OBVIOUS
<1>1. CASE Segments
  BY <1>1, AnsweredStep, OpenParallelStep, OpenSerialStep, LeaveStep DEF Segments
<1>2. CASE Children
  BY <1>2, ChildStep, MoveStep, AnsweredStep DEF Children
<1>3. CASE Serial
  BY <1>3, MoveStep, AnsweredStep, StartStep, EndStep DEF Serial
<1>4. CASE Thread
  BY <1>4, ThreadStep
<1>5. CASE Gateway
  BY <1>5, AcceptStep, NestedStep, ServedStep, UnwoundStep, EndStep DEF Gateway
<1>6. CASE Human
  BY <1>6, AnsweredStep, NestedStep, ServedStep DEF Human
<1>7. CASE Cancel
  BY <1>7, MoveStep, CancelWorkStep, CancelScriptStep DEF Cancel
<1>8. CASE UNCHANGED vars
  <2>1. UNCHANGED <<batchVars, at, work, cancels>> /\ UNCHANGED scriptVars
    BY <1>8 DEF vars
  <2>2. at' = at
    BY <2>1
  <2>3. BatchInv'
    BY <2>1, BatchKept DEF IInv
  <2>4. GateInv'
    <3>1. GateTyped'
      BY <2>1 DEF scriptVars, threadVars, serveVars, gateVars, IInv, GateInv, GateTyped
    <3>2. Gates'
      BY <2>1, <2>2 DEF scriptVars, threadVars, serveVars, gateVars, IInv, GateInv, Gates
    <3> QED
      BY <3>1, <3>2 DEF GateInv
  <2> QED
    BY <2>3, <2>4 DEF IInv
<1> QED
  BY <1>1, <1>2, <1>3, <1>4, <1>5, <1>6, <1>7, <1>8 DEF Next

\* The invariant gives what the runs check of a batch.
LEMMA Alone == IInv => WritesAlone
<1> SUFFICES ASSUME IInv PROVE WritesAlone
  OBVIOUS
<1>1. Busy = {n \in 1..Len(calls) : work[n] = "busy"} /\ Busy \subseteq 1..Len(calls)
      /\ \A n \in 1..Len(calls) : calls[n] \in Kinds
  BY Calls DEF IInv, BatchInv
<1>2. at \in Awaits /\ Len(calls) \in Nat /\ i \in Nat /\ end \in Nat
  BY Calls DEF IInv, BatchInv, Typed
<1>3. \/ \A n \in 1..Len(calls) : work[n] = "busy" => ParallelSafe(calls[n])
      \/ \A n \in 1..Len(calls) : work[n] = "busy" => n = i
  <2>1. CASE at \in Resting \/ at = "call" \/ at \in Scripting \/ at = "stop"
    BY <2>1 DEF IInv, BatchInv, Running
  <2>2. CASE at = "children"
    <3>1. \A n \in Rest : ParallelSafe(calls[n])
      BY <2>2 DEF IInv, BatchInv, Segment, Parallel
    <3> QED
      BY <2>2, <3>1 DEF IInv, BatchInv, Running
  <2>3. at \in Resting \/ at = "call" \/ at \in Scripting \/ at = "stop" \/ at = "children"
    BY <1>2 DEF Awaits, Resting, Scripting
  <2> QED
    BY <2>1, <2>2, <2>3
<1>4. \A n \in Busy : calls[n] \in {"edit", "ask", "bash", "view", "script"} => Busy = {n}
  <2> SUFFICES ASSUME NEW n \in Busy, calls[n] \in {"edit", "ask", "bash", "view", "script"} PROVE Busy = {n}
    OBVIOUS
  <2>1. work[n] = "busy" /\ n \in 1..Len(calls) /\ calls[n] \in Kinds
    BY <1>1
  <2>2. ~ParallelSafe(calls[n])
    BY <2>1, KindFacts
  <2>3. \A k \in 1..Len(calls) : work[k] = "busy" => k = i
    BY <1>3, <2>1, <2>2
  <2> QED
    BY <1>1, <2>1, <2>3
<1>5. at = "confirm" => Busy = {}
  BY <1>1 DEF IInv, BatchInv, Running, Resting
<1>6. PlansAreFresh
  <2> SUFFICES ASSUME at = "call", calls[i] = "edit" PROVE i \in planned /\ ~outdated
    BY DEF PlansAreFresh
  <2>1. i < end
    BY DEF IInv, BatchInv, Segment, Serials
  <2>2. i \in Rest
    BY <1>2, <2>1 DEF Rest
  <2> QED
    BY <2>2 DEF IInv, BatchInv, Segment, Serials
<1> QED
  BY <1>4, <1>5, <1>6 DEF WritesAlone, MutationsRunAlone

LEMMA Matched == IInv => ResultsMatchCalls
<1> SUFFICES ASSUME IInv, at = "returned"
             PROVE  /\ [n \in DOMAIN messages |-> messages[n].id] = [n \in DOMAIN calls |-> n]
                    /\ \A n \in DOMAIN seen : messages[seen[n]].says = "ok"
                    /\ \A m, n \in DOMAIN seen : m < n => seen[m] < seen[n]
                    /\ {seen[n] : n \in DOMAIN seen} = {n \in DOMAIN calls : calls[n] = "view" /\ messages[n].says = "ok"}
  BY DEF ResultsMatchCalls
<1>1. /\ Len(calls) \in Nat /\ DOMAIN calls = 1..Len(calls) /\ i = Len(calls) + 1
      /\ messages \in Seq([id : 1..MaxCalls, says : Says]) /\ seen \in Seq(1..MaxCalls) /\ Len(messages) = i - 1
  BY Calls DEF IInv, BatchInv, Typed, Results
<1>2. DOMAIN messages = DOMAIN calls /\ DOMAIN messages = 1..Len(messages) /\ DOMAIN seen = 1..Len(seen)
  BY <1>1
<1>3. [n \in DOMAIN messages |-> messages[n].id] = [n \in DOMAIN calls |-> n]
  BY <1>2 DEF IInv, BatchInv, Results
<1>4. \A n \in DOMAIN seen : messages[seen[n]].says = "ok" /\ calls[seen[n]] = "view" /\ seen[n] < i
  BY <1>2 DEF IInv, BatchInv, Results
<1>5. \A m, n \in DOMAIN seen : m < n => seen[m] < seen[n]
  BY <1>2 DEF IInv, BatchInv, Results
<1>6. ASSUME NEW n \in DOMAIN seen PROVE seen[n] \in DOMAIN calls
  <2>1. seen[n] \in 1..MaxCalls /\ MaxCalls \in Nat
    BY <1>1, ToolRunnerAssumption
  <2>2. seen[n] < i
    BY <1>4
  <2> QED
    BY <1>1, <2>1, <2>2
<1>7. ASSUME NEW k \in DOMAIN calls, calls[k] = "view", messages[k].says = "ok" PROVE \E n \in DOMAIN seen : seen[n] = k
  <2>1. k \in 1..(i - 1)
    BY <1>1
  <2> QED
    BY <1>2, <1>7, <2>1 DEF IInv, BatchInv, Results
<1>8. {seen[n] : n \in DOMAIN seen} = {n \in DOMAIN calls : calls[n] = "view" /\ messages[n].says = "ok"}
  BY <1>4, <1>6, <1>7
<1> QED
  BY <1>3, <1>4, <1>5, <1>8

LEMMA Within == IInv => TypeOK /\ WorkersWithinCapacity /\ Quiescent /\ RefusalReachesBarriers
<1> SUFFICES ASSUME IInv PROVE TypeOK /\ WorkersWithinCapacity /\ Quiescent /\ RefusalReachesBarriers
  OBVIOUS
<1>1. Len(calls) \in Nat /\ Len(calls) <= MaxCalls /\ DOMAIN calls = 1..Len(calls) /\ MaxCalls \in Nat
      /\ Busy = {n \in 1..Len(calls) : work[n] = "busy"} /\ \A n \in 1..Len(calls) : calls[n] \in Kinds
  BY Calls, ToolRunnerAssumption DEF IInv, BatchInv
<1>2. TypeOK
  <2>1. i \in 1..(MaxCalls + 1) /\ end \in 1..(MaxCalls + 1)
    <3>1. i \in 1..(Len(calls) + 1) /\ end \in 1..(Len(calls) + 1)
      BY DEF IInv, BatchInv, Typed
    <3> QED
      BY <1>1, <3>1
  <2>2. planned \subseteq 1..MaxCalls
    <3>1. planned \subseteq 1..Len(calls)
      BY DEF IInv, BatchInv, Typed
    <3> QED
      BY <1>1, <3>1
  <2>3. /\ calls \in Seq(Kinds) /\ at \in Awaits
        /\ work \in [DOMAIN calls -> {"idle", "queued", "busy", "ok", "failed"}]
        /\ refused \in BOOLEAN /\ outdated \in BOOLEAN
        /\ messages \in Seq([id : 1..MaxCalls, says : Says]) /\ seen \in Seq(1..MaxCalls)
        /\ cancels \in 0..MaxCancels
    BY <1>1 DEF IInv, BatchInv, Typed
  <2>4. (\E n \in DOMAIN calls : work[n] = "queued") => at = "children"
    BY <1>1 DEF IInv, BatchInv, Running
  <2>5. (serving = "none") => nested = NoNested
    BY DEF IInv, GateInv, Gates
  <2>6. GateTyped
    BY DEF IInv, GateInv
  <2> QED
    BY <2>1, <2>2, <2>3, <2>4, <2>5, <2>6 DEF TypeOK, GateTyped
<1>3. WorkersWithinCapacity
  <2>1. Workers \in Nat /\ Workers <= Capacity /\ Capacity \in Nat
    BY WorkersNat, ToolRunnerAssumption DEF IInv, BatchInv
  <2>2. nested.busy \in Nat /\ (request # <<"bash">> => nested.busy <= Capacity)
    BY DEF IInv, GateInv, GateTyped, Gates
  <2>3. nested.busy = 0 \/ Workers = 0
    <3>1. CASE serving = "none"
      BY <3>1 DEF IInv, GateInv, Gates, NoNested
    <3>2. CASE serving # "none"
      <4>1. at \in Scripting
        BY <3>2 DEF IInv, GateInv, Gates
      <4>2. calls[i] = "script" /\ \A n \in 1..Len(calls) : work[n] = "busy" => n = i
        BY <4>1 DEF IInv, BatchInv, Running
      <4>3. {n \in Busy : Bounded(calls[n])} = {}
        BY <1>1, <4>2 DEF Bounded
      <4> QED
        BY <4>3, FS_EmptySet DEF Workers
    <3> QED
      BY <3>1, <3>2
  <2> QED
    BY <2>1, <2>2, <2>3 DEF WorkersWithinCapacity
<1>4. Quiescent
  <2> SUFFICES ASSUME at \in {"returned", "raised"}
               PROVE  Busy = {} /\ serving = "none" /\ nested = NoNested /\ script \in {"none", "ended"}
    BY DEF Quiescent
  <2>1. at \in Resting /\ at \notin Scripting
    BY DEF Resting, Scripting
  <2> QED
    BY <1>1, <2>1 DEF IInv, BatchInv, Running, GateInv, Gates
<1>5. RefusalReachesBarriers
  BY DEF IInv, BatchInv, Refusals
<1> QED
  BY <1>2, <1>3, <1>4, <1>5

\* The strengthened invariant of a batch and of the script inside it.
THEOREM BatchRuns == Spec => []IInv
BY Starting, Stepping, PTL DEF Spec

\* A call that writes, or asks the user, never overlaps another of its batch, and an edit is applied
\* only while nothing but its own plan has written: for batches of any calls and any length, and
\* cancellations at every await.
THEOREM AloneHolds == Spec => []WritesAlone
BY BatchRuns, Alone, PTL

\* A batch that returns has one result per call in the calls' order with the images they showed,
\* never holds more workers than the setting, leaves nothing running however it ends, and runs no
\* command, script, remote call or image after a refusal.
THEOREM BatchHolds == Spec => []BatchSound
<1>1. IInv => BatchSound
  BY Matched, Within DEF BatchSound
<1> QED
  BY <1>1, BatchRuns, PTL
=============================================================================
