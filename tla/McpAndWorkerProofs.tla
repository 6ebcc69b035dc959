-------------------------- MODULE McpAndWorkerProofs --------------------------
(***************************************************************************)
(* ServersSound and OpensAdmitted for any servers, logins, workers and     *)
(* operations, wherever they are cancelled, time out or are shut down.     *)
(*                                                                         *)
(* What an operation does to the status line and to the login gate is told *)
(* from where its flows are, so the invariants of the flows are stated of  *)
(* a value of op: a beginning is Begun and then a step of a flow.          *)
(*                                                                         *)
(* At the end, of the host MCWorker: SwitchesKept of the settings and       *)
(* DelegationSound of the worker.                                          *)
(***************************************************************************)
EXTENDS Mcp, MCWorker, FiniteSetTheorems, SequenceTheorems, TLAPS

Stops == {"no", "timeout", "cancel"}
Flows == [at : FlowAt, first : BOOLEAN, stop : Stops]
OpType == [Ops -> [kind : Kinds, cut : BOOLEAN, flow : [Servers -> Flows]]]

\* A start-up discovery never logs in; what has not begun or is over has no flow; only a running
\* operation can have been told to stop, and only a cancelled discovery leaves some of its flows behind.
Regular(ops) ==
  \A o \in Ops : \A s \in Servers :
    /\ ops[o].kind \in {"none", "over"} => ops[o].flow[s].at \in Ended
    /\ ops[o].kind \in {"auto", "orphans"} =>
         ops[o].flow[s].at \in Ended \cup {"queued", "check", "fetch"} /\ ~ops[o].flow[s].first
    /\ ops[o].flow[s].stop # "no" => ops[o].flow[s].at \in TaskAt
    /\ ops[o].kind = "orphans" => ops[o].cut

Front(ops, o) == ops[o].kind \in {"toggle", "disconnect", "mention", "call"} \/ (ops[o].kind = "connect" /\ ~ops[o].cut)

\* Nothing else in the foreground works on a server that is being disconnected.
Alone(ops) ==
  \A p, o \in Ops : \A s \in Servers :
    p # o /\ ops[p].flow[s].at = "drop" /\ Front(ops, o) => ops[o].flow[s].at \in Ended

Dropping(ops) == \A o \in Ops : \A s \in Servers : ops[o].flow[s].at = "drop" => ops[o].kind \in {"toggle", "disconnect"}

FlowInv(ops) == ops \in OpType /\ Regular(ops) /\ Alone(ops) /\ Dropping(ops)

\* The discoveries of a server, whose number the manager counts.
Inside(ops, o, s) == \/ ops[o].kind = "auto" /\ s \in AutoConnect
                     \/ OwnRegion(ops, o) /\ ops[o].flow[s].at \in {"check", "fetch"}
Discoveries(ops, s) == {o \in Ops : Inside(ops, o, s)}

RegionType(d) == d \in [count : [Servers -> Int], failed : BOOLEAN, status : {"stale", "discovering", "ready", "error"}]
Settled(d) == d.status = "discovering" <=> \E s \in Servers : d.count[s] > 0
RegionInv(ops, d) == /\ RegionType(d) /\ Settled(d)
                     /\ \A s \in Servers : d.count[s] = Cardinality(Discoveries(ops, s))

\* The gate is held where the flow that took it is.
Holding == LoginAt \cup {"clear"}
GateInv(ops, g) ==
  /\ g \subseteq (Ops \X Servers)
  /\ \A o \in Ops, s \in Servers : ops[o].flow[s].at \in Holding <=> <<o, s>> \in g
  /\ \A x, y \in g : x = y

RecordInv == /\ srv \in [Servers -> [tools : BOOLEAN, issue : {"none", "error", "auth", "skip"}, tried : BOOLEAN]]
             /\ CatalogOrIssue

\* A login starts from an erased credential, and nothing else erases or fills it meanwhile.
CredInv(ops, c) ==
  /\ c \in [Servers -> [client : 0..MaxOps+1, token : 0..MaxOps+1]]
  /\ \A s \in Servers : c[s].token # 0 => c[s].token = c[s].client
  /\ \A o \in Ops, s \in Servers :
       /\ ops[o].flow[s].at = "auth" => c[s] = Erased
       /\ ops[o].flow[s].at = "registered" /\ ~ops[o].cut => c[s] = [client |-> o, token |-> 0]

IInv == /\ setup \in [Servers -> {"plain", "oauth", "invalid", "unset"}]
        /\ closed \in BOOLEAN
        /\ FlowInv(op) /\ RegionInv(op, disc) /\ GateInv(op, gate) /\ CredInv(op, cred) /\ RecordInv

-----------------------------------------------------------------------------
(***************************************************************************)
(* What a step does to op: one flow goes on or ends, and the others of its *)
(* operation stay where they are or go with it.                            *)
(***************************************************************************)
After(ops, o, s, g) ==
  /\ op' \in OpType
  /\ \A p \in Ops \ {o} : op'[p] = ops[p]
  /\ op'[o].flow[s] = g
  /\ \A t \in Servers \ {s} : \/ op'[o].flow[t] = ops[o].flow[t]
                              \/ ops[o].flow[t].at \in Ended /\ op'[o].flow[t] = Out
  /\ \/ op'[o].kind = ops[o].kind /\ op'[o].cut = ops[o].cut
     \/ op'[o].kind = "over" /\ \A t \in Servers : op'[o].flow[t].at \in Ended
     \/ ops[o].kind = "auto" /\ ops[o].cut /\ op'[o].kind = "orphans" /\ op'[o].cut = ops[o].cut

LEMMA OutType == /\ Out \in Flows /\ Out.at = "out" /\ Out.stop = "no" /\ ~Out.first
                 /\ \A a \in FlowAt : At(a) \in Flows /\ At(a).at = a /\ At(a).stop = "no" /\ ~At(a).first
BY Zenon DEF Out, At, Flows, Stops, FlowAt, Ended, TaskAt, LoginAt

LEMMA GoesAfter ==
  ASSUME NEW ops \in OpType, NEW o \in Ops, NEW s \in Servers, NEW f \in Flows, Goes(ops, o, s, f)
  PROVE  /\ After(ops, o, s, f)
         /\ op'[o].kind = ops[o].kind
         /\ \A t \in Servers \ {s} : op'[o].flow[t] = ops[o].flow[t]
<1>1. op' = [ops EXCEPT ![o] = [ops[o] EXCEPT !.flow = [ops[o].flow EXCEPT ![s] = f]]]
  BY DEF Goes
<1>2. ops[o] \in [kind : Kinds, cut : BOOLEAN, flow : [Servers -> Flows]]
  BY DEF OpType
<1>3. op' \in OpType
  BY Zenon, <1>1, <1>2 DEF OpType
<1> QED
  BY <1>1, <1>2, <1>3 DEF After, OpType

LEMMA DoneAfter ==
  ASSUME NEW ops \in OpType, NEW o \in Ops, NEW s \in Servers,
         IsLast(ops, o, s), op' = [ops EXCEPT ![o] = [NoOp EXCEPT !.kind = "over"]]
  PROVE  /\ After(ops, o, s, Out)
         /\ op'[o].kind = "over"
         /\ \A t \in Servers : op'[o].flow[t] = Out
<1>1. ops[o] \in [kind : Kinds, cut : BOOLEAN, flow : [Servers -> Flows]]
  BY DEF OpType
<1>2. /\ NoOp \in [kind : Kinds, cut : BOOLEAN, flow : [Servers -> Flows]]
      /\ \A t \in Servers : NoOp.flow[t] = Out
  BY OutType DEF NoOp, Kinds
<1>3. [NoOp EXCEPT !.kind = "over"] \in [kind : Kinds, cut : BOOLEAN, flow : [Servers -> Flows]]
  BY <1>2 DEF Kinds
<1>4. op'[o].kind = "over" /\ \A t \in Servers : op'[o].flow[t] = Out
  BY <1>2 DEF OpType
<1>5. op' \in OpType
  BY Zenon, <1>3 DEF OpType
<1>6. \A t \in Servers \ {s} : ops[o].flow[t].at \in Ended
  BY DEF IsLast
<1>7. \A t \in Servers : op'[o].flow[t] = Out /\ op'[o].flow[t].at \in Ended
  BY <1>4, OutType DEF Ended
<1> QED
  BY <1>4, <1>5, <1>6, <1>7 DEF After, OpType

LEMMA EndsAfter ==
  ASSUME NEW ops \in OpType, NEW o \in Ops, NEW s \in Servers, NEW d, Ends(ops, o, s, d)
  PROVE  \/ /\ After(ops, o, s, Out) /\ IsLast(ops, o, s)
            /\ op'[o].kind = "over" /\ \A t \in Servers : op'[o].flow[t] = Out
            /\ disc' = IF ops[o].kind = "auto" THEN Leave(d, AutoConnect, ops[o].cut) ELSE d
         \/ /\ Goes(ops, o, s, At("done")) /\ After(ops, o, s, At("done"))
            /\ disc' = d
<1>1. CASE IsLast(ops, o, s)
  <2>1. /\ op' = [ops EXCEPT ![o] = [NoOp EXCEPT !.kind = "over"]]
        /\ disc' = IF ops[o].kind = "auto" THEN Leave(d, AutoConnect, ops[o].cut) ELSE d
    <3>1. op' = [ops EXCEPT ![o] = [NoOp EXCEPT !.kind = "over"]]
      BY <1>1 DEF Ends
    <3>2. CASE ops[o].kind = "auto"
      BY <1>1, <3>1, <3>2 DEF Ends
    <3>3. CASE ops[o].kind # "auto"
      BY <1>1, <3>1, <3>3 DEF Ends
    <3> QED
      BY <3>1, <3>2, <3>3
  <2> QED
    BY <1>1, <2>1, DoneAfter, Zenon
<1>2. CASE ~IsLast(ops, o, s)
  <2>1. Goes(ops, o, s, At("done")) /\ disc' = d
    BY <1>2 DEF Ends, Goes
  <2>2. At("done") \in Flows
    BY OutType DEF FlowAt, Ended
  <2> QED
    BY <2>1, <2>2, GoesAfter
<1> QED
  BY <1>1, <1>2

\* A flow that goes on or ends, other than to a disconnection, keeps the invariant of the flows.
LEMMA FlowStep ==
  ASSUME NEW ops, FlowInv(ops), NEW o \in Ops, NEW s \in Servers, NEW g \in Flows, After(ops, o, s, g),
         ops[o].flow[s].at \notin Ended, g.at # "drop",
         g.stop # "no" => g.at \in TaskAt,
         ops[o].kind \in {"auto", "orphans"} => g.at \in Ended \cup {"queued", "check", "fetch"} /\ ~g.first
  PROVE  FlowInv(op')
<1> USE DEF FlowInv
<1>1. ops \in OpType /\ op' \in OpType
  BY DEF After
<1>2. ops[o].kind \notin {"none", "over"}
  BY DEF Regular
<1>3. Regular(op')
  <2> SUFFICES ASSUME NEW p \in Ops, NEW t \in Servers
               PROVE  /\ op'[p].kind \in {"none", "over"} => op'[p].flow[t].at \in Ended
                      /\ op'[p].kind \in {"auto", "orphans"} =>
                           op'[p].flow[t].at \in Ended \cup {"queued", "check", "fetch"} /\ ~op'[p].flow[t].first
                      /\ op'[p].flow[t].stop # "no" => op'[p].flow[t].at \in TaskAt
                      /\ op'[p].kind = "orphans" => op'[p].cut
    BY DEF Regular
  <2>1. CASE p # o
    BY <2>1 DEF After, Regular
  <2>2. CASE p = o /\ t = s
    BY <2>2, <1>2 DEF After, Regular
  <2>3. CASE p = o /\ t # s
    BY <2>3, <1>2, OutType DEF After, Regular, Ended
  <2> QED
    BY <2>1, <2>2, <2>3
<1>4. Alone(op')
  <2> SUFFICES ASSUME NEW p \in Ops, NEW q \in Ops, NEW t \in Servers,
                      p # q, op'[p].flow[t].at = "drop", Front(op', q)
               PROVE  op'[q].flow[t].at \in Ended
    BY DEF Alone
  <2>1. p = o => t # s
    BY DEF After
  <2>2. ops[p].flow[t].at = "drop"
    BY <2>1, OutType DEF After
  <2>3. Front(ops, q)
    BY DEF After, Front
  <2>4. ops[q].flow[t].at \in Ended
    BY <2>2, <2>3 DEF Alone
  <2>5. CASE q # o
    BY <2>4, <2>5 DEF After
  <2>6. CASE q = o
    <3>1. t # s
      BY <2>4, <2>6
    <3> QED
      BY <2>4, <2>6, <3>1, OutType DEF After, Ended
  <2> QED
    BY <2>5, <2>6
<1>5. Dropping(op')
  <2> SUFFICES ASSUME NEW p \in Ops, NEW t \in Servers, op'[p].flow[t].at = "drop"
               PROVE  op'[p].kind \in {"toggle", "disconnect"}
    BY DEF Dropping
  <2>1. CASE p # o
    BY <2>1 DEF After, Dropping
  <2>2. CASE p = o
    <3>1. t # s /\ ops[o].flow[t].at = "drop"
      BY <2>2, OutType DEF After
    <3>2. ops[o].kind \in {"toggle", "disconnect"}
      BY <3>1 DEF Dropping
    <3> QED
      BY <2>2, <3>2 DEF After, Ended
  <2> QED
    BY <2>1, <2>2
<1> QED
  BY <1>1, <1>3, <1>4, <1>5
-----------------------------------------------------------------------------
(***************************************************************************)
(* The _discovery region.  Without the flow's own discovery the counts are *)
(* those of the others; a step enters or leaves with what the flow does.   *)
(***************************************************************************)
\* What the region holds for every server but for the discovery of s by o, if that has a region of its own.
Except(ops, o, s, d) ==
  /\ RegionType(d) /\ Settled(d)
  /\ \A t \in Servers : d.count[t] = Cardinality(Discoveries(ops, t) \ (IF t = s /\ OwnRegion(ops, o) THEN {o} ELSE {}))

LEMMA Finite == \A S \in SUBSET Ops : IsFiniteSet(S) /\ Cardinality(S) \in Nat
<1>1. IsFiniteSet(Ops)
  BY FS_Interval, McpAssumption DEF Ops
<1> QED
  BY <1>1, FS_Subset, FS_CardinalityType

LEMMA Sizes ==
  ASSUME NEW S \in SUBSET Ops, NEW o \in Ops
  PROVE  /\ o \in S => Cardinality(S \ {o}) = Cardinality(S) - 1 /\ Cardinality(S) > 0
         /\ o \notin S => Cardinality(S \ {o}) = Cardinality(S) /\ Cardinality(S \cup {o}) = Cardinality(S) + 1
<1>1. IsFiniteSet(S) /\ IsFiniteSet(S \ {o}) /\ Cardinality(S \ {o}) \in Nat /\ Cardinality(S) \in Nat
  <2>1. S \ {o} \in SUBSET Ops
    OBVIOUS
  <2> QED
    BY <2>1, Finite
<1>2. CASE o \in S
  BY <1>1, <1>2, FS_RemoveElement
<1>3. CASE o \notin S
  <2>1. S \ {o} = S
    BY <1>3
  <2> QED
    BY Zenon, <1>1, <1>3, <2>1, FS_AddElement
<1> QED
  BY <1>2, <1>3

LEMMA EnterFacts ==
  ASSUME NEW d, RegionType(d), NEW names \in SUBSET Servers, names # {}, \A s \in Servers : d.count[s] >= 0
  PROVE  /\ RegionType(Enter(d, names)) /\ Settled(Enter(d, names))
         /\ \A t \in Servers : Enter(d, names).count[t] = IF t \in names THEN d.count[t] + 1 ELSE d.count[t]
<1>1. /\ RegionType(Enter(d, names)) /\ Enter(d, names).status = "discovering"
      /\ \A t \in Servers : Enter(d, names).count[t] = IF t \in names THEN d.count[t] + 1 ELSE d.count[t]
  BY DEF RegionType, Enter
<1>2. PICK t \in Servers : t \in names
  OBVIOUS
<1>3. Enter(d, names).count[t] > 0
  BY <1>1, <1>2 DEF RegionType
<1> QED
  BY <1>1, <1>3 DEF Settled

LEMMA LeaveFacts ==
  ASSUME NEW d, RegionType(d), Settled(d), NEW names, names \subseteq Servers, NEW bad \in BOOLEAN
  PROVE  /\ RegionType(Leave(d, names, bad)) /\ Settled(Leave(d, names, bad))
         /\ \A t \in Servers : Leave(d, names, bad).count[t] = IF t \in names THEN d.count[t] - 1 ELSE d.count[t]
<1> DEFINE count == [s \in Servers |-> d.count[s] - (IF s \in names THEN 1 ELSE 0)]
           failed == d.failed \/ bad
           settled == IF failed THEN "error" ELSE "ready"
           status == IF \E s \in Servers : count[s] > 0 THEN d.status ELSE settled
<1>1. count \in [Servers -> Int] /\ \A t \in Servers : count[t] = IF t \in names THEN d.count[t] - 1 ELSE d.count[t]
  BY DEF RegionType
<1>2. d.failed \in BOOLEAN /\ d.status \in {"stale", "discovering", "ready", "error"} /\ d.count \in [Servers -> Int]
  BY DEF RegionType
<1>3. failed \in BOOLEAN /\ settled \in {"ready", "error"}
  BY <1>2
<1>4. Leave(d, names, bad) = [count |-> count, failed |-> failed, status |-> status]
  BY DEF Leave
<1> HIDE DEF count, failed, settled
<1>5. status \in {"stale", "discovering", "ready", "error"}
  BY <1>2, <1>3
<1>6. status = "discovering" <=> \E s \in Servers : count[s] > 0
  <2>1. CASE \E s \in Servers : count[s] > 0
    <3>1. \E s \in Servers : d.count[s] > 0
      BY <1>1, <1>2, <2>1
    <3> QED
      BY <2>1, <3>1 DEF Settled
  <2>2. CASE ~\E s \in Servers : count[s] > 0
    BY <1>3, <2>2
  <2> QED
    BY <2>1, <2>2
<1> HIDE DEF status
<1> QED
  BY <1>1, <1>3, <1>4, <1>5, <1>6 DEF RegionType, Settled

LEMMA EnterOne ==
  ASSUME NEW d, RegionType(d), NEW s \in Servers, \A t \in Servers : d.count[t] >= 0
  PROVE  /\ RegionType(Enter(d, {s})) /\ Settled(Enter(d, {s}))
         /\ \A t \in Servers : Enter(d, {s}).count[t] = IF t = s THEN d.count[t] + 1 ELSE d.count[t]
<1> DEFINE names == {s}
<1>1. names \in SUBSET Servers /\ names # {} /\ \A t \in Servers : t \in names <=> t = s
  OBVIOUS
<1> HIDE DEF names
<1>2. /\ RegionType(Enter(d, names)) /\ Settled(Enter(d, names))
      /\ \A t \in Servers : Enter(d, names).count[t] = IF t = s THEN d.count[t] + 1 ELSE d.count[t]
  BY <1>1, EnterFacts
<1> QED
  BY Zenon, <1>2 DEF names

LEMMA LeaveOne ==
  ASSUME NEW d, RegionType(d), Settled(d), NEW s \in Servers, NEW bad \in BOOLEAN
  PROVE  /\ RegionType(Leave(d, {s}, bad)) /\ Settled(Leave(d, {s}, bad))
         /\ \A t \in Servers : Leave(d, {s}, bad).count[t] = IF t = s THEN d.count[t] - 1 ELSE d.count[t]
<1> DEFINE names == {s}
<1>1. names \in SUBSET Servers /\ \A t \in Servers : t \in names <=> t = s
  OBVIOUS
<1> HIDE DEF names
<1>2. /\ RegionType(Leave(d, names, bad)) /\ Settled(Leave(d, names, bad))
      /\ \A t \in Servers : Leave(d, names, bad).count[t] = IF t \in names THEN d.count[t] - 1 ELSE d.count[t]
  BY <1>1, LeaveFacts
<1>3. \A t \in Servers : Leave(d, names, bad).count[t] = IF t = s THEN d.count[t] - 1 ELSE d.count[t]
  BY <1>1, <1>2
<1> QED
  BY <1>2, <1>3 DEF names

\* Where a flow begins to discover, where it has done so, and where it does not.
LEMMA ExceptFacts ==
  ASSUME NEW ops, NEW o \in Ops, NEW s \in Servers, NEW d, RegionInv(ops, d)
  PROVE  /\ ~OwnRegion(ops, o) => Except(ops, o, s, d)
         /\ ops[o].flow[s].at \notin {"check", "fetch"} => Except(ops, o, s, d)
         /\ OwnRegion(ops, o) /\ ops[o].flow[s].at \in {"check", "fetch"} =>
              \A bad \in BOOLEAN : Except(ops, o, s, Leave(d, {s}, bad))
<1> USE DEF RegionInv
<1>1. \A t \in Servers : Discoveries(ops, t) \in SUBSET Ops
  BY DEF Discoveries
<1>2. ASSUME ~OwnRegion(ops, o) PROVE Except(ops, o, s, d)
  <2>1. \A t \in Servers : Discoveries(ops, t) \ (IF t = s /\ OwnRegion(ops, o) THEN {o} ELSE {}) = Discoveries(ops, t)
    BY <1>2
  <2> QED
    BY Zenon, <2>1 DEF Except
<1>3. ASSUME ops[o].flow[s].at \notin {"check", "fetch"} PROVE Except(ops, o, s, d)
  <2>1. OwnRegion(ops, o) => o \notin Discoveries(ops, s)
    BY <1>3 DEF Discoveries, Inside, OwnRegion
  <2>2. \A t \in Servers : Discoveries(ops, t) \ (IF t = s /\ OwnRegion(ops, o) THEN {o} ELSE {}) = Discoveries(ops, t)
    BY <2>1
  <2> QED
    BY Zenon, <2>2 DEF Except
<1>4. ASSUME OwnRegion(ops, o), ops[o].flow[s].at \in {"check", "fetch"}, NEW bad \in BOOLEAN
      PROVE  Except(ops, o, s, Leave(d, {s}, bad))
  <2>1. o \in Discoveries(ops, s)
    BY <1>4 DEF Discoveries, Inside
  <2>2. Cardinality(Discoveries(ops, s) \ {o}) = d.count[s] - 1
    BY <1>1, <2>1, Sizes
  <2>3. /\ RegionType(Leave(d, {s}, bad)) /\ Settled(Leave(d, {s}, bad))
        /\ \A t \in Servers : Leave(d, {s}, bad).count[t] = IF t = s THEN d.count[t] - 1 ELSE d.count[t]
    BY LeaveOne, Zenon
  <2>4. ASSUME NEW t \in Servers
        PROVE  Leave(d, {s}, bad).count[t] = Cardinality(Discoveries(ops, t) \ (IF t = s /\ OwnRegion(ops, o) THEN {o} ELSE {}))
    <3>1. CASE t = s
      BY Zenon, <1>4, <2>2, <2>3, <3>1
    <3>2. CASE t # s
      <4>1. Discoveries(ops, t) \ (IF t = s /\ OwnRegion(ops, o) THEN {o} ELSE {}) = Discoveries(ops, t)
        BY <3>2
      <4> QED
        BY Zenon, <2>3, <3>2, <4>1
    <3> QED
      BY <3>1, <3>2
  <2> QED
    BY Zenon, <2>3, <2>4 DEF Except
<1> QED
  BY <1>2, <1>3, <1>4

\* A region entered and left at once is as it was, but for its status.
LEMMA ThereAndBack ==
  ASSUME NEW ops, NEW o \in Ops, NEW s \in Servers, NEW d, Except(ops, o, s, d), NEW bad \in BOOLEAN
  PROVE  Except(ops, o, s, Leave(Enter(d, {s}), {s}, bad))
<1>1. \A t \in Servers : d.count[t] \in Nat
  <2>1. \A t \in Servers : Discoveries(ops, t) \ (IF t = s /\ OwnRegion(ops, o) THEN {o} ELSE {}) \in SUBSET Ops
    BY DEF Discoveries
  <2> QED
    BY Zenon, <2>1, Finite DEF Except
<1>2. /\ RegionType(Enter(d, {s})) /\ Settled(Enter(d, {s}))
      /\ \A t \in Servers : Enter(d, {s}).count[t] = IF t = s THEN d.count[t] + 1 ELSE d.count[t]
  BY <1>1, EnterOne DEF Except
<1>3. /\ RegionType(Leave(Enter(d, {s}), {s}, bad)) /\ Settled(Leave(Enter(d, {s}), {s}, bad))
      /\ \A t \in Servers : Leave(Enter(d, {s}), {s}, bad).count[t]
                              = IF t = s THEN Enter(d, {s}).count[t] - 1 ELSE Enter(d, {s}).count[t]
  BY <1>2, LeaveOne, Zenon
<1> DEFINE back == Leave(Enter(d, {s}), {s}, bad)
<1>4. \A t \in Servers : back.count[t] = d.count[t]
  <2>1. /\ \A t \in Servers : d.count[t] \in Nat
        /\ \A t \in Servers : Enter(d, {s}).count[t] = IF t = s THEN d.count[t] + 1 ELSE d.count[t]
        /\ \A t \in Servers : back.count[t] = IF t = s THEN Enter(d, {s}).count[t] - 1 ELSE Enter(d, {s}).count[t]
    BY <1>1, <1>2, <1>3, Zenon
  <2> HIDE DEF back
  <2> QED
    BY <2>1
<1> QED
  BY Zenon, <1>3, <1>4 DEF Except

\* The flow goes on without discovering, ...
LEMMA RegionGoes ==
  ASSUME NEW ops \in OpType, NEW o \in Ops, NEW s \in Servers, NEW d, Except(ops, o, s, d),
         NEW f \in Flows, Goes(ops, o, s, f), OwnRegion(ops, o) => f.at \notin {"check", "fetch"}
  PROVE  RegionInv(op', d)
<1>1. /\ After(ops, o, s, f) /\ op'[o].kind = ops[o].kind
      /\ \A t \in Servers \ {s} : op'[o].flow[t] = ops[o].flow[t]
  BY GoesAfter
<1>2. ASSUME NEW t \in Servers
      PROVE  Discoveries(op', t) = Discoveries(ops, t) \ (IF t = s /\ OwnRegion(ops, o) THEN {o} ELSE {})
  <2>1. \A p \in Ops \ {o} : Inside(op', p, t) <=> Inside(ops, p, t)
    BY <1>1 DEF After, Inside, OwnRegion
  <2>2. Inside(op', o, t) <=> Inside(ops, o, t) /\ ~(t = s /\ OwnRegion(ops, o))
    BY <1>1 DEF After, Inside, OwnRegion
  <2> QED
    BY <2>1, <2>2 DEF Discoveries
<1> QED
  BY <1>2 DEF RegionInv, Except

\* ... goes on to discover, ...
LEMMA RegionEntered ==
  ASSUME NEW ops \in OpType, NEW o \in Ops, NEW s \in Servers, NEW d, Except(ops, o, s, d),
         NEW f \in Flows, Goes(ops, o, s, f), OwnRegion(ops, o), f.at \in {"check", "fetch"}
  PROVE  RegionInv(op', Enter(d, {s}))
<1>1. /\ After(ops, o, s, f) /\ op'[o].kind = ops[o].kind
      /\ \A t \in Servers \ {s} : op'[o].flow[t] = ops[o].flow[t]
  BY GoesAfter
<1> DEFINE Rest(t) == Discoveries(ops, t) \ (IF t = s /\ OwnRegion(ops, o) THEN {o} ELSE {})
<1>2. \A t \in Servers : Rest(t) \in SUBSET Ops /\ d.count[t] = Cardinality(Rest(t)) /\ d.count[t] >= 0
  <2>1. \A t \in Servers : Rest(t) \in SUBSET Ops
    BY DEF Discoveries
  <2> QED
    BY <2>1, Finite DEF Except
<1>3. /\ RegionType(Enter(d, {s})) /\ Settled(Enter(d, {s}))
      /\ \A t \in Servers : Enter(d, {s}).count[t] = IF t = s THEN d.count[t] + 1 ELSE d.count[t]
  <2>1. RegionType(d)
    BY DEF Except
  <2> HIDE DEF Rest
  <2> QED
    BY <1>2, <2>1, EnterOne
<1>4. ASSUME NEW t \in Servers
      PROVE  Discoveries(op', t) = IF t = s THEN Rest(t) \cup {o} ELSE Rest(t)
  <2>1. \A p \in Ops \ {o} : Inside(op', p, t) <=> Inside(ops, p, t)
    BY <1>1 DEF After, Inside, OwnRegion
  <2>2. Inside(op', o, t) <=> (t = s \/ Inside(ops, o, t))
    BY <1>1 DEF After, Inside, OwnRegion
  <2> QED
    BY <2>1, <2>2 DEF Discoveries
<1>5. o \notin Rest(s)
  OBVIOUS
<1> HIDE DEF Rest
<1>6. Cardinality(Rest(s) \cup {o}) = Cardinality(Rest(s)) + 1
  BY <1>2, <1>5, Sizes
<1>7. \A t \in Servers : Enter(d, {s}).count[t] = Cardinality(Discoveries(op', t))
  BY Zenon, <1>2, <1>3, <1>4, <1>6
<1> QED
  BY <1>3, <1>7 DEF RegionInv

\* ... or ends, and its operation with it.
LEMMA RegionEnds ==
  ASSUME NEW ops, FlowInv(ops), NEW o \in Ops, NEW s \in Servers, NEW d, Except(ops, o, s, d), Ends(ops, o, s, d)
  PROVE  RegionInv(op', disc')
<1>1. ops \in OpType
  BY DEF FlowInv
<1>2. CASE Goes(ops, o, s, At("done")) /\ disc' = d
  BY <1>1, <1>2, RegionGoes, OutType DEF FlowAt, Ended
<1>3. CASE /\ After(ops, o, s, Out) /\ IsLast(ops, o, s)
           /\ op'[o].kind = "over" /\ \A t \in Servers : op'[o].flow[t] = Out
           /\ disc' = IF ops[o].kind = "auto" THEN Leave(d, AutoConnect, ops[o].cut) ELSE d
  <2>1. ASSUME NEW t \in Servers PROVE Discoveries(op', t) = Discoveries(ops, t) \ {o}
    <3>1. \A p \in Ops \ {o} : Inside(op', p, t) <=> Inside(ops, p, t)
      BY <1>3 DEF After, Inside, OwnRegion
    <3>2. ~Inside(op', o, t)
      BY <1>3, OutType DEF Inside, OwnRegion
    <3> QED
      BY <3>1, <3>2 DEF Discoveries
  <2>2. CASE ops[o].kind = "auto"
    <3>1. /\ RegionType(disc') /\ Settled(disc')
          /\ \A t \in Servers : disc'.count[t] = IF t \in AutoConnect THEN d.count[t] - 1 ELSE d.count[t]
      <4>1. PICK cut \in BOOLEAN : cut = ops[o].cut
        BY <1>1 DEF OpType
      <4>2. AutoConnect \subseteq Servers /\ RegionType(d) /\ Settled(d)
        BY McpAssumption DEF Except
      <4>3. disc' = Leave(d, AutoConnect, cut)
        BY <1>3, <2>2, <4>1
      <4>4. /\ RegionType(Leave(d, AutoConnect, cut)) /\ Settled(Leave(d, AutoConnect, cut))
            /\ \A t \in Servers : Leave(d, AutoConnect, cut).count[t] = IF t \in AutoConnect THEN d.count[t] - 1 ELSE d.count[t]
        <5>1. cut \in BOOLEAN /\ AutoConnect \subseteq Servers /\ RegionType(d) /\ Settled(d)
          BY <4>1, <4>2
        <5> QED
          BY <5>1, LeaveFacts, SMT
      <4> QED
        BY <4>3, <4>4
    <3>2. ASSUME NEW t \in Servers PROVE disc'.count[t] = Cardinality(Discoveries(op', t))
      <4>1. d.count[t] = Cardinality(Discoveries(ops, t))
        <5>1. Discoveries(ops, t) \ (IF t = s /\ OwnRegion(ops, o) THEN {o} ELSE {}) = Discoveries(ops, t)
          BY <2>2 DEF OwnRegion
        <5> QED
          BY <5>1 DEF Except
      <4>2. Discoveries(ops, t) \in SUBSET Ops /\ (o \in Discoveries(ops, t) <=> t \in AutoConnect)
        BY <2>2 DEF Discoveries, Inside, OwnRegion
      <4> QED
        BY Zenon, <2>1, <3>1, <4>1, <4>2, Sizes
    <3> QED
      BY <3>1, <3>2 DEF RegionInv
  <2>3. CASE ops[o].kind # "auto"
    <3>1. ASSUME NEW t \in Servers
          PROVE  Discoveries(ops, t) \ {o} = Discoveries(ops, t) \ (IF t = s /\ OwnRegion(ops, o) THEN {o} ELSE {})
      <4>1. CASE t = s /\ OwnRegion(ops, o)
        BY <4>1
      <4>2. CASE t # s
        <5>1. ops[o].flow[t].at \in Ended
          BY <1>3, <4>2 DEF IsLast
        <5> QED
          BY <2>3, <4>2, <5>1 DEF Discoveries, Inside, Ended
      <4>3. CASE ~OwnRegion(ops, o)
        BY <2>3, <4>3 DEF Discoveries, Inside
      <4> QED
        BY <4>1, <4>2, <4>3
    <3> QED
      BY <1>3, <2>1, <2>3, <3>1 DEF RegionInv, Except
  <2> QED
    BY <2>2, <2>3
<1> QED
  BY <1>1, <1>2, <1>3, EndsAfter
-----------------------------------------------------------------------------
(***************************************************************************)
(* The login gate, the credentials and the records under the step of a     *)
(* flow.                                                                   *)
(***************************************************************************)
LEMMA GateLeft ==
  ASSUME NEW ops, NEW o \in Ops, NEW s \in Servers, GateInv(ops, gate),
         \/ ops[o].flow[s].at \in Holding /\ gate' = {}
         \/ ops[o].flow[s].at \notin Holding /\ gate' = gate
  PROVE  gate' = gate \ {<<o, s>>}
<1>1. CASE ops[o].flow[s].at \in Holding /\ gate' = {}
  <2>1. <<o, s>> \in gate /\ \A x \in gate : x = <<o, s>>
    BY <1>1 DEF GateInv
  <2> QED
    BY <1>1, <2>1
<1>2. CASE ops[o].flow[s].at \notin Holding /\ gate' = gate
  <2>1. <<o, s>> \notin gate
    BY <1>2 DEF GateInv
  <2> QED
    BY <1>2, <2>1
<1> QED
  BY <1>1, <1>2

\* The places of the other flows in the gate are what they were.
LEMMA OthersHold ==
  ASSUME NEW ops, NEW o \in Ops, NEW s \in Servers, NEW g, After(ops, o, s, g),
         NEW p \in Ops, NEW t \in Servers, ~(p = o /\ t = s)
  PROVE  op'[p].flow[t] = ops[p].flow[t] \/ (ops[p].flow[t].at \notin Holding /\ op'[p].flow[t].at \notin Holding)
BY OutType DEF After, Holding, LoginAt, Ended

LEMMA GatePassed ==
  ASSUME NEW ops, NEW o \in Ops, NEW s \in Servers, NEW g, After(ops, o, s, g), GateInv(ops, gate),
         g.at \notin Holding, gate' = gate \ {<<o, s>>}
  PROVE  GateInv(op', gate')
<1>1. ASSUME NEW p \in Ops, NEW t \in Servers PROVE op'[p].flow[t].at \in Holding <=> <<p, t>> \in gate'
  <2>1. CASE p = o /\ t = s
    <3>1. op'[o].flow[s].at \notin Holding
      BY DEF After
    <3> QED
      BY <2>1, <3>1
  <2>2. CASE ~(p = o /\ t = s)
    <3>1. op'[p].flow[t].at \in Holding <=> ops[p].flow[t].at \in Holding
      BY Zenon, <2>2, OthersHold
    <3>2. <<p, t>> \in gate' <=> <<p, t>> \in gate
      BY <2>2
    <3> QED
      BY <3>1, <3>2 DEF GateInv
  <2> QED
    BY <2>1, <2>2
<1> QED
  BY <1>1 DEF GateInv

LEMMA GateKept ==
  ASSUME NEW ops, NEW o \in Ops, NEW s \in Servers, NEW g, After(ops, o, s, g), GateInv(ops, gate),
         g.at \in Holding,
         \/ ops[o].flow[s].at \in Holding /\ gate' = gate
         \/ gate = {} /\ gate' = {<<o, s>>}
  PROVE  GateInv(op', gate')
<1>1. ASSUME NEW p \in Ops, NEW t \in Servers PROVE op'[p].flow[t].at \in Holding <=> <<p, t>> \in gate'
  <2>1. CASE p = o /\ t = s
    <3>1. op'[o].flow[s].at \in Holding
      BY DEF After
    <3>2. <<o, s>> \in gate'
      BY DEF GateInv
    <3> QED
      BY <2>1, <3>1, <3>2
  <2>2. CASE ~(p = o /\ t = s)
    <3>1. op'[p].flow[t].at \in Holding <=> ops[p].flow[t].at \in Holding
      BY <2>2, OthersHold
    <3>2. <<p, t>> \in gate' <=> <<p, t>> \in gate
      BY <2>2
    <3> QED
      BY <3>1, <3>2 DEF GateInv
  <2> QED
    BY <2>1, <2>2
<1> QED
  BY <1>1 DEF GateInv

LEMMA OthersLog ==
  ASSUME NEW ops, NEW o \in Ops, NEW s \in Servers, NEW g, After(ops, o, s, g),
         NEW p \in Ops, NEW t \in Servers, ~(p = o /\ t = s)
  PROVE  /\ op'[p].flow[t].at = "auth" => ops[p].flow[t].at = "auth"
         /\ op'[p].flow[t].at = "registered" /\ ~op'[p].cut => ops[p].flow[t].at = "registered" /\ ~ops[p].cut
BY OutType DEF After, Ended

LEMMA CredKept ==
  ASSUME NEW ops, NEW o \in Ops, NEW s \in Servers, NEW g, After(ops, o, s, g), CredInv(ops, cred),
         g.at \notin {"auth", "registered"}
  PROVE  CredInv(op', cred)
<1>1. ASSUME NEW p \in Ops, NEW t \in Servers
      PROVE  /\ op'[p].flow[t].at = "auth" => cred[t] = Erased
             /\ op'[p].flow[t].at = "registered" /\ ~op'[p].cut => cred[t] = [client |-> p, token |-> 0]
  <2>1. CASE p = o /\ t = s
    BY <2>1 DEF After
  <2>2. CASE ~(p = o /\ t = s)
    BY <2>2, OthersLog DEF CredInv
  <2> QED
    BY <2>1, <2>2
<1> QED
  BY <1>1 DEF CredInv

\* Erasing the credential of a server disturbs no login: there is none beside a disconnection, or
\* while another login holds the gate.
LEMMA CredCleared ==
  ASSUME NEW ops, FlowInv(ops), GateInv(ops, gate), CredInv(ops, cred), NEW o \in Ops, NEW s \in Servers, NEW g,
         After(ops, o, s, g), ops[o].flow[s].at \in {"clear", "drop"}, g.at # "registered", Cleared(s)
  PROVE  CredInv(op', cred')
<1>1. /\ Erased = [client |-> 0, token |-> 0]
      /\ Erased \in [client : 0..MaxOps+1, token : 0..MaxOps+1]
  BY McpAssumption DEF Erased
<1>2. cred' \in [Servers -> [client : 0..MaxOps+1, token : 0..MaxOps+1]] /\ cred'[s] = Erased
      /\ \A t \in Servers \ {s} : cred'[t] = cred[t]
  <2>1. cred \in [Servers -> [client : 0..MaxOps+1, token : 0..MaxOps+1]]
    BY DEF CredInv
  <2> QED
    BY <1>1, <2>1 DEF Cleared
<1>3. ASSUME NEW p \in Ops, ops[p].flow[s].at = "registered", ~ops[p].cut, p # o PROVE FALSE
  <2>1. CASE ops[o].flow[s].at = "clear"
    <3>1. <<o, s>> \in gate /\ <<p, s>> \in gate
      BY <1>3, <2>1 DEF GateInv, Holding, LoginAt
    <3> QED
      BY <1>3, <3>1 DEF GateInv
  <2>2. CASE ops[o].flow[s].at = "drop"
    <3>1. ops[p].kind \in Kinds \ {"none", "over", "auto", "orphans"}
      BY Zenon, <1>3 DEF FlowInv, Regular, Ended, OpType
    <3>2. Front(ops, p)
      BY <1>3, <3>1 DEF Front, Kinds
    <3>3. ops[p].flow[s].at \in Ended
      BY <1>3, <2>2, <3>2 DEF FlowInv, Alone
    <3> QED
      BY <1>3, <3>3 DEF Ended
  <2> QED
    BY <2>1, <2>2
<1>4. ASSUME NEW p \in Ops, NEW t \in Servers
      PROVE  /\ op'[p].flow[t].at = "auth" => cred'[t] = Erased
             /\ op'[p].flow[t].at = "registered" /\ ~op'[p].cut => cred'[t] = [client |-> p, token |-> 0]
  <2>1. CASE p = o /\ t = s
    BY <1>2, <2>1 DEF After
  <2>2. CASE p # o /\ t = s
    BY <1>2, <1>3, <2>2, OthersLog
  <2>3. CASE t # s
    BY <1>2, <2>3, OthersLog DEF CredInv
  <2> QED
    BY <2>1, <2>2, <2>3
<1>5. \A t \in Servers : cred'[t].token # 0 => cred'[t].token = cred'[t].client
  BY <1>1, <1>2 DEF CredInv
<1> QED
  BY <1>2, <1>4, <1>5 DEF CredInv

\* Everything there is to say of the operations, together.
Good(ops, d, g, c) == FlowInv(ops) /\ RegionInv(ops, d) /\ GateInv(ops, g) /\ CredInv(ops, c)

\* A flow passes to where it is in no login, having left the gate if it was; the region is told apart.
LEMMA Passes ==
  ASSUME NEW ops, FlowInv(ops), GateInv(ops, gate), CredInv(ops, cred), NEW o \in Ops, NEW s \in Servers,
         NEW g \in Flows, After(ops, o, s, g),
         ops[o].flow[s].at \notin Ended, g.at \notin Holding \cup {"drop"}, g.stop # "no" => g.at \in TaskAt,
         ops[o].kind \in {"auto", "orphans"} => g.at \in Ended \cup {"queued", "check", "fetch"} /\ ~g.first,
         gate' = gate \ {<<o, s>>},
         cred' = cred \/ (Cleared(s) /\ ops[o].flow[s].at \in {"clear", "drop"})
  PROVE  FlowInv(op') /\ GateInv(op', gate') /\ CredInv(op', cred')
<1>1. FlowInv(op')
  BY FlowStep
<1>2. GateInv(op', gate')
  BY Zenon, GatePassed
<1>3. g.at \notin {"auth", "registered"}
  BY DEF Holding, LoginAt
<1>4. CredInv(op', cred')
  BY <1>3, CredKept, CredCleared
<1> QED
  BY <1>1, <1>2, <1>4

LEMMA EndPasses ==
  ASSUME NEW ops, FlowInv(ops), GateInv(ops, gate), CredInv(ops, cred), NEW o \in Ops, NEW s \in Servers, NEW d,
         Except(ops, o, s, d), Ends(ops, o, s, d), ops[o].flow[s].at \notin Ended,
         gate' = gate \ {<<o, s>>},
         cred' = cred \/ (Cleared(s) /\ ops[o].flow[s].at \in {"clear", "drop"})
  PROVE  Good(op', disc', gate', cred')
<1>1. PICK g \in {Out, At("done")} : After(ops, o, s, g)
  BY EndsAfter DEF FlowInv
<1>2. g \in Flows /\ g.at \in Ended /\ g.stop = "no" /\ ~g.first
  BY OutType DEF FlowAt, Ended
<1>3. g.at \notin Holding \cup {"drop"}
  BY <1>2 DEF Ended, Holding, LoginAt
<1>4. FlowInv(op') /\ GateInv(op', gate') /\ CredInv(op', cred')
  BY Zenon, <1>1, <1>2, <1>3, Passes
<1>5. RegionInv(op', disc')
  BY RegionEnds
<1> QED
  BY <1>4, <1>5 DEF Good

LEMMA GoPasses ==
  ASSUME NEW ops, FlowInv(ops), GateInv(ops, gate), CredInv(ops, cred), NEW o \in Ops, NEW s \in Servers, NEW d,
         Except(ops, o, s, d), NEW f \in Flows, Goes(ops, o, s, f), ops[o].flow[s].at \notin Ended,
         f.at \notin Holding \cup {"drop"}, f.stop = "no",
         ops[o].kind \in {"auto", "orphans"} => f.at \in {"check", "fetch"} /\ ~f.first,
         OwnRegion(ops, o) /\ f.at \in {"check", "fetch"} => disc' = Enter(d, {s}),
         ~(OwnRegion(ops, o) /\ f.at \in {"check", "fetch"}) => disc' = d,
         gate' = gate \ {<<o, s>>}, cred' = cred
  PROVE  Good(op', disc', gate', cred')
<1>1. ops \in OpType /\ After(ops, o, s, f)
  BY GoesAfter DEF FlowInv
<1>2. FlowInv(op') /\ GateInv(op', gate') /\ CredInv(op', cred')
  BY Zenon, <1>1, Passes
<1>3. RegionInv(op', disc')
  BY <1>1, RegionGoes, RegionEntered
<1> QED
  BY <1>2, <1>3 DEF Good
\* What is known of a server is a catalog or an issue, whatever was found, failed or was forgotten.
Infos == [tools : BOOLEAN, issue : {"none", "error", "auth", "skip"}, tried : BOOLEAN]
Consistent(info) == info \in Infos /\ (info.tools => info.issue = "none") /\ (info.tried => info.tools)

LEMMA InfosConsistent ==
  ASSUME RecordInv
  PROVE  /\ Consistent(Unknown)
         /\ \A i \in {"error", "auth", "skip"} : Consistent(Failed(i)) /\ Failed(i).issue = i
         /\ \A s \in Servers : Consistent(Found(s)) /\ Found(s).issue = "none" /\ Consistent(ErrorPopped(s))
<1>1. \A s \in Servers : Consistent(srv[s])
  BY DEF RecordInv, CatalogOrIssue, Connected, Consistent, Infos
<1> QED
  BY Zenon, <1>1 DEF Consistent, Infos, Unknown, Failed, Found, ErrorPopped

LEMMA RecordKept ==
  ASSUME RecordInv, NEW s \in Servers, NEW info, Consistent(info), Record(s, info)
  PROVE  RecordInv'
BY DEF RecordInv, CatalogOrIssue, Connected, Record, Consistent, Infos

LEMMA RecordSame == ASSUME RecordInv, UNCHANGED srv PROVE RecordInv'
BY DEF RecordInv, CatalogOrIssue, Connected

-----------------------------------------------------------------------------
(***************************************************************************)
(* The pieces the actions are made of.                                     *)
(***************************************************************************)
Typed == setup \in [Servers -> {"plain", "oauth", "invalid", "unset"}] /\ closed \in BOOLEAN

LEMMA ThereExcept ==
  ASSUME NEW ops, RegionInv(ops, disc), NEW o \in Ops, NEW s \in Servers,
         ops[o].flow[s].at \notin {"check", "fetch"}
  PROVE  Except(ops, o, s, disc)
BY Zenon, ExceptFacts

LEMMA DiscoverGood ==
  ASSUME NEW ops, Good(ops, disc, gate, cred), RecordInv, NEW o \in Ops, NEW s \in Servers, NEW first \in BOOLEAN,
         Discover(ops, o, s, first), UNCHANGED <<gate, cred>>,
         ops[o].flow[s].at \in {"queued", "probe"},
         ops[o].kind \in {"auto", "orphans"} => ~first
  PROVE  Good(op', disc', gate', cred') /\ RecordInv'
<1>1. /\ FlowInv(ops) /\ GateInv(ops, gate) /\ CredInv(ops, cred) /\ Except(ops, o, s, disc)
      /\ ops[o].flow[s].at \notin Ended /\ gate' = gate \ {<<o, s>>}
  <2>1. Except(ops, o, s, disc)
    BY ThereExcept DEF Good
  <2>2. ops[o].flow[s].at \notin Holding
    BY DEF Holding, LoginAt
  <2>3. gate' = gate \ {<<o, s>>}
    BY <2>2, GateLeft DEF Good
  <2> QED
    BY <2>1, <2>3 DEF Good, Ended
<1> DEFINE d == Entered(ops, o, s)
           left == IF OwnRegion(ops, o) THEN Leave(d, {s}, FALSE) ELSE d
           fails(issue) == Record(s, Failed(issue)) /\ Ends(ops, o, s, left)
           f == [At(IF s \in Oauth THEN "check" ELSE "fetch") EXCEPT !.first = first]
<1>2. Except(ops, o, s, left)
  <2>1. CASE OwnRegion(ops, o)
    <3>1. left = Leave(Enter(disc, {s}), {s}, FALSE)
      BY <2>1 DEF Entered
    <3>2. Except(ops, o, s, Leave(Enter(disc, {s}), {s}, FALSE))
      BY <1>1, ThereAndBack, Zenon
    <3> HIDE DEF left
    <3> QED
      BY Zenon, <3>1, <3>2
  <2>2. CASE ~OwnRegion(ops, o)
    BY <1>1, <2>2 DEF Entered
  <2> QED
    BY Zenon, <2>1, <2>2
<1>3. \/ \E i \in {"error", "skip"} : Record(s, Failed(i)) /\ Ends(ops, o, s, left)
      \/ Goes(ops, o, s, f) /\ disc' = d /\ UNCHANGED srv
  BY Zenon DEF Discover
<1> HIDE DEF left
<1>4. ASSUME NEW i \in {"error", "skip"}, Record(s, Failed(i)), Ends(ops, o, s, left)
      PROVE  Good(op', disc', gate', cred') /\ RecordInv'
  <2>1. RecordInv'
    BY <1>4, InfosConsistent, RecordKept
  <2>2. Good(op', disc', gate', cred')
    BY Zenon, <1>1, <1>2, <1>4, EndPasses
  <2> QED
    BY <2>1, <2>2
<1>5. ASSUME Goes(ops, o, s, f), disc' = d, UNCHANGED srv
      PROVE  Good(op', disc', gate', cred') /\ RecordInv'
  <2>1. f \in Flows /\ f.at \in {"check", "fetch"} /\ f.stop = "no" /\ f.first = first
    BY Zenon, OutType DEF At, Out, Flows, FlowAt, TaskAt, Stops
  <2> HIDE DEF f
  <2>2. f.at \notin Holding \cup {"drop"}
    BY <2>1 DEF Holding, LoginAt
  <2>3. IF OwnRegion(ops, o) THEN disc' = Enter(disc, {s}) ELSE disc' = disc
    BY <1>5 DEF Entered
  <2>4. Good(op', disc', gate', cred')
    BY Zenon, <1>1, <1>5, <2>1, <2>2, <2>3, GoPasses
  <2> QED
    BY <1>5, <2>4, RecordSame
<1> QED
  BY <1>3, <1>4, <1>5

\* A discovery has ended: the flow goes on to a login, or ends.
LEMMA DiscoveredGood ==
  ASSUME Good(op, disc, gate, cred), RecordInv, NEW o \in Ops, NEW s \in Servers, NEW info, Consistent(info),
         Discovered(o, s, info), UNCHANGED <<gate, cred>>,
         Flow(o, s).at \in {"check", "fetch"}
  PROVE  Good(op', disc', gate', cred') /\ RecordInv'
<1> DEFINE left == Exited(o, s, FALSE)
<1>1. /\ FlowInv(op) /\ GateInv(op, gate) /\ CredInv(op, cred) /\ Except(op, o, s, left)
      /\ op[o].flow[s].at \notin Ended /\ gate' = gate \ {<<o, s>>}
  <2>1. Except(op, o, s, left)
    <3>1. CASE OwnRegion(op, o)
      <4>1. left = Leave(disc, {s}, FALSE)
        BY <3>1 DEF Exited
      <4> QED
        BY Zenon, <3>1, <4>1, ExceptFacts DEF Good, Flow
    <3>2. CASE ~OwnRegion(op, o)
      BY Zenon, <3>2, ExceptFacts DEF Good, Exited
    <3> QED
      BY Zenon, <3>1, <3>2
  <2>2. op[o].flow[s].at \notin Holding
    BY DEF Holding, LoginAt, Flow
  <2>3. gate' = gate \ {<<o, s>>}
    BY <2>2, GateLeft DEF Good
  <2> QED
    BY Zenon, <2>1, <2>3 DEF Good, Ended, Flow
<1>2. RecordInv'
  BY RecordKept DEF Discovered
<1>3. CASE Flow(o, s).first /\ info.issue = "auth"
  <2>1. Goes(op, o, s, At("gate")) /\ disc' = left
    BY <1>3 DEF Discovered
  <2>2. At("gate") \in Flows /\ At("gate").at = "gate" /\ At("gate").stop = "no"
    BY OutType DEF FlowAt
  <2>3. op[o].kind \notin {"auto", "orphans"}
    BY <1>1, <1>3 DEF FlowInv, Regular, Flow
  <2>4. Good(op', disc', gate', cred')
    <3> HIDE DEF left
    <3>1. "gate" \notin Holding \cup {"drop"}
      BY DEF Holding, LoginAt
    <3> QED
      BY Zenon, <1>1, <2>1, <2>2, <2>3, <3>1, GoPasses
  <2> QED
    BY <1>2, <2>4
<1>4. CASE ~(Flow(o, s).first /\ info.issue = "auth")
  <2>1. Ends(op, o, s, left)
    BY Zenon, <1>4 DEF Discovered
  <2> QED
    BY Zenon, <1>1, <1>2, <2>1, EndPasses
<1> QED
  BY <1>3, <1>4

\* A flow that is in no region ends, and leaves the gate if it held it.
LEMMA EndGood ==
  ASSUME Good(op, disc, gate, cred), NEW o \in Ops, NEW s \in Servers, Ends(op, o, s, disc),
         Flow(o, s).at \notin Ended \cup {"check", "fetch"},
         \/ op[o].flow[s].at \in Holding /\ gate' = {}
         \/ op[o].flow[s].at \notin Holding /\ gate' = gate,
         cred' = cred \/ (Cleared(s) /\ Flow(o, s).at \in {"clear", "drop"})
  PROVE  Good(op', disc', gate', cred')
<1>1. gate' = gate \ {<<o, s>>}
  BY GateLeft DEF Good
<1>2. Except(op, o, s, disc)
  BY ThereExcept DEF Good, Flow
<1> QED
  BY Zenon, <1>1, <1>2, EndPasses DEF Good, Flow

\* A flow that is in no region and in no login goes on, to another such place.
LEMMA GoGood ==
  ASSUME NEW ops, Good(ops, disc, gate, cred), NEW o \in Ops, NEW s \in Servers, NEW at \in FlowAt, Goes(ops, o, s, At(at)),
         UNCHANGED <<disc, gate, cred>>,
         ops[o].kind \notin {"auto", "orphans"},
         ops[o].flow[s].at \notin Ended \cup {"check", "fetch"} \cup Holding, at \notin Holding \cup {"drop", "check", "fetch"}
  PROVE  Good(op', disc', gate', cred')
<1>1. gate' = gate \ {<<o, s>>}
  BY GateLeft DEF Good
<1>2. Except(ops, o, s, disc)
  BY ThereExcept DEF Good
<1>3. At(at) \in Flows /\ At(at).at = at /\ At(at).stop = "no"
  BY OutType
<1> QED
  BY Zenon, <1>1, <1>2, <1>3, GoPasses DEF Good

LEMMA LoginFailsGood ==
  ASSUME Good(op, disc, gate, cred), RecordInv, NEW o \in Ops, NEW s \in Servers, NEW i \in {"auth", "error"},
         LoginFails(o, s, Failed(i)), Flow(o, s).at \in Holding,
         cred' = cred \/ (Cleared(s) /\ Flow(o, s).at = "clear")
  PROVE  Good(op', disc', gate', cred') /\ RecordInv'
<1>1. Flow(o, s).at \notin Ended \cup {"check", "fetch"}
  BY DEF Holding, LoginAt, Ended
<1>2. Good(op', disc', gate', cred')
  BY <1>1, EndGood DEF LoginFails, Flow
<1>3. RecordInv'
  BY InfosConsistent, RecordKept DEF LoginFails
<1> QED
  BY <1>2, <1>3

\* A call or a read that is resolved is opened, looked up again or given up.
LEMMA CallPlaces == \A s \in Servers : CallAt(s) \in {"resolve", "calling", "done"} /\ ReadAt(s) \in {"read", "doc", "resolve", "calling", "done"}
BY DEF CallAt, ReadAt

LEMMA ReachesGood ==
  ASSUME NEW ops, Good(ops, disc, gate, cred), NEW o \in Ops, NEW s \in Servers,
         NEW at \in {"read", "doc", "resolve", "calling", "done"}, Reaches(ops, o, s, at), UNCHANGED <<gate, cred>>,
         ops[o].kind \notin {"auto", "orphans"},
         ops[o].flow[s].at \notin Ended \cup {"check", "fetch"} \cup Holding
  PROVE  Good(op', disc', gate', cred')
<1>1. gate' = gate \ {<<o, s>>} /\ Except(ops, o, s, disc)
  BY GateLeft, ThereExcept DEF Good
<1>2. CASE at = "done"
  BY <1>1, <1>2, EndPasses DEF Good, Reaches
<1>3. CASE at # "done"
  <2>1. at \in FlowAt /\ at \notin Holding \cup {"drop", "check", "fetch"}
    BY <1>3 DEF FlowAt, TaskAt, Holding, LoginAt
  <2> QED
    BY <1>3, <2>1, GoGood DEF Reaches
<1> QED
  BY <1>2, <1>3
-----------------------------------------------------------------------------
(***************************************************************************)
(* Beginnings.                                                             *)
(***************************************************************************)
\* An operation begins whose servers nothing in the foreground works on; it is in no region yet.
LEMMA BegunGood ==
  ASSUME Good(op, disc, gate, cred), NEW o \in Ops, op[o].kind = "none",
         NEW kind \in Kinds \ {"none", "auto", "orphans"}, NEW names \in SUBSET Servers, NEW at \in {"queued", "drop", "out"},
         kind = "over" => at = "out",
         at = "drop" => kind \in {"toggle", "disconnect"},
         \A p \in Ops : \A s \in names : Front(op, p) => op[p].flow[s].at \in Ended
  PROVE  Good(Begun(o, kind, names, at), disc, gate, cred)
<1> DEFINE ops == Begun(o, kind, names, at)
<1>1. at \in FlowAt /\ At(at) \in Flows /\ At(at).at = at /\ At(at).stop = "no" /\ ~At(at).first
  <2>1. at \in FlowAt
    BY DEF FlowAt, Ended
  <2> QED
    BY <2>1, OutType
<1>2. /\ ops \in OpType /\ \A p \in Ops \ {o} : ops[p] = op[p]
      /\ ops[o].kind = kind /\ ops[o].cut = FALSE
      /\ \A s \in Servers : ops[o].flow[s] = IF s \in names THEN At(at) ELSE Out
  <2>1. op \in OpType
    BY DEF Good, FlowInv
  <2>2. [kind |-> kind, cut |-> FALSE, flow |-> [s \in Servers |-> IF s \in names THEN At(at) ELSE Out]]
          \in [kind : Kinds, cut : BOOLEAN, flow : [Servers -> Flows]]
    BY <1>1, OutType
  <2> QED
    BY <2>1, <2>2 DEF Begun, OpType
<1> HIDE DEF ops
<1>3. \A s \in Servers : op[o].flow[s].at \in Ended
  BY DEF Good, FlowInv, Regular
<1>4. FlowInv(ops)
  <2>1. Regular(ops)
    <3> SUFFICES ASSUME NEW p \in Ops, NEW t \in Servers
                 PROVE  /\ ops[p].kind \in {"none", "over"} => ops[p].flow[t].at \in Ended
                        /\ ops[p].kind \in {"auto", "orphans"} =>
                             ops[p].flow[t].at \in Ended \cup {"queued", "check", "fetch"} /\ ~ops[p].flow[t].first
                        /\ ops[p].flow[t].stop # "no" => ops[p].flow[t].at \in TaskAt
                        /\ ops[p].kind = "orphans" => ops[p].cut
      BY DEF Regular
    <3>1. CASE p # o
      BY <1>2, <3>1 DEF Good, FlowInv, Regular
    <3>2. CASE p = o
      BY <1>1, <1>2, <3>2, OutType DEF Ended
    <3> QED
      BY <3>1, <3>2
  <2>2. Alone(ops)
    <3> SUFFICES ASSUME NEW p \in Ops, NEW q \in Ops, NEW t \in Servers,
                        p # q, ops[p].flow[t].at = "drop", Front(ops, q)
                 PROVE  ops[q].flow[t].at \in Ended
      BY DEF Alone
    <3>1. CASE p = o
      <4>1. t \in names
        BY <1>2, <3>1, OutType
      <4> QED
        BY <1>2, <3>1, <4>1 DEF Front
    <3>2. CASE q = o
      <4>1. Front(op, p)
        BY <1>2, <3>2 DEF Front, Good, FlowInv, Dropping
      <4>2. t \notin names
        BY <1>2, <3>2, <4>1 DEF Ended
      <4> QED
        BY <1>2, <3>2, <4>2, OutType DEF Ended
    <3>3. CASE p # o /\ q # o
      BY <1>2, <3>3 DEF Front, Good, FlowInv, Alone
    <3> QED
      BY <3>1, <3>2, <3>3
  <2>3. Dropping(ops)
    <3> SUFFICES ASSUME NEW p \in Ops, NEW t \in Servers, ops[p].flow[t].at = "drop"
                 PROVE  ops[p].kind \in {"toggle", "disconnect"}
      BY DEF Dropping
    <3>1. CASE p = o
      BY <1>1, <1>2, <3>1, OutType
    <3>2. CASE p # o
      BY <1>2, <3>2 DEF Good, FlowInv, Dropping
    <3> QED
      BY <3>1, <3>2
  <2> QED
    BY <1>2, <2>1, <2>2, <2>3 DEF FlowInv
<1>5. \A t \in Servers : ops[o].flow[t].at \notin {"check", "fetch"} \cup Holding
  BY <1>1, <1>2, OutType DEF Holding, LoginAt
<1>6. RegionInv(ops, disc)
  <2>1. ASSUME NEW t \in Servers PROVE Discoveries(ops, t) = Discoveries(op, t)
    <3>1. \A p \in Ops \ {o} : Inside(ops, p, t) <=> Inside(op, p, t)
      BY <1>2 DEF Inside, OwnRegion
    <3>2. ~Inside(ops, o, t) /\ ~Inside(op, o, t)
      BY <1>2, <1>3, <1>5 DEF Inside, OwnRegion, Ended
    <3> QED
      BY <3>1, <3>2 DEF Discoveries
  <2> QED
    BY <2>1 DEF Good, RegionInv
<1>7. GateInv(ops, gate)
  <2>1. \A t \in Servers : op[o].flow[t].at \notin Holding
    BY <1>3 DEF Ended, Holding, LoginAt
  <2> QED
    BY <1>2, <1>5, <2>1 DEF Good, GateInv
<1>8. CredInv(ops, cred)
  <2>1. \A t \in Servers : ops[o].flow[t].at \notin {"auth", "registered"}
    BY <1>5 DEF Holding, LoginAt
  <2> QED
    BY <1>2, <2>1 DEF Good, CredInv
<1> QED
  BY <1>4, <1>6, <1>7, <1>8 DEF Good, ops

LEMMA FreshIsNone == ASSUME NEW o \in Ops, Fresh(o) PROVE op[o].kind = "none"
BY DEF Fresh

LEMMA NoFront ==
  ASSUME Foreground = {} PROVE \A p \in Ops : \A s \in Servers : Front(op, p) => op[p].flow[s].at \in Ended
BY DEF Foreground, Front

LEMMA OthersToggle ==
  ASSUME NEW s \in Servers, \A p \in Foreground : op[p].kind = "toggle" /\ op[p].flow[s].at = "out"
  PROVE  \A p \in Ops : \A t \in {s} : Front(op, p) => op[p].flow[t].at \in Ended
BY DEF Foreground, Front, Ended

LEMMA AutoGood ==
  ASSUME Good(op, disc, gate, cred), DiscoverAuto
  PROVE  Good(op', disc', gate', cred')
<1>1. 1 \in Ops /\ op[1].kind = "none"
  BY McpAssumption DEF DiscoverAuto, Fresh, Ops
<1> DEFINE ops == Begun(1, "auto", AutoConnect, "queued")
<1>2. At("queued") \in Flows /\ At("queued").at = "queued" /\ At("queued").stop = "no" /\ ~At("queued").first
  BY OutType DEF FlowAt
<1>3. /\ ops \in OpType /\ \A p \in Ops \ {1} : ops[p] = op[p]
      /\ ops[1].kind = "auto" /\ ops[1].cut = FALSE
      /\ \A s \in Servers : ops[1].flow[s] = IF s \in AutoConnect THEN At("queued") ELSE Out
  <2>1. op \in OpType
    BY DEF Good, FlowInv
  <2>2. [kind |-> "auto", cut |-> FALSE, flow |-> [s \in Servers |-> IF s \in AutoConnect THEN At("queued") ELSE Out]]
          \in [kind : Kinds, cut : BOOLEAN, flow : [Servers -> Flows]]
    BY <1>2, OutType DEF Kinds
  <2> QED
    BY <1>1, <2>1, <2>2 DEF Begun, OpType
<1>4. op' = ops /\ disc' = Enter(disc, AutoConnect) /\ gate' = gate /\ cred' = cred /\ AutoConnect # {}
  BY DEF DiscoverAuto
<1> HIDE DEF ops
<1>5. \A s \in Servers : op[1].flow[s].at \in Ended /\ ops[1].flow[s].at \in Ended \cup {"queued"}
                         /\ ops[1].flow[s].stop = "no" /\ ~ops[1].flow[s].first
  BY <1>1, <1>2, <1>3, OutType DEF Good, FlowInv, Regular, Ended
<1>6. FlowInv(ops)
  <2>1. Regular(ops)
    BY <1>3, <1>5 DEF Good, FlowInv, Regular
  <2>2. Alone(ops)
    <3> SUFFICES ASSUME NEW p \in Ops, NEW q \in Ops, NEW t \in Servers,
                        p # q, ops[p].flow[t].at = "drop", Front(ops, q)
                 PROVE  ops[q].flow[t].at \in Ended
      BY DEF Alone
    <3>1. p # 1 /\ q # 1
      BY <1>3, <1>5 DEF Ended, Front
    <3> QED
      BY <1>3, <3>1 DEF Good, FlowInv, Alone, Front
  <2>3. Dropping(ops)
    <3> SUFFICES ASSUME NEW p \in Ops, NEW t \in Servers, ops[p].flow[t].at = "drop"
                 PROVE  ops[p].kind \in {"toggle", "disconnect"}
      BY DEF Dropping
    <3>1. p # 1
      BY <1>5 DEF Ended
    <3> QED
      BY <1>3, <3>1 DEF Good, FlowInv, Dropping
  <2> QED
    BY <1>3, <2>1, <2>2, <2>3 DEF FlowInv
<1>7. RegionInv(ops, Enter(disc, AutoConnect))
  <2>1. ASSUME NEW t \in Servers
        PROVE  /\ Discoveries(op, t) \in SUBSET Ops /\ 1 \notin Discoveries(op, t)
               /\ Discoveries(ops, t) = IF t \in AutoConnect THEN Discoveries(op, t) \cup {1} ELSE Discoveries(op, t)
    <3>1. \A p \in Ops \ {1} : Inside(ops, p, t) <=> Inside(op, p, t)
      BY <1>3 DEF Inside, OwnRegion
    <3>2. ~Inside(op, 1, t) /\ (Inside(ops, 1, t) <=> t \in AutoConnect)
      BY <1>1, <1>3, <1>5 DEF Inside, OwnRegion, Ended
    <3> QED
      BY <1>1, <3>1, <3>2 DEF Discoveries
  <2>2. \A t \in Servers : disc.count[t] = Cardinality(Discoveries(op, t)) /\ disc.count[t] >= 0
    BY <2>1, Finite DEF Good, RegionInv
  <2>3. /\ RegionType(Enter(disc, AutoConnect)) /\ Settled(Enter(disc, AutoConnect))
        /\ \A t \in Servers : Enter(disc, AutoConnect).count[t] = IF t \in AutoConnect THEN disc.count[t] + 1 ELSE disc.count[t]
    BY <1>4, <2>2, EnterFacts, McpAssumption DEF Good, RegionInv
  <2>4. \A t \in Servers : Enter(disc, AutoConnect).count[t] = Cardinality(Discoveries(ops, t))
    BY <1>1, <2>1, <2>2, <2>3, Sizes
  <2> QED
    BY <2>3, <2>4 DEF RegionInv
<1>8. GateInv(ops, gate)
  <2>1. \A t \in Servers : op[1].flow[t].at \notin Holding /\ ops[1].flow[t].at \notin Holding
    BY <1>5 DEF Ended, Holding, LoginAt
  <2> QED
    BY <1>3, <2>1 DEF Good, GateInv
<1>9. CredInv(ops, cred)
  <2>1. \A t \in Servers : ops[1].flow[t].at \notin {"auth", "registered"}
    BY <1>5 DEF Ended
  <2> QED
    BY <1>3, <2>1 DEF Good, CredInv
<1> QED
  BY <1>4, <1>6, <1>7, <1>8, <1>9 DEF Good

\* A disconnection begins, or is done with at once when the server has no login.
LEMMA DisconnectsGood ==
  ASSUME Good(op, disc, gate, cred), RecordInv, NEW o \in Ops, Fresh(o), NEW s \in Servers,
         NEW kind \in {"toggle", "disconnect"}, Disconnects(o, s, kind),
         \A p \in Ops : \A t \in {s} : Front(op, p) => op[p].flow[t].at \in Ended
  PROVE  Good(op', disc', gate', cred') /\ RecordInv'
<1>1. UNCHANGED <<disc, gate, cred>> /\ op[o].kind = "none"
  BY FreshIsNone DEF Disconnects
<1>2. CASE s \in Oauth
  <2>1. op' = Begun(o, kind, {s}, "drop") /\ UNCHANGED srv
    BY <1>2 DEF Disconnects
  <2>2. Good(Begun(o, kind, {s}, "drop"), disc, gate, cred)
    BY <1>1, BegunGood DEF Kinds
  <2> QED
    BY <1>1, <2>1, <2>2, RecordSame
<1>3. CASE s \notin Oauth
  <2>1. op' = Begun(o, "over", {}, "out") /\ Record(s, Unknown)
    BY <1>3 DEF Disconnects
  <2>2. Good(Begun(o, "over", {}, "out"), disc, gate, cred)
    <3>1. "over" \in Kinds \ {"none", "auto", "orphans"} /\ {} \in SUBSET Servers
      BY DEF Kinds
    <3> QED
      BY <1>1, <3>1, BegunGood
  <2> QED
    BY <1>1, <2>1, <2>2, InfosConsistent, RecordKept
<1> QED
  BY <1>2, <1>3

\* An operation on one server begins with its flow queued.
LEMMA OneBegun ==
  ASSUME Good(op, disc, gate, cred), NEW o \in Ops, Fresh(o), NEW s \in Servers, NEW kind \in {"toggle", "mention", "call"},
         \A p \in Ops : \A t \in {s} : Front(op, p) => op[p].flow[t].at \in Ended
  PROVE  /\ Good(Begun(o, kind, {s}, "queued"), disc, gate, cred)
         /\ Begun(o, kind, {s}, "queued")[o].kind = kind
         /\ Begun(o, kind, {s}, "queued")[o].flow[s].at = "queued"
<1>1. Good(Begun(o, kind, {s}, "queued"), disc, gate, cred)
  <2>1. kind \in Kinds \ {"none", "auto", "orphans"} /\ {s} \in SUBSET Servers
    BY DEF Kinds
  <2> QED
    BY <2>1, FreshIsNone, BegunGood
<1>2. Begun(o, kind, {s}, "queued")[o] = [kind |-> kind, cut |-> FALSE, flow |-> [t \in Servers |-> IF t \in {s} THEN At("queued") ELSE Out]]
  BY DEF Begun, Good, FlowInv, OpType
<1>3. At("queued").at = "queued"
  BY DEF At, Out
<1> QED
  BY <1>1, <1>2, <1>3

LEMMA BeginsGood ==
  ASSUME IInv, NEW o \in Ops, NEW s \in Servers, DisconnectServer(o, s) \/ Toggle(o, s) \/ Mention(o, s) \/ Call(o, s)
  PROVE  Good(op', disc', gate', cred') /\ RecordInv'
<1>1. Good(op, disc, gate, cred) /\ RecordInv
  BY DEF IInv, Good
<1>2. CASE DisconnectServer(o, s)
  BY <1>1, <1>2, NoFront, DisconnectsGood DEF DisconnectServer
<1>3. CASE Toggle(o, s)
  <2>1. Fresh(o) /\ \A p \in Ops : \A t \in {s} : Front(op, p) => op[p].flow[t].at \in Ended
    BY <1>3, OthersToggle DEF Toggle
  <2>2. CASE Connected(s)
    BY <1>1, <1>3, <2>1, <2>2, DisconnectsGood DEF Toggle
  <2>3. CASE ~Connected(s)
    <3>1. op' = Begun(o, "toggle", {s}, "queued") /\ UNCHANGED <<disc, srv, cred, gate>>
      BY <1>3, <2>3 DEF Toggle
    <3>2. Good(Begun(o, "toggle", {s}, "queued"), disc, gate, cred)
      BY <1>1, <2>1, OneBegun
    <3> QED
      BY <1>1, <3>1, <3>2, RecordSame
  <2> QED
    BY <2>2, <2>3
<1>4. CASE Mention(o, s)
  <2> DEFINE ops == Begun(o, "mention", {s}, "queued")
  <2>1. Fresh(o) /\ Discover(ops, o, s, FALSE) /\ UNCHANGED <<gate, cred>>
    BY Zenon, <1>4 DEF Mention
  <2>2. Good(ops, disc, gate, cred) /\ ops[o].kind = "mention" /\ ops[o].flow[s].at = "queued"
    BY <1>1, <1>4, <2>1, NoFront, OneBegun DEF Mention
  <2> HIDE DEF ops
  <2> QED
    BY Zenon, <1>1, <2>1, <2>2, DiscoverGood
<1>5. CASE Call(o, s)
  <2> DEFINE ops == Begun(o, "call", {s}, "queued")
             reading == Connected(s) /\ ~srv[s].tried
             at == IF reading THEN ReadAt(s) ELSE CallAt(s)
  <2>1. Fresh(o) /\ Reaches(ops, o, s, at) /\ UNCHANGED <<gate, cred>> /\ Foreground = {}
    BY <1>5 DEF Call
  <2>2. Good(ops, disc, gate, cred) /\ ops[o].kind = "call" /\ ops[o].flow[s].at = "queued"
    BY <1>1, <2>1, NoFront, OneBegun
  <2>3. at \in {"read", "doc", "resolve", "calling", "done"}
    BY CallPlaces
  <2>4. srv' = [srv EXCEPT ![s].tried = @ \/ reading]
    BY <1>5 DEF Call
  <2>5. RecordInv'
    <3>1. srv \in [Servers -> Infos] /\ CatalogOrIssue
      BY <1>1 DEF RecordInv, Infos
    <3>2. srv' \in [Servers -> Infos]
      BY Zenon, <2>4, <3>1 DEF Infos
    <3>3. CatalogOrIssue'
      BY <2>4, <3>1 DEF CatalogOrIssue, Connected, Infos
    <3> QED
      BY <3>2, <3>3 DEF RecordInv, Infos
  <2> HIDE DEF ops, at
  <2>6. "queued" \notin Ended \cup {"check", "fetch"} \cup Holding
    BY DEF Ended, Holding, LoginAt
  <2> QED
    BY <2>1, <2>2, <2>3, <2>5, <2>6, ReachesGood
<1> QED
  BY <1>2, <1>3, <1>4, <1>5

LEMMA ConnectGood ==
  ASSUME Good(op, disc, gate, cred), NEW o \in Ops, NEW names \in SUBSET Servers, ConnectServers(o, names)
  PROVE  Good(op', disc', gate', cred')
<1>1. /\ Fresh(o) /\ Foreground = {} /\ op' = Begun(o, "connect", names, "queued")
      /\ UNCHANGED <<disc, gate, cred>>
  BY DEF ConnectServers
<1>2. Good(Begun(o, "connect", names, "queued"), disc, gate, cred)
  <2>1. "connect" \in Kinds \ {"none", "auto", "orphans"}
    BY DEF Kinds
  <2> QED
    BY <1>1, <2>1, NoFront, FreshIsNone, BegunGood
<1> QED
  BY <1>1, <1>2
-----------------------------------------------------------------------------
(***************************************************************************)
(* Steps of a flow.                                                        *)
(***************************************************************************)
\* Where a flow is says that it belongs to an operation that may log in.
LEMMA NoLogin ==
  ASSUME Good(op, disc, gate, cred), NEW o \in Ops, NEW s \in Servers,
         Flow(o, s).at \notin Ended \cup {"queued", "check", "fetch"} \/ (Flow(o, s).at \notin Ended /\ Flow(o, s).first)
  PROVE  op[o].kind \notin {"auto", "orphans", "none", "over"}
BY DEF Good, FlowInv, Regular, Flow

LEMMA StartGood ==
  ASSUME IInv, NEW o \in Ops, NEW s \in Servers, Start(o, s) \/ Probed(o, s)
  PROVE  Good(op', disc', gate', cred') /\ RecordInv'
<1>1. Good(op, disc, gate, cred) /\ RecordInv
  BY DEF IInv, Good
<1>2. /\ UNCHANGED <<gate, cred>> /\ op[o].flow[s].at \in {"queued", "probe"}
      /\ \/ \E first \in BOOLEAN : Discover(op, o, s, first) /\ (op[o].flow[s].at = "queued" => ~first)
         \/ /\ UNCHANGED <<disc, srv>> /\ \E at \in {"probe", "gate"} : Goes(op, o, s, At(at))
            /\ op[o].kind # "auto" \/ op[o].flow[s].at = "probe"
      /\ ~op[o].cut
  <2>1. CASE Start(o, s)
    BY Zenon, <2>1 DEF Start, Runs, Flow
  <2>2. CASE Probed(o, s)
    BY Zenon, <2>2 DEF Probed, Runs, Flow
  <2> QED
    BY <2>1, <2>2
<1>3. op[o].flow[s].at = "probe" => op[o].kind \notin {"auto", "orphans"}
  BY <1>1, NoLogin DEF Flow, Ended
<1>4. ASSUME NEW first \in BOOLEAN, Discover(op, o, s, first), op[o].flow[s].at = "queued" => ~first
      PROVE  Good(op', disc', gate', cred') /\ RecordInv'
  BY <1>1, <1>2, <1>3, <1>4, DiscoverGood
<1>5. ASSUME UNCHANGED <<disc, srv>>, NEW at \in {"probe", "gate"}, Goes(op, o, s, At(at)),
             op[o].kind # "auto" \/ op[o].flow[s].at = "probe"
      PROVE  Good(op', disc', gate', cred') /\ RecordInv'
  <2>1. op[o].kind \notin {"auto", "orphans"}
    BY <1>1, <1>2, <1>3, <1>5 DEF Good, FlowInv, Regular
  <2>2. /\ at \in FlowAt /\ at \notin Holding \cup {"drop", "check", "fetch"}
        /\ op[o].flow[s].at \notin Ended \cup {"check", "fetch"} \cup Holding
    BY <1>2 DEF FlowAt, Holding, LoginAt, Ended
  <2>3. Good(op', disc', gate', cred')
    BY <1>1, <1>2, <1>5, <2>1, <2>2, GoGood
  <2> QED
    BY <1>1, <1>5, <2>3, RecordSame
<1> QED
  BY <1>2, <1>4, <1>5

LEMMA CheckedGood ==
  ASSUME IInv, NEW o \in Ops, NEW s \in Servers, Checked(o, s)
  PROVE  Good(op', disc', gate', cred') /\ RecordInv'
<1>1. Good(op, disc, gate, cred) /\ RecordInv /\ UNCHANGED <<gate, cred>> /\ Flow(o, s).at = "check"
  BY DEF IInv, Good, Checked, Runs
<1>2. ASSUME NEW i \in {"auth", "error"}, Discovered(o, s, Failed(i)) PROVE Good(op', disc', gate', cred') /\ RecordInv'
  BY <1>1, <1>2, InfosConsistent, DiscoveredGood
<1>3. ASSUME Goes(op, o, s, [Flow(o, s) EXCEPT !.at = "fetch"]), UNCHANGED disc, UNCHANGED srv
      PROVE  Good(op', disc', gate', cred') /\ RecordInv'
  <2> DEFINE f == [Flow(o, s) EXCEPT !.at = "fetch"]
  <2>1. /\ Flow(o, s) \in Flows /\ Flow(o, s).stop = "no" /\ op \in OpType /\ op[o].flow[s] = Flow(o, s)
        /\ op[o].kind \in {"auto", "orphans"} => ~Flow(o, s).first
    BY <1>1 DEF Good, FlowInv, OpType, Flow, Regular, Checked, Runs
  <2>2. f \in Flows /\ f.at = "fetch" /\ f.stop = "no" /\ f.first = Flow(o, s).first
    BY <2>1 DEF Flows, FlowAt, TaskAt
  <2> HIDE DEF f
  <2>3. After(op, o, s, f) /\ op'[o].kind = op[o].kind /\ \A t \in Servers \ {s} : op'[o].flow[t] = op[o].flow[t]
    BY <1>3, <2>1, <2>2, GoesAfter DEF f
  <2>4. "fetch" \notin Holding \cup {"drop"} /\ "check" \notin Holding \cup Ended
    BY DEF Holding, LoginAt, Ended
  <2>5. gate' = gate \ {<<o, s>>}
    BY <1>1, <2>1, <2>4, GateLeft DEF Good
  <2>6. FlowInv(op') /\ GateInv(op', gate') /\ CredInv(op', cred')
    BY Zenon, <1>1, <2>1, <2>2, <2>3, <2>4, <2>5, Passes DEF Good
  <2>7. RegionInv(op', disc')
    <3>1. ASSUME NEW t \in Servers PROVE Discoveries(op', t) = Discoveries(op, t)
      <4>1. \A p \in Ops \ {o} : Inside(op', p, t) <=> Inside(op, p, t)
        BY <2>3 DEF After, Inside, OwnRegion
      <4>2. Inside(op', o, t) <=> Inside(op, o, t)
        BY <1>1, <2>1, <2>2, <2>3 DEF After, Inside, OwnRegion
      <4> QED
        BY <4>1, <4>2 DEF Discoveries
    <3> QED
      BY <1>1, <1>3, <3>1 DEF Good, RegionInv
  <2> QED
    BY <1>1, <1>3, <2>6, <2>7, RecordSame DEF Good
<1> QED
  BY <1>2, <1>3 DEF Checked

LEMMA FetchedGood ==
  ASSUME IInv, NEW o \in Ops, NEW s \in Servers, Fetched(o, s)
  PROVE  Good(op', disc', gate', cred') /\ RecordInv'
<1>1. Good(op, disc, gate, cred) /\ RecordInv /\ UNCHANGED <<gate, cred>> /\ Flow(o, s).at = "fetch"
  BY DEF IInv, Good, Fetched, Runs
<1>2. PICK info \in {Found(s)} \cup {Failed(i) : i \in Issues(s)} : Discovered(o, s, info)
  BY DEF Fetched
<1>3. Consistent(info)
  BY <1>1, InfosConsistent DEF Issues
<1> QED
  BY <1>1, <1>2, <1>3, DiscoveredGood

LEMMA LoginGood ==
  ASSUME IInv, NEW o \in Ops, NEW s \in Servers, TakeGate(o, s) \/ Register(o, s) \/ Grant(o, s) \/ Authenticate(o, s)
  PROVE  Good(op', disc', gate', cred') /\ RecordInv'
<1>1. Good(op, disc, gate, cred) /\ RecordInv /\ op \in OpType
  BY DEF IInv, Good, FlowInv
<1>2. Flow(o, s).at \in {"gate", "clear", "auth", "registered"} /\ ~op[o].cut
  BY DEF TakeGate, Register, Grant, Authenticate, Runs
<1>3. op[o].kind \notin {"auto", "orphans"} /\ op[o].flow[s].at \notin Ended \cup {"check", "fetch"} /\ Flow(o, s) = op[o].flow[s]
  BY <1>1, <1>2, NoLogin DEF Ended, Flow
<1>4. Except(op, o, s, disc)
  BY <1>1, <1>3, ThereExcept DEF Good
<1>5. ASSUME NEW at \in {"clear", "auth", "registered", "granted"}, Goes(op, o, s, At(at)), UNCHANGED <<disc, srv>>,
             \/ op[o].flow[s].at \in Holding /\ gate' = gate
             \/ gate = {} /\ gate' = {<<o, s>>},
             After(op, o, s, At(at)) => CredInv(op', cred')
      PROVE  Good(op', disc', gate', cred') /\ RecordInv'
  <2>1. At(at) \in Flows /\ At(at).at = at /\ At(at).stop = "no"
    BY OutType DEF FlowAt, TaskAt, LoginAt
  <2>2. After(op, o, s, At(at))
    BY <1>1, <1>5, <2>1, GoesAfter
  <2>3. FlowInv(op')
    BY <1>1, <1>3, <2>1, <2>2, FlowStep DEF Good
  <2>4. GateInv(op', gate')
    BY <1>1, <1>5, <2>1, <2>2, GateKept DEF Good, Holding, LoginAt
  <2>5. RegionInv(op', disc')
    BY <1>1, <1>4, <1>5, <2>1, RegionGoes
  <2> QED
    BY <1>1, <1>5, <2>2, <2>3, <2>4, <2>5, RecordSame DEF Good
<1>6. CASE TakeGate(o, s)
  <2>1. After(op, o, s, At("clear")) => CredInv(op', cred')
    <3>1. At("clear").at = "clear" /\ cred' = cred
      BY <1>6, OutType DEF FlowAt, TakeGate
    <3> QED
      BY <1>1, <3>1, CredKept DEF Good
  <2> QED
    BY <1>5, <1>6, <2>1 DEF TakeGate
<1>7. CASE Authenticate(o, s)
  <2>1. Cleared(s) /\ op[o].flow[s].at = "clear" /\ "clear" \in Holding
    BY <1>7 DEF Authenticate, Runs, Flow, Holding
  <2>2. CASE closed
    <3>1. LoginFails(o, s, Failed("error"))
      BY <1>7, <2>2 DEF Authenticate
    <3> QED
      BY <1>1, <1>3, <2>1, <3>1, LoginFailsGood
  <2>3. CASE ~closed
    <3>1. Goes(op, o, s, At("auth")) /\ UNCHANGED <<disc, gate>> /\ UNCHANGED srv
      BY <1>7, <2>3 DEF Authenticate
    <3>2. After(op, o, s, At("auth")) => CredInv(op', cred')
      <4>1. At("auth").at = "auth"
        BY OutType DEF FlowAt, TaskAt, LoginAt
      <4> QED
        BY <1>1, <2>1, <4>1, CredCleared DEF Good
    <3> QED
      BY <1>5, <2>1, <3>1, <3>2
  <2> QED
    BY <2>2, <2>3
<1>8. CASE Register(o, s)
  <2>1. /\ op[o].flow[s].at = "auth" /\ "auth" \in Holding /\ Goes(op, o, s, At("registered")) /\ UNCHANGED <<disc, srv, gate>>
        /\ cred' = [cred EXCEPT ![s].client = IF @ = 0 THEN o ELSE @]
    BY <1>8 DEF Register, Runs, Flow, Holding, LoginAt
  <2>2. /\ cred \in [Servers -> [client : 0..MaxOps+1, token : 0..MaxOps+1]] /\ cred[s] = [client |-> 0, token |-> 0]
        /\ o \in 0..MaxOps+1
    BY <1>1, <2>1, McpAssumption DEF Good, CredInv, Erased, Ops
  <2>3. /\ cred' \in [Servers -> [client : 0..MaxOps+1, token : 0..MaxOps+1]] /\ cred'[s] = [client |-> o, token |-> 0]
        /\ \A t \in Servers \ {s} : cred'[t] = cred[t]
    BY <2>1, <2>2
  <2>4. ASSUME After(op, o, s, At("registered")) PROVE CredInv(op', cred')
    <3>1. ASSUME NEW p \in Ops, op[p].flow[s].at \in {"auth", "registered"} PROVE p = o
      BY Zenon, <1>1, <2>1, <3>1 DEF Good, GateInv, Holding, LoginAt
    <3>2. At("registered").at = "registered"
      BY OutType DEF FlowAt, TaskAt, LoginAt
    <3>3. ASSUME NEW p \in Ops, NEW t \in Servers
          PROVE  /\ op'[p].flow[t].at = "auth" => cred'[t] = Erased
                 /\ op'[p].flow[t].at = "registered" /\ ~op'[p].cut => cred'[t] = [client |-> p, token |-> 0]
      <4>1. CASE p = o /\ t = s
        BY <2>3, <2>4, <3>2, <4>1 DEF After
      <4>2. CASE p # o /\ t = s
        BY <2>4, <3>1, <4>2, OthersLog
      <4>3. CASE t # s
        BY <1>1, <2>3, <2>4, <4>3, OthersLog DEF Good, CredInv
      <4> QED
        BY <4>1, <4>2, <4>3
    <3> QED
      BY <1>1, <2>3, <3>3 DEF Good, CredInv
  <2> QED
    BY <1>5, <2>1, <2>4
<1>9. CASE Grant(o, s)
  <2>1. /\ op[o].flow[s].at = "registered" /\ "registered" \in Holding /\ Goes(op, o, s, At("granted")) /\ UNCHANGED <<disc, srv, gate>>
        /\ cred' = [cred EXCEPT ![s].token = o]
    BY <1>9 DEF Grant, Runs, Flow, Holding, LoginAt
  <2>2. /\ cred \in [Servers -> [client : 0..MaxOps+1, token : 0..MaxOps+1]] /\ cred[s] = [client |-> o, token |-> 0]
        /\ o \in 0..MaxOps+1
    BY <1>1, <1>2, <2>1, McpAssumption DEF Good, CredInv, Ops
  <2>3. /\ cred' \in [Servers -> [client : 0..MaxOps+1, token : 0..MaxOps+1]] /\ cred'[s] = [client |-> o, token |-> o]
        /\ \A t \in Servers \ {s} : cred'[t] = cred[t]
    BY <2>1, <2>2
  <2>4. ASSUME After(op, o, s, At("granted")) PROVE CredInv(op', cred')
    <3>1. ASSUME NEW p \in Ops, op[p].flow[s].at \in {"auth", "registered"} PROVE p = o
      BY Zenon, <1>1, <2>1, <3>1 DEF Good, GateInv, Holding, LoginAt
    <3>2. At("granted").at = "granted"
      BY OutType DEF FlowAt, TaskAt, LoginAt
    <3>3. ASSUME NEW p \in Ops, NEW t \in Servers
          PROVE  /\ op'[p].flow[t].at = "auth" => cred'[t] = Erased
                 /\ op'[p].flow[t].at = "registered" /\ ~op'[p].cut => cred'[t] = [client |-> p, token |-> 0]
      <4>1. CASE p = o /\ t = s
        BY <2>4, <3>2, <4>1 DEF After
      <4>2. CASE p # o /\ t = s
        BY <2>4, <3>1, <4>2, OthersLog
      <4>3. CASE t # s
        BY <1>1, <2>3, <2>4, <4>3, OthersLog DEF Good, CredInv
      <4> QED
        BY <4>1, <4>2, <4>3
    <3> QED
      BY <1>1, <2>3, <3>3 DEF Good, CredInv
  <2> QED
    BY <1>5, <2>1, <2>4
<1> QED
  BY <1>6, <1>7, <1>8, <1>9
LEMMA LoggedInGood ==
  ASSUME IInv, NEW o \in Ops, NEW s \in Servers, LoggedIn(o, s)
  PROVE  Good(op', disc', gate', cred') /\ RecordInv'
<1>1. Good(op, disc, gate, cred) /\ RecordInv /\ op[o].flow[s].at = "granted" /\ UNCHANGED cred
  BY DEF IInv, Good, LoggedIn, Runs, Flow
<1>2. op[o].kind \notin {"auto", "orphans"} /\ "granted" \in Holding /\ "granted" \notin Ended \cup {"check", "fetch"}
  BY <1>1, NoLogin DEF Ended, Flow, Holding, LoginAt
<1>3. gate' = gate \ {<<o, s>>} /\ Except(op, o, s, disc)
  BY <1>1, <1>2, GateLeft, ThereExcept DEF Good, LoggedIn
<1>4. At("check") \in Flows /\ At("check").at = "check" /\ At("check").stop = "no" /\ "check" \notin Holding \cup {"drop"}
  BY OutType DEF FlowAt, Holding, LoginAt
<1>5. Goes(op, o, s, At("check")) /\ disc' = Enter(disc, {s}) /\ OwnRegion(op, o)
  BY <1>2 DEF LoggedIn, OwnRegion
<1>6. Good(op', disc', gate', cred')
  BY Zenon, <1>1, <1>2, <1>3, <1>4, <1>5, GoPasses DEF Good
<1>7. RecordInv'
  BY <1>1, InfosConsistent, RecordKept DEF LoggedIn
<1> QED
  BY <1>6, <1>7

LEMMA RefusedGood ==
  ASSUME IInv, NEW o \in Ops, NEW s \in Servers, LoginRefused(o, s)
  PROVE  Good(op', disc', gate', cred') /\ RecordInv'
<1>1. Good(op, disc, gate, cred) /\ RecordInv /\ Flow(o, s).at \in Holding /\ UNCHANGED cred
  BY DEF IInv, Good, LoginRefused, Holding
<1>2. PICK i \in {"auth", "error"} : LoginFails(o, s, Failed(i))
  BY DEF LoginRefused, Issues
<1> QED
  BY <1>1, <1>2, LoginFailsGood

LEMMA DroppedGood ==
  ASSUME IInv, NEW o \in Ops, NEW s \in Servers, Dropped(o, s)
  PROVE  Good(op', disc', gate', cred') /\ RecordInv'
<1>1. Good(op, disc, gate, cred) /\ RecordInv /\ Flow(o, s).at = "drop" /\ "drop" \notin Ended \cup {"check", "fetch"} \cup Holding
  BY DEF IInv, Good, Dropped, Runs, Ended, Holding, LoginAt
<1>2. Good(op', disc', gate', cred')
  BY <1>1, EndGood DEF Dropped, Flow
<1>3. RecordInv'
  BY <1>1, InfosConsistent, RecordKept DEF Dropped
<1> QED
  BY <1>2, <1>3

LEMMA CallsGood ==
  ASSUME IInv, NEW o \in Ops, NEW s \in Servers,
         ReadResolved(o, s) \/ CallResolved(o, s) \/ DocRead(o, s) \/ Called(o, s)
  PROVE  Good(op', disc', gate', cred') /\ RecordInv'
<1>1. /\ Good(op, disc, gate, cred) /\ RecordInv /\ UNCHANGED <<srv, gate, cred>>
      /\ Flow(o, s) = op[o].flow[s] /\ Flow(o, s).at \in {"read", "resolve", "doc", "calling"}
  BY DEF IInv, Good, ReadResolved, CallResolved, DocRead, Called, Runs, Flow
<1>2. op[o].flow[s].at \notin Ended \cup {"check", "fetch"} \cup Holding /\ op[o].kind \notin {"auto", "orphans"}
  <2>1. op[o].flow[s].at \notin Ended \cup {"check", "fetch", "queued"} \cup Holding
    BY <1>1 DEF Ended, Holding, LoginAt
  <2> QED
    BY <1>1, <2>1, NoLogin
<1>3. CASE ReadResolved(o, s)
  <2>1. PICK at \in {"doc", "resolve"} : Goes(op, o, s, At(at)) /\ UNCHANGED disc
    BY <1>3 DEF ReadResolved
  <2>2. at \in FlowAt /\ at \notin Holding \cup {"drop", "check", "fetch"}
    BY DEF FlowAt, TaskAt, Holding, LoginAt
  <2> QED
    BY <1>1, <1>2, <2>1, <2>2, GoGood, RecordSame
<1>4. CASE CallResolved(o, s) \/ DocRead(o, s)
  <2>1. PICK at \in {"read", "doc", "resolve", "calling", "done"} : Reaches(op, o, s, at)
    BY <1>4, CallPlaces DEF CallResolved, DocRead
  <2> QED
    BY <1>1, <1>2, <2>1, ReachesGood, RecordSame
<1>5. CASE Called(o, s)
  <2>1. Ends(op, o, s, disc)
    BY <1>5 DEF Called
  <2> QED
    BY <1>1, <1>2, <2>1, EndGood, RecordSame
<1> QED
  BY <1>3, <1>4, <1>5

LEMMA TimedOutGood ==
  ASSUME IInv, NEW o \in Ops, NEW s \in Servers, TimedOut(o, s)
  PROVE  Good(op', disc', gate', cred') /\ RecordInv'
<1>1. /\ Good(op, disc, gate, cred) /\ RecordInv /\ UNCHANGED cred
      /\ Flow(o, s) = op[o].flow[s] /\ Flow(o, s).at \in TaskAt
  BY DEF IInv, Good, TimedOut, Flow, FlowInv, Regular
<1>2. CASE Flow(o, s).at = "fetch"
  <2>1. Discovered(o, s, Failed("error")) /\ UNCHANGED gate
    BY <1>2 DEF TimedOut, LoginAt
  <2> QED
    BY <1>1, <1>2, <2>1, InfosConsistent, DiscoveredGood
<1>3. CASE Flow(o, s).at \in LoginAt
  <2>1. LoginFails(o, s, Failed("error")) /\ Flow(o, s).at \in Holding
    BY <1>3 DEF TimedOut, LoginAt, Holding
  <2> QED
    BY <1>1, <2>1, LoginFailsGood
<1>4. CASE Flow(o, s).at \in {"doc", "calling"}
  <2>1. op[o].flow[s].at \notin Ended \cup {"check", "fetch"} \cup Holding /\ op[o].kind \notin {"auto", "orphans"}
    <3>1. op[o].flow[s].at \notin Ended \cup {"check", "fetch", "queued"} \cup Holding
      BY <1>1, <1>4 DEF Ended, Holding, LoginAt
    <3> QED
      BY <1>1, <3>1, NoLogin
  <2>2. \/ Reaches(op, o, s, CallAt(s)) /\ UNCHANGED <<srv, gate>>
        \/ Ends(op, o, s, disc) /\ UNCHANGED <<srv, gate>>
    BY <1>4 DEF TimedOut, LoginAt
  <2> QED
    BY <1>1, <2>1, <2>2, CallPlaces, ReachesGood, EndGood, RecordSame
<1> QED
  BY <1>1, <1>2, <1>3, <1>4 DEF TaskAt

\* gather raises with its first cancelled flow; the others go on without the region.
LEMMA AbandonGood ==
  ASSUME Good(op, disc, gate, cred), NEW o \in Ops, NEW s \in Servers, Abandon(o, s),
         Flow(o, s).at \notin Ended,
         op[o].cut \/ Flow(o, s).at \in TaskAt \ {"fetch"},
         Flow(o, s).at \in {"check", "fetch"} => ~OwnRegion(op, o),
         gate' = gate \ {<<o, s>>},
         cred' = cred \/ (Cleared(s) /\ Flow(o, s).at \in {"clear", "drop"})
  PROVE  Good(op', disc', gate', cred')
<1>1. Except(op, o, s, disc) /\ FlowInv(op) /\ GateInv(op, gate) /\ CredInv(op, cred) /\ op \in OpType /\ Flow(o, s) = op[o].flow[s]
  BY Zenon, ExceptFacts DEF Good, Flow, FlowInv
<1>2. CASE op[o].kind # "auto"
  <2>1. Ends(op, o, s, disc)
    BY <1>2 DEF Abandon
  <2> QED
    BY Zenon, <1>1, <2>1, EndPasses
<1>3. CASE op[o].kind = "auto"
  <2>1. op[o].cut
    BY <1>1, <1>3 DEF FlowInv, Regular, Ended, TaskAt, LoginAt
  <2>2. disc' = Leave(disc, AutoConnect, TRUE)
    BY <1>3 DEF Abandon
  <2>3. PICK g \in {Out, At("done")} : After(op, o, s, g) /\ op'[o].kind \in {"over", "orphans"}
    <3>1. CASE IsLast(op, o, s)
      <4>1. op' = [op EXCEPT ![o] = [NoOp EXCEPT !.kind = "over"]]
        BY <1>3, <3>1 DEF Abandon
      <4> QED
        BY Zenon, <1>1, <3>1, <4>1, DoneAfter
    <3>2. CASE ~IsLast(op, o, s)
      <4>1. op' = [op EXCEPT ![o].kind = "orphans", ![o].flow[s] = At("done")]
        BY <1>3, <3>2 DEF Abandon
      <4>2. At("done") \in Flows /\ "orphans" \in Kinds
        BY OutType DEF FlowAt, Ended, Kinds
      <4>3. op[o] \in [kind : Kinds, cut : BOOLEAN, flow : [Servers -> Flows]]
        BY <1>1 DEF OpType
      <4>4. op' = [op EXCEPT ![o] = [op[o] EXCEPT !.kind = "orphans", !.flow = [op[o].flow EXCEPT ![s] = At("done")]]]
        BY Zenon, <1>1, <4>1 DEF OpType
      <4>5. op' \in OpType
        BY Zenon, <1>1, <4>2, <4>3, <4>4 DEF OpType
      <4> QED
        BY Zenon, <1>1, <1>3, <2>1, <4>2, <4>3, <4>4, <4>5 DEF After, OpType
    <3> QED
      BY <3>1, <3>2
  <2>4. g \in Flows /\ g.at \in Ended /\ g.stop = "no" /\ ~g.first /\ g.at \notin Holding \cup {"drop"}
    <3>1. g \in Flows /\ g.at \in Ended /\ g.stop = "no" /\ ~g.first
      BY OutType DEF FlowAt, Ended
    <3> QED
      BY <3>1 DEF Ended, Holding, LoginAt
  <2>5. FlowInv(op') /\ GateInv(op', gate') /\ CredInv(op', cred')
    BY Zenon, <1>1, <2>3, <2>4, Passes
  <2>6. RegionInv(op', disc')
    <3>1. RegionType(disc) /\ Settled(disc) /\ AutoConnect \subseteq Servers
      BY McpAssumption DEF Good, RegionInv
    <3>2. /\ RegionType(disc') /\ Settled(disc')
          /\ \A t \in Servers : disc'.count[t] = IF t \in AutoConnect THEN disc.count[t] - 1 ELSE disc.count[t]
      <4>1. PICK bad \in BOOLEAN : disc' = Leave(disc, AutoConnect, bad)
        BY <2>2, Zenon
      <4>2. bad \in BOOLEAN
        OBVIOUS
      <4>3. /\ RegionType(Leave(disc, AutoConnect, bad)) /\ Settled(Leave(disc, AutoConnect, bad))
            /\ \A t \in Servers : Leave(disc, AutoConnect, bad).count[t] = IF t \in AutoConnect THEN disc.count[t] - 1 ELSE disc.count[t]
        BY <3>1, <4>2, LeaveFacts, SMT
      <4> QED
        BY <4>1, <4>3
    <3>3. ASSUME NEW t \in Servers
          PROVE  disc'.count[t] = Cardinality(Discoveries(op', t))
      <4>1. \A p \in Ops \ {o} : Inside(op', p, t) <=> Inside(op, p, t)
        BY <2>3 DEF After, Inside, OwnRegion
      <4>2. ~Inside(op', o, t)
        BY <1>3, <2>3, <2>4 DEF After, Inside, OwnRegion, Ended
      <4>3. Discoveries(op', t) = Discoveries(op, t) \ {o} /\ Discoveries(op, t) \in SUBSET Ops
        BY <4>1, <4>2 DEF Discoveries
      <4>4. o \in Discoveries(op, t) <=> t \in AutoConnect
        BY <1>3 DEF Discoveries, Inside, OwnRegion
      <4>5. disc.count[t] = Cardinality(Discoveries(op, t))
        BY DEF Good, RegionInv
      <4> QED
        BY Zenon, <3>2, <4>3, <4>4, <4>5, Sizes
    <3> QED
      BY <3>2, <3>3 DEF RegionInv
  <2> QED
    BY <2>5, <2>6 DEF Good
<1> QED
  BY <1>2, <1>3

LEMMA UnwoundGood ==
  ASSUME IInv, NEW o \in Ops, NEW s \in Servers, Unwound(o, s)
  PROVE  Good(op', disc', gate', cred') /\ RecordInv'
<1> DEFINE at == Flow(o, s).at
<1>1. /\ Good(op, disc, gate, cred) /\ RecordInv /\ gate' = gate \ {<<o, s>>}
      /\ Flow(o, s) = op[o].flow[s] /\ at \notin Ended
      /\ op[o].cut \/ at \in TaskAt
  BY DEF IInv, Good, Unwound, Flow, FlowInv, Regular
<1>2. cred' = cred \/ (Cleared(s) /\ at \in {"clear", "drop"})
  BY DEF Unwound
<1>3. CASE at = "fetch" \/ (at = "check" /\ OwnRegion(op, o))
  <2>1. PICK bad \in BOOLEAN : Ends(op, o, s, Exited(o, s, bad))
    BY Zenon, <1>3 DEF Unwound
  <2>2. RecordInv'
    <3>1. Record(s, ErrorPopped(s)) \/ UNCHANGED srv
      BY Zenon, <1>3 DEF Unwound
    <3> QED
      BY <1>1, <3>1, InfosConsistent, RecordKept, RecordSame
  <2>3. Except(op, o, s, Exited(o, s, bad))
    <3>1. CASE OwnRegion(op, o)
      <4>1. Exited(o, s, bad) = Leave(disc, {s}, bad)
        BY <3>1, Zenon DEF Exited
      <4>2. RegionInv(op, disc) /\ op[o].flow[s].at \in {"check", "fetch"}
        BY <1>1, <1>3 DEF Good
      <4>3. \A b \in BOOLEAN : Except(op, o, s, Leave(disc, {s}, b))
        BY <4>2, <3>1, ExceptFacts, Zenon
      <4> QED
        BY <4>1, <4>3, Zenon
    <3>2. CASE ~OwnRegion(op, o)
      <4>1. Exited(o, s, bad) = disc
        BY <3>2, Zenon DEF Exited
      <4> QED
        BY Zenon, <1>1, <3>2, <4>1, ExceptFacts DEF Good
    <3> QED
      BY <3>1, <3>2
  <2>4. Good(op', disc', gate', cred')
    BY Zenon, <1>1, <1>2, <2>1, <2>3, EndPasses DEF Good
  <2> QED
    BY <2>2, <2>4
<1>4. CASE ~(at = "fetch" \/ (at = "check" /\ OwnRegion(op, o)))
  <2>1. Abandon(o, s) /\ UNCHANGED srv
    BY Zenon, <1>4 DEF Unwound
  <2>2. Good(op', disc', gate', cred')
    BY Zenon, <1>1, <1>2, <1>4, <2>1, AbandonGood
  <2> QED
    BY <1>1, <2>1, <2>2, RecordSame
<1> QED
  BY <1>3, <1>4
\* A cancellation and a shutdown leave the flows where they are.
LEMMA SamePlaces ==
  ASSUME Good(op, disc, gate, cred), op' \in OpType, UNCHANGED <<disc, gate, cred>>,
         \A o \in Ops : op'[o].kind = op[o].kind /\ (op[o].cut => op'[o].cut),
         \A o \in Ops : \A s \in Servers : op'[o].flow[s].at = op[o].flow[s].at /\ op'[o].flow[s].first = op[o].flow[s].first,
         \A o \in Ops : \A s \in Servers : op'[o].flow[s].stop # "no" => op[o].flow[s].at \in TaskAt
  PROVE  Good(op', disc', gate', cred')
<1>1. FlowInv(op')
  <2>1. Regular(op')
    BY DEF Good, FlowInv, Regular
  <2>2. Alone(op')
    BY DEF Good, FlowInv, Alone, Front
  <2>3. Dropping(op')
    BY DEF Good, FlowInv, Dropping
  <2> QED
    BY <2>1, <2>2, <2>3 DEF FlowInv
<1>2. RegionInv(op', disc')
  <2>1. \A p \in Ops : \A t \in Servers : Inside(op', p, t) <=> Inside(op, p, t)
    BY DEF Inside, OwnRegion
  <2>2. \A t \in Servers : Discoveries(op', t) = Discoveries(op, t)
    BY <2>1 DEF Discoveries
  <2> QED
    BY <2>2 DEF Good, RegionInv
<1>3. GateInv(op', gate') /\ CredInv(op', cred')
  BY DEF Good, GateInv, CredInv
<1> QED
  BY <1>1, <1>2, <1>3 DEF Good

LEMMA StopsGood ==
  ASSUME IInv, \/ \E o \in Ops : Cancel(o)
               \/ Close
               \/ \E o \in Ops, s \in Servers : Deadline(o, s)
  PROVE  Good(op', disc', gate', cred') /\ RecordInv'
<1>1. Good(op, disc, gate, cred) /\ RecordInv /\ op \in OpType /\ UNCHANGED <<disc, srv, cred, gate>>
  BY Zenon DEF IInv, Good, FlowInv, Cancel, Close, Deadline
<1>2. \A o \in Ops : \A s \in Servers : op[o].flow[s].stop # "no" => op[o].flow[s].at \in TaskAt
  BY <1>1 DEF Good, FlowInv, Regular
<1>3. ASSUME NEW o \in Ops, Cancel(o) PROVE Good(op', disc', gate', cred')
  <2>1. op' = [op EXCEPT ![o].cut = TRUE]
    BY <1>3 DEF Cancel
  <2>2. op' \in OpType
    BY Zenon, <1>1, <2>1 DEF OpType
  <2>3. \A p \in Ops : op'[p].kind = op[p].kind /\ op'[p].flow = op[p].flow /\ (op[p].cut => op'[p].cut)
    BY <1>1, <2>1 DEF OpType
  <2> QED
    BY <1>1, <1>2, <2>2, <2>3, SamePlaces
<1>4. ASSUME Close PROVE Good(op', disc', gate', cred')
  <2> DEFINE stop(o, s) == IF Flow(o, s).at \in TaskAt /\ Flow(o, s).stop = "no" THEN "cancel" ELSE Flow(o, s).stop
  <2>1. op' = [o \in Ops |-> [op[o] EXCEPT !.flow = [s \in Servers |-> [Flow(o, s) EXCEPT !.stop = stop(o, s)]]]]
    BY <1>4 DEF Close
  <2>2. \A o \in Ops : \A s \in Servers : Flow(o, s) = op[o].flow[s] /\ Flow(o, s) \in Flows /\ stop(o, s) \in Stops
    BY <1>1 DEF OpType, Flow, Flows, Stops
  <2>3. \A o \in Ops : \A s \in Servers : stop(o, s) # "no" => op[o].flow[s].at \in TaskAt
    BY <1>2, <2>2
  <2> HIDE DEF stop
  <2>4. \A o \in Ops : op[o] \in [kind : Kinds, cut : BOOLEAN, flow : [Servers -> Flows]]
    BY <1>1 DEF OpType
  <2>5. \A o \in Ops : \A s \in Servers : [Flow(o, s) EXCEPT !.stop = stop(o, s)] \in Flows
    BY <2>2 DEF Flows
  <2> DEFINE told == [o \in Ops |-> [s \in Servers |-> [Flow(o, s) EXCEPT !.stop = stop(o, s)]]]
  <2>6. told \in [Ops -> [Servers -> Flows]] /\ \A o \in Ops : \A s \in Servers : told[o][s] = [Flow(o, s) EXCEPT !.stop = stop(o, s)]
    BY <2>5
  <2>7. op' = [o \in Ops |-> [op[o] EXCEPT !.flow = told[o]]]
    BY <2>1
  <2> HIDE DEF told
  <2>8. op' \in OpType /\ \A o \in Ops : op'[o].kind = op[o].kind /\ op'[o].cut = op[o].cut /\ op'[o].flow = told[o]
    BY Zenon, <2>4, <2>6, <2>7 DEF OpType
  <2>9. \A o \in Ops : \A s \in Servers : op'[o].flow[s] = [Flow(o, s) EXCEPT !.stop = stop(o, s)]
    BY <2>6, <2>8
  <2>10. \A o \in Ops : \A s \in Servers :
           /\ op'[o].flow[s].at = op[o].flow[s].at /\ op'[o].flow[s].first = op[o].flow[s].first
           /\ op'[o].flow[s].stop # "no" => op[o].flow[s].at \in TaskAt
    <3> SUFFICES ASSUME NEW o \in Ops, NEW s \in Servers
                 PROVE  /\ op'[o].flow[s].at = op[o].flow[s].at /\ op'[o].flow[s].first = op[o].flow[s].first
                        /\ op'[o].flow[s].stop # "no" => op[o].flow[s].at \in TaskAt
      OBVIOUS
    <3>1. op[o].flow[s] \in Flows /\ op'[o].flow[s] = [op[o].flow[s] EXCEPT !.stop = stop(o, s)]
      BY <2>2, <2>9
    <3>2. /\ op'[o].flow[s].at = op[o].flow[s].at /\ op'[o].flow[s].first = op[o].flow[s].first
          /\ op'[o].flow[s].stop = stop(o, s)
      BY <3>1 DEF Flows
    <3> QED
      BY <2>3, <3>2
  <2> QED
    BY <1>1, <2>8, <2>10, SamePlaces
<1>5. ASSUME NEW o \in Ops, NEW s \in Servers, Deadline(o, s) PROVE Good(op', disc', gate', cred')
  <2> DEFINE f == [Flow(o, s) EXCEPT !.stop = "timeout"]
  <2>1. Goes(op, o, s, f) /\ Flow(o, s) = op[o].flow[s] /\ Flow(o, s) \in Flows /\ Flow(o, s).at \in TaskAt
    BY <1>1, <1>5 DEF Deadline, Flow, OpType
  <2>2. f \in Flows /\ f.at = Flow(o, s).at /\ f.first = Flow(o, s).first
    BY <2>1 DEF Flows, Stops
  <2> HIDE DEF f
  <2>3. After(op, o, s, f) /\ op'[o].kind = op[o].kind /\ \A t \in Servers \ {s} : op'[o].flow[t] = op[o].flow[t]
    BY <1>1, <2>1, <2>2, GoesAfter
  <2>4. op'[o].cut = op[o].cut
    BY <1>1, <2>1 DEF Goes, OpType
  <2>5. \A p \in Ops : op'[p].kind = op[p].kind /\ op'[p].cut = op[p].cut
    BY <2>3, <2>4 DEF After
  <2>6. \A p \in Ops : \A t \in Servers :
           /\ op'[p].flow[t].at = op[p].flow[t].at /\ op'[p].flow[t].first = op[p].flow[t].first
           /\ op'[p].flow[t].stop # "no" => op[p].flow[t].at \in TaskAt
    BY <1>2, <2>1, <2>2, <2>3 DEF After
  <2> QED
    BY <1>1, <2>3, <2>5, <2>6, SamePlaces DEF After
<1> QED
  BY <1>1, <1>3, <1>4, <1>5, RecordSame

\* The stored token of a server expires; one in the making is not there yet.
LEMMA ExpireGood ==
  ASSUME IInv, NEW s \in Servers, Expire(s)
  PROVE  Good(op', disc', gate', cred') /\ RecordInv'
<1>1. Good(op, disc, gate, cred) /\ RecordInv /\ UNCHANGED <<op, disc, srv, gate>> /\ cred' = [cred EXCEPT ![s].token = 0]
  BY DEF IInv, Good, Expire
<1>2. cred \in [Servers -> [client : 0..MaxOps+1, token : 0..MaxOps+1]] /\ cred[s].token = MaxOps + 1
  BY <1>1 DEF Good, CredInv, Expire, Older
<1>3. cred' \in [Servers -> [client : 0..MaxOps+1, token : 0..MaxOps+1]] /\ cred'[s].token = 0
      /\ \A t \in Servers \ {s} : cred'[t] = cred[t]
  BY <1>1, <1>2, McpAssumption
<1>4. \A o \in Ops : op[o].flow[s].at # "auth" /\ ~(op[o].flow[s].at = "registered" /\ ~op[o].cut)
  BY <1>1, <1>2, McpAssumption DEF Good, CredInv, Erased
<1>5. CredInv(op', cred')
  <2>1. \A t \in Servers : cred'[t].token # 0 => cred'[t].token = cred'[t].client
    BY <1>1, <1>3 DEF Good, CredInv
  <2>2. ASSUME NEW o \in Ops, NEW t \in Servers
        PROVE  /\ op'[o].flow[t].at = "auth" => cred'[t] = Erased
               /\ op'[o].flow[t].at = "registered" /\ ~op'[o].cut => cred'[t] = [client |-> o, token |-> 0]
    <3>1. CASE t = s
      BY <1>1, <1>4, <3>1
    <3>2. CASE t # s
      BY <1>1, <1>3, <3>2 DEF Good, CredInv
    <3> QED
      BY <3>1, <3>2
  <2> QED
    BY <1>3, <2>1, <2>2 DEF CredInv
<1> QED
  BY <1>1, <1>5, RecordSame DEF Good

-----------------------------------------------------------------------------
LEMMA InitInv == Init => IInv
<1> SUFFICES ASSUME Init PROVE IInv
  OBVIOUS
<1>1. \A o \in Ops : op[o] = NoOp
  BY DEF Init
<1>2. /\ NoOp \in [kind : Kinds, cut : BOOLEAN, flow : [Servers -> Flows]] /\ NoOp.kind = "none"
      /\ \A s \in Servers : NoOp.flow[s] = Out
  BY OutType DEF NoOp, Kinds
<1>3. \A o \in Ops : op[o].kind = "none" /\ \A s \in Servers : op[o].flow[s] = Out
  BY <1>1, <1>2
<1>4. FlowInv(op)
  <2>1. op \in OpType
    BY <1>2 DEF Init, OpType
  <2>2. Regular(op) /\ Alone(op) /\ Dropping(op)
    BY <1>3, OutType DEF Regular, Alone, Dropping, Ended
  <2> QED
    BY <2>1, <2>2 DEF FlowInv
<1>5. RegionInv(op, disc)
  <2>1. disc = [count |-> [s \in Servers |-> 0], failed |-> FALSE, status |-> "stale"]
    BY DEF Init
  <2>2. RegionType(disc) /\ Settled(disc) /\ \A s \in Servers : disc.count[s] = 0
    BY <2>1 DEF RegionType, Settled
  <2>3. \A s \in Servers : Discoveries(op, s) = {}
    BY <1>3, OutType DEF Discoveries, Inside, OwnRegion
  <2> QED
    BY <2>2, <2>3, FS_EmptySet DEF RegionInv
<1>6. GateInv(op, gate)
  BY <1>3, OutType DEF GateInv, Init, Holding, LoginAt
<1>7. CredInv(op, cred)
  <2>1. \A s \in Servers : cred[s] \in {Older, Erased}
    BY DEF Init
  <2>2. /\ Older = [client |-> MaxOps + 1, token |-> MaxOps + 1] /\ Erased = [client |-> 0, token |-> 0]
        /\ Older \in [client : 0..MaxOps+1, token : 0..MaxOps+1] /\ Erased \in [client : 0..MaxOps+1, token : 0..MaxOps+1]
    BY McpAssumption DEF Older, Erased
  <2>3. cred \in [Servers -> [client : 0..MaxOps+1, token : 0..MaxOps+1]]
    BY <2>2 DEF Init
  <2> QED
    BY <1>3, <2>1, <2>2, <2>3, OutType DEF CredInv
<1>8. RecordInv
  BY DEF Init, RecordInv, CatalogOrIssue, Connected, Unknown
<1>9. setup \in [Servers -> {"plain", "oauth", "invalid", "unset"}] /\ closed \in BOOLEAN
  BY Zenon DEF Init
<1> QED
  BY <1>4, <1>5, <1>6, <1>7, <1>8, <1>9 DEF IInv

LEMMA AdvanceGood ==
  ASSUME IInv, NEW o \in Ops, NEW s \in Servers, Advance(o, s)
  PROVE  Good(op', disc', gate', cred') /\ RecordInv'
BY StartGood, CheckedGood, FetchedGood, LoginGood, LoggedInGood, RefusedGood, DroppedGood, CallsGood, TimedOutGood, UnwoundGood
   DEF Advance

LEMMA NextInv == IInv /\ [Next]_vars => IInv'
<1> SUFFICES ASSUME IInv, [Next]_vars PROVE IInv'
  OBVIOUS
<1>1. Good(op, disc, gate, cred) /\ RecordInv /\ setup \in [Servers -> {"plain", "oauth", "invalid", "unset"}] /\ closed \in BOOLEAN
  BY DEF IInv, Good
<1>2. UNCHANGED setup /\ (closed' = closed \/ closed' = TRUE)
  <2>1. ASSUME NEW o \in Ops, NEW s \in Servers, Advance(o, s) PROVE UNCHANGED <<setup, closed>>
    BY Zenon, <2>1 DEF Advance, Start, Probed, Checked, Fetched, TakeGate, Authenticate, Register, Grant, LoggedIn, LoginRefused, Dropped,
       ReadResolved, CallResolved, DocRead, Called, TimedOut, Unwound
  <2>2. ASSUME NEW o \in Ops, NEW s \in Servers, DisconnectServer(o, s) \/ Toggle(o, s) \/ Mention(o, s) \/ Call(o, s)
        PROVE  UNCHANGED <<setup, closed>>
    BY Zenon, <2>2 DEF Disconnects, DisconnectServer, Toggle, Mention, Call
  <2>3. ASSUME DiscoverAuto \/ (\E o \in Ops : \E names \in SUBSET Servers : ConnectServers(o, names))
               \/ (\E o \in Ops, s \in Servers : Deadline(o, s)) \/ (\E o \in Ops : Cancel(o)) \/ (\E s \in Servers : Expire(s))
               \/ UNCHANGED vars
        PROVE  UNCHANGED <<setup, closed>>
    BY Zenon, <2>3 DEF DiscoverAuto, ConnectServers, Deadline, Cancel, Expire, vars
  <2>4. ASSUME Close PROVE UNCHANGED setup /\ closed' = TRUE
    BY <2>4 DEF Close
  <2> QED
    BY Zenon, <2>1, <2>2, <2>3, <2>4 DEF Next
<1>3. Good(op', disc', gate', cred') /\ RecordInv'
  <2>1. CASE DiscoverAuto
    BY <1>1, <2>1, AutoGood, RecordSame DEF DiscoverAuto
  <2>2. ASSUME NEW o \in Ops, NEW names \in SUBSET Servers, ConnectServers(o, names) PROVE Good(op', disc', gate', cred') /\ RecordInv'
    BY <1>1, <2>2, ConnectGood, RecordSame DEF ConnectServers
  <2>3. CASE UNCHANGED vars
    <3>1. UNCHANGED <<op, disc, srv, cred, gate>>
      BY <2>3 DEF vars
    <3> QED
      BY <1>1, <3>1, RecordSame
  <2> QED
    BY <2>1, <2>2, <2>3, BeginsGood, AdvanceGood, StopsGood, ExpireGood DEF Next
<1> QED
  BY Zenon, <1>1, <1>2, <1>3 DEF IInv, Good

\* InvHolds: the flows, the status line, the login gate, the records and the credentials agree in every
\* state of any number of operations on any servers.
THEOREM InvHolds == Spec => []IInv
BY InitInv, NextInv, PTL DEF Spec

\* The gate holds at most one pair, and a set with at most one element has at most that many.
LEMMA GateOne ==
  ASSUME GateInv(op, gate)
  PROVE  OneLogin
<1> DEFINE logins == {x \in Ops \X Servers : Flow(x[1], x[2]).at \in LoginAt \cup {"clear"}}
<1>1. gate = logins
  <2>1. \A x \in Ops \X Servers : x = <<x[1], x[2]>> /\ x[1] \in Ops /\ x[2] \in Servers
    OBVIOUS
  <2>2. \A x \in Ops \X Servers : x \in gate <=> x \in logins
    BY <2>1 DEF GateInv, Holding, Flow
  <2> QED
    BY <2>2 DEF GateInv
<1>2. Cardinality(gate) <= 1
  <2>1. CASE gate = {}
    BY <2>1, FS_EmptySet
  <2>2. CASE gate # {}
    <3>1. PICK x \in gate : gate = {x}
      BY <2>2 DEF GateInv
    <3> QED
      BY <3>1, FS_Singleton
  <2> QED
    BY <2>1, <2>2
<1> QED
  BY <1>1, <1>2 DEF OneLogin

LEMMA RegionAccounted ==
  ASSUME RegionInv(op, disc)
  PROVE  DiscoveryAccounted
<1> DEFINE within(s) == {o \in Ops : \/ op[o].kind = "auto" /\ s \in AutoConnect
                                     \/ OwnRegion(op, o) /\ Flow(o, s).at \in {"check", "fetch"}}
<1>1. \A s \in Servers : within(s) = Discoveries(op, s)
  BY DEF Discoveries, Inside, Flow
<1>2. \A s \in Servers : disc.count[s] = Cardinality(within(s))
  BY <1>1 DEF RegionInv
<1>3. \A s \in Servers : disc.count[s] > 0 <=> within(s) # {}
  <2> SUFFICES ASSUME NEW s \in Servers PROVE disc.count[s] > 0 <=> within(s) # {}
    OBVIOUS
  <2>1. within(s) \in SUBSET Ops
    OBVIOUS
  <2> HIDE DEF within
  <2>2. IsFiniteSet(within(s)) /\ Cardinality(within(s)) \in Nat
    BY <2>1, Finite
  <2>3. Cardinality(within(s)) = 0 <=> within(s) = {}
    BY <2>2, FS_EmptySet
  <2> QED
    BY <1>2, <2>2, <2>3
<1>4. disc.status = "discovering" <=> \E s \in Servers : within(s) # {}
  <2> HIDE DEF within
  <2> QED
    BY <1>3 DEF RegionInv, Settled
<1> QED
  BY <1>2, <1>4 DEF DiscoveryAccounted

LEMMA TypesFollow == IInv => TypeOK
<1> SUFFICES ASSUME IInv PROVE TypeOK
  OBVIOUS
<1>1. op \in [Ops -> [kind : Kinds, cut : BOOLEAN, flow : [Servers -> [at : FlowAt, first : BOOLEAN, stop : {"no", "timeout", "cancel"}]]]]
  BY DEF IInv, FlowInv, OpType, Flows, Stops
<1>2. ASSUME NEW s \in Servers PROVE disc.count[s] \in 0..MaxOps
  <2>1. Discoveries(op, s) \in SUBSET Ops /\ disc.count[s] = Cardinality(Discoveries(op, s))
    BY DEF IInv, RegionInv, Discoveries
  <2>2. IsFiniteSet(Ops) /\ Cardinality(Ops) = MaxOps
    BY FS_Interval, McpAssumption DEF Ops
  <2> QED
    BY <2>1, <2>2, FS_Subset, Finite, McpAssumption
<1>3. disc \in [count : [Servers -> 0..MaxOps], failed : BOOLEAN, status : {"stale", "discovering", "ready", "error"}]
  BY <1>2 DEF IInv, RegionInv, RegionType
<1> QED
  BY <1>1, <1>3, Zenon DEF IInv, TypeOK, RecordInv, CredInv, GateInv

\* ServersHold: one login at a time, every discovery counted and every count a discovery, a catalog or an
\* issue and a token with its client, for any servers and any number of operations, wherever one is
\* cancelled, timed out, abandoned or shut down.
THEOREM ServersHold == Spec => []ServersSound
<1>1. IInv => ServersSound
  <2>1. IInv => CatalogOrIssue
    BY DEF IInv, RecordInv
  <2>2. IInv => CredentialSet
    BY DEF IInv, CredInv, CredentialSet, HasTokens
  <2>3. IInv => OneLogin
    BY GateOne DEF IInv
  <2>4. IInv => DiscoveryAccounted
    BY RegionAccounted DEF IInv
  <2> QED
    BY <2>1, <2>2, <2>3, <2>4, TypesFollow DEF ServersSound
<1> QED
  BY <1>1, InvHolds, PTL

-----------------------------------------------------------------------------
(***************************************************************************)
(* What is opened, and for whom.                                           *)
(***************************************************************************)
\* What OpensAdmitted says of one flow, from where it was to where it is.
Opens(s, was, is) == was # is => /\ was \notin TaskAt /\ is \in TaskAt => ~closed
                                 /\ is \in {"doc", "calling"} => ~closed /\ Admitted(s)

\* A step moves the flow it is about; the others stay, or end with their operation.
LEMMA OthersOpen ==
  ASSUME NEW ops, NEW o \in Ops, NEW s \in Servers, NEW g, After(ops, o, s, g), FlowInv(ops),
         \A p \in Ops : \A t \in Servers : ops[p].flow[t].at = op[p].flow[t].at \/ ops[p].flow[t].at \notin TaskAt,
         NEW p \in Ops, NEW t \in Servers, ~(p = o /\ t = s)
  PROVE  Opens(t, op[p].flow[t].at, op'[p].flow[t].at)
<1>1. TaskAt \cap Ended = {} /\ {"doc", "calling"} \subseteq TaskAt
  BY DEF TaskAt, LoginAt, Ended
<1>2. op'[p].flow[t].at = ops[p].flow[t].at \/ op'[p].flow[t].at \in Ended
  BY OutType DEF After, Ended
<1> QED
  BY <1>1, <1>2 DEF Opens
AllOpen == \A p \in Ops : \A t \in Servers : Opens(t, op[p].flow[t].at, op'[p].flow[t].at)

\* ops is op before the step, or with an operation begun that has no flow in a task yet.
Before(ops) == \A p \in Ops : \A t \in Servers : ops[p].flow[t].at = op[p].flow[t].at \/ ops[p].flow[t].at \notin TaskAt

LEMMA AfterOpens ==
  ASSUME NEW ops, NEW o \in Ops, NEW s \in Servers, NEW g, After(ops, o, s, g), FlowInv(ops), Before(ops),
         Opens(s, op[o].flow[s].at, g.at)
  PROVE  AllOpen
<1> SUFFICES ASSUME NEW p \in Ops, NEW t \in Servers PROVE Opens(t, op[p].flow[t].at, op'[p].flow[t].at)
  BY DEF AllOpen
<1>1. CASE p = o /\ t = s
  BY <1>1 DEF After
<1>2. CASE ~(p = o /\ t = s)
  BY <1>2, OthersOpen DEF Before
<1> QED
  BY <1>1, <1>2

LEMMA EndsOpens ==
  ASSUME NEW ops, NEW o \in Ops, NEW s \in Servers, NEW d, Ends(ops, o, s, d), FlowInv(ops), Before(ops)
  PROVE  AllOpen
<1>1. PICK g \in {Out, At("done")} : After(ops, o, s, g)
  BY EndsAfter DEF FlowInv
<1>2. g.at \in Ended
  BY OutType DEF FlowAt, Ended
<1>3. Opens(s, op[o].flow[s].at, g.at)
  BY <1>2 DEF Opens, Ended, TaskAt, LoginAt
<1> QED
  BY <1>1, <1>3, AfterOpens

LEMMA GoesOpens ==
  ASSUME NEW ops, NEW o \in Ops, NEW s \in Servers, NEW f \in Flows, Goes(ops, o, s, f), FlowInv(ops), Before(ops),
         Opens(s, op[o].flow[s].at, f.at)
  PROVE  AllOpen
<1>1. After(ops, o, s, f)
  BY GoesAfter DEF FlowInv
<1> QED
  BY <1>1, AfterOpens

LEMMA AtOpens ==
  ASSUME NEW ops, NEW o \in Ops, NEW s \in Servers, NEW at \in FlowAt, Goes(ops, o, s, At(at)), FlowInv(ops), Before(ops),
         Opens(s, op[o].flow[s].at, at)
  PROVE  AllOpen
<1>1. At(at) \in Flows /\ At(at).at = at
  BY OutType
<1> QED
  BY <1>1, GoesOpens

LEMMA DiscoverOpens ==
  ASSUME NEW ops, NEW o \in Ops, NEW s \in Servers, NEW first \in BOOLEAN, Discover(ops, o, s, first), FlowInv(ops), Before(ops)
  PROVE  AllOpen
<1> DEFINE f == [At(IF s \in Oauth THEN "check" ELSE "fetch") EXCEPT !.first = first]
<1>1. \/ \E d : Ends(ops, o, s, d)
      \/ Goes(ops, o, s, f) /\ (s \notin Oauth => ~closed)
  BY Zenon DEF Discover
<1>2. f \in Flows /\ f.at = IF s \in Oauth THEN "check" ELSE "fetch"
  BY Zenon, OutType DEF At, Out, Flows, FlowAt, TaskAt, Stops
<1> HIDE DEF f
<1>3. ASSUME Goes(ops, o, s, f), s \notin Oauth => ~closed PROVE AllOpen
  <2>1. Opens(s, op[o].flow[s].at, f.at)
    BY <1>2, <1>3 DEF Opens, TaskAt, LoginAt
  <2> QED
    BY <1>2, <1>3, <2>1, GoesOpens
<1> QED
  BY <1>1, <1>3, EndsOpens

LEMMA DiscoveredOpens ==
  ASSUME NEW o \in Ops, NEW s \in Servers, NEW info, Discovered(o, s, info), FlowInv(op)
  PROVE  AllOpen
<1>1. Before(op)
  BY DEF Before
<1>2. \/ Goes(op, o, s, At("gate"))
      \/ \E d : Ends(op, o, s, d)
  BY Zenon DEF Discovered
<1>3. "gate" \in FlowAt /\ Opens(s, op[o].flow[s].at, "gate")
  BY DEF FlowAt, Opens, TaskAt, LoginAt
<1> QED
  BY <1>1, <1>2, <1>3, AtOpens, EndsOpens

LEMMA ReachesOpens ==
  ASSUME NEW ops, NEW o \in Ops, NEW s \in Servers, NEW at \in {"read", "doc", "resolve", "calling", "done"},
         Reaches(ops, o, s, at), FlowInv(ops), Before(ops),
         at \in {"doc", "calling"} => ~closed /\ Admitted(s)
  PROVE  AllOpen
<1>1. CASE at = "done"
  BY <1>1, EndsOpens DEF Reaches
<1>2. CASE at # "done"
  <2>1. at \in FlowAt /\ Opens(s, op[o].flow[s].at, at)
    BY DEF FlowAt, Ended, Opens, TaskAt, LoginAt
  <2> QED
    BY <1>2, <2>1, AtOpens DEF Reaches
<1> QED
  BY <1>1, <1>2

LEMMA PlacesAdmitted ==
  \A s \in Servers : /\ CallAt(s) = "calling" => ~closed /\ Admitted(s)
                     /\ ReadAt(s) \in {"doc", "calling"} => ~closed /\ Admitted(s)
                     /\ CallAt(s) # "doc"
BY DEF CallAt, ReadAt

LEMMA AdvanceOpens ==
  ASSUME IInv, NEW o \in Ops, NEW s \in Servers, Advance(o, s)
  PROVE  AllOpen
<1>1. FlowInv(op) /\ Before(op)
  BY DEF IInv, Before
<1>2. CASE Start(o, s) \/ Probed(o, s)
  <2>1. \/ \E first \in BOOLEAN : Discover(op, o, s, first)
        \/ \E at \in {"probe", "gate"} : Goes(op, o, s, At(at))
    BY Zenon, <1>2 DEF Start, Probed
  <2>2. ASSUME NEW at \in {"probe", "gate"}, Goes(op, o, s, At(at)) PROVE AllOpen
    <3>1. at \in FlowAt /\ Opens(s, op[o].flow[s].at, at)
      BY DEF FlowAt, Opens, TaskAt, LoginAt
    <3> QED
      BY <1>1, <2>2, <3>1, AtOpens
  <2> QED
    BY <1>1, <2>1, <2>2, DiscoverOpens
<1>3. CASE Checked(o, s)
  <2>1. \/ \E info : Discovered(o, s, info)
        \/ ~closed /\ Goes(op, o, s, [Flow(o, s) EXCEPT !.at = "fetch"])
    BY <1>3 DEF Checked
  <2>2. ASSUME ~closed, Goes(op, o, s, [Flow(o, s) EXCEPT !.at = "fetch"]) PROVE AllOpen
    <3> DEFINE f == [Flow(o, s) EXCEPT !.at = "fetch"]
    <3>1. f \in Flows /\ f.at = "fetch"
      BY <1>1 DEF FlowInv, OpType, Flow, Flows, FlowAt, TaskAt
    <3> HIDE DEF f
    <3>2. Opens(s, op[o].flow[s].at, f.at)
      BY <2>2, <3>1 DEF Opens
    <3> QED
      BY Zenon, <1>1, <2>2, <3>1, <3>2, GoesOpens DEF f
  <2> QED
    BY <1>1, <2>1, <2>2, DiscoveredOpens
<1>4. CASE Fetched(o, s)
  BY <1>1, <1>4, DiscoveredOpens DEF Fetched
<1>5. CASE TakeGate(o, s) \/ LoggedIn(o, s)
  <2>1. PICK at \in {"clear", "check"} : Goes(op, o, s, At(at))
    BY <1>5 DEF TakeGate, LoggedIn
  <2>2. at \in FlowAt /\ Opens(s, op[o].flow[s].at, at)
    BY DEF FlowAt, Opens, TaskAt, LoginAt
  <2> QED
    BY <1>1, <2>1, <2>2, AtOpens
<1>6. CASE Authenticate(o, s)
  <2>1. \/ ~closed /\ Goes(op, o, s, At("auth"))
        \/ \E d : Ends(op, o, s, d)
    BY <1>6 DEF Authenticate, LoginFails
  <2>2. "auth" \in FlowAt /\ (~closed => Opens(s, op[o].flow[s].at, "auth"))
    BY DEF FlowAt, Opens, TaskAt, LoginAt
  <2> QED
    BY <1>1, <2>1, <2>2, AtOpens, EndsOpens
<1>7. CASE Register(o, s) \/ Grant(o, s)
  <2>1. PICK at \in {"registered", "granted"} : Goes(op, o, s, At(at)) /\ op[o].flow[s].at \in LoginAt
    BY <1>7 DEF Register, Grant, Runs, Flow, LoginAt
  <2>2. at \in FlowAt /\ Opens(s, op[o].flow[s].at, at)
    BY <2>1 DEF FlowAt, Opens, TaskAt, LoginAt
  <2> QED
    BY <1>1, <2>1, <2>2, AtOpens
<1>8. CASE LoginRefused(o, s) \/ Dropped(o, s) \/ Called(o, s)
  <2>1. \E d : Ends(op, o, s, d)
    BY <1>8 DEF LoginRefused, LoginFails, Dropped, Called
  <2> QED
    BY <1>1, <2>1, EndsOpens
<1>9. CASE ReadResolved(o, s)
  <2>1. \/ Goes(op, o, s, At("doc")) /\ Admitted(s) /\ ~closed
        \/ Goes(op, o, s, At("resolve"))
    BY <1>9 DEF ReadResolved
  <2>2. /\ "doc" \in FlowAt /\ (Admitted(s) /\ ~closed => Opens(s, op[o].flow[s].at, "doc"))
        /\ "resolve" \in FlowAt /\ Opens(s, op[o].flow[s].at, "resolve")
    BY DEF FlowAt, Opens, TaskAt, LoginAt
  <2> QED
    BY <1>1, <2>1, <2>2, AtOpens
<1>10. CASE CallResolved(o, s) \/ DocRead(o, s)
  <2>1. PICK at \in {"resolve", "calling", "done"} : Reaches(op, o, s, at) /\ (at = "calling" => ~closed /\ Admitted(s))
    BY <1>10, CallPlaces, PlacesAdmitted DEF CallResolved, DocRead
  <2> QED
    BY <1>1, <2>1, ReachesOpens
<1>11. CASE TimedOut(o, s)
  <2>1. Flow(o, s).at \in TaskAt
    BY <1>1, <1>11 DEF TimedOut, Flow, FlowInv, Regular
  <2>2. \/ \E info : Discovered(o, s, info)
        \/ \E d : Ends(op, o, s, d)
        \/ Reaches(op, o, s, CallAt(s))
    <3>1. CASE Flow(o, s).at = "fetch"
      BY <1>11, <3>1 DEF TimedOut, LoginAt
    <3>2. CASE Flow(o, s).at \in LoginAt
      BY <1>11, <3>2 DEF TimedOut, LoginAt, LoginFails
    <3>3. CASE Flow(o, s).at \in {"doc", "calling"}
      BY <1>11, <3>3 DEF TimedOut, LoginAt
    <3> QED
      BY <2>1, <3>1, <3>2, <3>3 DEF TaskAt
  <2> QED
    BY <1>1, <2>2, DiscoveredOpens, EndsOpens, ReachesOpens, CallPlaces, PlacesAdmitted
<1>12. CASE Unwound(o, s)
  <2>1. \/ \E d : Ends(op, o, s, d)
        \/ Abandon(o, s)
    BY Zenon, <1>12 DEF Unwound
  <2>2. ASSUME Abandon(o, s) PROVE AllOpen
    <3>1. CASE op[o].kind # "auto"
      BY <1>1, <2>2, <3>1, EndsOpens DEF Abandon
    <3>2. CASE op[o].kind = "auto" /\ IsLast(op, o, s)
      <4>1. op' = [op EXCEPT ![o] = [NoOp EXCEPT !.kind = "over"]]
        BY <2>2, <3>2 DEF Abandon
      <4>2. After(op, o, s, Out)
        BY Zenon, <1>1, <3>2, <4>1, DoneAfter DEF FlowInv
      <4>3. Opens(s, op[o].flow[s].at, Out.at)
        BY OutType DEF Opens, TaskAt, LoginAt
      <4> QED
        BY <1>1, <4>2, <4>3, AfterOpens
    <3>3. CASE op[o].kind = "auto" /\ ~IsLast(op, o, s)
      <4>1. op' = [op EXCEPT ![o].kind = "orphans", ![o].flow[s] = At("done")]
        BY <2>2, <3>3 DEF Abandon
      <4>2. \A p \in Ops : \A t \in Servers : op'[p].flow[t] = IF p = o /\ t = s THEN At("done") ELSE op[p].flow[t]
        BY <1>1, <4>1 DEF FlowInv, OpType
      <4>3. At("done").at = "done"
        BY OutType DEF FlowAt, Ended
      <4> QED
        BY <4>2, <4>3 DEF AllOpen, Opens, TaskAt, LoginAt
    <3> QED
      BY <3>1, <3>2, <3>3
  <2> QED
    BY <1>1, <2>1, <2>2, EndsOpens
<1> QED
  BY <1>2, <1>3, <1>4, <1>5, <1>6, <1>7, <1>8, <1>9, <1>10, <1>11, <1>12 DEF Advance
\* A beginning puts a flow nowhere in a task.
LEMMA BegunBefore ==
  ASSUME IInv, NEW o \in Ops, NEW kind, NEW names, NEW at \in {"queued", "drop", "out"}
  PROVE  /\ Before(Begun(o, kind, names, at))
         /\ op' = Begun(o, kind, names, at) => AllOpen
<1>1. op \in OpType /\ At(at).at = at /\ Out.at = "out"
  BY OutType DEF IInv, FlowInv, FlowAt, Ended
<1>2. \A p \in Ops : \A t \in Servers :
        Begun(o, kind, names, at)[p].flow[t].at = op[p].flow[t].at \/ Begun(o, kind, names, at)[p].flow[t].at \in {"queued", "drop", "out"}
  BY <1>1 DEF Begun, OpType
<1>3. {"queued", "drop", "out"} \cap TaskAt = {}
  BY DEF TaskAt, LoginAt
<1> DEFINE ops == Begun(o, kind, names, at)
<1> HIDE DEF ops
<1>4. Before(ops)
  BY <1>2, <1>3 DEF Before, ops
<1>5. ASSUME op' = ops PROVE AllOpen
  <2>1. \A p \in Ops : \A t \in Servers : op'[p].flow[t].at = op[p].flow[t].at \/ op'[p].flow[t].at \notin TaskAt
    BY <1>4, <1>5 DEF Before
  <2>2. {"doc", "calling"} \subseteq TaskAt
    BY DEF TaskAt
  <2> QED
    BY <2>1, <2>2 DEF AllOpen, Opens
<1> QED
  BY <1>4, <1>5 DEF ops

LEMMA BeginsOpens ==
  ASSUME IInv, NEW o \in Ops, NEW s \in Servers, DisconnectServer(o, s) \/ Toggle(o, s) \/ Mention(o, s) \/ Call(o, s)
  PROVE  AllOpen
<1>1. Good(op, disc, gate, cred)
  BY DEF IInv, Good
<1>2. CASE DisconnectServer(o, s) \/ Toggle(o, s)
  <2>1. \E kind, names : \E at \in {"queued", "drop", "out"} : op' = Begun(o, kind, names, at)
    BY <1>2 DEF DisconnectServer, Toggle, Disconnects
  <2> QED
    BY <2>1, BegunBefore
<1>3. CASE Mention(o, s)
  <2> DEFINE ops == Begun(o, "mention", {s}, "queued")
  <2>1. Fresh(o) /\ Discover(ops, o, s, FALSE) /\ Foreground = {}
    BY Zenon, <1>3 DEF Mention
  <2>2. FlowInv(ops) /\ Before(ops)
    BY Zenon, <1>1, <2>1, NoFront, OneBegun, BegunBefore DEF Good
  <2> HIDE DEF ops
  <2> QED
    BY Zenon, <2>1, <2>2, DiscoverOpens
<1>4. CASE Call(o, s)
  <2> DEFINE ops == Begun(o, "call", {s}, "queued")
             reading == Connected(s) /\ ~srv[s].tried
             at == IF reading THEN ReadAt(s) ELSE CallAt(s)
  <2>1. Fresh(o) /\ Reaches(ops, o, s, at) /\ Foreground = {}
    BY <1>4 DEF Call
  <2>2. FlowInv(ops) /\ Before(ops)
    BY <1>1, <2>1, NoFront, OneBegun, BegunBefore DEF Good
  <2>3. at \in {"read", "doc", "resolve", "calling", "done"} /\ (at \in {"doc", "calling"} => ~closed /\ Admitted(s))
    BY CallPlaces, PlacesAdmitted
  <2> HIDE DEF ops, at
  <2> QED
    BY <2>1, <2>2, <2>3, ReachesOpens
<1> QED
  BY <1>2, <1>3, <1>4

LEMMA OthersStay ==
  ASSUME IInv, \/ \E o \in Ops : Cancel(o)
               \/ Close
               \/ \E o \in Ops, s \in Servers : Deadline(o, s)
               \/ \E s \in Servers : Expire(s)
               \/ UNCHANGED vars
  PROVE  AllOpen
<1>1. op \in OpType
  BY DEF IInv, FlowInv
<1>2. \A p \in Ops : \A t \in Servers : op'[p].flow[t].at = op[p].flow[t].at
  <2>1. ASSUME NEW o \in Ops, Cancel(o) PROVE \A p \in Ops : op'[p].flow = op[p].flow
    BY <1>1, <2>1 DEF Cancel, OpType
  <2>2. ASSUME NEW o \in Ops, NEW s \in Servers, Deadline(o, s) PROVE \A p \in Ops : \A t \in Servers : op'[p].flow[t].at = op[p].flow[t].at
    <3> DEFINE f == [Flow(o, s) EXCEPT !.stop = "timeout"]
    <3>1. f \in Flows /\ f.at = op[o].flow[s].at
      BY <1>1 DEF Flows, Stops, Flow, OpType
    <3>2. Goes(op, o, s, f)
      BY <2>2 DEF Deadline
    <3> HIDE DEF f
    <3> QED
      BY <1>1, <3>1, <3>2, GoesAfter DEF After
  <2>3. ASSUME Close, NEW p \in Ops, NEW t \in Servers PROVE op'[p].flow[t].at = op[p].flow[t].at
    <3> DEFINE stop(o, s) == IF Flow(o, s).at \in TaskAt /\ Flow(o, s).stop = "no" THEN "cancel" ELSE Flow(o, s).stop
    <3>1. op' = [o \in Ops |-> [op[o] EXCEPT !.flow = [s \in Servers |-> [Flow(o, s) EXCEPT !.stop = stop(o, s)]]]]
      BY <2>3 DEF Close
    <3> HIDE DEF stop
    <3>2. op'[p].flow[t] = [Flow(p, t) EXCEPT !.stop = stop(p, t)]
      BY Zenon, <1>1, <3>1 DEF OpType
    <3>3. Flow(p, t) = op[p].flow[t] /\ Flow(p, t) \in Flows
      BY <1>1 DEF OpType, Flow
    <3> QED
      BY <3>2, <3>3 DEF Flows
  <2>4. ASSUME (\E s \in Servers : Expire(s)) \/ UNCHANGED vars PROVE op' = op
    BY <2>4 DEF Expire, vars
  <2> QED
    BY <2>1, <2>2, <2>3, <2>4
<1> QED
  BY <1>2 DEF AllOpen, Opens

LEMMA StepOpens == IInv /\ [Next]_vars => AllOpen
<1> SUFFICES ASSUME IInv, [Next]_vars PROVE AllOpen
  OBVIOUS
<1>1. CASE DiscoverAuto
  <2>1. 1 \in Ops /\ op' = Begun(1, "auto", AutoConnect, "queued")
    BY <1>1, McpAssumption DEF DiscoverAuto, Ops
  <2> QED
    BY <2>1, BegunBefore
<1>2. ASSUME NEW o \in Ops, NEW names \in SUBSET Servers, ConnectServers(o, names) PROVE AllOpen
  <2>1. op' = Begun(o, "connect", names, "queued")
    BY <1>2 DEF ConnectServers
  <2> QED
    BY <2>1, BegunBefore
<1> QED
  BY <1>1, <1>2, BeginsOpens, AdvanceOpens, OthersStay DEF Next

\* OpensHold: no operation is opened by a manager that is closed, and no call and no read for a server
\* that is not connected or has an issue at that moment, in any step of any number of operations.
THEOREM OpensHold == Spec => OpensAdmitted
<1>1. ASSUME AllOpen
      PROVE  \A o \in Ops, s \in Servers :
               LET was == Flow(o, s).at
                   is == Flow(o, s)'.at
               IN was # is => /\ was \notin TaskAt /\ is \in TaskAt => ~closed
                              /\ is \in {"doc", "calling"} => ~closed /\ Admitted(s)
  BY <1>1 DEF AllOpen, Opens, Flow
<1>2. IInv /\ [Next]_vars => [\A o \in Ops, s \in Servers :
               LET was == Flow(o, s).at
                   is == Flow(o, s)'.at
               IN was # is => /\ was \notin TaskAt /\ is \in TaskAt => ~closed
                              /\ is \in {"doc", "calling"} => ~closed /\ Admitted(s)]_vars
  BY <1>1, StepOpens
<1> QED
  BY <1>2, InvHolds, PTL DEF Spec, OpensAdmitted

-----------------------------------------------------------------------------
(***************************************************************************)
(* Settings.  A provider entry in use is the one of the configuration,     *)
(* changed by what is recorded of it (Kept); a switch of one entry leaves  *)
(* the others alone, so the invariant is of each entry.                    *)
(***************************************************************************)
\* The premise: a scale of the catalogue is made of the catalogue's efforts.
Graded == \A m \in Models : Choice!Range(Scale[m]) \subseteq Choice!Range(EffortOrder)

Entries  == [model : Models, reasoning : Choice!Efforts, api : Apis]
Switches == [model : Models \cup {""}, reasoning : Choice!Efforts \cup {""}, api : Apis \cup {""}]

-----------------------------------------------------------------------------
\* What a model supports is never nothing, and each effort of it is one a configuration may name.
LEMMA Supported ==
  ASSUME Graded, NEW m \in Models
  PROVE  /\ Choice!supported_efforts(m) \in Seq(STRING) /\ Choice!supported_efforts(m) # <<>>
         /\ Choice!Range(Choice!supported_efforts(m)) \subseteq Choice!Range(EffortOrder) \cup Choice!declared_levels(m)
<1>1. CASE Declared[m] # <<>>
  BY Zenon, <1>1, WorkerAssumption DEF Choice!supported_efforts, Choice!declared_levels
<1>2. CASE Declared[m] = <<>> /\ Scale[m] # <<>>
  BY Zenon, <1>2, WorkerAssumption DEF Choice!supported_efforts, Graded
<1>3. CASE Declared[m] = <<>> /\ Scale[m] = <<>>
  BY Zenon, <1>3, WorkerAssumption DEF Choice!supported_efforts
<1> QED
  BY <1>1, <1>2, <1>3

\* An effort of a scale is a place of it.
LEMMA InScale ==
  ASSUME NEW levels \in Seq(STRING), NEW i \in 1..Len(levels)
  PROVE  levels[i] \in Choice!Range(levels)
BY DEF Choice!Range

\* The nearest supported effort is a supported one, however it is found.
LEMMA NearestSupported ==
  ASSUME NEW levels \in Seq(STRING), levels # <<>>, NEW effort
  PROVE  Choice!nearest_supported_effort(effort, levels) \in Choice!Range(levels)
<1>1. (Len(levels) \div 2) + 1 \in 1..Len(levels)
  <2>1. Len(levels) \in Nat /\ Len(levels) # 0
    OBVIOUS
  <2> QED
    BY <2>1
<1>2. levels[(Len(levels) \div 2) + 1] \in Choice!Range(levels)
  BY <1>1, InScale
<1> QED
  BY <1>2 DEF Choice!nearest_supported_effort

\* What a model offers may be recorded, and "" is nothing to record.
LEMMA Offered ==
  ASSUME Graded, NEW m \in Models
  PROVE  /\ Choice!reasoning_choices(m) \subseteq Choice!reasoning_values(m)
         /\ Choice!reasoning_values(m) \subseteq Choice!Efforts
         /\ "" \notin Choice!reasoning_values(m)
<1>1. Choice!reasoning_choices(m) \subseteq Choice!reasoning_values(m)
  BY Supported DEF Choice!reasoning_choices, Choice!reasoning_values
<1>2. "" \notin Choice!reasoning_values(m)
  BY Zenon, WorkerAssumption DEF Choice!reasoning_values, Choice!declared_levels
<1> QED
  BY Zenon, <1>1, <1>2 DEF Choice!Efforts

\* realign_reasoning ends on an effort the model takes.
LEMMA Normalized ==
  ASSUME Graded, NEW entry \in Entries
  PROVE  Choice!normalized_reasoning(entry) \in Choice!reasoning_choices(entry.model)
<1> DEFINE levels == Choice!supported_efforts(entry.model)
<1>1. levels \in Seq(STRING) /\ levels # <<>>
  BY Supported DEF Entries
<1>2. Head(levels) \in Choice!Range(levels)
  <2>1. Head(levels) = levels[1] /\ 1 \in 1..Len(levels)
    BY <1>1
  <2> QED
    BY <1>1, <2>1, InScale
<1>3. Choice!nearest_supported_effort(Choice!reasoning_effort_value(entry), levels) \in Choice!Range(levels)
  BY <1>1, NearestSupported
<1> QED
  BY <1>2, <1>3 DEF Choice!normalized_reasoning, Choice!reasoning_choices

\* An effort the model takes is sent as it is.
LEMMA SentAsShown ==
  ASSUME Graded, NEW entry \in Entries, entry.reasoning \in Choice!reasoning_choices(entry.model)
  PROVE  Choice!SentEffort(entry) = entry.reasoning
<1> SUFFICES ASSUME entry.reasoning # "off" PROVE Choice!SentEffort(entry) = entry.reasoning
  BY DEF Choice!SentEffort
<1>1. entry.reasoning \in Choice!Range(Choice!supported_efforts(entry.model))
  BY DEF Choice!reasoning_choices
<1>2. Choice!reasoning_effort_value(entry) = entry.reasoning
  BY <1>1, Supported DEF Choice!reasoning_effort_value, Entries
<1> QED
  BY <1>1, <1>2 DEF Choice!SentEffort, Choice!nearest_supported_effort

-----------------------------------------------------------------------------
\* One entry in use, and what the configuration and the session record of it.
Kept(base, recorded, entry) ==
  /\ recorded \in Switches /\ entry \in Entries
  /\ recorded.reasoning # "" => recorded.reasoning \in Choice!reasoning_values(entry.model)
  /\ Choice!RestoredEntry(base, recorded) = entry

LEMMA RestoredIs ==
  ASSUME Graded, NEW base \in Entries, NEW recorded \in Switches, NEW entry \in Entries
  PROVE  Kept(base, recorded, entry) <=>
           /\ recorded.reasoning # "" => recorded.reasoning \in Choice!reasoning_values(entry.model)
           /\ entry.model = Choice!Chosen(recorded.model, base.model)
           /\ entry.reasoning = Choice!Chosen(recorded.reasoning, base.reasoning)
           /\ entry.api = Choice!Chosen(recorded.api, base.api)
<1> DEFINE m == Choice!Chosen(recorded.model, base.model)
           r == Choice!RestoredEntry(base, recorded)
           values == Choice!reasoning_values(m)
<1>1. /\ r = [model |-> r.model, reasoning |-> r.reasoning, api |-> r.api]
      /\ r.model = m /\ r.api = Choice!Chosen(recorded.api, base.api)
      /\ r.reasoning = IF recorded.reasoning \in values THEN recorded.reasoning ELSE base.reasoning
  BY DEF Choice!RestoredEntry
<1>2. entry = [model |-> entry.model, reasoning |-> entry.reasoning, api |-> entry.api]
  BY DEF Entries
<1>3. m \in Models => "" \notin values
  BY Zenon, Offered
<1> HIDE DEF m, r, values
<1>4. r = entry <=> entry.model = r.model /\ entry.reasoning = r.reasoning /\ entry.api = r.api
  BY <1>1, <1>2
<1>5. CASE entry.model # m
  <2>1. ~Kept(base, recorded, entry)
    BY Zenon, <1>1, <1>4, <1>5 DEF Kept, r
  <2> QED
    BY Zenon, <2>1, <1>5 DEF m
<1>6. CASE entry.model = m
  <2>1. "" \notin values /\ values = Choice!reasoning_values(entry.model)
    BY Zenon, <1>3, <1>6 DEF Entries, values
  <2>2. (recorded.reasoning # "" => recorded.reasoning \in values) =>
          r.reasoning = Choice!Chosen(recorded.reasoning, base.reasoning)
    BY Zenon, <1>1, <2>1 DEF Choice!Chosen
  <2> QED
    BY Zenon, <1>1, <1>4, <1>6, <2>1, <2>2 DEF Kept, r, m
<1> QED
  BY Zenon, <1>5, <1>6

\* An entry that is realigned, from one that is its record's.
LEMMA MovedKept ==
  ASSUME Graded, NEW base \in Entries, NEW recorded \in Switches, NEW entry \in Entries, Kept(base, recorded, entry)
  PROVE  LET set == Choice!Realigned(entry) IN
           /\ Kept(base, Choice!Moved(recorded, entry, set), set)
           /\ set.reasoning \in Choice!reasoning_choices(set.model) /\ set.model = entry.model
<1> DEFINE set == Choice!Realigned(entry)
           new == Choice!Moved(recorded, entry, set)
<1>1. set \in Entries /\ set.model = entry.model /\ set.api = entry.api
      /\ set.reasoning = Choice!normalized_reasoning(entry)
  BY Zenon, Normalized, Offered DEF Choice!Realigned, Entries
<1>2. set.reasoning \in Choice!reasoning_choices(set.model)
  BY <1>1, Normalized
<1>3. set.reasoning \in Choice!reasoning_values(set.model) /\ set.reasoning # ""
  BY Zenon, <1>1, <1>2, Offered DEF Entries
<1>4. new \in Switches /\ new.model = recorded.model /\ new.api = recorded.api
      /\ new.reasoning = IF set.reasoning = entry.reasoning THEN recorded.reasoning ELSE set.reasoning
  BY Zenon, <1>1 DEF Choice!Moved, Switches, Entries
<1> HIDE DEF set, new
<1>5. new.reasoning # "" => new.reasoning \in Choice!reasoning_values(set.model)
  BY Zenon, <1>1, <1>3, <1>4 DEF Kept
<1>6. set.reasoning = Choice!Chosen(new.reasoning, base.reasoning)
  <2>1. entry.reasoning = Choice!Chosen(recorded.reasoning, base.reasoning)
    BY Zenon, RestoredIs
  <2> QED
    BY Zenon, <1>3, <1>4, <2>1 DEF Choice!Chosen
<1>7. Kept(base, new, set)
  <2>1. entry.model = Choice!Chosen(recorded.model, base.model) /\ entry.api = Choice!Chosen(recorded.api, base.api)
    BY Zenon, RestoredIs
  <2>2. set.model = Choice!Chosen(new.model, base.model) /\ set.api = Choice!Chosen(new.api, base.api)
    BY <1>1, <1>4, <2>1
  <2> QED
    BY Zenon, <1>1, <1>4, <1>5, <1>6, <2>2, RestoredIs
<1> QED
  BY <1>1, <1>2, <1>7 DEF set, new

\* Switching leaves the other entries as they are, so the invariant is about each of them.
EntriesInv == \A n \in ProviderNames : Kept(file.entries[n], overrides.entry[n], entries[n])
ActiveInv  == active = Choice!Chosen(overrides.active, file.active) /\ active \in ProviderNames
SettingsInv ==
  /\ file.entries \in [ProviderNames -> Entries]
  /\ entries \in [ProviderNames -> Entries] /\ overrides.entry \in [ProviderNames -> Switches]
  /\ overrides = [active |-> overrides.active, entry |-> overrides.entry]
  /\ EntriesInv /\ ActiveInv /\ Choice!EffortOffered

LEMMA SettingsKept == ASSUME SettingsInv PROVE Choice!SwitchesKept
<1>1. Choice!Restored(file, overrides).entries = entries
  <2>1. \A n \in ProviderNames : Choice!RestoredEntry(file.entries[n], overrides.entry[n]) = entries[n]
    BY Zenon DEF SettingsInv, EntriesInv, Kept
  <2>2. Choice!Restored(file, overrides).entries
          = [n \in ProviderNames |-> Choice!RestoredEntry(file.entries[n], overrides.entry[n])]
    BY DEF Choice!Restored
  <2>3. entries = [n \in ProviderNames |-> entries[n]]
    BY DEF SettingsInv
  <2> QED
    BY <2>1, <2>2, <2>3
<1>2. Choice!Restored(file, overrides).active = active
  BY DEF SettingsInv, ActiveInv, Choice!Restored
<1>3. Choice!Restored(file, overrides)
        = [active |-> Choice!Restored(file, overrides).active, entries |-> Choice!Restored(file, overrides).entries]
  BY DEF Choice!Restored
<1> QED
  BY <1>1, <1>2, <1>3 DEF Choice!SwitchesKept, Choice!ResumeRestores, SettingsInv

LEMMA SettingsStart ==
  ASSUME Graded, file \in Files, Choice!Init PROVE SettingsInv
<1>1. file.entries \in [ProviderNames -> [model : Models, reasoning : STRING, api : STRING]] /\ Choice!Loads(file)
  BY Zenon, WorkerAssumption DEF Choice!Init
<1>2. \A n \in ProviderNames : file.entries[n] \in Entries
  <2> SUFFICES ASSUME NEW n \in ProviderNames PROVE file.entries[n] \in Entries
    OBVIOUS
  <2>1. file.entries[n] \in [model : Models, reasoning : STRING, api : STRING]
    BY <1>1
  <2>2. file.entries[n].api \in Apis /\ file.entries[n].reasoning \in Choice!reasoning_values(file.entries[n].model)
    BY Zenon, <1>1 DEF Choice!Loads, Choice!LoadsEntry
  <2>3. file.entries[n].reasoning \in Choice!Efforts
    BY Zenon, <2>1, <2>2, Offered
  <2> QED
    BY <2>1, <2>2, <2>3 DEF Entries
<1>3. file.entries \in [ProviderNames -> Entries]
  BY <1>1, <1>2
<1>4. \A n \in ProviderNames :
        overrides.entry[n].model = "" /\ overrides.entry[n].reasoning = "" /\ overrides.entry[n].api = ""
  BY Zenon DEF Choice!Init, Choice!NoOverrides
<1>5. overrides.entry \in [ProviderNames -> Switches] /\ overrides.active = ""
      /\ overrides = [active |-> overrides.active, entry |-> overrides.entry]
  BY Zenon DEF Choice!Init, Choice!NoOverrides, Switches
<1>6. EntriesInv
  <2> SUFFICES ASSUME NEW n \in ProviderNames PROVE Kept(file.entries[n], overrides.entry[n], file.entries[n])
    BY DEF EntriesInv, Choice!Init
  <2> DEFINE base == file.entries[n]
             none == overrides.entry[n]
  <2>1. base \in Entries /\ none \in Switches
    BY Zenon, <1>3, <1>5
  <2>2. none.model = "" /\ none.reasoning = "" /\ none.api = ""
    BY Zenon, <1>4
  <2>3. base.model = Choice!Chosen(none.model, base.model) /\ base.reasoning = Choice!Chosen(none.reasoning, base.reasoning)
        /\ base.api = Choice!Chosen(none.api, base.api)
    BY Zenon, <2>2 DEF Choice!Chosen
  <2> HIDE DEF base, none
  <2>4. Kept(base, none, base)
    BY Zenon, <2>1, <2>2, <2>3, RestoredIs
  <2> QED
    BY <2>4 DEF base, none
<1>7. ActiveInv
  BY Zenon, <1>1, <1>5 DEF ActiveInv, Choice!Init, Choice!Chosen, Choice!Loads
<1>8. Choice!EffortOffered
  <2>1. \A n \in ProviderNames : overrides.entry[n].model = "" /\ overrides.entry[n].reasoning = ""
    BY Zenon, <1>4
  <2>2. \A n \in ProviderNames : n # ""
    BY Zenon, WorkerAssumption
  <2> QED
    BY Zenon, <1>5, <2>1, <2>2 DEF Choice!EffortOffered, Choice!Switched
<1> QED
  BY Zenon, <1>3, <1>5, <1>6, <1>7, <1>8 DEF SettingsInv, Choice!Init

\* A switch of entry n, recorded; `also` is the active provider recorded with it.
LEMMA EntrySwitched ==
  ASSUME Graded, SettingsInv, NEW n \in ProviderNames, NEW new \in Entries, NEW recorded \in Switches,
         Kept(file.entries[n], recorded, new), new.reasoning \in Choice!reasoning_choices(new.model),
         file' = file, entries' = [entries EXCEPT ![n] = new],
         overrides' = [active |-> overrides'.active, entry |-> [overrides.entry EXCEPT ![n] = recorded]],
         overrides'.active \in {overrides.active, n}, ActiveInv'
  PROVE  SettingsInv'
<1>1. entries' \in [ProviderNames -> Entries] /\ overrides'.entry \in [ProviderNames -> Switches]
      /\ overrides' = [active |-> overrides'.active, entry |-> overrides'.entry]
  BY DEF SettingsInv
<1>2. entries'[n] = new /\ overrides'.entry[n] = recorded
      /\ \A k \in ProviderNames \ {n} : entries'[k] = entries[k] /\ overrides'.entry[k] = overrides.entry[k]
  BY DEF SettingsInv
<1>3. EntriesInv'
  BY <1>2 DEF SettingsInv, EntriesInv
<1>4. Choice!EffortOffered'
  <2> SUFFICES ASSUME NEW k \in ProviderNames, Choice!Switched(k)'
               PROVE  entries'[k].reasoning \in Choice!reasoning_choices(entries'[k].model)
                      /\ Choice!SentEffort(entries'[k]) = entries'[k].reasoning
    BY DEF Choice!EffortOffered
  <2>1. CASE k = n
    BY <1>2, <2>1, SentAsShown
  <2>2. CASE k # n
    <3>1. Choice!Switched(k)
      BY Zenon, <1>2, <2>2 DEF Choice!Switched
    <3> QED
      BY <1>2, <2>2, <3>1 DEF SettingsInv, Choice!EffortOffered
  <2> QED
    BY <2>1, <2>2
<1> QED
  BY <1>1, <1>3, <1>4 DEF SettingsInv

LEMMA SameSettings ==
  ASSUME SettingsInv, UNCHANGED <<file, active, entries, overrides>> PROVE SettingsInv'
BY Zenon DEF SettingsInv, EntriesInv, ActiveInv, Choice!EffortOffered, Choice!Switched

\* What a switch needs of the entry it changes.
LEMMA EntryIs ==
  ASSUME SettingsInv, NEW n \in ProviderNames
  PROVE  /\ file.entries[n] \in Entries /\ entries[n] \in Entries /\ overrides.entry[n] \in Switches
         /\ Kept(file.entries[n], overrides.entry[n], entries[n])
BY DEF SettingsInv, EntriesInv

LEMMA SetProviderStep ==
  ASSUME Graded, SettingsInv, NEW n \in ProviderNames, Choice!SetProvider(n) PROVE SettingsInv'
<1> DEFINE set == Choice!Realigned(entries[n])
           recorded == Choice!Moved(overrides.entry[n], entries[n], set)
<1>1. file' = file /\ active' = n /\ entries' = [entries EXCEPT ![n] = set]
      /\ overrides' = [overrides EXCEPT !.active = n, !.entry[n] = recorded]
  BY DEF Choice!SetProvider, Choice!Switch
<1>2. Kept(file.entries[n], recorded, set) /\ set.reasoning \in Choice!reasoning_choices(set.model)
  BY EntryIs, MovedKept
<1>3. set \in Entries /\ recorded \in Switches
  BY Zenon, <1>2 DEF Kept
<1> HIDE DEF set, recorded
<1>4. overrides'.active = n /\ overrides' = [active |-> overrides'.active, entry |-> [overrides.entry EXCEPT ![n] = recorded]]
  BY Zenon, <1>1 DEF SettingsInv
<1>5. ActiveInv'
  BY Zenon, <1>1, <1>4, WorkerAssumption DEF ActiveInv, Choice!Chosen
<1> QED
  BY Zenon, <1>1, <1>2, <1>3, <1>4, <1>5, EntrySwitched

\* What is recorded with a model that is picked.
LEMMA PickedKept ==
  ASSUME Graded, NEW base \in Entries, NEW recorded \in Switches, NEW entry \in Entries, Kept(base, recorded, entry),
         NEW m \in Models, NEW a \in Apis \cup {""}, NEW r \in Choice!reasoning_choices(m) \cup {""}
  PROVE  LET switched == [entry EXCEPT !.model = m, !.api = Choice!Chosen(a, entry.api)]
             set      == IF r = "" THEN Choice!Realigned(switched) ELSE [switched EXCEPT !.reasoning = r]
             picked   == [recorded EXCEPT !.model = m, !.api = Choice!Chosen(a, @)]
             new      == IF r = "" THEN Choice!Moved(picked, entry, set) ELSE [picked EXCEPT !.reasoning = r]
         IN  /\ Kept(base, new, set)
             /\ set.reasoning \in Choice!reasoning_choices(set.model)
<1> DEFINE switched == [entry EXCEPT !.model = m, !.api = Choice!Chosen(a, entry.api)]
           set      == IF r = "" THEN Choice!Realigned(switched) ELSE [switched EXCEPT !.reasoning = r]
           picked   == [recorded EXCEPT !.model = m, !.api = Choice!Chosen(a, @)]
           new      == IF r = "" THEN Choice!Moved(picked, entry, set) ELSE [picked EXCEPT !.reasoning = r]
<1>1. switched \in Entries /\ switched.model = m /\ switched.api = Choice!Chosen(a, entry.api)
      /\ switched.reasoning = entry.reasoning
  BY Zenon DEF Entries, Choice!Chosen
<1>2. picked \in Switches /\ picked.model = m /\ picked.api = Choice!Chosen(a, recorded.api)
      /\ picked.reasoning = recorded.reasoning
  BY Zenon DEF Switches, Choice!Chosen
<1>3. r # "" => r \in Choice!reasoning_values(m) /\ r \in Choice!Efforts
  BY Zenon, Offered
<1>4. set \in Entries /\ set.model = m /\ set.api = Choice!Chosen(a, entry.api) /\ set.reasoning \in Choice!reasoning_choices(m)
  <2>1. CASE r = ""
    <3>1. Choice!normalized_reasoning(switched) \in Choice!reasoning_choices(m)
      BY Zenon, <1>1, Normalized
    <3>2. Choice!normalized_reasoning(switched) \in Choice!Efforts
      BY Zenon, <3>1, Offered
    <3>3. set = [switched EXCEPT !.reasoning = Choice!normalized_reasoning(switched)]
      BY Zenon, <2>1 DEF Choice!Realigned
    <3> HIDE DEF set, switched
    <3> QED
      BY Zenon, <1>1, <3>1, <3>2, <3>3 DEF Entries
  <2>2. CASE r # ""
    <3>1. set = [switched EXCEPT !.reasoning = r]
      BY Zenon, <2>2
    <3> HIDE DEF set, switched
    <3> QED
      BY Zenon, <1>1, <1>3, <2>2, <3>1 DEF Entries
  <2> QED
    BY Zenon, <2>1, <2>2
<1>5. set.reasoning \in Choice!reasoning_values(m) /\ set.reasoning # ""
  BY Zenon, <1>4, Offered
<1>6. new \in Switches /\ new.model = m /\ new.api = Choice!Chosen(a, recorded.api)
      /\ new.reasoning \in {set.reasoning, recorded.reasoning}
      /\ (new.reasoning # set.reasoning => set.reasoning = entry.reasoning)
  <2>1. CASE r = ""
    <3>1. new = IF set.reasoning = entry.reasoning THEN picked ELSE [picked EXCEPT !.reasoning = set.reasoning]
      BY Zenon, <2>1 DEF Choice!Moved
    <3>2. set.reasoning \in Choice!Efforts
      BY Zenon, <1>4 DEF Entries
    <3> HIDE DEF new, set, picked
    <3> QED
      BY Zenon, <1>2, <3>1, <3>2 DEF Switches
  <2>2. CASE r # ""
    <3>1. new = [picked EXCEPT !.reasoning = r] /\ set.reasoning = r
      BY Zenon, <1>1, <2>2 DEF Entries
    <3> HIDE DEF new, set, picked
    <3> QED
      BY Zenon, <1>2, <1>3, <2>2, <3>1 DEF Switches
  <2> QED
    BY Zenon, <2>1, <2>2
<1> HIDE DEF switched, set, picked, new
<1>7. /\ entry.model = Choice!Chosen(recorded.model, base.model)
      /\ entry.reasoning = Choice!Chosen(recorded.reasoning, base.reasoning)
      /\ entry.api = Choice!Chosen(recorded.api, base.api)
  BY Zenon, RestoredIs
<1>8. set.model = Choice!Chosen(new.model, base.model)
  BY Zenon, <1>4, <1>6, WorkerAssumption DEF Choice!Chosen
<1>9. set.api = Choice!Chosen(new.api, base.api)
  BY Zenon, <1>4, <1>6, <1>7 DEF Choice!Chosen
<1>10. set.reasoning = Choice!Chosen(new.reasoning, base.reasoning)
  BY Zenon, <1>5, <1>6, <1>7 DEF Choice!Chosen
<1>11. new.reasoning # "" => new.reasoning \in Choice!reasoning_values(set.model)
  BY Zenon, <1>4, <1>5, <1>10 DEF Choice!Chosen
<1>12. Kept(base, new, set)
  BY Zenon, <1>4, <1>6, <1>8, <1>9, <1>10, <1>11, RestoredIs
<1> QED
  BY Zenon, <1>4, <1>12 DEF switched, set, picked, new

LEMMA SetModelStep ==
  ASSUME Graded, SettingsInv, NEW m \in Models, NEW a \in Apis \cup {""}, NEW r, Choice!SetModel(m, a, r)
  PROVE  SettingsInv'
<1> DEFINE entry    == entries[active]
           switched == [entry EXCEPT !.model = m, !.api = Choice!Chosen(a, entry.api)]
           set      == IF r = "" THEN Choice!Realigned(switched) ELSE [switched EXCEPT !.reasoning = r]
           picked   == [overrides.entry[active] EXCEPT !.model = m, !.api = Choice!Chosen(a, @)]
           new      == IF r = "" THEN Choice!Moved(picked, entry, set) ELSE [picked EXCEPT !.reasoning = r]
<1>1. r \in Choice!reasoning_choices(m) \cup {""} /\ active \in ProviderNames
  BY Zenon DEF Choice!SetModel, SettingsInv, ActiveInv
<1>2. file' = file /\ active' = active /\ entries' = [entries EXCEPT ![active] = set]
      /\ overrides' = [overrides EXCEPT !.entry[active] = new]
  BY Zenon DEF Choice!SetModel, Choice!Switch
<1>3. Kept(file.entries[active], new, set) /\ set.reasoning \in Choice!reasoning_choices(set.model)
  BY Zenon, <1>1, EntryIs, PickedKept
<1>4. set \in Entries /\ new \in Switches
  BY Zenon, <1>3 DEF Kept
<1> HIDE DEF entry, switched, set, picked, new
<1>5. overrides'.active = overrides.active
      /\ overrides' = [active |-> overrides'.active, entry |-> [overrides.entry EXCEPT ![active] = new]]
  BY Zenon, <1>2 DEF SettingsInv
<1>6. ActiveInv'
  BY Zenon, <1>2, <1>5 DEF SettingsInv, ActiveInv
<1> QED
  BY Zenon, <1>1, <1>2, <1>3, <1>4, <1>5, <1>6, EntrySwitched

LEMMA SetReasoningStep ==
  ASSUME Graded, SettingsInv, NEW r, Choice!SetReasoning(r) PROVE SettingsInv'
<1> DEFINE entry == entries[active]
           set   == [entry EXCEPT !.reasoning = r]
           new   == [overrides.entry[active] EXCEPT !.reasoning = r]
           base  == file.entries[active]
<1>1. active \in ProviderNames /\ r \in Choice!reasoning_choices(entry.model)
  BY DEF Choice!SetReasoning, SettingsInv, ActiveInv
<1>2. file' = file /\ active' = active /\ entries' = [entries EXCEPT ![active] = set]
      /\ overrides' = [overrides EXCEPT !.entry[active] = new]
  BY DEF Choice!SetReasoning, Choice!Switch
<1>3. base \in Entries /\ entry \in Entries /\ overrides.entry[active] \in Switches
      /\ Kept(base, overrides.entry[active], entry)
  BY <1>1, EntryIs
<1>4. r \in Choice!reasoning_values(entry.model) /\ r \in Choice!Efforts /\ r # ""
  BY Zenon, <1>1, <1>3, Offered DEF Entries
<1>5. set \in Entries /\ set.model = entry.model /\ set.api = entry.api /\ set.reasoning = r
  BY Zenon, <1>3, <1>4 DEF Entries
<1>6. new \in Switches /\ new.model = overrides.entry[active].model /\ new.api = overrides.entry[active].api
      /\ new.reasoning = r
  BY Zenon, <1>3, <1>4 DEF Switches
<1>7. entry.model = Choice!Chosen(overrides.entry[active].model, base.model)
      /\ entry.api = Choice!Chosen(overrides.entry[active].api, base.api)
  BY Zenon, <1>3, RestoredIs
<1> HIDE DEF set, new, base, entry
<1>8. Kept(base, new, set)
  <2>1. set.reasoning = Choice!Chosen(new.reasoning, base.reasoning)
    BY Zenon, <1>4, <1>5, <1>6 DEF Choice!Chosen
  <2> QED
    BY Zenon, <1>3, <1>4, <1>5, <1>6, <1>7, <2>1, RestoredIs
<1>9. overrides'.active = overrides.active
      /\ overrides' = [active |-> overrides'.active, entry |-> [overrides.entry EXCEPT ![active] = new]]
  BY <1>2 DEF SettingsInv
<1>10. ActiveInv'
  BY <1>2, <1>9 DEF SettingsInv, ActiveInv
<1>11. set.reasoning \in Choice!reasoning_choices(set.model)
  BY <1>1, <1>5
<1> QED
  BY Zenon, <1>1, <1>2, <1>5, <1>6, <1>8, <1>9, <1>10, <1>11, EntrySwitched DEF base

LEMMA SetApiStep ==
  ASSUME Graded, SettingsInv, NEW a \in Apis, Choice!SetApi(a) PROVE SettingsInv'
<1> DEFINE entry == entries[active]
           set   == [entry EXCEPT !.api = a]
           new   == [overrides.entry[active] EXCEPT !.api = a]
           base  == file.entries[active]
<1>1. active \in ProviderNames
  BY DEF SettingsInv, ActiveInv
<1>2. file' = file /\ active' = active /\ entries' = [entries EXCEPT ![active] = set]
      /\ overrides' = [overrides EXCEPT !.entry[active] = new]
  BY DEF Choice!SetApi, Choice!Switch
<1>3. base \in Entries /\ entry \in Entries /\ overrides.entry[active] \in Switches
      /\ Kept(base, overrides.entry[active], entry)
  BY <1>1, EntryIs
<1>4. set \in Entries /\ set.model = entry.model /\ set.reasoning = entry.reasoning /\ set.api = a
  BY <1>3 DEF Entries
<1>5. new \in Switches /\ new.model = overrides.entry[active].model
      /\ new.reasoning = overrides.entry[active].reasoning /\ new.api = a
  BY Zenon, <1>3 DEF Switches
<1>6. entry.model = Choice!Chosen(overrides.entry[active].model, base.model)
      /\ entry.reasoning = Choice!Chosen(overrides.entry[active].reasoning, base.reasoning)
      /\ (new.reasoning # "" => new.reasoning \in Choice!reasoning_values(entry.model))
  <2>1. new.reasoning # "" => new.reasoning \in Choice!reasoning_values(entry.model)
    BY Zenon, <1>3, <1>5 DEF Kept
  <2> QED
    BY Zenon, <1>3, <2>1, RestoredIs
<1>7. a = Choice!Chosen(a, base.api)
  BY Zenon, WorkerAssumption DEF Choice!Chosen
<1>8. overrides'.active = overrides.active
      /\ overrides' = [active |-> overrides'.active, entry |-> [overrides.entry EXCEPT ![active] = new]]
  BY <1>2 DEF SettingsInv
<1>9. /\ entries'[active] = set /\ overrides'.entry[active] = new
      /\ \A k \in ProviderNames \ {active} : entries'[k] = entries[k] /\ overrides'.entry[k] = overrides.entry[k]
  BY <1>1, <1>2, <1>8 DEF SettingsInv
<1>10. entries' \in [ProviderNames -> Entries] /\ overrides'.entry \in [ProviderNames -> Switches]
  BY <1>1, <1>2, <1>4, <1>5, <1>8 DEF SettingsInv
<1> HIDE DEF set, new, base, entry
<1>11. Kept(base, new, set)
  BY Zenon, <1>3, <1>4, <1>5, <1>6, <1>7, RestoredIs
<1>12. EntriesInv'
  BY <1>2, <1>9, <1>11 DEF SettingsInv, EntriesInv, base
<1>13. ActiveInv'
  BY <1>2, <1>8 DEF SettingsInv, ActiveInv
<1>14. Choice!EffortOffered'
  <2> SUFFICES ASSUME NEW k \in ProviderNames, Choice!Switched(k)'
               PROVE  entries'[k].reasoning \in Choice!reasoning_choices(entries'[k].model)
                      /\ Choice!SentEffort(entries'[k]) = entries'[k].reasoning
    BY DEF Choice!EffortOffered
  <2>1. Choice!Switched(k)
    BY Zenon, <1>5, <1>8, <1>9 DEF Choice!Switched
  <2>2. entries[k].reasoning \in Choice!reasoning_choices(entries[k].model) /\ entries[k] \in Entries
    BY <2>1 DEF SettingsInv, Choice!EffortOffered
  <2>3. entries'[k] \in Entries /\ entries'[k].model = entries[k].model /\ entries'[k].reasoning = entries[k].reasoning
    BY <1>4, <1>9, <1>10, <2>2 DEF entry
  <2> QED
    BY <2>2, <2>3, SentAsShown
<1> QED
  BY <1>2, <1>8, <1>10, <1>12, <1>13, <1>14 DEF SettingsInv

\* A resume restores what is in use.
LEMMA ResumeStep == ASSUME SettingsInv, Choice!Resume PROVE SettingsInv'
<1>1. active' = active /\ entries' = entries
  BY SettingsKept DEF Choice!Resume, Choice!SwitchesKept, Choice!ResumeRestores
<1> QED
  BY <1>1, SameSettings DEF Choice!Resume

\* What the worker is given stays the worker's.
LEMMA WorkerStep ==
  ASSUME SettingsInv,
         \/ Choice!Spawn \/ Choice!Reset \/ Choice!WorkerProviderOff
         \/ \E n \in ProviderNames : Choice!WorkerProvider(n)
         \/ \E m \in Models \cup {""} : Choice!WorkerModel(m)
         \/ \E r \in Choice!Efforts \cup {""} : Choice!WorkerReasoning(r)
         \/ \E a \in Apis \cup {""} : Choice!WorkerApi(a)
  PROVE  SettingsInv'
<1>1. UNCHANGED <<file, active, entries, overrides>>
  BY Zenon DEF Choice!Spawn, Choice!Reset, Choice!WorkerProviderOff, Choice!WorkerProvider, Choice!WorkerModel,
         Choice!WorkerReasoning, Choice!WorkerApi, Choice!refresh_worker_entry, Choice!Switch
<1> QED
  BY Zenon, <1>1, SameSettings

ChoiceInv == about = "choice" => SettingsInv

LEMMA ChoiceSteps == ASSUME Graded PROVE ChoiceInv /\ [WorkerNext]_workerVars => ChoiceInv'
<1> SUFFICES ASSUME ChoiceInv, [WorkerNext]_workerVars PROVE ChoiceInv'
  OBVIOUS
<1>1. CASE UNCHANGED <<about, choiceVars>>
  BY <1>1, SameSettings DEF ChoiceInv, choiceVars
<1>2. CASE ChoiceNext
  <2>1. about = "choice" /\ about' = about /\ SettingsInv
    BY Zenon, <1>2 DEF ChoiceNext, InChoice, ChoiceInv
  <2>2. SettingsInv'
    BY Zenon, <1>2, <2>1, SetProviderStep, SetModelStep, SetReasoningStep, SetApiStep, ResumeStep, WorkerStep
    DEF ChoiceNext
  <2> QED
    BY <2>1, <2>2 DEF ChoiceInv
<1>3. CASE LifeNext
  <2>1. UNCHANGED <<about, choiceVars>>
    BY <1>3 DEF LifeNext, InLife
  <2> QED
    BY <1>1, <2>1
<1> QED
  BY <1>1, <1>2, <1>3 DEF WorkerNext, workerVars

\* SwitchesHold: where the catalogue's scales are made of its efforts, and whatever is switched,
\* realigned, declared, resumed, or set for a worker: what a resume would restore is what the
\* session runs on, and an effort that was switched is one its model takes and is sent as shown.
THEOREM SwitchesHold == Graded => (WorkerSpec => []SwitchesKept)
<1> SUFFICES ASSUME Graded PROVE WorkerSpec => []SwitchesKept
  OBVIOUS
<1>1. WorkerInit => ChoiceInv
  BY SettingsStart DEF WorkerInit, ChoiceInv, Choice!Init
<1>2. ChoiceInv /\ [WorkerNext]_workerVars => ChoiceInv'
  BY ChoiceSteps
<1>3. ChoiceInv => SwitchesKept
  BY SettingsKept DEF ChoiceInv, SwitchesKept
<1> QED
  BY <1>1, <1>2, <1>3, PTL DEF WorkerSpec

-----------------------------------------------------------------------------
(***************************************************************************)
(* Delegate.  The diffs first: what the parent has, and what the worker    *)
(* under way has added to it (Beyond), are one ascending sequence.         *)
(***************************************************************************)
\* The premise: a session keeps every diff its workers make.
Roomy == MaxEdits <= DiffCap

Facts  == {"order", "answer"} \X Nat

In(s, d)     == \E i \in 1..Len(s) : s[i] = d
Ascending(s) == \A i, j \in 1..Len(s) : i < j => s[i] < s[j]
Made(s, n)   == s \in Seq(Nat) /\ Len(s) <= n /\ Ascending(s) /\ \A i \in 1..Len(s) : s[i] \in 1..n

\* What w has after its first b is newer than p, and there is room for it.
Beyond(p, w, b, e) ==
  /\ b <= Len(w)
  /\ Len(p) + (Len(w) - b) <= e
  /\ \A i \in b + 1 .. Len(w) :
       /\ w[i] \in 1..e
       /\ \A j \in 1..Len(p) : p[j] < w[i]
       /\ \A j \in i + 1 .. Len(w) : w[i] < w[j]
Added(w, b, d) == \E i \in b + 1 .. Len(w) : w[i] = d

LifeTypes ==
  /\ edits \in Nat /\ edits <= MaxEdits /\ sends \in Nat /\ before \in Nat /\ jobs \in Nat
  /\ forgotten \subseteq 1..sends
  /\ call = [at |-> call.at, by |-> call.by, cancelled |-> call.cancelled]
  /\ session \in [alive : BOOLEAN, knows : SUBSET Facts, diffs : Seq(Nat), error : BOOLEAN]
  /\ disk \in [log : BOOLEAN, knows : SUBSET Facts, diffs : Seq(Nat), extras : BOOLEAN]
  /\ parent \in [diffs : Seq(Nat), saved : Seq(Nat)]
  /\ Len(session.diffs) <= edits /\ Len(disk.diffs) <= edits

\* Every edit is the parent's, but those of a killed process and of the delegation under way.
BooksInv ==
  /\ Made(parent.diffs, edits) /\ Made(parent.saved, edits)
  /\ call.at = "running" => Beyond(parent.diffs, session.diffs, before, edits)
  /\ \A d \in 1..edits \ unmerged : In(parent.diffs, d) \/ (call.at = "running" /\ Added(session.diffs, before, d))

\* Neither the worker nor the snapshot it would come from remembers an order that was reset.
MemoryInv ==
  /\ \A k \in session.knows : k[2] \notin forgotten
  /\ disk.log => \A k \in disk.knows : k[2] \notin forgotten
  /\ call.at \in {"extras", "commit"} => ~disk.log
  /\ call.at = "running" => sends \notin forgotten

StaffInv ==
  /\ call.at \in {"starting", "running"} => session.alive
  /\ call.at \in {"unlink", "extras", "commit"} => jobs = 0
  /\ jobs > 0 => session.alive

LifeInv == LifeTypes /\ BooksInv /\ MemoryInv /\ StaffInv

-----------------------------------------------------------------------------
LEMMA Joined ==
  ASSUME NEW p \in Seq(Nat), NEW w \in Seq(Nat), NEW b \in Nat, b <= Len(w)
  PROVE  LET all == p \o SubSeq(w, b + 1, Len(w)) IN
         /\ all \in Seq(Nat) /\ Len(all) = Len(p) + (Len(w) - b)
         /\ \A i \in 1..Len(p) : all[i] = p[i]
         /\ \A i \in b + 1 .. Len(w) : all[Len(p) + (i - b)] = w[i]
<1> DEFINE new == SubSeq(w, b + 1, Len(w))
<1>1. Len(w) \in Nat /\ Len(p) \in Nat
  OBVIOUS
<1>2. new \in Seq(Nat) /\ Len(new) = Len(w) - b
  BY <1>1
<1>3. \A i \in 1..(Len(w) - b) : new[i] = w[b + i]
  BY <1>1
<1>4. \A i \in b + 1 .. Len(w) : new[i - b] = w[i]
  <2> TAKE i \in b + 1 .. Len(w)
  <2>1. i - b \in 1..(Len(w) - b) /\ b + (i - b) = i
    BY <1>1
  <2> HIDE DEF new
  <2> QED
    BY <1>3, <2>1
<1> HIDE DEF new
<1>5. \A i \in b + 1 .. Len(w) : (p \o new)[Len(p) + (i - b)] = new[i - b]
  <2> TAKE i \in b + 1 .. Len(w)
  <2> DEFINE k == Len(p) + (i - b)
  <2>1. k \in 1..(Len(p) + Len(new)) /\ ~(k <= Len(p)) /\ k - Len(p) = i - b
    BY <1>1, <1>2
  <2> HIDE DEF k
  <2>2. (p \o new)[k] = new[k - Len(p)]
    BY Zenon, <1>1, <1>2, <2>1, ConcatProperties
  <2> QED
    BY <2>1, <2>2 DEF k
<1>6. p \o new \in Seq(Nat) /\ Len(p \o new) = Len(p) + Len(new) /\ \A i \in 1..Len(p) : (p \o new)[i] = p[i]
  <2>1. p \o new \in Seq(Nat) /\ Len(p \o new) = Len(p) + Len(new)
    BY Zenon, <1>2, ConcatProperties
  <2>2. ASSUME NEW i \in 1..Len(p) PROVE (p \o new)[i] = p[i]
    <3>1. i \in 1..(Len(p) + Len(new)) /\ i <= Len(p)
      BY <1>1, <1>2
    <3> QED
      BY <1>2, <3>1, ConcatProperties
  <2> QED
    BY <2>1, <2>2
<1> QED
  BY Zenon, <1>2, <1>4, <1>5, <1>6 DEF new

LEMMA JoinedMade ==
  ASSUME NEW p \in Seq(Nat), NEW w \in Seq(Nat), NEW b \in Nat, NEW e \in Nat, Made(p, e), Beyond(p, w, b, e)
  PROVE  LET all == p \o SubSeq(w, b + 1, Len(w)) IN
         /\ Made(all, e)
         /\ \A d : In(p, d) \/ Added(w, b, d) => In(all, d)
<1> DEFINE all == p \o SubSeq(w, b + 1, Len(w))
           np == Len(p)
           nw == Len(w)
<1>1. np \in Nat /\ nw \in Nat /\ b <= nw
  BY DEF Beyond
<1>2. /\ all \in Seq(Nat) /\ Len(all) = np + (nw - b)
      /\ \A i \in 1..np : all[i] = p[i]
      /\ \A i \in b + 1 .. nw : all[np + (i - b)] = w[i]
  BY Zenon, <1>1, Joined
<1>3. /\ np + (nw - b) <= e
      /\ \A i \in b + 1 .. nw : w[i] \in 1..e
      /\ \A i \in b + 1 .. nw : \A j \in 1..np : p[j] < w[i]
      /\ \A i \in b + 1 .. nw : \A j \in i + 1 .. nw : w[i] < w[j]
  BY Zenon DEF Beyond
<1>4. (\A i \in 1..np : p[i] \in 1..e) /\ \A i, j \in 1..np : i < j => p[i] < p[j]
  BY DEF Made, Ascending
<1> HIDE DEF all, np, nw
<1>5. ASSUME NEW k \in 1..(np + (nw - b)), k > np
      PROVE  (k - np) + b \in b + 1 .. nw /\ all[k] = w[(k - np) + b]
  <2>1. (k - np) + b \in b + 1 .. nw /\ np + (((k - np) + b) - b) = k
    BY <1>1, <1>5
  <2> QED
    BY Zenon, <1>2, <2>1
<1>6. ASSUME NEW k \in 1..(np + (nw - b)), ~(k > np) PROVE k \in 1..np /\ all[k] = p[k]
  <2>1. k \in 1..np
    BY <1>1, <1>6
  <2> QED
    BY <1>2, <2>1
<1>7. ASSUME NEW k \in 1..(np + (nw - b)) PROVE all[k] \in 1..e
  BY Zenon, <1>3, <1>4, <1>5, <1>6
<1>8. ASSUME NEW i \in 1..(np + (nw - b)), NEW j \in 1..(np + (nw - b)), i < j PROVE all[i] < all[j]
  <2>1. CASE ~(j > np)
    <3>1. ~(i > np)
      BY <2>1, <1>1, <1>8
    <3> QED
      BY <1>4, <1>6, <1>8, <2>1, <3>1
  <2>2. CASE j > np /\ ~(i > np)
    BY Zenon, <1>3, <1>5, <1>6, <2>2
  <2>3. CASE j > np /\ i > np
    <3> DEFINE x == (i - np) + b
               y == (j - np) + b
    <3>1. x \in b + 1 .. nw /\ all[i] = w[x] /\ y \in b + 1 .. nw /\ all[j] = w[y]
      BY <1>5, <2>3
    <3>2. i \in Int /\ j \in Int /\ i + 1 <= j
      BY <1>1, <1>8
    <3>3. x + 1 <= y /\ y <= nw /\ x \in Int /\ y \in Int
      BY <1>1, <3>1, <3>2
    <3> HIDE DEF x, y
    <3>4. y \in x + 1 .. nw
      BY <1>1, <3>3
    <3> QED
      BY <1>3, <3>1, <3>4
  <2> QED
    BY <2>1, <2>2, <2>3
<1>9. Made(all, e)
  BY <1>2, <1>3, <1>7, <1>8 DEF Made, Ascending
<1>10. ASSUME NEW d, In(p, d) \/ Added(w, b, d) PROVE In(all, d)
  <2>1. CASE In(p, d)
    <3>1. PICK i \in 1..np : p[i] = d
      BY <2>1 DEF In, np
    <3>2. i \in 1..Len(all) /\ all[i] = d
      BY <1>1, <1>2, <3>1
    <3> QED
      BY <3>2 DEF In
  <2>2. CASE Added(w, b, d)
    <3>1. PICK i \in b + 1 .. nw : w[i] = d
      BY <2>2 DEF Added, nw
    <3> DEFINE k == np + (i - b)
    <3>2. k \in 1..(np + (nw - b))
      BY <1>1, <3>1
    <3>3. k \in 1..Len(all) /\ all[k] = d
      BY Zenon, <1>2, <3>1, <3>2
    <3> HIDE DEF k
    <3> QED
      BY <3>3 DEF In
  <2> QED
    BY <1>10, <2>1, <2>2
<1> QED
  BY <1>9, <1>10 DEF all, nw

\* No diff is newer than the edits, so more edits change nothing.
LEMMA MadeMore == ASSUME NEW e \in Nat, NEW s, Made(s, e) PROVE Made(s, e + 1)
<1>1. s \in Seq(Nat) /\ Len(s) \in Nat /\ Len(s) <= e + 1 /\ Ascending(s)
  BY DEF Made
<1>2. \A i \in 1..Len(s) : s[i] \in 1..(e + 1)
  BY DEF Made
<1> QED
  BY <1>1, <1>2 DEF Made

\* With room for every edit nothing is dropped.
LEMMA AllKept == ASSUME Roomy, NEW s \in Seq(Nat), Len(s) <= MaxEdits PROVE Life!Newest(s) = s
<1>1. DiffCap \in Nat /\ MaxEdits \in Nat
  BY Zenon, WorkerAssumption
<1>2. Len(s) \in Nat /\ Len(s) <= DiffCap
  BY <1>1 DEF Roomy
<1> QED
  BY <1>2 DEF Life!Newest

LEMMA Diffs ==
  ASSUME LifeTypes
  PROVE  /\ session.diffs \in Seq(Nat) /\ disk.diffs \in Seq(Nat) /\ parent.diffs \in Seq(Nat) /\ parent.saved \in Seq(Nat)
         /\ edits \in Nat /\ edits <= MaxEdits /\ MaxEdits \in Nat /\ before \in Nat /\ sends \in Nat /\ jobs \in Nat
<1>1. MaxEdits \in Nat
  BY Zenon, WorkerAssumption
<1> QED
  BY <1>1 DEF LifeTypes

\* What becomes of the parent's diffs at the end of a delegation.
LEMMA Merging ==
  ASSUME Roomy, LifeTypes, BooksInv, call.at = "running"
  PROVE  /\ Made(Life!_merge_diffs, edits)
         /\ \A d \in 1..edits \ unmerged : In(Life!_merge_diffs, d)
<1> DEFINE all == parent.diffs \o SubSeq(session.diffs, before + 1, Len(session.diffs))
<1>1. Made(all, edits) /\ \A d : In(parent.diffs, d) \/ Added(session.diffs, before, d) => In(all, d)
  BY Zenon, Diffs, JoinedMade DEF BooksInv
<1> HIDE DEF all
<1>2. all \in Seq(Nat) /\ Len(all) \in Nat /\ Len(all) <= edits
  BY <1>1 DEF Made
<1>3. Len(all) <= MaxEdits
  BY <1>2, Diffs
<1>4. Life!_merge_diffs = all
  BY Zenon, <1>2, <1>3, AllKept DEF Life!_merge_diffs, all
<1> QED
  BY <1>1, <1>4 DEF BooksInv

LEMMA LifeStart == ASSUME Life!Init PROVE LifeInv
<1>1. /\ session = [alive |-> FALSE, knows |-> {}, diffs |-> <<>>, error |-> FALSE]
      /\ disk = [log |-> FALSE, knows |-> {}, diffs |-> <<>>, extras |-> FALSE]
      /\ call = [at |-> "idle", by |-> "", cancelled |-> FALSE]
      /\ parent = [diffs |-> <<>>, saved |-> <<>>] /\ jobs = 0 /\ before = 0
      /\ forgotten = {} /\ unmerged = {} /\ sends = 0 /\ edits = 0
  BY Zenon DEF Life!Init, Life!NoWorker, Life!NoFiles, Life!Idle
<1>2. MaxEdits \in Nat /\ 0 <= MaxEdits
  <2>1. MaxEdits \in Nat
    BY Zenon, WorkerAssumption
  <2> QED
    BY <2>1
<1>3. <<>> \in Seq(Nat) /\ Len(<<>>) = 0
  OBVIOUS
<1>4. session.knows = {} /\ session.diffs = <<>> /\ session.alive = FALSE /\ disk.log = FALSE /\ disk.diffs = <<>>
      /\ call.at = "idle" /\ parent.diffs = <<>> /\ parent.saved = <<>>
  BY Zenon, <1>1
<1>5. LifeTypes
  <2>1. session \in [alive : BOOLEAN, knows : SUBSET Facts, diffs : Seq(Nat), error : BOOLEAN]
    BY Zenon, <1>1, <1>3
  <2>2. disk \in [log : BOOLEAN, knows : SUBSET Facts, diffs : Seq(Nat), extras : BOOLEAN]
    BY Zenon, <1>1, <1>3
  <2>3. parent \in [diffs : Seq(Nat), saved : Seq(Nat)]
    BY Zenon, <1>1, <1>3
  <2>4. Len(session.diffs) <= edits /\ Len(disk.diffs) <= edits
    <3>1. 0 <= 0
      OBVIOUS
    <3> QED
      BY Zenon, <1>1, <1>3, <1>4, <3>1
  <2>5. call = [at |-> call.at, by |-> call.by, cancelled |-> call.cancelled]
    BY Zenon, <1>1
  <2> QED
    BY Zenon, <1>1, <1>2, <2>1, <2>2, <2>3, <2>4, <2>5 DEF LifeTypes
<1>6. BooksInv
  <2>1. Made(<<>>, 0)
    BY DEF Made, Ascending
  <2>2. 1..0 = {}
    OBVIOUS
  <2>3. call.at # "running"
    BY <1>4
  <2> QED
    BY Zenon, <1>1, <1>4, <2>1, <2>2, <2>3 DEF BooksInv
<1>7. MemoryInv
  BY <1>4 DEF MemoryInv
<1>8. StaffInv
  <2>1. ~(0 > 0)
    OBVIOUS
  <2> QED
    BY Zenon, <1>1, <1>4, <2>1 DEF StaffInv
<1> QED
  BY <1>5, <1>6, <1>7, <1>8 DEF LifeInv

LEMMA LifeKept == ASSUME LifeInv PROVE Life!DelegationSound
<1>1. parent.diffs \in Seq(Nat) /\ DOMAIN parent.diffs = 1..Len(parent.diffs)
  BY Diffs DEF LifeInv
<1>2. \A i, j \in DOMAIN parent.diffs : i < j => parent.diffs[i] < parent.diffs[j]
  BY Zenon, <1>1 DEF LifeInv, BooksInv, Made, Ascending
<1>3. Life!IsInjective(parent.diffs)
  <2> SUFFICES ASSUME NEW i \in 1..Len(parent.diffs), NEW j \in 1..Len(parent.diffs), parent.diffs[i] = parent.diffs[j]
               PROVE  i = j
    BY <1>1 DEF Life!IsInjective
  <2>1. i \in Nat /\ j \in Nat /\ parent.diffs[i] \in Nat
    BY <1>1
  <2>2. \A x \in Nat : ~(x < x)
    OBVIOUS
  <2>3. ~(i < j) /\ ~(j < i)
    BY Zenon, <1>1, <1>2, <2>1, <2>2
  <2> QED
    BY <2>1, <2>3
<1>4. call.at # "running" => \A d \in 1..edits \ unmerged : d \in Life!ToSet(parent.diffs)
  BY <1>1 DEF LifeInv, BooksInv, In, Life!ToSet
<1>5. Life!DiffsMerged
  BY <1>2, <1>3, <1>4 DEF Life!DiffsMerged
<1> QED
  BY <1>5 DEF LifeInv, MemoryInv, StaffInv, Life!DelegationSound, Life!ResetForgets, Life!JobsManaged

-----------------------------------------------------------------------------
\* A step that makes, merges and loses no edit.
LEMMA BooksSame ==
  ASSUME BooksInv, UNCHANGED <<edits, parent, unmerged>>, call.at = "running" <=> call'.at = "running",
         call.at = "running" => before' = before /\ session'.diffs = session.diffs
  PROVE  BooksInv'
BY DEF BooksInv

\* A delegation that ends, however.
LEMMA BooksMerged ==
  ASSUME Roomy, LifeTypes, BooksInv, call.at = "running", call'.at = "idle", Life!Merge, UNCHANGED <<edits, unmerged>>
  PROVE  BooksInv' /\ parent' \in [diffs : Seq(Nat), saved : Seq(Nat)]
<1>1. parent' = [parent EXCEPT !.diffs = Life!_merge_diffs] /\ Made(Life!_merge_diffs, edits)
      /\ \A d \in 1..edits \ unmerged : In(Life!_merge_diffs, d)
  BY Merging DEF Life!Merge
<1> DEFINE all == Life!_merge_diffs
<1> HIDE DEF all
<1>2. parent'.diffs = all /\ parent'.saved = parent.saved /\ parent' \in [diffs : Seq(Nat), saved : Seq(Nat)]
  BY Zenon, <1>1 DEF LifeTypes, Made, all
<1> QED
  BY <1>1, <1>2 DEF BooksInv, all

-----------------------------------------------------------------------------
\* The steps, by what they do to the books.
LEMMA SendStep == ASSUME LifeInv, Life!Send PROVE LifeInv'
<1>1. UNCHANGED <<session, jobs, disk, parent, before, forgotten, unmerged, sends, edits>>
      /\ call.at = "idle" /\ call' = [at |-> call'.at, by |-> call'.by, cancelled |-> call'.cancelled]
      /\ call'.at \in {"starting", "restoring"} /\ (call'.at = "starting" => session.alive)
  BY Zenon DEF Life!Send, Life!Idle, Life!bounds
<1>2. LifeTypes'
  BY <1>1 DEF LifeInv, LifeTypes
<1>3. BooksInv'
  BY <1>1, BooksSame DEF LifeInv
<1> QED
  BY <1>1, <1>2, <1>3 DEF LifeInv, MemoryInv, StaffInv

LEMMA RestoreStep == ASSUME LifeInv, Life!Restore PROVE LifeInv'
<1>1. /\ UNCHANGED <<jobs, disk, parent, before, forgotten, unmerged, sends, edits>> /\ call.at = "restoring"
      /\ call' = [at |-> call'.at, by |-> call'.by, cancelled |-> call'.cancelled]
      /\ \/ session' = session /\ call'.at = "idle"
         \/ session' = (IF disk.log THEN Life!Restored ELSE Life!Fresh) /\ call'.at = "starting"
  <2>1. UNCHANGED <<jobs, disk, parent, before, forgotten, unmerged, sends, edits>> /\ call.at = "restoring"
    BY DEF Life!Restore, Life!bounds
  <2>2. CASE call.cancelled
    <3>1. call' = Life!Idle /\ session' = session
      BY <2>2 DEF Life!Restore
    <3>2. call' = [at |-> "idle", by |-> "", cancelled |-> FALSE]
      BY Zenon, <3>1 DEF Life!Idle
    <3>3. call'.at = "idle" /\ call' = [at |-> call'.at, by |-> call'.by, cancelled |-> call'.cancelled]
      BY Zenon, <3>2
    <3> QED
      BY <2>1, <3>1, <3>3
  <2>3. CASE ~call.cancelled
    <3>1. call' = [call EXCEPT !.at = "starting"] /\ session' = IF disk.log THEN Life!Restored ELSE Life!Fresh
      BY <2>3 DEF Life!Restore
    <3>2. call = [at |-> call.at, by |-> call.by, cancelled |-> call.cancelled]
      BY DEF LifeInv, LifeTypes
    <3>3. call' = [at |-> "starting", by |-> call.by, cancelled |-> call.cancelled]
      BY <3>1, <3>2
    <3> QED
      BY Zenon, <2>1, <3>1, <3>3
  <2> QED
    BY <2>2, <2>3
<1>2. \/ session' = session /\ call'.at = "idle"
      \/ session' = [alive |-> TRUE, knows |-> disk.knows, diffs |-> disk.diffs, error |-> FALSE] /\ disk.log
      \/ session' = [alive |-> TRUE, knows |-> {}, diffs |-> <<>>, error |-> FALSE]
  BY Zenon, <1>1 DEF Life!Restored, Life!Fresh, Life!NoWorker
<1>3. /\ session' \in [alive : BOOLEAN, knows : SUBSET Facts, diffs : Seq(Nat), error : BOOLEAN]
      /\ Len(session'.diffs) <= edits
      /\ \A k \in session'.knows : k[2] \notin forgotten
      /\ session' = session \/ session'.alive
  <2>1. CASE session' = session
    BY <2>1 DEF LifeInv, LifeTypes, MemoryInv
  <2>2. CASE session' = [alive |-> TRUE, knows |-> disk.knows, diffs |-> disk.diffs, error |-> FALSE] /\ disk.log
    BY <2>2 DEF LifeInv, LifeTypes, MemoryInv
  <2>3. CASE session' = [alive |-> TRUE, knows |-> {}, diffs |-> <<>>, error |-> FALSE]
    <3>1. <<>> \in Seq(Nat) /\ Len(<<>>) = 0
      OBVIOUS
    <3>2. 0 <= edits
      BY Diffs DEF LifeInv
    <3> QED
      BY <2>3, <3>1, <3>2
  <2> QED
    BY <1>2, <2>1, <2>2, <2>3
<1>4. LifeTypes'
  BY <1>1, <1>3 DEF LifeInv, LifeTypes
<1>5. BooksInv'
  BY <1>1, BooksSame DEF LifeInv
<1>6. MemoryInv'
  BY <1>1, <1>3 DEF LifeInv, MemoryInv
<1>7. StaffInv'
  BY <1>1, <1>2, <1>3 DEF LifeInv, StaffInv
<1> QED
  BY <1>4, <1>5, <1>6, <1>7 DEF LifeInv

LEMMA CheckpointStep == ASSUME LifeInv, Life!Checkpoint PROVE LifeInv'
<1>1. UNCHANGED <<session, jobs, parent, call, before, forgotten, unmerged, sends, edits>> /\ call.at = "running"
      /\ disk' = [log |-> TRUE, knows |-> session.knows, diffs |-> session.diffs, extras |-> TRUE]
  BY DEF Life!Checkpoint, Life!SaveWorker, Life!bounds
<1>2. disk' \in [log : BOOLEAN, knows : SUBSET Facts, diffs : Seq(Nat), extras : BOOLEAN] /\ Len(disk'.diffs) <= edits
      /\ disk'.knows = session.knows
  BY <1>1 DEF LifeInv, LifeTypes
<1>3. LifeTypes'
  BY <1>1, <1>2 DEF LifeInv, LifeTypes
<1>4. BooksInv'
  BY <1>1, BooksSame DEF LifeInv
<1> QED
  BY <1>1, <1>2, <1>3, <1>4 DEF LifeInv, MemoryInv, StaffInv

\* The worker's processes, and an interrupt, which is only remembered.
LEMMA JobSteps ==
  ASSUME LifeInv, Life!StartJob \/ Life!JobExits
  PROVE  LifeInv'
<1>1. UNCHANGED <<session, disk, parent, call, before, forgotten, unmerged, sends, edits>> /\ jobs' \in Nat
      /\ ((call.at = "running" /\ jobs' = 1) \/ (jobs > 0 /\ jobs' = jobs - 1))
  BY Diffs DEF Life!StartJob, Life!JobExits, Life!bounds, LifeInv
<1>2. LifeTypes'
  BY Zenon, <1>1 DEF LifeInv, LifeTypes
<1>3. BooksInv'
  BY <1>1, BooksSame DEF LifeInv
<1>4. StaffInv'
  <2>1. ~(0 > 0)
    OBVIOUS
  <2>2. CASE call.at = "running" /\ jobs' = 1
    BY <1>1, <2>2 DEF LifeInv, StaffInv
  <2>3. CASE jobs > 0
    BY <1>1, <2>1, <2>3 DEF LifeInv, StaffInv
  <2> QED
    BY <1>1, <2>2, <2>3
<1> QED
  BY <1>1, <1>2, <1>3, <1>4 DEF LifeInv, MemoryInv

LEMMA InterruptStep == ASSUME LifeInv, Life!Interrupt PROVE LifeInv'
<1>1. UNCHANGED <<session, jobs, disk, parent, before, forgotten, unmerged, sends, edits>>
      /\ call' = [call EXCEPT !.cancelled = TRUE]
  BY DEF Life!Interrupt
<1>2. call'.at = call.at /\ call' = [at |-> call'.at, by |-> call'.by, cancelled |-> call'.cancelled]
  BY Zenon, <1>1 DEF LifeInv, LifeTypes
<1>3. LifeTypes'
  BY <1>1, <1>2 DEF LifeInv, LifeTypes
<1>4. BooksInv'
  BY <1>1, <1>2, BooksSame DEF LifeInv
<1> QED
  BY <1>1, <1>2, <1>3, <1>4 DEF LifeInv, MemoryInv, StaffInv

\* The order joins what the worker remembers, under a number no reset has seen.
LEMMA StartStep == ASSUME LifeInv, Life!Start PROVE LifeInv'
<1> DEFINE knows == session.knows \cup {<<"order", sends + 1>>}
<1>1. /\ UNCHANGED <<jobs, parent, forgotten, unmerged, edits>> /\ call.at = "starting" /\ sends' = sends + 1
      /\ session' = [session EXCEPT !.knows = knows]
      /\ disk' = [log |-> TRUE, knows |-> session'.knows, diffs |-> session.diffs, extras |-> TRUE]
      /\ before' = Len(session.diffs) /\ call' = [call EXCEPT !.at = "running"]
  BY DEF Life!Start
<1>2. call'.at = "running" /\ call' = [at |-> call'.at, by |-> call'.by, cancelled |-> call'.cancelled]
  BY Zenon, <1>1 DEF LifeInv, LifeTypes
<1>3. knows \subseteq Facts
  BY Diffs DEF LifeInv, LifeTypes, Facts
<1>4. sends + 1 \notin forgotten
  BY Diffs DEF LifeInv, LifeTypes
<1>5. \A k \in knows : k[2] \notin forgotten
  BY <1>4 DEF LifeInv, MemoryInv
<1> HIDE DEF knows
<1>6. session' \in [alive : BOOLEAN, knows : SUBSET Facts, diffs : Seq(Nat), error : BOOLEAN]
      /\ session'.knows = knows /\ session'.diffs = session.diffs /\ session'.alive = session.alive
  BY Zenon, <1>1, <1>3 DEF LifeInv, LifeTypes
<1>7. disk' \in [log : BOOLEAN, knows : SUBSET Facts, diffs : Seq(Nat), extras : BOOLEAN]
      /\ disk'.knows = knows /\ disk'.diffs = session.diffs /\ disk'.log
  BY <1>1, <1>3, <1>6 DEF LifeInv, LifeTypes
<1>8. LifeTypes'
  <2>1. before' \in Nat /\ sends' \in Nat /\ forgotten' \subseteq 1..sends'
    BY <1>1, Diffs DEF LifeInv, LifeTypes
  <2> QED
    BY Zenon, <1>1, <1>2, <1>6, <1>7, <2>1 DEF LifeInv, LifeTypes
<1>9. BooksInv'
  <2>1. Len(session.diffs) \in Nat /\ Len(parent.diffs) \in Nat /\ Len(parent.diffs) <= edits /\ edits \in Nat
    BY Diffs DEF LifeInv, BooksInv, Made
  <2>2. Beyond(parent.diffs, session.diffs, Len(session.diffs), edits)
    <3>1. Len(session.diffs) <= Len(session.diffs) /\ Len(parent.diffs) + (Len(session.diffs) - Len(session.diffs)) <= edits
      BY <2>1
    <3>2. Len(session.diffs) + 1 .. Len(session.diffs) = {}
      BY <2>1
    <3> QED
      BY <3>1, <3>2 DEF Beyond
  <2> QED
    BY <1>1, <1>6, <2>2 DEF LifeInv, BooksInv
<1>10. MemoryInv'
  BY <1>1, <1>2, <1>4, <1>5, <1>6, <1>7 DEF MemoryInv
<1>11. StaffInv'
  BY <1>1, <1>2, <1>6 DEF LifeInv, StaffInv
<1> QED
  BY <1>8, <1>9, <1>10, <1>11 DEF LifeInv

\* An edit is newer than all the parent has.
LEMMA EditStep == ASSUME Roomy, LifeInv, Life!Edit PROVE LifeInv'
<1> DEFINE w == session.diffs
           new == Append(w, edits + 1)
           p == parent.diffs
<1>1. /\ UNCHANGED <<jobs, disk, parent, call, before, forgotten, unmerged, sends>> /\ call.at = "running"
      /\ edits < MaxEdits /\ edits' = edits + 1
      /\ session' = [session EXCEPT !.diffs = Life!store_turn_diff(w, edits + 1)]
  BY DEF Life!Edit
<1>2. /\ w \in Seq(Nat) /\ p \in Seq(Nat) /\ edits \in Nat /\ MaxEdits \in Nat /\ before \in Nat /\ Len(w) \in Nat
      /\ Len(p) \in Nat /\ Len(w) <= edits
  BY Diffs DEF LifeInv, LifeTypes
<1>3. new \in Seq(Nat) /\ Len(new) = Len(w) + 1 /\ new[Len(w) + 1] = edits + 1 /\ \A i \in 1..Len(w) : new[i] = w[i]
  BY <1>2
<1> HIDE DEF w, new, p
<1>4. Len(new) <= edits' /\ edits' \in Nat /\ edits' <= MaxEdits
  BY <1>1, <1>2, <1>3
<1>5. Life!store_turn_diff(w, edits + 1) = new
  <2>1. Len(new) <= MaxEdits
    BY <1>2, <1>3, <1>4
  <2> QED
    BY Zenon, <1>3, <2>1, AllKept DEF Life!store_turn_diff, new
<1>6. session' \in [alive : BOOLEAN, knows : SUBSET Facts, diffs : Seq(Nat), error : BOOLEAN]
      /\ session'.diffs = new /\ session'.knows = session.knows /\ session'.alive = session.alive
  BY Zenon, <1>1, <1>3, <1>5 DEF LifeInv, LifeTypes
<1>7. LifeTypes'
  <2>1. Len(disk.diffs) <= edits'
    <3>1. disk.diffs \in Seq(Nat) /\ Len(disk.diffs) <= edits
      BY Diffs DEF LifeInv, LifeTypes
    <3>2. Len(disk.diffs) \in Nat
      BY <3>1
    <3> QED
      BY <1>1, <1>2, <3>1, <3>2
  <2> QED
    BY Zenon, <1>1, <1>4, <1>6, <2>1 DEF LifeInv, LifeTypes
<1>8. BooksInv'
  <2>1. Beyond(p, w, before, edits) /\ Made(p, edits) /\ Made(parent.saved, edits)
    BY <1>1 DEF LifeInv, BooksInv, p, w
  <2>2. Made(p, edits + 1) /\ Made(parent.saved, edits + 1)
    BY <1>2, <2>1, MadeMore
  <2>3. Beyond(p, new, before, edits + 1)
    <3>1. before <= Len(new) /\ Len(p) + (Len(new) - before) <= edits + 1
      BY <1>2, <1>3, <2>1 DEF Beyond
    <3>2. ASSUME NEW i \in before + 1 .. Len(new)
          PROVE  \/ i \in before + 1 .. Len(w) /\ new[i] = w[i]
                 \/ i = Len(w) + 1 /\ new[i] = edits + 1
      BY <1>2, <1>3, <2>1 DEF Beyond
    <3>3. ASSUME NEW i \in before + 1 .. Len(new) PROVE new[i] \in 1..(edits + 1)
      <4>1. CASE i \in before + 1 .. Len(w) /\ new[i] = w[i]
        <5>1. w[i] \in 1..edits
          BY <2>1, <4>1 DEF Beyond
        <5> QED
          BY <1>2, <4>1, <5>1
      <4>2. CASE i = Len(w) + 1 /\ new[i] = edits + 1
        BY <1>2, <4>2
      <4> QED
        BY <3>2, <4>1, <4>2
    <3>4. ASSUME NEW i \in before + 1 .. Len(new), NEW j \in 1..Len(p) PROVE p[j] < new[i]
      <4>1. p[j] \in 1..edits
        BY <2>1 DEF Made
      <4>2. CASE i \in before + 1 .. Len(w) /\ new[i] = w[i]
        BY <2>1, <4>2 DEF Beyond
      <4>3. CASE i = Len(w) + 1 /\ new[i] = edits + 1
        BY <1>2, <4>1, <4>3
      <4> QED
        BY <3>2, <4>2, <4>3
    <3>5. ASSUME NEW i \in before + 1 .. Len(new), NEW j \in i + 1 .. Len(new) PROVE new[i] < new[j]
      <4>1. i \in before + 1 .. Len(w) /\ new[i] = w[i] /\ j \in before + 1 .. Len(new)
        BY <1>2, <1>3, <3>2
      <4>2. w[i] \in 1..edits
        BY <2>1, <4>1 DEF Beyond
      <4>3. CASE j = Len(w) + 1
        BY <1>2, <1>3, <4>1, <4>2, <4>3
      <4>4. CASE j # Len(w) + 1
        <5>1. j \in i + 1 .. Len(w) /\ new[j] = w[j]
          BY <1>2, <3>2, <4>1, <4>4
        <5> QED
          BY <2>1, <4>1, <5>1 DEF Beyond
      <4> QED
        BY <4>3, <4>4
    <3> QED
      BY <3>1, <3>3, <3>4, <3>5 DEF Beyond
  <2>4. ASSUME NEW d \in 1..(edits + 1) \ unmerged PROVE In(p, d) \/ Added(new, before, d)
    <3>1. CASE d = edits + 1
      <4>1. Len(w) + 1 \in before + 1 .. Len(new) /\ new[Len(w) + 1] = d
        BY <1>2, <1>3, <2>1, <3>1 DEF Beyond
      <4> QED
        BY <4>1 DEF Added
    <3>2. CASE d # edits + 1
      <4>1. d \in 1..edits \ unmerged
        BY <1>2, <3>2
      <4>2. In(p, d) \/ Added(w, before, d)
        BY <4>1 DEF LifeInv, BooksInv, p, w
      <4>3. Added(w, before, d) => Added(new, before, d)
        <5> SUFFICES ASSUME NEW i \in before + 1 .. Len(w), w[i] = d PROVE Added(new, before, d)
          BY DEF Added
        <5>1. i \in before + 1 .. Len(new) /\ new[i] = d
          BY <1>2, <1>3
        <5> QED
          BY <5>1 DEF Added
      <4> QED
        BY <4>2, <4>3
    <3> QED
      BY <3>1, <3>2
  <2> QED
    BY <1>1, <1>6, <2>2, <2>3, <2>4 DEF BooksInv, p
<1> QED
  BY <1>1, <1>6, <1>7, <1>8 DEF LifeInv, MemoryInv, StaffInv

\* However a delegation ends, its edits become the parent's; the worker may take an order back,
\* or has answered the last one.
LEMMA EndStep ==
  ASSUME Roomy, LifeInv, Life!Answer \/ Life!Fail \/ Life!Cancelled PROVE LifeInv'
<1>1. /\ UNCHANGED <<jobs, before, forgotten, unmerged, sends, edits>> /\ call.at = "running" /\ Life!Merge
      /\ call' = Life!Idle
  BY DEF Life!Answer, Life!Fail, Life!Cancelled, Life!bounds
<1>2. call'.at = "idle" /\ call' = [at |-> call'.at, by |-> call'.by, cancelled |-> call'.cancelled]
  BY Zenon, <1>1 DEF Life!Idle
<1>3. /\ session' \in [alive : BOOLEAN, knows : SUBSET Facts, diffs : Seq(Nat), error : BOOLEAN]
      /\ session'.diffs = session.diffs /\ session'.alive = session.alive
      /\ session'.knows \subseteq session.knows \cup {<<"answer", sends>>}
  <2>1. session \in [alive : BOOLEAN, knows : SUBSET Facts, diffs : Seq(Nat), error : BOOLEAN]
    BY DEF LifeInv, LifeTypes
  <2>2. CASE Life!Answer
    <3>1. session' = [session EXCEPT !.knows = @ \cup {<<"answer", sends>>}, !.error = FALSE]
      BY <2>2 DEF Life!Answer
    <3>2. <<"answer", sends>> \in Facts
      BY Diffs DEF LifeInv, Facts
    <3> QED
      BY Zenon, <2>1, <3>1, <3>2
  <2>3. CASE Life!Fail
    <3>1. session' = [session EXCEPT !.error = TRUE]
      BY <2>3 DEF Life!Fail
    <3> QED
      BY Zenon, <2>1, <3>1
  <2>4. CASE Life!Cancelled
    <3>1. session' \in Life!Settled
      BY <2>4 DEF Life!Cancelled
    <3>2. session' = session \/ session' = [session EXCEPT !.knows = @ \ {<<"order", sends>>}]
      BY <3>1 DEF Life!Settled
    <3> QED
      BY <2>1, <3>2
  <2> QED
    BY <2>2, <2>3, <2>4
<1>4. /\ disk' \in [log : BOOLEAN, knows : SUBSET Facts, diffs : Seq(Nat), extras : BOOLEAN]
      /\ Len(disk'.diffs) <= edits
      /\ disk' = disk \/ disk'.knows = session.knows \/ disk'.knows = session'.knows
  <2>1. CASE Life!Answer
    BY <2>1 DEF Life!Answer, LifeInv, LifeTypes
  <2>2. CASE Life!Fail
    <3>1. disk' = [log |-> TRUE, knows |-> session.knows, diffs |-> session.diffs, extras |-> TRUE]
      BY <2>2 DEF Life!Fail, Life!SaveWorker
    <3> QED
      BY <3>1 DEF LifeInv, LifeTypes
  <2>3. CASE Life!Cancelled
    <3>1. disk' = [log |-> TRUE, knows |-> session'.knows, diffs |-> session'.diffs, extras |-> TRUE]
      BY <2>3 DEF Life!Cancelled
    <3> QED
      BY <1>3, <3>1 DEF LifeInv, LifeTypes
  <2> QED
    BY <2>1, <2>2, <2>3
<1>5. BooksInv' /\ parent' \in [diffs : Seq(Nat), saved : Seq(Nat)]
  BY <1>1, <1>2, BooksMerged DEF LifeInv
<1>6. LifeTypes'
  BY Zenon, <1>1, <1>2, <1>3, <1>4, <1>5 DEF LifeInv, LifeTypes
<1>7. MemoryInv'
  <2>1. sends \notin forgotten /\ \A k \in session.knows : k[2] \notin forgotten
    BY <1>1 DEF LifeInv, MemoryInv
  <2>2. \A k \in session.knows \cup {<<"answer", sends>>} : k[2] \notin forgotten
    BY <2>1
  <2>3. disk' = disk \/ \A k \in disk'.knows : k[2] \notin forgotten
    BY <1>3, <1>4, <2>1, <2>2
  <2> QED
    BY <1>1, <1>2, <1>3, <2>2, <2>3 DEF LifeInv, MemoryInv
<1> QED
  BY <1>1, <1>2, <1>3, <1>5, <1>6, <1>7 DEF LifeInv, StaffInv

LEMMA ResetStep ==
  ASSUME LifeInv,
         \/ \E by \in {"model", "user"} : Life!Reset(by)
         \/ Life!ResetNothing \/ Life!KillFails \/ Life!KillJobs
  PROVE  LifeInv'
<1>1. /\ UNCHANGED <<session, disk, parent, before, forgotten, unmerged, sends, edits>>
      /\ call.at # "running" /\ call'.at \in {"idle", "reset", "unlink"} /\ jobs' \in {jobs, 0}
      /\ call' = [at |-> call'.at, by |-> call'.by, cancelled |-> call'.cancelled]
      /\ call'.at = "unlink" => jobs' = 0
  <2>1. CASE \E by \in {"model", "user"} : Life!Reset(by)
    <3>1. PICK by : Life!Reset(by)
      BY <2>1
    <3>2. call = Life!Idle /\ call' = [Life!Idle EXCEPT !.at = "reset", !.by = by]
          /\ UNCHANGED <<session, jobs, disk, parent, before, forgotten, unmerged, sends, edits>>
      BY <3>1 DEF Life!Reset, Life!bounds
    <3>3. call.at = "idle" /\ call' = [at |-> "reset", by |-> by, cancelled |-> FALSE]
      BY Zenon, <3>2 DEF Life!Idle
    <3> QED
      BY Zenon, <3>2, <3>3
  <2>2. CASE Life!ResetNothing
    BY Zenon, <2>2 DEF Life!ResetNothing, Life!Report, Life!Idle, Life!bounds
  <2>3. CASE Life!KillFails
    BY Zenon, <2>3 DEF Life!KillFails, Life!Report, Life!Idle, Life!bounds
  <2>4. CASE Life!KillJobs
    BY Zenon, <2>4 DEF Life!KillJobs, Life!bounds, LifeInv, LifeTypes
  <2> QED
    BY <2>1, <2>2, <2>3, <2>4
<1>2. LifeTypes'
  BY <1>1 DEF LifeInv, LifeTypes
<1>3. BooksInv'
  BY <1>1, BooksSame DEF LifeInv
<1>4. StaffInv'
  <2>1. ~(0 > 0)
    OBVIOUS
  <2> QED
    BY <1>1, <2>1 DEF LifeInv, StaffInv
<1> QED
  BY <1>1, <1>2, <1>3, <1>4 DEF LifeInv, MemoryInv

LEMMA UnlinkStep ==
  ASSUME LifeInv, Life!Unlink \/ Life!UnlinkFails \/ Life!Extras PROVE LifeInv'
<1>1. /\ UNCHANGED <<session, jobs, parent, before, forgotten, unmerged, sends, edits>> /\ call.at \in {"unlink", "extras"}
      /\ call'.at \in {"idle", "extras", "commit"}
      /\ call' = [at |-> call'.at, by |-> call'.by, cancelled |-> call'.cancelled]
      /\ disk' = disk \/ disk' = [log |-> FALSE, knows |-> {}, diffs |-> <<>>, extras |-> disk.extras]
         \/ disk' = [disk EXCEPT !.extras = FALSE]
      /\ call'.at # "idle" => ~disk'.log
  <2>1. CASE Life!Unlink
    BY Zenon, <2>1 DEF Life!Unlink, Life!NoFiles, Life!bounds, LifeInv, LifeTypes
  <2>2. CASE Life!UnlinkFails
    BY Zenon, <2>2 DEF Life!UnlinkFails, Life!Report, Life!Idle, Life!bounds
  <2>3. CASE Life!Extras
    <3>1. UNCHANGED <<session, jobs, parent, before, forgotten, unmerged, sends, edits>> /\ call.at = "extras"
          /\ call' = [call EXCEPT !.at = "commit"] /\ (disk' = disk \/ disk' = [disk EXCEPT !.extras = FALSE])
      BY <2>3 DEF Life!Extras, Life!bounds
    <3>2. ~disk'.log
      BY Zenon, <3>1 DEF LifeInv, MemoryInv, LifeTypes
    <3> QED
      BY Zenon, <3>1, <3>2 DEF LifeInv, LifeTypes
  <2> QED
    BY <2>1, <2>2, <2>3
<1>2. /\ disk' \in [log : BOOLEAN, knows : SUBSET Facts, diffs : Seq(Nat), extras : BOOLEAN]
      /\ Len(disk'.diffs) <= edits
      /\ disk'.log => disk.log /\ disk'.knows = disk.knows
  <2>1. CASE disk' = disk \/ disk' = [disk EXCEPT !.extras = FALSE]
    BY Zenon, <2>1 DEF LifeInv, LifeTypes
  <2>2. CASE disk' = [log |-> FALSE, knows |-> {}, diffs |-> <<>>, extras |-> disk.extras]
    <3>1. <<>> \in Seq(Nat) /\ Len(<<>>) = 0
      OBVIOUS
    <3>2. 0 <= edits
      BY Diffs DEF LifeInv
    <3> QED
      BY <2>2, <3>1, <3>2 DEF LifeInv, LifeTypes
  <2> QED
    BY <1>1, <2>1, <2>2
<1>3. LifeTypes'
  BY <1>1, <1>2 DEF LifeInv, LifeTypes
<1>4. BooksInv'
  BY <1>1, BooksSame DEF LifeInv
<1>5. MemoryInv'
  BY <1>1, <1>2 DEF LifeInv, MemoryInv
<1>6. StaffInv'
  BY <1>1 DEF LifeInv, StaffInv
<1> QED
  BY <1>3, <1>4, <1>5, <1>6 DEF LifeInv

\* The worker goes when its snapshot has gone, with every order given so far.
LEMMA CommitStep == ASSUME LifeInv, Life!Commit PROVE LifeInv'
<1>1. /\ UNCHANGED <<jobs, disk, parent, before, unmerged, sends, edits>> /\ call.at = "commit" /\ forgotten' = 1..sends
      /\ session' = [alive |-> FALSE, knows |-> {}, diffs |-> <<>>, error |-> FALSE]
      /\ call'.at = "idle" /\ call' = [at |-> call'.at, by |-> call'.by, cancelled |-> call'.cancelled]
  BY Zenon DEF Life!Commit, Life!Report, Life!Idle, Life!NoWorker, Life!bounds
<1>2. LifeTypes'
  <2>1. <<>> \in Seq(Nat) /\ Len(<<>>) = 0
    OBVIOUS
  <2>2. 0 <= edits
    BY Diffs DEF LifeInv
  <2> QED
    BY <1>1, <2>1, <2>2 DEF LifeInv, LifeTypes
<1>3. BooksInv'
  BY <1>1, BooksSame DEF LifeInv
<1>4. MemoryInv'
  BY <1>1 DEF LifeInv, MemoryInv
<1>5. StaffInv'
  <2>1. jobs = 0 /\ ~(0 > 0)
    BY <1>1 DEF LifeInv, StaffInv
  <2> QED
    BY <1>1, <2>1 DEF StaffInv
<1> QED
  BY <1>2, <1>3, <1>4, <1>5 DEF LifeInv

LEMMA SaveParentStep == ASSUME LifeInv, Life!SaveParent PROVE LifeInv'
<1>1. UNCHANGED <<session, jobs, disk, call, before, forgotten, unmerged, sends, edits>>
      /\ parent' = [parent EXCEPT !.saved = parent.diffs]
  BY DEF Life!SaveParent, Life!bounds
<1>2. parent' \in [diffs : Seq(Nat), saved : Seq(Nat)] /\ parent'.diffs = parent.diffs /\ parent'.saved = parent.diffs
  BY Zenon, <1>1 DEF LifeInv, LifeTypes
<1>3. LifeTypes'
  BY <1>1, <1>2 DEF LifeInv, LifeTypes
<1>4. BooksInv'
  BY <1>1, <1>2 DEF LifeInv, BooksInv
<1> QED
  BY <1>1, <1>3, <1>4 DEF LifeInv, MemoryInv, StaffInv

\* A process that ends takes with it what was not saved.
LEMMA RestartStep == ASSUME LifeInv, Life!Restart PROVE LifeInv'
<1>1. /\ UNCHANGED <<disk, before, forgotten, sends, edits>> /\ jobs' = 0
      /\ session' = [alive |-> FALSE, knows |-> {}, diffs |-> <<>>, error |-> FALSE]
      /\ call'.at = "idle" /\ call' = [at |-> call'.at, by |-> call'.by, cancelled |-> call'.cancelled]
      /\ unmerged' = unmerged \cup (1..edits \ Life!ToSet(parent.saved))
      /\ parent' = [parent EXCEPT !.diffs = parent.saved]
  BY Zenon DEF Life!Restart, Life!Idle, Life!NoWorker
<1>2. parent' \in [diffs : Seq(Nat), saved : Seq(Nat)] /\ parent'.diffs = parent.saved /\ parent'.saved = parent.saved
  BY Zenon, <1>1 DEF LifeInv, LifeTypes
<1>3. LifeTypes'
  <2>1. <<>> \in Seq(Nat) /\ Len(<<>>) = 0
    OBVIOUS
  <2>2. 0 <= edits
    BY Diffs DEF LifeInv
  <2> QED
    BY <1>1, <1>2, <2>1, <2>2 DEF LifeInv, LifeTypes
<1>4. BooksInv'
  <2>1. \A d \in 1..edits \ unmerged' : In(parent.saved, d)
    <3>1. parent.saved \in Seq(Nat) /\ DOMAIN parent.saved = 1..Len(parent.saved)
      BY Diffs DEF LifeInv
    <3> QED
      BY <1>1, <3>1 DEF In, Life!ToSet
  <2> QED
    BY <1>1, <1>2, <2>1 DEF LifeInv, BooksInv
<1>5. MemoryInv'
  BY <1>1 DEF LifeInv, MemoryInv
<1>6. StaffInv'
  <2>1. ~(0 > 0)
    OBVIOUS
  <2> QED
    BY <1>1, <2>1 DEF StaffInv
<1> QED
  BY <1>3, <1>4, <1>5, <1>6 DEF LifeInv

-----------------------------------------------------------------------------
WorkerInv == about = "worker" => LifeInv

LEMMA SameLife == ASSUME LifeInv, UNCHANGED lifeVars PROVE LifeInv'
<1>1. UNCHANGED <<session, jobs, disk, parent, call, before, forgotten, unmerged, sends, edits>>
  BY DEF lifeVars
<1>2. LifeTypes'
  BY <1>1 DEF LifeInv, LifeTypes
<1>3. BooksInv'
  BY <1>1, BooksSame DEF LifeInv
<1> QED
  BY <1>1, <1>2, <1>3 DEF LifeInv, MemoryInv, StaffInv

LEMMA WorkerSteps == ASSUME Roomy PROVE WorkerInv /\ [WorkerNext]_workerVars => WorkerInv'
<1> SUFFICES ASSUME WorkerInv, [WorkerNext]_workerVars PROVE WorkerInv'
  OBVIOUS
<1>1. CASE UNCHANGED <<about, lifeVars>>
  BY <1>1, SameLife DEF WorkerInv
<1>2. CASE LifeNext
  <2>1. about = "worker" /\ about' = about /\ LifeInv
    BY <1>2 DEF LifeNext, InLife, WorkerInv
  <2>2. LifeInv'
    BY <1>2, <2>1, SendStep, RestoreStep, StartStep, EditStep, CheckpointStep, JobSteps, EndStep, ResetStep, UnlinkStep,
       CommitStep, InterruptStep, SaveParentStep, RestartStep
    DEF LifeNext
  <2> QED
    BY <2>1, <2>2 DEF WorkerInv
<1>3. CASE ChoiceNext
  <2>1. UNCHANGED <<about, lifeVars>>
    BY Zenon, <1>3 DEF ChoiceNext, InChoice
  <2> QED
    BY <1>1, <2>1
<1> QED
  BY <1>1, <1>2, <1>3 DEF WorkerNext, workerVars

\* DelegationHolds: where a session has room for the diffs of every edit, and wherever a call is
\* cancelled, a step fails or the process is killed: the parent shows each edit of a delegation that
\* is over once and in order, but those of a killed process; no worker remembers an order from
\* before a reset; and a process of a worker has a worker that can stop it.
THEOREM DelegationHolds == Roomy => (WorkerSpec => []DelegationSound)
<1> SUFFICES ASSUME Roomy PROVE WorkerSpec => []DelegationSound
  OBVIOUS
<1>1. WorkerInit => WorkerInv
  BY LifeStart DEF WorkerInit, WorkerInv
<1>2. WorkerInv /\ [WorkerNext]_workerVars => WorkerInv'
  BY WorkerSteps
<1>3. WorkerInv => DelegationSound
  BY LifeKept DEF WorkerInv, DelegationSound
<1> QED
  BY <1>1, <1>2, <1>3, PTL DEF WorkerSpec
=============================================================================
