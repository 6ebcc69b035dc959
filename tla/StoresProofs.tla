---------------------------- MODULE StoresProofs -----------------------------
(***************************************************************************)
(* The shared catalogue, proved for any number of processes, fetches,      *)
(* versions and mishaps; and below it the assets directory of a session,   *)
(* for any images and results.                                             *)
(*                                                                         *)
(* The argument: a fetch that writes holds the lock from its decision to   *)
(* its last write, so what it decided about the cache still stands when it *)
(* writes.  A 304 is about a document: as long as the cache was lost at    *)
(* most once and no commit stopped half way, or the other way round, the   *)
(* ETag on disk is never of a document newer than the cache it is sent     *)
(* with.  The two mishaps need different reasons (a lost cache is written  *)
(* together with its ETag, an unlost one only grows), hence the            *)
(* disjunction in EtagInv.                                                 *)
(***************************************************************************)
EXTENDS MCStores, TLAPS

Past == Documents \cup {None}
TaskRecords ==
  [at : {"none", "probe", "ask", "commit", "write", "last"}, try : {0, 1, 2},
   probe : Past, etag : Past, got : Past, tag : Past, told : 0..MaxVersion, cancelled : BOOLEAN]

Types ==
  /\ cache \in Past /\ etag \in Past /\ stamp \in BOOLEAN
  /\ remote \in Documents /\ bundled \in [Procs -> Documents] /\ active \in [Procs -> Past]
  /\ checked \in [Procs -> BOOLEAN] /\ checking \in [Procs -> BOOLEAN]
  /\ task \in [Flows -> TaskRecords]
  /\ answer \in [got : 0..MaxVersion, told : 0..MaxVersion] /\ mishaps \in Nat

\* The gate of the background refresh is claimed by the refresh that is on its way.
ClaimInv == \A p \in Procs : checking[p] = (task[<<p, "refresh">>].at # "none")

Writes(f) == task[f].at \in {"write", "last"}

\* The lock has one holder, and what it decided to write is still newer than what it replaces.
Decided(f) ==
  /\ task[f].got # None /\ task[f].got.v = task[f].told /\ task[f].tag \in {None, task[f].got}
  /\ task[f].got.v > bundled[f[1]].v
  /\ task[f].at = "write" => task[f].got.v > cache.v
  /\ task[f].at = "last" => cache \in {None, task[f].got}
LockInv ==
  /\ \A f, g \in Flows : Writes(f) /\ Writes(g) => f = g
  /\ \A f \in Flows : Writes(f) => Decided(f)

ActiveInv == \A p \in Procs : active[p] = None \/ active[p] = bundled[p] \/ active[p].v > bundled[p].v

\* The cache was never lost: its ETag may be that of an older document.
Behind ==
  /\ cache = None => etag = None
  /\ cache # None => etag = None \/ etag.v <= cache.v
  /\ \A f \in Flows : task[f].at = "last" => cache = task[f].got

\* No commit stopped half way: the ETag is the cache's, or its cache is gone.
Paired == (\A f \in Flows : task[f].at # "last") => cache = None \/ etag \in {None, cache}

EtagInv == /\ mishaps = 0 => Behind /\ Paired
           /\ mishaps = 1 => Behind \/ Paired

\* The cache is still the document d, or a newer one.
Stands(d) == cache = d \/ cache.v > d.v

\* What a conditional request asked about: a cache no older than its ETag, that only a lost cache
\* can have invalidated.
Asked(t) ==
  /\ t.at = "ask" /\ t.etag # None => t.probe # None /\ t.etag.v <= t.probe.v
  /\ t.at = "commit" /\ t.got = None => t.probe # None /\ t.told <= t.probe.v
  /\ t.try = 2 => mishaps # 0
  /\ t.at \in {"ask", "commit"} /\ (mishaps = 0 \/ t.try = 2) => Stands(t.probe)

AskInv ==
  /\ \A f \in Flows : task[f].at = "commit" /\ task[f].got # None =>
       task[f].got.v = task[f].told /\ task[f].tag \in {None, task[f].got}
  /\ mishaps < 2 => \A f \in Flows : Asked(task[f])

IInv == Types /\ ClaimInv /\ LockInv /\ ActiveInv /\ EtagInv /\ AskInv /\ FetchIsCurrent

-----------------------------------------------------------------------------
(***************************************************************************)
(* The steps of a fetch, each by itself.                                   *)
(***************************************************************************)
Files  == UNCHANGED <<cache, etag>>
Quiet  == UNCHANGED <<stamp, active, checked, checking, answer>>
Becomes(f, t) == task' = [task EXCEPT ![f] = t]
Calm   == UNCHANGED <<remote, bundled, mishaps>>

\* How a fetch ends, with or without a document.
Over(f) ==
  /\ task[f].at # "none" /\ Becomes(f, NoTask)
  /\ checking' = IF f[2] = "refresh" THEN [checking EXCEPT ![f[1]] = FALSE] ELSE checking
  /\ stamp' \in BOOLEAN /\ checked' \in [Procs -> BOOLEAN]
  /\ UNCHANGED <<remote, bundled>>

Gives(f, d) ==
  /\ Over(f)
  /\ \/ active' = active
     \/ f[2] = "sync" /\ d.v > active[f[1]].v /\ active' = [active EXCEPT ![f[1]] = d]
  /\ answer' \in {answer, [got |-> d.v, told |-> task[f].told]}

Nothing(f) == Over(f) /\ UNCHANGED <<active, answer>> /\ Files

Asks(f) ==
  /\ task[f].at = "probe" /\ ~Locked /\ Files /\ Quiet /\ Calm
  /\ Becomes(f, [task[f] EXCEPT !.at = "ask", !.probe = cache,
                                !.etag = IF cache = None THEN None ELSE etag])

IsTold(f) ==
  /\ task[f].at = "ask" /\ Files /\ Quiet /\ Calm
  /\ \/ /\ task[f].etag = remote
        /\ Becomes(f, [task[f] EXCEPT !.at = "commit", !.got = None, !.told = remote.v])
     \/ \E tag \in {remote, None} :
          Becomes(f, [task[f] EXCEPT !.at = "commit", !.got = remote, !.tag = tag, !.told = remote.v])

IsCancelled(f) ==
  /\ task[f].at \notin {"none", "ask"} /\ Files /\ Quiet /\ Calm
  /\ Becomes(f, [task[f] EXCEPT !.cancelled = TRUE])

AsksAgain(f) ==
  /\ task[f].at = "commit" /\ task[f].got = None /\ task[f].try # 2 /\ ~Stands(task[f].probe)
  /\ Files /\ Quiet /\ Calm
  /\ Becomes(f, [NoTask EXCEPT !.at = "probe", !.try = 2])

Wins(f) ==
  /\ task[f].at = "commit" /\ task[f].got # None /\ ~Locked
  /\ task[f].got.v > select(f[1]).v
  /\ Files /\ Quiet /\ Calm
  /\ Becomes(f, [task[f] EXCEPT !.at = "write"])

Stores(f) ==
  /\ task[f].at = "write" /\ cache' = task[f].got /\ UNCHANGED etag
  /\ Quiet /\ Calm
  /\ Becomes(f, [task[f] EXCEPT !.at = "last"])

Selects(f) ==
  /\ task[f].at = "commit" /\ Gives(f, select(f[1])) /\ Files /\ UNCHANGED mishaps
  /\ IF task[f].got = None THEN Stands(task[f].probe) \/ task[f].try = 2
                           ELSE task[f].got.v <= select(f[1]).v

Finishes(f) ==
  /\ task[f].at = "last" /\ Gives(f, task[f].got) /\ etag' = task[f].tag
  /\ UNCHANGED <<cache, mishaps>>

Breaks(f) == Nothing(f) /\ mishaps' = IF Writes(f) THEN mishaps + 1 ELSE mishaps

Step(f) == \/ Asks(f) \/ IsTold(f) \/ IsCancelled(f) \/ AsksAgain(f) \/ Wins(f) \/ Stores(f)
           \/ Selects(f) \/ Finishes(f) \/ Breaks(f)

LEMMA FlowParts ==
  ASSUME NEW f \in Flows
  PROVE  f[1] \in Procs /\ f[2] \in {"refresh", "sync"} /\ f = <<f[1], f[2]>>
  BY DEF Flows

LEMMA NoneIsNoDocument ==
  /\ None.v = 0 /\ None \notin Documents
  /\ \A d \in Past : d.v \in Nat /\ (d # None => d \in Documents /\ d.v > 0)
  BY DEF None, Documents, Past

LEMMA SelectType ==
  ASSUME Types, NEW p \in Procs
  PROVE  /\ select(p) \in Documents /\ select(p).v >= cache.v /\ select(p).v >= bundled[p].v
         /\ select(p) = bundled[p] \/ select(p).v > bundled[p].v
  <1>1. /\ bundled[p] \in Documents /\ cache \in Past
        /\ bundled[p].v \in Nat /\ cache.v \in Nat
    BY NoneIsNoDocument DEF Types, Past
  <1>2. cache.v > bundled[p].v => cache \in Documents
    BY <1>1, NoneIsNoDocument
  <1>. QED
    BY <1>1, <1>2 DEF select

LEMMA CancelEnds ==
  ASSUME Types, NEW f \in Flows, task[f].at # "none", Becomes(f, NoTask), Cancelled(f),
         UNCHANGED <<remote, bundled>>
  PROVE  Over(f) /\ UNCHANGED <<active, answer>>
  BY DEF Cancelled, Over, Types

LEMMA RaiseEnds ==
  ASSUME Types, NEW f \in Flows, task[f].at # "none", Raise(f), UNCHANGED <<remote, bundled>>
  PROVE  Over(f) /\ UNCHANGED <<active, answer>>
  <1>1. f[1] \in Procs /\ Becomes(f, NoTask)
    BY FlowParts DEF Raise, Becomes
  <1>2. CASE task[f].cancelled
    BY <1>1, <1>2, CancelEnds DEF Raise
  <1>3. CASE ~task[f].cancelled
    BY <1>1, <1>3 DEF Raise, Failed, Over, Types
  <1>. QED
    BY <1>2, <1>3

LEMMA ReturnEnds ==
  ASSUME Types, NEW f \in Flows, NEW d, task[f].at # "none", Return(f, d),
         UNCHANGED <<remote, bundled>>
  PROVE  Gives(f, d)
  <1>1. f[1] \in Procs /\ Becomes(f, NoTask)
    BY FlowParts DEF Return, Becomes
  <1>2. CASE task[f].cancelled
    BY <1>1, <1>2, CancelEnds DEF Return, Gives
  <1>3. CASE ~task[f].cancelled
    BY <1>1, <1>3 DEF Return, Deliver, Gives, Over, Types
  <1>. QED
    BY <1>2, <1>3

LEMMA FetchSteps ==
  ASSUME Types, NEW f \in Flows, Fetch(f)
  PROVE  Step(f)
  <1>0. /\ task \in [Flows -> TaskRecords] /\ task[f] \in TaskRecords /\ f[1] \in Procs
        /\ task[f].got \in Past /\ task[f].got.v \in Nat
    BY FlowParts, NoneIsNoDocument DEF Types, TaskRecords
  <1>1. CASE Probe(f)
    <2>1. UNCHANGED <<remote, bundled, mishaps>> /\ task[f].at = "probe" /\ ~Locked
      BY <1>1 DEF Probe, FetchFrame, bounds
    <2>2. CASE task[f].cancelled
      <3>1. Becomes(f, NoTask) /\ Cancelled(f) /\ UNCHANGED <<cache, etag>>
        BY <1>1, <2>2 DEF Probe, Becomes
      <3>. QED
        BY <2>1, <3>1, CancelEnds DEF Step, Breaks, Nothing, Files, Writes
    <2>3. CASE ~task[f].cancelled
      <3>1. Asks(f)
        BY <1>0, <1>1, <2>1, <2>3 DEF Probe, Asks, Files, Quiet, Calm, Becomes, files
      <3>. QED
        BY <3>1 DEF Step
    <2>. QED
      BY <2>2, <2>3
  <1>2. CASE Ask(f)
    <2>1. UNCHANGED <<remote, bundled, mishaps, cache, etag>> /\ task[f].at = "ask"
      BY <1>2 DEF Ask, FetchFrame, bounds
    <2>2. CASE Raise(f)
      BY <2>1, <2>2, RaiseEnds DEF Step, Breaks, Nothing, Files, Writes
    <2>3. CASE ~Raise(f)
      <3>1. IsTold(f)
        BY <1>0, <1>2, <2>1, <2>3 DEF Ask, IsTold, Files, Quiet, Calm, Becomes
      <3>. QED
        BY <3>1 DEF Step
    <2>. QED
      BY <2>2, <2>3
  <1>3. CASE Cancel(f)
    <2>1. UNCHANGED <<remote, bundled, mishaps, cache, etag>> /\ task[f].at # "none"
      BY <1>3 DEF Cancel, FetchFrame, bounds
    <2>2. CASE task[f].at = "ask"
      <3>1. Becomes(f, NoTask) /\ Cancelled(f)
        BY <1>3, <2>2 DEF Cancel, Becomes
      <3>. QED
        BY <2>1, <2>2, <3>1, CancelEnds DEF Step, Breaks, Nothing, Files, Writes
    <2>3. CASE task[f].at # "ask"
      <3>1. IsCancelled(f)
        BY <1>0, <1>3, <2>1, <2>3 DEF Cancel, IsCancelled, Files, Quiet, Calm, Becomes
      <3>. QED
        BY <3>1 DEF Step
    <2>. QED
      BY <2>2, <2>3
  <1>4. CASE Commit(f)
    <2>1. UNCHANGED <<remote, bundled, mishaps, cache, etag>> /\ task[f].at = "commit" /\ ~Locked
      BY <1>4 DEF Commit, FetchFrame, bounds
    <2>2. CASE task[f].got = None
      <3>0. NotModified(f)
        BY <1>4, <2>2 DEF Commit
      <3>1. CASE Stands(task[f].probe) \/ task[f].try = 2
        <4>1. Return(f, select(f[1]))
          BY <3>0, <3>1 DEF NotModified, Stands
        <4>2. Selects(f)
          BY <2>1, <2>2, <3>1, <4>1, ReturnEnds DEF Selects, Files
        <4>. QED
          BY <4>2 DEF Step
      <3>2. CASE ~(Stands(task[f].probe) \/ task[f].try = 2)
        <4>1. CASE task[f].cancelled
          <5>1. Becomes(f, NoTask) /\ Cancelled(f)
            BY <3>0, <3>2, <4>1 DEF NotModified, Stands, Becomes
          <5>. QED
            BY <2>1, <5>1, CancelEnds DEF Step, Breaks, Nothing, Files, Writes
        <4>2. CASE ~task[f].cancelled
          <5>1. AsksAgain(f)
            BY <2>1, <2>2, <3>0, <3>2, <4>2
               DEF NotModified, Stands, AsksAgain, Files, Quiet, Calm, Becomes
          <5>. QED
            BY <5>1 DEF Step
        <4>. QED
          BY <4>1, <4>2
      <3>. QED
        BY <3>1, <3>2
    <2>3. CASE task[f].got # None
      <3>0. Downloaded(f) /\ select(f[1]) \in Documents /\ select(f[1]).v \in Nat
        BY <1>0, <1>4, <2>3, SelectType, NoneIsNoDocument DEF Commit, Past
      <3>. DEFINE got == task[f].got
                  current == select(f[1])
      <3>1. CASE got.v < current.v \/ got = current
        <4>1. Return(f, current)
          BY <3>0, <3>1 DEF Downloaded
        <4>2. Selects(f)
          BY <1>0, <2>1, <2>3, <3>0, <3>1, <4>1, ReturnEnds DEF Selects, Files
        <4>. QED
          BY <4>2 DEF Step
      <3>2. CASE ~(got.v < current.v \/ got = current) /\ got.v = current.v
        <4>1. Raise(f)
          BY <3>0, <3>2 DEF Downloaded
        <4>. QED
          BY <2>1, <4>1, RaiseEnds DEF Step, Breaks, Nothing, Files, Writes
      <3>3. CASE ~(got.v < current.v \/ got = current) /\ got.v # current.v
        <4>1. /\ task' = [task EXCEPT ![f].at = "write"]
              /\ UNCHANGED <<stamp, active, checked, checking, answer>>
          BY <3>0, <3>3 DEF Downloaded
        <4>2. got.v > current.v
          BY <1>0, <3>0, <3>3
        <4>3. Wins(f)
          BY <1>0, <2>1, <2>3, <4>1, <4>2 DEF Wins, Files, Quiet, Calm, Becomes
        <4>. QED
          BY <4>3 DEF Step
      <3>. QED
        BY <3>1, <3>2, <3>3
    <2>. QED
      BY <2>2, <2>3
  <1>5. CASE Write(f)
    <2>1. UNCHANGED <<remote, bundled>> /\ Writes(f) /\ task[f].at # "none"
      BY <1>5 DEF Write, Writes
    <2>2. CASE Raise(f) /\ mishaps' = mishaps + 1 /\ UNCHANGED <<cache, etag>>
      BY <2>1, <2>2, RaiseEnds DEF Step, Breaks, Nothing, Files
    <2>3. CASE ~(Raise(f) /\ mishaps' = mishaps + 1 /\ UNCHANGED <<cache, etag>>)
      <3>0. Written[1] = "cache" /\ Written[2] = "etag"
        BY DEF Written
      <3>1. CASE task[f].at = "write"
        <4>1. Stores(f)
          BY <1>0, <1>5, <2>1, <2>3, <3>0, <3>1 DEF Write, Stores, Quiet, Calm, Becomes
        <4>. QED
          BY <4>1 DEF Step
      <3>2. CASE task[f].at = "last"
        <4>1. Return(f, task[f].got) /\ etag' = task[f].tag /\ UNCHANGED <<cache, mishaps>>
          BY <1>5, <2>3, <3>0, <3>2 DEF Write
        <4>2. Finishes(f)
          BY <2>1, <3>2, <4>1, ReturnEnds DEF Finishes
        <4>. QED
          BY <4>2 DEF Step
      <3>. QED
        BY <2>1, <3>1, <3>2 DEF Writes
    <2>. QED
      BY <2>2, <2>3
  <1>. QED
    BY <1>1, <1>2, <1>3, <1>4, <1>5 DEF Fetch

-----------------------------------------------------------------------------
(***************************************************************************)
(* The invariant, conjunct by conjunct.                                    *)
(***************************************************************************)
LEMMA NoTaskType ==
  ASSUME MaxVersion \in Nat
  PROVE  NoTask \in TaskRecords /\ [NoTask EXCEPT !.at = "probe", !.try = 2] \in TaskRecords
  <1>1. None \in Past /\ 0 \in 0..MaxVersion
    BY DEF Past
  <1>2. NoTask \in TaskRecords
    BY <1>1 DEF NoTask, TaskRecords
  <1>. QED
    BY <1>2 DEF TaskRecords

\* What the task of a flow is after a step of its fetch.
Same(t, u) == /\ t.try = u.try /\ t.probe = u.probe /\ t.etag = u.etag /\ t.got = u.got
              /\ t.tag = u.tag /\ t.told = u.told

LEMMA TaskAfter ==
  ASSUME Types, NEW f \in Flows
  PROVE  /\ Asks(f) => /\ task'[f].at = "ask" /\ task'[f].try = task[f].try /\ task'[f].probe = cache
                       /\ task'[f].etag = IF cache = None THEN None ELSE etag
         /\ IsTold(f) => /\ task'[f].at = "commit" /\ task'[f].told = remote.v
                         /\ task'[f].try = task[f].try /\ task'[f].probe = task[f].probe
                         /\ \/ task'[f].got = None /\ task[f].etag = remote
                            \/ task'[f].got = remote /\ task'[f].tag \in {None, remote}
         /\ IsCancelled(f) => task'[f].at = task[f].at /\ Same(task'[f], task[f])
         /\ AsksAgain(f) => task'[f].at = "probe" /\ task'[f].try = 2
         /\ Wins(f) => task'[f].at = "write" /\ Same(task'[f], task[f])
         /\ Stores(f) => task'[f].at = "last" /\ Same(task'[f], task[f])
         /\ Over(f) => task'[f].at = "none" /\ task'[f].try = 0
         /\ Step(f) => \A g \in Flows : g # f => task'[g] = task[g]
  <1>0. task \in [Flows -> TaskRecords] /\ task[f] \in TaskRecords
    BY DEF Types
  <1>. DEFINE t == task[f]
  <1>a. ASSUME NEW u, Becomes(f, u) PROVE task'[f] = u /\ \A g \in Flows : g # f => task'[g] = task[g]
    BY <1>0, <1>a DEF Becomes
  <1>1. Asks(f) => /\ task'[f].at = "ask" /\ task'[f].try = task[f].try /\ task'[f].probe = cache
                   /\ task'[f].etag = IF cache = None THEN None ELSE etag
    <2>. SUFFICES ASSUME Asks(f)
                  PROVE  /\ task'[f].at = "ask" /\ task'[f].try = task[f].try
                         /\ task'[f].probe = cache
                         /\ task'[f].etag = IF cache = None THEN None ELSE etag
      OBVIOUS
    <2>. DEFINE e == IF cache = None THEN None ELSE etag
    <2>1. task'[f] = [task[f] EXCEPT !.at = "ask", !.probe = cache, !.etag = e]
      BY <1>0 DEF Asks, Becomes
    <2>. HIDE DEF e
    <2>2. /\ task'[f].at = "ask" /\ task'[f].try = task[f].try /\ task'[f].probe = cache
          /\ task'[f].etag = e
      BY <1>0, <2>1 DEF TaskRecords
    <2>. QED
      BY <2>2 DEF e
  <1>2. IsTold(f) => /\ task'[f].at = "commit" /\ task'[f].told = remote.v
                     /\ task'[f].try = task[f].try /\ task'[f].probe = task[f].probe
                     /\ \/ task'[f].got = None /\ task[f].etag = remote
                        \/ task'[f].got = remote /\ task'[f].tag \in {None, remote}
    <2>1. CASE task[f].etag = remote
                 /\ Becomes(f, [task[f] EXCEPT !.at = "commit", !.got = None, !.told = remote.v])
      <3>1. task'[f] = [task[f] EXCEPT !.at = "commit", !.got = None, !.told = remote.v]
        BY <1>0, <2>1 DEF Becomes
      <3>. QED
        BY <1>0, <2>1, <3>1 DEF TaskRecords
    <2>2. ASSUME NEW tag \in {remote, None},
                 Becomes(f, [task[f] EXCEPT !.at = "commit", !.got = remote, !.tag = tag, !.told = remote.v])
          PROVE  /\ task'[f].at = "commit" /\ task'[f].told = remote.v
                 /\ task'[f].try = task[f].try /\ task'[f].probe = task[f].probe
                 /\ task'[f].got = remote /\ task'[f].tag \in {None, remote}
      <3>1. task'[f] = [task[f] EXCEPT !.at = "commit", !.got = remote, !.tag = tag, !.told = remote.v]
        BY <1>0, <2>2 DEF Becomes
      <3>. QED
        BY <1>0, <3>1 DEF TaskRecords
    <2>. QED
      BY <2>1, <2>2 DEF IsTold
  <1>3. IsCancelled(f) => task'[f].at = task[f].at /\ Same(task'[f], task[f])
    <2>1. IsCancelled(f) => task'[f] = [task[f] EXCEPT !.cancelled = TRUE]
      BY <1>0 DEF IsCancelled, Becomes
    <2>. QED
      BY <1>0, <2>1 DEF TaskRecords, Same
  <1>4. AsksAgain(f) => task'[f].at = "probe" /\ task'[f].try = 2
    <2>1. AsksAgain(f) => task'[f] = [NoTask EXCEPT !.at = "probe", !.try = 2]
      BY <1>0 DEF AsksAgain, Becomes
    <2>. QED
      BY <2>1 DEF NoTask
  <1>5. Wins(f) => task'[f].at = "write" /\ Same(task'[f], task[f])
    <2>1. Wins(f) => task'[f] = [task[f] EXCEPT !.at = "write"]
      BY <1>0 DEF Wins, Becomes
    <2>. QED
      BY <1>0, <2>1 DEF TaskRecords, Same
  <1>6. Stores(f) => task'[f].at = "last" /\ Same(task'[f], task[f])
    <2>1. Stores(f) => task'[f] = [task[f] EXCEPT !.at = "last"]
      BY <1>0 DEF Stores, Becomes
    <2>. QED
      BY <1>0, <2>1 DEF TaskRecords, Same
  <1>7. Over(f) => task'[f].at = "none" /\ task'[f].try = 0
    BY <1>a DEF Over, NoTask
  <1>8. Step(f) => \E u : Becomes(f, u)
    BY DEF Step, Asks, IsTold, IsCancelled, AsksAgain, Wins, Stores, Selects, Finishes, Gives, Breaks,
           Nothing, Over
  <1>9. Step(f) => \A g \in Flows : g # f => task'[g] = task[g]
    BY <1>8, <1>a
  <1>. QED
    BY <1>1, <1>2, <1>3, <1>4, <1>5, <1>6, <1>7, <1>9

\* The shape of the task of a flow after a step of its fetch.
Reached(f) == Becomes(f, task'[f]) /\ task'[f] \in TaskRecords

LEMMA StepTypes ==
  ASSUME Types, NEW f \in Flows, Step(f), LockInv, MaxVersion \in Nat
  PROVE  Types' /\ Reached(f)
  <1>0. /\ task \in [Flows -> TaskRecords] /\ task[f] \in TaskRecords /\ f[1] \in Procs
        /\ task[f].got \in Past /\ task[f].tag \in Past /\ task[f].told \in 0..MaxVersion
        /\ remote \in Documents /\ cache \in Past /\ etag \in Past /\ None \in Past
        /\ remote \in Past /\ remote.v \in 0..MaxVersion
    BY FlowParts DEF Types, TaskRecords, Past, Documents
  <1>1. NoTask \in TaskRecords /\ [NoTask EXCEPT !.at = "probe", !.try = 2] \in TaskRecords
    BY NoTaskType
  <1>a. ASSUME NEW t \in TaskRecords, Becomes(f, t)
        PROVE  Reached(f) /\ task' \in [Flows -> TaskRecords]
    BY <1>0, <1>a DEF Becomes, Reached
  <1>b. ASSUME NEW d \in Documents, Gives(f, d)
        PROVE  /\ Reached(f) /\ task' \in [Flows -> TaskRecords]
               /\ answer' \in [got : 0..MaxVersion, told : 0..MaxVersion]
               /\ active' \in [Procs -> Past] /\ stamp' \in BOOLEAN
               /\ checked' \in [Procs -> BOOLEAN] /\ checking' \in [Procs -> BOOLEAN]
               /\ UNCHANGED <<remote, bundled>>
    <2>1. Over(f) /\ Becomes(f, NoTask)
      BY <1>b DEF Gives, Over
    <2>2. Reached(f) /\ task' \in [Flows -> TaskRecords]
      BY <1>1, <1>a, <2>1
    <2>3. d.v \in 0..MaxVersion /\ d \in Past
      BY DEF Documents, Past
    <2>4. answer' \in [got : 0..MaxVersion, told : 0..MaxVersion]
      BY <1>0, <1>b, <2>3 DEF Gives, Types
    <2>5. active' \in [Procs -> Past]
      BY <1>0, <1>b, <2>3 DEF Gives, Types
    <2>. QED
      BY <1>0, <2>1, <2>2, <2>4, <2>5 DEF Over, Types
  <1>2. CASE Asks(f) \/ IsTold(f) \/ IsCancelled(f) \/ AsksAgain(f) \/ Wins(f) \/ Stores(f)
    <2>1. /\ UNCHANGED <<etag, remote, bundled, mishaps>> /\ Quiet /\ cache' \in Past
      BY <1>0, <1>2 DEF Asks, IsTold, IsCancelled, AsksAgain, Wins, Stores, Files, Calm
    <2>2. \E t \in TaskRecords : Becomes(f, t)
      <3>1. CASE Asks(f)
        BY <1>0, <3>1 DEF Asks, TaskRecords
      <3>2. CASE IsTold(f)
        BY <1>0, <3>2 DEF IsTold, TaskRecords
      <3>3. CASE IsCancelled(f) \/ Wins(f) \/ Stores(f)
        BY <1>0, <3>3 DEF IsCancelled, Wins, Stores, TaskRecords
      <3>4. CASE AsksAgain(f)
        BY <1>1, <3>4 DEF AsksAgain
      <3>. QED
        BY <1>2, <3>1, <3>2, <3>3, <3>4
    <2>. QED
      BY <1>a, <2>1, <2>2 DEF Types, Quiet
  <1>3. CASE Selects(f)
    <2>1. select(f[1]) \in Documents /\ Gives(f, select(f[1])) /\ UNCHANGED <<cache, etag, mishaps>>
      BY <1>0, <1>3, SelectType DEF Selects, Files
    <2>. QED
      BY <1>b, <2>1 DEF Types
  <1>4. CASE Finishes(f)
    <2>1. task[f].got \in Documents
      BY <1>0, <1>4 DEF Finishes, LockInv, Decided, Writes, Past
    <2>2. Gives(f, task[f].got) /\ UNCHANGED <<cache, mishaps>> /\ etag' \in Past
      BY <1>0, <1>4 DEF Finishes
    <2>. QED
      BY <1>b, <2>1, <2>2 DEF Types
  <1>5. CASE Breaks(f)
    <2>1. /\ Becomes(f, NoTask) /\ UNCHANGED <<cache, etag, remote, bundled, active, answer>>
          /\ stamp' \in BOOLEAN /\ checked' \in [Procs -> BOOLEAN]
          /\ checking' \in [Procs -> BOOLEAN] /\ mishaps' \in Nat
      BY <1>0, <1>5 DEF Breaks, Nothing, Over, Files, Types
    <2>2. Reached(f) /\ task' \in [Flows -> TaskRecords]
      BY <1>1, <1>a, <2>1
    <2>. QED
      BY <2>1, <2>2 DEF Types
  <1>. QED
    BY <1>2, <1>3, <1>4, <1>5 DEF Step

LEMMA StepClaims ==
  ASSUME Types, NEW f \in Flows, Step(f), LockInv, ClaimInv, MaxVersion \in Nat
  PROVE  ClaimInv'
  <1>0. /\ task \in [Flows -> TaskRecords] /\ f[1] \in Procs /\ f = <<f[1], f[2]>>
        /\ f[2] \in {"refresh", "sync"} /\ checking \in [Procs -> BOOLEAN]
    BY FlowParts DEF Types
  <1>. SUFFICES ASSUME NEW p \in Procs
                PROVE  checking'[p] = (task'[<<p, "refresh">>].at # "none")
    BY DEF ClaimInv
  <1>. DEFINE g == <<p, "refresh">>
  <1>1. g \in Flows /\ checking[p] = (task[g].at # "none")
    BY DEF Flows, ClaimInv
  <1>2. CASE Over(f)
    <2>1. task' = [task EXCEPT ![f] = NoTask] /\ NoTask.at = "none"
      BY <1>2 DEF Over, Becomes, NoTask
    <2>2. CASE f = g
      <3>1. f[1] = p /\ f[2] = "refresh" /\ checking' = [checking EXCEPT ![p] = FALSE]
        BY <1>2, <2>2 DEF Over
      <3>. QED
        BY <1>0, <2>1, <2>2, <3>1
    <2>3. CASE f # g
      <3>1. checking'[p] = checking[p]
        BY <1>0, <1>2, <2>3 DEF Over
      <3>. QED
        BY <1>0, <1>1, <2>1, <2>3, <3>1
    <2>. QED
      BY <2>2, <2>3
  <1>3. CASE ~Over(f)
    <2>1. checking' = checking
      BY <1>3 DEF Step, Asks, IsTold, IsCancelled, AsksAgain, Wins, Stores, Quiet, Selects, Finishes,
                  Gives, Breaks, Nothing
    <2>2. task[f].at # "none" /\ task'[f].at # "none"
      BY <1>3, TaskAfter DEF Step, Asks, IsTold, IsCancelled, AsksAgain, Wins, Stores, Selects,
                             Finishes, Gives, Breaks, Nothing
    <2>3. task'[g] = task[g] \/ f = g
      BY <1>1, TaskAfter
    <2>. QED
      BY <1>1, <2>1, <2>2, <2>3
  <1>. QED
    BY <1>2, <1>3

\* The lock changes hands only when it is free.
LEMMA StepLocks ==
  ASSUME Types, NEW f \in Flows, Step(f), LockInv, AskInv
  PROVE  LockInv'
  <1>0. UNCHANGED bundled /\ \A g \in Flows : g # f => task'[g] = task[g]
    BY TaskAfter DEF Step, Asks, IsTold, IsCancelled, AsksAgain, Wins, Stores, Selects,
                     Finishes, Gives, Breaks, Nothing, Over, Calm
  <1>a. ASSUME \A g \in Flows : g # f => ~Writes(g), Decided(f)'
        PROVE  LockInv'
    <2>1. \A g \in Flows : Writes(g)' => g = f
      BY <1>0, <1>a DEF Writes
    <2>. QED
      BY <1>a, <2>1 DEF LockInv
  <1>b. Writes(f) => (\A g \in Flows : g # f => ~Writes(g)) /\ Decided(f)
    BY DEF LockInv
  <1>3. CASE Wins(f)
    <2>1. /\ cache' = cache /\ \A g \in Flows : ~Writes(g)
          /\ task'[f].at = "write" /\ Same(task'[f], task[f])
      BY <1>3, TaskAfter DEF Wins, Files, Locked, Writes
    <2>3. task[f].got.v > bundled[f[1]].v /\ task[f].got.v > cache.v
      <3>1. /\ select(f[1]).v >= cache.v /\ select(f[1]).v >= bundled[f[1]].v
            /\ select(f[1]).v \in Nat /\ cache.v \in Nat /\ bundled[f[1]].v \in Nat
            /\ task[f].got.v \in Nat
        BY FlowParts, SelectType, NoneIsNoDocument DEF Types, TaskRecords, Past
      <3>2. task[f].got.v > select(f[1]).v
        BY <1>3 DEF Wins
      <3>. QED
        BY <3>1, <3>2
    <2>4. /\ task[f].got # None /\ task[f].got.v = task[f].told
          /\ task[f].tag \in {None, task[f].got}
      BY <1>3 DEF Wins, AskInv
    <2>5. Decided(f)'
      BY <1>0, <2>1, <2>3, <2>4 DEF Decided, Same
    <2>. QED
      BY <1>a, <2>1, <2>5
  <1>4. CASE Stores(f)
    <2>1. Writes(f) /\ cache' = task[f].got /\ task'[f].at = "last" /\ Same(task'[f], task[f])
      BY <1>4, TaskAfter DEF Stores, Writes
    <2>2. Decided(f)'
      BY <1>0, <1>b, <2>1 DEF Decided, Same
    <2>. QED
      BY <1>a, <1>b, <2>1, <2>2
  <1>5. CASE IsCancelled(f)
    <2>1. cache' = cache /\ task'[f].at = task[f].at /\ Same(task'[f], task[f])
      BY <1>5, TaskAfter DEF IsCancelled, Files
    <2>2. \A g \in Flows : Writes(g)' => Writes(g)
      BY <1>0, <2>1 DEF Writes
    <2>3. \A g \in Flows : Decided(g) => Decided(g)'
      BY <1>0, <2>1 DEF Decided, Same
    <2>4. \A g \in Flows : Writes(g)' => Decided(g)'
      BY <2>2, <2>3 DEF LockInv
    <2>5. \A g, h \in Flows : Writes(g)' /\ Writes(h)' => g = h
      BY <2>2 DEF LockInv
    <2>. QED
      BY <2>4, <2>5 DEF LockInv
  <1>6. CASE ~Wins(f) /\ ~Stores(f) /\ ~IsCancelled(f)
    <2>1. cache' = cache
      BY <1>6 DEF Step, Asks, IsTold, AsksAgain, Selects, Finishes, Breaks, Nothing, Files
    <2>2. task'[f].at \notin {"write", "last"}
      BY <1>6, TaskAfter DEF Step, Selects, Finishes, Gives, Breaks, Nothing
    <2>3. \A g \in Flows : Writes(g)' => Writes(g) /\ g # f
      BY <1>0, <2>2 DEF Writes
    <2>4. \A g \in Flows : g # f /\ Decided(g) => Decided(g)'
      BY <1>0, <2>1 DEF Decided
    <2>. QED
      BY <2>3, <2>4 DEF LockInv
  <1>. QED
    BY <1>3, <1>4, <1>5, <1>6

LEMMA StepActive ==
  ASSUME Types, NEW f \in Flows, Step(f), LockInv, ActiveInv, MaxVersion \in Nat
  PROVE  ActiveInv'
  <1>0. f[1] \in Procs /\ active \in [Procs -> Past] /\ task[f] \in TaskRecords
    BY FlowParts DEF Types
  <1>1. UNCHANGED bundled
    BY DEF Step, Asks, IsTold, IsCancelled, AsksAgain, Wins, Stores, Selects, Finishes, Gives, Breaks,
           Nothing, Over, Calm
  <1>2. ASSUME NEW d, Gives(f, d), d = bundled[f[1]] \/ d.v > bundled[f[1]].v
        PROVE  ActiveInv'
    <2>1. active' = active \/ active' = [active EXCEPT ![f[1]] = d]
      BY <1>2 DEF Gives
    <2>. QED
      BY <1>0, <1>1, <1>2, <2>1 DEF ActiveInv
  <1>3. CASE Selects(f)
    BY <1>0, <1>2, <1>3, SelectType DEF Selects
  <1>4. CASE Finishes(f)
    BY <1>2, <1>4 DEF Finishes, LockInv, Decided, Writes
  <1>5. CASE ~Selects(f) /\ ~Finishes(f)
    <2>1. active' = active
      BY <1>5 DEF Step, Asks, IsTold, IsCancelled, AsksAgain, Wins, Stores, Quiet, Breaks, Nothing
    <2>. QED
      BY <1>1, <2>1 DEF ActiveInv
  <1>. QED
    BY <1>3, <1>4, <1>5

LEMMA StepEtag ==
  ASSUME Types, NEW f \in Flows, Step(f), LockInv, EtagInv
  PROVE  EtagInv'
  <1>0. /\ \A g \in Flows : g # f => task'[g] = task[g]
        /\ cache \in Past /\ etag \in Past /\ task[f].got \in Past /\ mishaps \in Nat
        /\ cache.v \in Nat /\ etag.v \in Nat /\ task[f].got.v \in Nat
    BY TaskAfter, NoneIsNoDocument DEF Types, TaskRecords
  <1>b. Writes(f) => (\A g \in Flows : g # f => ~Writes(g)) /\ Decided(f)
    BY DEF LockInv
  <1>1. CASE Stores(f)
    <2>1. /\ Writes(f) /\ task[f].at = "write" /\ cache' = task[f].got /\ etag' = etag
          /\ mishaps' = mishaps /\ task'[f].at = "last" /\ task'[f].got = task[f].got
      BY <1>1, TaskAfter DEF Stores, Writes, Same, Calm
    <2>2. task[f].got # None /\ task[f].got.v > cache.v
      BY <1>b, <2>1 DEF Decided
    <2>3. \A g \in Flows : task'[g].at = "last" => g = f
      BY <1>0, <1>b, <2>1 DEF Writes
    <2>4. Behind => Behind'
      BY <1>0, <2>1, <2>2, <2>3 DEF Behind
    <2>5. Paired'
      BY <2>1 DEF Paired
    <2>. QED
      BY <2>1, <2>4, <2>5 DEF EtagInv
  <1>2. CASE Finishes(f)
    <2>1. /\ Writes(f) /\ task[f].at = "last" /\ cache' = cache /\ etag' = task[f].tag
          /\ mishaps' = mishaps /\ task'[f].at = "none"
      BY <1>2, TaskAfter DEF Finishes, Gives, Writes
    <2>2. task[f].got # None /\ task[f].tag \in {None, task[f].got} /\ cache \in {None, task[f].got}
      BY <1>b, <2>1 DEF Decided
    <2>3. \A g \in Flows : task'[g].at # "last"
      BY <1>0, <1>b, <2>1 DEF Writes
    <2>4. Behind => Behind'
      BY <1>0, <2>1, <2>2, <2>3 DEF Behind
    <2>5. Paired'
      BY <2>1, <2>2 DEF Paired
    <2>. QED
      BY <2>1, <2>4, <2>5 DEF EtagInv
  <1>3. CASE Breaks(f) /\ Writes(f)
    <2>1. cache' = cache /\ etag' = etag /\ mishaps' = mishaps + 1 /\ task'[f].at = "none"
      BY <1>3, TaskAfter DEF Breaks, Nothing, Files
    <2>2. Behind => Behind'
      BY <1>0, <2>1 DEF Behind
    <2>. QED
      BY <1>0, <2>1, <2>2 DEF EtagInv
  <1>4. CASE ~Stores(f) /\ ~Finishes(f) /\ ~(Breaks(f) /\ Writes(f))
    <2>1. cache' = cache /\ etag' = etag /\ mishaps' = mishaps
      BY <1>4 DEF Step, Asks, IsTold, IsCancelled, AsksAgain, Wins, Selects, Breaks, Nothing, Files, Calm
    <2>2. /\ task'[f].at = "last" <=> task[f].at = "last"
          /\ task'[f].at = "last" => task'[f].got = task[f].got
      BY <1>4, TaskAfter DEF Step, Asks, IsTold, IsCancelled, AsksAgain, Wins, Selects, Gives, Breaks,
                             Nothing, Writes, Same
    <2>3. \A g \in Flows : /\ task'[g].at = "last" <=> task[g].at = "last"
                           /\ task'[g].at = "last" => task'[g].got = task[g].got
      BY <1>0, <2>2
    <2>4. Behind => Behind'
      BY <2>1, <2>3 DEF Behind
    <2>5. Paired => Paired'
      BY <2>1, <2>3 DEF Paired
    <2>. QED
      BY <2>1, <2>4, <2>5 DEF EtagInv
  <1>. QED
    BY <1>1, <1>2, <1>3, <1>4

LEMMA StepMishaps ==
  ASSUME Types, NEW f \in Flows, Step(f), LockInv
  PROVE  mishaps' \in {mishaps, mishaps + 1} /\ (cache' = cache \/ cache'.v > cache.v)
  <1>1. mishaps' \in {mishaps, mishaps + 1}
    BY DEF Step, Asks, IsTold, IsCancelled, AsksAgain, Wins, Stores, Selects, Finishes, Breaks, Calm
  <1>2. CASE Stores(f)
    BY <1>1, <1>2 DEF Stores, LockInv, Writes, Decided
  <1>3. CASE ~Stores(f)
    BY <1>1, <1>3 DEF Step, Asks, IsTold, IsCancelled, AsksAgain, Wins, Selects, Finishes, Breaks,
                      Nothing, Files
  <1>. QED
    BY <1>2, <1>3

LEMMA StepAsk ==
  ASSUME Types, NEW f \in Flows, Step(f), LockInv, EtagInv, AskInv, MaxVersion \in Nat
  PROVE  AskInv'
  <1>0. /\ \A g \in Flows : g # f => task'[g] = task[g]
        /\ mishaps' \in {mishaps, mishaps + 1} /\ (cache' = cache \/ cache'.v > cache.v)
        /\ mishaps \in Nat /\ cache \in Past /\ etag \in Past /\ cache.v \in Nat /\ cache'.v \in Nat
        /\ remote \in Documents /\ remote # None
    BY StepTypes, StepMishaps, TaskAfter, NoneIsNoDocument DEF Types
  <1>1. ASSUME NEW d \in Past, Stands(d) PROVE Stands(d)'
    <2>1. d.v \in Nat
      BY NoneIsNoDocument
    <2>. QED
      BY <1>0, <1>1, <2>1 DEF Stands
  <1>2. ASSUME NEW g \in Flows, task'[g].at = "commit", task'[g].got # None
        PROVE  task'[g].got.v = task'[g].told /\ task'[g].tag \in {None, task'[g].got}
    <2>1. CASE g # f
      BY <1>0, <1>2, <2>1 DEF AskInv
    <2>2. CASE g = f /\ IsTold(f)
      BY <1>2, <2>2, TaskAfter
    <2>3. CASE g = f /\ IsCancelled(f)
      BY <1>2, <2>3, TaskAfter DEF AskInv, Same
    <2>4. CASE g = f /\ ~IsTold(f) /\ ~IsCancelled(f)
      BY <1>2, <2>4, TaskAfter DEF Step, Selects, Finishes, Gives, Breaks, Nothing
    <2>. QED
      BY <2>1, <2>2, <2>3, <2>4
  <1>3. ASSUME mishaps' < 2, NEW g \in Flows PROVE Asked(task[g])'
    <2>0. mishaps < 2 /\ Asked(task[g]) /\ Asked(task[f]) /\ (mishaps' = 0 => mishaps = 0)
      BY <1>0, <1>3 DEF AskInv
    <2>a. task[g].probe \in Past /\ task[f].probe \in Past
      BY DEF Types, TaskRecords
    <2>1. CASE g # f
      <3>1. task'[g] = task[g]
        BY <1>0, <2>1
      <3>. QED
        BY <1>0, <1>1, <2>0, <2>a, <3>1 DEF Asked
    <2>2. CASE g = f /\ Asks(f)
      <3>1. /\ cache' = cache /\ mishaps' = mishaps
            /\ task'[f].at = "ask" /\ task'[f].try = task[f].try /\ task'[f].probe = cache
            /\ task'[f].etag = IF cache = None THEN None ELSE etag
            /\ \A h \in Flows : task[h].at # "last"
        BY <2>2, TaskAfter DEF Asks, Files, Calm, Locked
      <3>2. cache # None /\ etag # None => etag.v <= cache.v
        <4>1. Behind \/ Paired
          BY <1>0, <2>0 DEF EtagInv
        <4>. QED
          BY <1>0, <3>1, <4>1 DEF Behind, Paired
      <3>3. Stands(cache)'
        BY <3>1 DEF Stands
      <3>. QED
        BY <2>0, <2>2, <3>1, <3>2, <3>3 DEF Asked
    <2>3. CASE g = f /\ IsTold(f)
      <3>1. /\ task[f].at = "ask" /\ task'[f].at = "commit" /\ task'[f].told = remote.v
            /\ task'[f].try = task[f].try /\ task'[f].probe = task[f].probe
            /\ task'[f].got = None => task[f].etag = remote
        BY <1>0, <2>3, TaskAfter DEF IsTold
      <3>. QED
        BY <1>0, <1>1, <2>0, <2>3, <2>a, <3>1 DEF Asked
    <2>4. CASE g = f /\ IsCancelled(f)
      <3>1. task'[f].at = task[f].at /\ Same(task'[f], task[f])
        BY <2>4, TaskAfter
      <3>. QED
        BY <1>0, <1>1, <2>0, <2>4, <2>a, <3>1 DEF Asked, Same
    <2>5. CASE g = f /\ AsksAgain(f)
      <3>1. task'[f].at = "probe" /\ task'[f].try = 2 /\ mishaps' = mishaps
        BY <2>5, TaskAfter DEF AsksAgain, Calm
      <3>2. mishaps # 0
        BY <2>0, <2>5 DEF AsksAgain, Asked
      <3>. QED
        BY <2>5, <3>1, <3>2 DEF Asked
    <2>6. CASE g = f /\ (Wins(f) \/ Stores(f))
      <3>1. task'[f].at \in {"write", "last"} /\ task'[f].try = task[f].try
        BY <2>6, TaskAfter DEF Same
      <3>. QED
        BY <2>0, <2>6, <3>1 DEF Asked
    <2>7. CASE g = f /\ Over(f)
      <3>1. task'[f].at = "none" /\ task'[f].try = 0
        BY <2>7, TaskAfter
      <3>. QED
        BY <2>7, <3>1 DEF Asked
    <2>. QED
      BY <2>1, <2>2, <2>3, <2>4, <2>5, <2>6, <2>7 DEF Step, Selects, Finishes, Gives, Breaks, Nothing
  <1>. QED
    BY <1>2, <1>3 DEF AskInv

LEMMA StepCurrent ==
  ASSUME Types, NEW f \in Flows, Step(f), LockInv, AskInv, FetchIsCurrent
  PROVE  FetchIsCurrent'
  <1>0. /\ mishaps' \in {mishaps, mishaps + 1} /\ mishaps \in Nat /\ f[1] \in Procs
        /\ task[f].probe \in Past /\ task[f].told \in 0..MaxVersion /\ cache.v \in Nat
        /\ task[f].probe.v \in Nat
    BY StepMishaps, FlowParts, NoneIsNoDocument DEF Types, TaskRecords
  <1>. SUFFICES ASSUME mishaps' < 2 PROVE answer'.got >= answer'.told
    BY DEF FetchIsCurrent
  <1>1. mishaps < 2 /\ answer.got >= answer.told /\ Asked(task[f])
    BY <1>0 DEF FetchIsCurrent, AskInv
  <1>2. CASE Selects(f)
    <2>1. /\ select(f[1]).v \in Nat /\ select(f[1]).v >= cache.v
      BY <1>0, SelectType, NoneIsNoDocument DEF Past
    <2>2. select(f[1]).v >= task[f].told
      <3>1. CASE task[f].got = None
        <4>1. Stands(task[f].probe) /\ task[f].told <= task[f].probe.v
          BY <1>1, <1>2, <3>1 DEF Selects, Asked
        <4>. QED
          BY <1>0, <2>1, <4>1 DEF Stands
      <3>2. CASE task[f].got # None
        <4>1. task[f].got.v = task[f].told /\ task[f].got.v <= select(f[1]).v
          BY <1>2, <3>2 DEF Selects, AskInv
        <4>. QED
          BY <1>0, <2>1, <4>1
      <3>. QED
        BY <3>1, <3>2
    <2>. QED
      BY <1>1, <1>2, <2>2 DEF Selects, Gives
  <1>3. CASE Finishes(f)
    <2>1. task[f].got.v = task[f].told
      BY <1>3 DEF Finishes, LockInv, Writes, Decided
    <2>2. answer' \in {answer, [got |-> task[f].told, told |-> task[f].told]}
      BY <1>3, <2>1 DEF Finishes, Gives
    <2>. QED
      BY <1>0, <1>1, <2>2
  <1>4. CASE ~Selects(f) /\ ~Finishes(f)
    <2>1. answer' = answer
      BY <1>4 DEF Step, Asks, IsTold, IsCancelled, AsksAgain, Wins, Stores, Quiet, Breaks, Nothing
    <2>. QED
      BY <1>1, <2>1
  <1>. QED
    BY <1>2, <1>3, <1>4

-----------------------------------------------------------------------------
(***************************************************************************)
(* The processes and the world around them.                                *)
(***************************************************************************)
LEMMA FetchInv ==
  ASSUME IInv, NEW f \in Flows, Fetch(f), MaxVersion \in Nat
  PROVE  IInv'
  BY FetchSteps, StepTypes, StepClaims, StepLocks, StepActive, StepEtag, StepAsk, StepCurrent DEF IInv

LEMMA InitInv ==
  ASSUME MaxVersion \in Nat, MaxVersion >= 2, Init
  PROVE  IInv
  <1>1. /\ remote \in Documents /\ remote \in Past /\ None \in Past
        /\ 0 \in 0..MaxVersion /\ bundled \in [Procs -> Documents]
    BY DEF Init, Documents, Past
  <1>2. \A f \in Flows : task[f] = NoTask
    BY DEF Init
  <1>3. NoTask.at = "none" /\ NoTask.try = 0 /\ NoTask \in TaskRecords
    BY NoTaskType DEF NoTask
  <1>4. Types
    BY <1>1, <1>3 DEF Init, Types, NoAnswer
  <1>5. ClaimInv
    BY <1>2, <1>3 DEF Init, ClaimInv, Flows
  <1>6. LockInv /\ ActiveInv
    BY <1>2, <1>3 DEF Init, LockInv, Writes, ActiveInv
  <1>7. EtagInv
    BY <1>1, <1>2, <1>3, NoneIsNoDocument DEF Init, EtagInv, Behind, Paired, Documents
  <1>8. AskInv /\ FetchIsCurrent
    BY <1>2, <1>3 DEF Init, AskInv, Asked, FetchIsCurrent, NoAnswer
  <1>. QED
    BY <1>4, <1>5, <1>6, <1>7, <1>8 DEF IInv

LEMMA StartInv ==
  ASSUME IInv, NEW p \in Procs, Start(p)
  PROVE  IInv'
  <1>1. /\ active' = [active EXCEPT ![p] = select(p)] /\ checked' = [checked EXCEPT ![p] = stamp]
        /\ UNCHANGED <<cache, etag, stamp, remote, bundled, checking, task, answer, mishaps>>
    BY DEF Start, files
  <1>2. select(p) \in Past /\ (select(p) = bundled[p] \/ select(p).v > bundled[p].v)
    BY SelectType DEF IInv, Past
  <1>3. Types'
    BY <1>1, <1>2 DEF IInv, Types
  <1>4. ActiveInv'
    BY <1>1, <1>2 DEF IInv, Types, ActiveInv
  <1>5. ClaimInv' /\ LockInv' /\ EtagInv' /\ AskInv' /\ FetchIsCurrent'
    BY <1>1 DEF IInv, ClaimInv, LockInv, Writes, Decided, EtagInv, Behind, Paired, AskInv, Asked, Stands,
                FetchIsCurrent
  <1>. QED
    BY <1>3, <1>4, <1>5 DEF IInv

LEMMA PublishInv ==
  ASSUME IInv, Publish
  PROVE  IInv'
  <1>1. /\ remote' \in Documents
        /\ UNCHANGED <<cache, etag, stamp, bundled, active, checked, checking, task, answer, mishaps>>
    BY DEF Publish, files, procVars
  <1>2. Types' /\ ActiveInv'
    BY <1>1 DEF IInv, Types, ActiveInv
  <1>3. ClaimInv' /\ LockInv' /\ EtagInv' /\ AskInv' /\ FetchIsCurrent'
    BY <1>1 DEF IInv, ClaimInv, LockInv, Writes, Decided, EtagInv, Behind, Paired, AskInv, Asked, Stands,
                FetchIsCurrent
  <1>. QED
    BY <1>2, <1>3 DEF IInv

\* A killed process gives the lock back wherever its write was: the ETag may be left behind.
LEMMA KillInv ==
  ASSUME IInv, NEW p \in Procs, Kill(p), MaxVersion \in Nat
  PROVE  IInv'
  <1>1. /\ active' = [active EXCEPT ![p] = None] /\ checking' = [checking EXCEPT ![p] = FALSE]
        /\ task' = [f \in Flows |-> IF f[1] = p THEN NoTask ELSE task[f]]
        /\ mishaps' = mishaps + 1
        /\ UNCHANGED <<cache, etag, stamp, remote, bundled, checked, answer>>
    BY DEF Kill, files
  <1>2. /\ NoTask.at = "none" /\ NoTask.try = 0 /\ NoTask \in TaskRecords /\ None \in Past
        /\ mishaps \in Nat
    BY NoTaskType DEF NoTask, Past, IInv, Types
  <1>3. Types'
    BY <1>1, <1>2 DEF IInv, Types
  <1>4. ClaimInv'
    <2>. SUFFICES ASSUME NEW q \in Procs
                  PROVE  checking'[q] = (task'[<<q, "refresh">>].at # "none")
      BY DEF ClaimInv
    <2>1. <<q, "refresh">> \in Flows /\ <<q, "refresh">>[1] = q
      BY DEF Flows
    <2>. QED
      BY <1>1, <1>2, <2>1 DEF IInv, Types, ClaimInv
  <1>5. \A f \in Flows : task'[f] = task[f] \/ task'[f] = NoTask
    BY <1>1
  <1>6. LockInv'
    <2>1. \A f \in Flows : Writes(f)' => Writes(f) /\ task'[f] = task[f]
      BY <1>2, <1>5 DEF Writes
    <2>2. \A f, g \in Flows : Writes(f)' /\ Writes(g)' => f = g
      BY <2>1 DEF IInv, LockInv
    <2>3. \A f \in Flows : Writes(f)' => Decided(f)'
      BY <1>1, <2>1 DEF IInv, LockInv, Decided
    <2>. QED
      BY <2>2, <2>3 DEF LockInv
  <1>7. ActiveInv'
    BY <1>1 DEF IInv, Types, ActiveInv
  <1>8. EtagInv'
    <2>1. Behind => Behind'
      BY <1>1, <1>2, <1>5 DEF Behind
    <2>. QED
      BY <1>1, <1>2, <2>1 DEF IInv, EtagInv
  <1>9. AskInv'
    <2>1. \A f \in Flows : task'[f].at = "commit" => task'[f] = task[f]
      BY <1>2, <1>5
    <2>2. ASSUME mishaps' < 2, NEW f \in Flows PROVE Asked(task[f])'
      <3>1. mishaps = 0 /\ mishaps' # 0 /\ Asked(task[f])
        BY <1>1, <1>2, <2>2 DEF IInv, AskInv
      <3>2. CASE task'[f] = NoTask
        BY <1>2, <3>2 DEF Asked
      <3>3. CASE task'[f] = task[f]
        BY <1>1, <3>1, <3>3 DEF Asked, Stands
      <3>. QED
        BY <1>5, <3>2, <3>3
    <2>. QED
      BY <2>1, <2>2 DEF IInv, AskInv
  <1>10. FetchIsCurrent'
    BY <1>1, <1>2 DEF IInv, FetchIsCurrent
  <1>. QED
    BY <1>3, <1>4, <1>6, <1>7, <1>8, <1>9, <1>10 DEF IInv

\* A lost cache leaves its ETag, which nothing sends before a document is written beside it.
LEMMA LoseCacheInv ==
  ASSUME IInv, LoseCache
  PROVE  IInv'
  <1>1. /\ cache' = None /\ mishaps' = mishaps + 1
        /\ UNCHANGED <<etag, stamp, remote, bundled, active, checked, checking, task, answer>>
    BY DEF LoseCache, procVars
  <1>2. None \in Past /\ None.v = 0 /\ mishaps \in Nat
    BY NoneIsNoDocument DEF Past, IInv, Types
  <1>3. Types' /\ ClaimInv' /\ ActiveInv'
    BY <1>1, <1>2 DEF IInv, Types, ClaimInv, ActiveInv
  <1>4. LockInv'
    <2>1. \A f \in Flows : Writes(f)' <=> Writes(f)
      BY <1>1 DEF Writes
    <2>2. \A f \in Flows : Decided(f) => Decided(f)'
      <3>1. \A f \in Flows : task[f].got # None => task[f].got.v > 0
        BY NoneIsNoDocument DEF IInv, Types, TaskRecords
      <3>. QED
        BY <1>1, <1>2, <3>1 DEF Decided
    <2>3. \A f, g \in Flows : Writes(f)' /\ Writes(g)' => f = g
      BY <2>1 DEF IInv, LockInv
    <2>4. \A f \in Flows : Writes(f)' => Decided(f)'
      BY <2>1, <2>2 DEF IInv, LockInv
    <2>. QED
      BY <2>3, <2>4 DEF LockInv
  <1>5. EtagInv'
    BY <1>1, <1>2 DEF EtagInv, Paired
  <1>6. AskInv'
    <2>1. ASSUME mishaps' < 2, NEW f \in Flows PROVE Asked(task[f])'
      <3>1. mishaps = 0 /\ mishaps' # 0 /\ Asked(task[f])
        BY <1>1, <1>2, <2>1 DEF IInv, AskInv
      <3>. QED
        BY <1>1, <3>1 DEF Asked
    <2>. QED
      BY <1>1, <2>1 DEF IInv, AskInv
  <1>7. FetchIsCurrent'
    BY <1>1, <1>2 DEF IInv, FetchIsCurrent
  <1>. QED
    BY <1>3, <1>4, <1>5, <1>6, <1>7 DEF IInv

LEMMA BeginFlowInv ==
  ASSUME IInv, NEW p \in Procs, NEW kind \in {"refresh", "sync"}, MaxVersion \in Nat,
         task[<<p, kind>>].at = "none", Begin(<<p, kind>>),
         checking' = IF kind = "refresh" THEN [checking EXCEPT ![p] = TRUE] ELSE checking,
         UNCHANGED <<cache, etag, stamp, active, checked>>
  PROVE  IInv'
  <1>. DEFINE t == [NoTask EXCEPT !.at = "probe", !.try = 1]
              f == <<p, kind>>
  <1>0. NoTask \in TaskRecords /\ NoTask.at = "none" /\ t.at = "probe" /\ t.try = 1 /\ t \in TaskRecords
    <2>1. NoTask \in TaskRecords /\ NoTask.at = "none"
      BY NoTaskType DEF NoTask
    <2>. QED
      BY <2>1 DEF TaskRecords
  <1>. HIDE DEF t
  <1>1. f \in Flows /\ f = <<p, kind>> /\ task[f].at = "none"
    BY DEF Flows, f
  <1>2. /\ task' = [task EXCEPT ![f] = t] /\ answer' = NoAnswer
        /\ checking' = IF kind = "refresh" THEN [checking EXCEPT ![p] = TRUE] ELSE checking
        /\ UNCHANGED <<cache, etag, stamp, remote, bundled, active, checked, mishaps>>
    <2>1. task' = [task EXCEPT ![<<p, kind>>] = t]
      BY DEF Begin, t
    <2>. QED
      BY <2>1 DEF Begin, f
  <1>. HIDE DEF f
  <1>3. /\ task'[f] = t /\ \A g \in Flows : g # f => task'[g] = task[g]
        /\ task' \in [Flows -> TaskRecords]
    BY <1>0, <1>1, <1>2 DEF IInv, Types
  <1>4. Types'
    BY <1>1, <1>2, <1>3 DEF IInv, Types, NoAnswer
  <1>5. ClaimInv'
    <2>. SUFFICES ASSUME NEW q \in Procs
                  PROVE  checking'[q] = (task'[<<q, "refresh">>].at # "none")
      BY DEF ClaimInv
    <2>. DEFINE g == <<q, "refresh">>
    <2>1. g \in Flows /\ checking[q] = (task[g].at # "none") /\ checking \in [Procs -> BOOLEAN]
      BY DEF Flows, IInv, ClaimInv, Types
    <2>2. CASE g = f
      <3>1. q = p /\ kind = "refresh"
        BY <1>1, <2>2
      <3>. QED
        BY <1>0, <1>2, <1>3, <2>1, <2>2, <3>1
    <2>3. CASE g # f
      <3>1. kind # "refresh" \/ q # p
        BY <1>1, <2>3
      <3>2. checking'[q] = checking[q]
        BY <1>2, <2>1, <3>1
      <3>. QED
        BY <1>3, <2>1, <2>3, <3>2
    <2>. QED
      BY <2>2, <2>3
  <1>6. LockInv'
    <2>1. \A g \in Flows : Writes(g)' => Writes(g) /\ task'[g] = task[g]
      BY <1>0, <1>3 DEF Writes
    <2>2. \A g, h \in Flows : Writes(g)' /\ Writes(h)' => g = h
      BY <2>1 DEF IInv, LockInv
    <2>3. \A g \in Flows : Writes(g)' => Decided(g)'
      BY <1>2, <2>1 DEF IInv, LockInv, Decided
    <2>. QED
      BY <2>2, <2>3 DEF LockInv
  <1>7. ActiveInv'
    BY <1>2 DEF IInv, ActiveInv
  <1>8. EtagInv'
    <2>1. \A g \in Flows : /\ task'[g].at = "last" <=> task[g].at = "last"
                           /\ task'[g].at = "last" => task'[g] = task[g]
      BY <1>0, <1>1, <1>3
    <2>2. Behind => Behind'
      BY <1>2, <2>1 DEF Behind
    <2>3. Paired => Paired'
      BY <1>2, <2>1 DEF Paired
    <2>. QED
      BY <1>2, <2>2, <2>3 DEF IInv, EtagInv
  <1>9. AskInv'
    <2>1. \A g \in Flows : task'[g] = task[g] \/ (task'[g].at = "probe" /\ task'[g].try = 1)
      <3>1. task'[f].at = "probe" /\ task'[f].try = 1
        BY <1>0, <1>3
      <3>2. \A g \in Flows : g # f => task'[g] = task[g]
        BY <1>3
      <3>. QED
        BY <3>1, <3>2
    <2>2. ASSUME mishaps' < 2, NEW g \in Flows PROVE Asked(task[g])'
      <3>1. Asked(task[g])
        BY <1>2, <2>2 DEF IInv, AskInv
      <3>. QED
        BY <1>2, <2>1, <3>1 DEF Asked, Stands
    <2>. QED
      BY <2>1, <2>2 DEF IInv, AskInv
  <1>10. FetchIsCurrent'
    BY <1>2 DEF FetchIsCurrent, NoAnswer
  <1>. QED
    BY <1>4, <1>5, <1>6, <1>7, <1>8, <1>9, <1>10 DEF IInv

LEMMA BeginInv ==
  ASSUME IInv, NEW p \in Procs, BeginRefresh(p) \/ BeginSync(p), MaxVersion \in Nat
  PROVE  IInv'
  <1>1. CASE BeginRefresh(p)
    <2>1. <<p, "refresh">> \in Flows /\ task[<<p, "refresh">>].at = "none"
      BY <1>1 DEF BeginRefresh, Flows, IInv, Types, ClaimInv
    <2>. QED
      BY <1>1, <2>1, BeginFlowInv DEF BeginRefresh, files
  <1>2. CASE BeginSync(p)
    <2>1. <<p, "sync">> \in Flows /\ task[<<p, "sync">>].at = "none"
      BY <1>2 DEF BeginSync, Flows, NoTask
    <2>. QED
      BY <1>2, <2>1, BeginFlowInv DEF BeginSync, files
  <1>. QED
    BY <1>1, <1>2

LEMMA StutterInv == IInv /\ UNCHANGED vars => IInv'
  BY DEF vars, files, procVars, bounds, IInv, Types, ClaimInv, LockInv, Writes, Decided, ActiveInv, EtagInv,
         Behind, Paired, AskInv, Asked, Stands, FetchIsCurrent

LEMMA NextInv ==
  ASSUME MaxVersion \in Nat, IInv, [Next]_vars
  PROVE  IInv'
  BY FetchInv, StartInv, KillInv, BeginInv, PublishInv, LoseCacheInv, StutterInv DEF Next

-----------------------------------------------------------------------------
(***************************************************************************)
(* The theorems.                                                           *)
(***************************************************************************)
\* AnswersHold: whatever processes fetch, fail, are cancelled or killed, the gate of the background
\* refresh is claimed exactly while it is on its way, an installed document is never displaced by
\* another of its version, and, short of two mishaps, no 304 passes for an answer it is not.
THEOREM AnswersHold ==
  ASSUME MaxVersion \in Nat, MaxVersion >= 2
  PROVE  Spec => []CatalogSound
  <1>1. Init => IInv
    BY InitInv
  <1>2. IInv /\ [Next]_vars => IInv'
    BY NextInv
  <1>3. IInv => CatalogSound
    <2>. SUFFICES ASSUME IInv PROVE TypeOK /\ FetchIsCurrent /\ BundledKept
      BY DEF CatalogSound
    <2>1. TypeOK
      <3>1. \A f \in Flows : task[f].at \in {"none", "probe", "ask", "commit", "write", "last"}
        BY DEF IInv, Types, TaskRecords
      <3>. QED
        BY <3>1 DEF IInv, Types, ClaimInv, TypeOK, Past
    <2>2. BundledKept
      <3>. SUFFICES ASSUME NEW p \in Procs, active[p].v = bundled[p].v PROVE active[p] = bundled[p]
        BY DEF BundledKept
      <3>1. bundled[p].v > 0 /\ bundled[p].v \in Nat /\ None.v = 0
        BY NoneIsNoDocument DEF IInv, Types, Past
      <3>. QED
        BY <3>1 DEF IInv, ActiveInv
    <2>. QED
      BY <2>1, <2>2 DEF IInv
  <1>. QED
    BY <1>1, <1>2, <1>3, PTL DEF Spec

\* What a step may do to the cache and to the policy in use.
LEMMA StepForward ==
  ASSUME MaxVersion \in Nat, IInv, [Next]_vars
  PROVE  /\ cache' = None \/ cache'.v > cache.v \/ cache' = cache
         /\ \A p \in Procs : active[p] # None /\ active'[p] \notin {None, active[p]}
               => active'[p].v > active[p].v /\ task[<<p, "sync">>] # task'[<<p, "sync">>]
  <1>1. ASSUME NEW f \in Flows, Fetch(f)
        PROVE  /\ cache'.v > cache.v \/ cache' = cache
               /\ \A p \in Procs : active[p] # None /\ active'[p] \notin {None, active[p]}
                     => active'[p].v > active[p].v /\ task[<<p, "sync">>] # task'[<<p, "sync">>]
    <2>0. /\ Step(f) /\ active \in [Procs -> Past] /\ f[1] \in Procs /\ f = <<f[1], f[2]>>
      BY <1>1, FetchSteps, FlowParts DEF IInv, Types
    <2>1. cache'.v > cache.v \/ cache' = cache
      BY <2>0, StepMishaps DEF IInv
    <2>2. ASSUME NEW d, Gives(f, d), NEW p \in Procs, active'[p] # active[p]
          PROVE  active'[p].v > active[p].v /\ task[<<p, "sync">>] # task'[<<p, "sync">>]
      <3>1. f[2] = "sync" /\ d.v > active[f[1]].v /\ active' = [active EXCEPT ![f[1]] = d]
        BY <2>2 DEF Gives
      <3>2. p = f[1] /\ active'[p] = d
        BY <2>0, <2>2, <3>1
      <3>3. task[f].at # "none" /\ task'[f].at = "none"
        BY <2>2, TaskAfter DEF IInv, Gives, Over
      <3>. QED
        BY <2>0, <3>1, <3>2, <3>3
    <2>3. (\E d : Gives(f, d)) \/ active' = active
      BY <2>0 DEF Step, Asks, IsTold, IsCancelled, AsksAgain, Wins, Stores, Quiet, Selects, Finishes,
                  Breaks, Nothing
    <2>. QED
      BY <2>1, <2>2, <2>3
  <1>2. ASSUME NEW p \in Procs, Start(p) \/ Kill(p) \/ BeginRefresh(p) \/ BeginSync(p)
        PROVE  /\ cache' = cache
               /\ \A q \in Procs : active[q] = None \/ active'[q] \in {None, active[q]}
    BY <1>2 DEF Start, Kill, BeginRefresh, BeginSync, Begin, files, Running, IInv, Types
  <1>3. CASE Publish \/ LoseCache \/ UNCHANGED vars
    BY <1>3 DEF Publish, LoseCache, vars, files, procVars
  <1>. QED
    BY <1>1, <1>2, <1>3 DEF Next

\* ForwardHolds: however two processes interleave their probes, requests and commits, the cached
\* document is not replaced by an older one, and the policy in use moves by `/catalog sync` alone,
\* and forward.
THEOREM ForwardHolds ==
  ASSUME MaxVersion \in Nat, MaxVersion >= 2
  PROVE  Spec => CatalogForward
  <1>1. Init => IInv
    BY InitInv
  <1>2. IInv /\ [Next]_vars => IInv'
    BY NextInv
  <1>3. IInv /\ [Next]_vars => [cache' = None \/ cache'.v > cache.v \/ cache' = cache]_vars
    BY StepForward
  <1>4. IInv /\ [Next]_vars =>
          [\A p \in Procs : active[p] # None /\ active'[p] \notin {None, active[p]}
             => active'[p].v > active[p].v /\ task[<<p, "sync">>] # task'[<<p, "sync">>]]_vars
    BY StepForward
  <1>. QED
    BY <1>1, <1>2, <1>3, <1>4, PTL DEF Spec, CatalogForward, NeverDowngraded, PolicyIsStable

-----------------------------------------------------------------------------
(***************************************************************************)
(* The assets directory, with saves that overlap with stores.              *)
(*                                                                         *)
(* While a save is under way, whatever is used is either in what the save  *)
(* keeps or in a race with it: what the plan could not see is counted when *)
(* the save begins, what is stored later when it is stored, and what moves *)
(* between messages, queue and editor is counted already.                  *)
(***************************************************************************)
Used      == Assets!Named \cup promised \cup admitted
KeptInv   == save # "idle" => Used \subseteq keep \cup raced
AssetsInv == Assets!AssetsKept /\ KeptInv

LEMMA AssetsStart == Assets!Init => AssetsInv
BY DEF Assets!Init, AssetsInv, Assets!AssetsKept, Assets!TypeOK, Assets!Named, KeptInv

\* What a store does to the directory: the file is there, and in a race unless no save is under way
\* or the save keeps it.
LEMMA Stored ==
  ASSUME Assets!TypeOK, NEW a \in Images \cup Results, Assets!Store(a)
  PROVE  /\ held' = held \cup {a} /\ listing' \subseteq held' /\ raced' \subseteq Images \cup Results
         /\ raced \subseteq raced' \cup {a} /\ (save # "idle" => a \in keep \cup raced')
         /\ save # "idle" => raced \subseteq raced' \cup keep
BY DEF Assets!Store, Assets!TypeOK

\* What is new in the directory, and who names it: an input that is admitted ...
LEMMA AdmitStep ==
  ASSUME AssetsInv, NEW i \in Images, Assets!Admit(i) PROVE AssetsInv'
<1>1. /\ Assets!Store(i) /\ admitted' = {i}
      /\ UNCHANGED <<messages, turn, queued, retained, batch, results, promised, save, keep>>
  BY DEF Assets!Admit, Assets!turnVars, Assets!saveVars
<1>2. Assets!TypeOK
  BY DEF AssetsInv, Assets!AssetsKept
<1>3. /\ held' = held \cup {i} /\ listing' \subseteq held' /\ raced' \subseteq Images \cup Results
      /\ raced \subseteq raced' \cup {i} /\ (save # "idle" => i \in keep \cup raced')
      /\ save # "idle" => raced \subseteq raced' \cup keep
  BY <1>1, <1>2, Stored
<1>4. Assets!AssetsKept'
  BY <1>1, <1>3 DEF AssetsInv, Assets!AssetsKept, Assets!TypeOK, Assets!Named
<1> QED
  BY <1>1, <1>3, <1>4 DEF AssetsInv, KeptInv, Used, Assets!Named

\* ... an image the batch views ...
LEMMA ViewStep ==
  ASSUME AssetsInv, NEW i \in Images, Assets!ViewImage(i) PROVE AssetsInv'
<1>1. /\ Assets!Store(i) /\ batch' = batch \cup {i}
      /\ UNCHANGED <<messages, turn, queued, retained, admitted, results, promised, save, keep>>
  BY DEF Assets!ViewImage, Assets!inputVars, Assets!saveVars
<1>2. Assets!TypeOK
  BY DEF AssetsInv, Assets!AssetsKept
<1>3. /\ held' = held \cup {i} /\ listing' \subseteq held' /\ raced' \subseteq Images \cup Results
      /\ raced \subseteq raced' \cup {i} /\ (save # "idle" => i \in keep \cup raced')
      /\ save # "idle" => raced \subseteq raced' \cup keep
  BY <1>1, <1>2, Stored
<1>4. Assets!AssetsKept'
  BY <1>1, <1>3 DEF AssetsInv, Assets!AssetsKept, Assets!TypeOK, Assets!Named
<1> QED
  BY <1>1, <1>3, <1>4 DEF AssetsInv, KeptInv, Used, Assets!Named

\* ... and a result, first its key and then its file.
LEMMA ResultStep ==
  ASSUME AssetsInv, NEW k \in Results, Assets!StoreResult(k) PROVE AssetsInv'
<1>1. /\ results' = results \cup {k}
      /\ UNCHANGED <<held, listing, raced, messages, turn, queued, retained, admitted, batch, promised, save, keep>>
  BY DEF Assets!StoreResult, Assets!dirVars, Assets!inputVars, Assets!saveVars
<1>2. Assets!AssetsKept'
  BY <1>1 DEF AssetsInv, Assets!AssetsKept, Assets!TypeOK, Assets!Named
<1> QED
  BY <1>1, <1>2 DEF AssetsInv, KeptInv, Used, Assets!Named

LEMMA ArtifactStep ==
  ASSUME AssetsInv, NEW k \in Results, Assets!MaterializeOutput(k) PROVE AssetsInv'
<1>1. /\ k \in results /\ Assets!Store(k) /\ promised' = promised \cup {k}
      /\ UNCHANGED <<messages, turn, queued, retained, admitted, batch, results, save, keep>>
  BY DEF Assets!MaterializeOutput, Assets!inputVars, Assets!saveVars
<1>2. Assets!TypeOK
  BY DEF AssetsInv, Assets!AssetsKept
<1>3. /\ held' = held \cup {k} /\ listing' \subseteq held' /\ raced' \subseteq Images \cup Results
      /\ raced \subseteq raced' \cup {k} /\ (save # "idle" => k \in keep \cup raced')
      /\ save # "idle" => raced \subseteq raced' \cup keep
  BY <1>1, <1>2, Stored
<1>4. Assets!AssetsKept'
  BY <1>1, <1>3 DEF AssetsInv, Assets!AssetsKept, Assets!TypeOK, Assets!Named
<1> QED
  BY <1>1, <1>3, <1>4 DEF AssetsInv, KeptInv, Used, Assets!Named

\* What is named changes hands, or is named no more; the directory stays as it is.
LEMMA NamedStep ==
  ASSUME AssetsInv,
         \/ Assets!EnqueueAdmitted \/ Assets!EnqueueRaises \/ Assets!AcceptQueued \/ Assets!EndBatch
         \/ Assets!Checkpoint \/ Assets!Compact \/ \E i \in Images : Assets!Recall(i)
  PROVE  AssetsInv'
<1> USE DEF Assets!dirVars, Assets!turnVars, Assets!inputVars, Assets!saveVars
<1>1. /\ UNCHANGED <<held, listing, raced, save, keep>> /\ admitted' \in {admitted, {}}
      /\ messages' \subseteq Images /\ turn' \subseteq Images /\ queued' \subseteq Images
      /\ retained' \subseteq Images /\ batch' \subseteq Images
      /\ Assets!Named' \subseteq Assets!Named \cup admitted
      /\ Assets!Named' \subseteq Assets!Named \cup held
      /\ results' \subseteq results /\ promised' \subseteq promised /\ promised' \subseteq results'
  <2> USE DEF AssetsInv, Assets!AssetsKept, Assets!TypeOK, Assets!Named
  <2>1. CASE Assets!EnqueueAdmitted
    BY <2>1 DEF Assets!EnqueueAdmitted
  <2>2. CASE Assets!EnqueueRaises
    BY <2>2 DEF Assets!EnqueueRaises
  <2>3. CASE Assets!AcceptQueued
    BY <2>3 DEF Assets!AcceptQueued
  <2>4. CASE Assets!EndBatch
    BY <2>4 DEF Assets!EndBatch
  <2>5. CASE Assets!Checkpoint
    BY <2>5 DEF Assets!Checkpoint
  <2>6. CASE Assets!Compact
    BY <2>6 DEF Assets!Compact
  <2>7. CASE \E i \in Images : Assets!Recall(i)
    BY <2>7 DEF Assets!Recall
  <2> QED
    BY <2>1, <2>2, <2>3, <2>4, <2>5, <2>6, <2>7
<1>2. Assets!TypeOK'
  BY <1>1 DEF AssetsInv, Assets!AssetsKept, Assets!TypeOK
<1>3. (Assets!Named' \cup promised') \ held' \subseteq raced'
  BY <1>1 DEF AssetsInv, Assets!AssetsKept
<1>4. KeptInv'
  BY <1>1 DEF AssetsInv, KeptInv, Used
<1> QED
  BY <1>2, <1>3, <1>4 DEF AssetsInv, Assets!AssetsKept

\* A save begins: what its plan does not see is in a race with it.
LEMMA BeginSaveStep ==
  ASSUME AssetsInv, Assets!BeginSave PROVE AssetsInv'
<1>1. /\ save' = "write" /\ keep' = messages \cup queued \cup retained \cup results
      /\ raced' = raced \cup ((turn \cup batch \cup admitted) \ keep')
      /\ UNCHANGED <<held, listing, messages, turn, queued, retained, admitted, batch, results, promised>>
  BY DEF Assets!BeginSave, Assets!Unseen, Assets!AssetRefs, Assets!turnVars, Assets!inputVars
<1>2. Assets!AssetsKept'
  BY <1>1 DEF AssetsInv, Assets!AssetsKept, Assets!TypeOK, Assets!Named
<1>3. KeptInv'
  BY <1>1 DEF AssetsInv, KeptInv, Used, Assets!AssetsKept, Assets!TypeOK, Assets!Named
<1> QED
  BY <1>2, <1>3 DEF AssetsInv

\* The sweep takes away what the plan does not keep: of what is used, only what is in a race.
LEMMA SweepStep ==
  ASSUME AssetsInv, Assets!BeginSweep \/ \E a \in Images \cup Results : Assets!Visit(a) PROVE AssetsInv'
<1>1. /\ UNCHANGED <<messages, turn, queued, retained, admitted, batch, results, promised, raced, keep>>
      /\ save # "idle" /\ save' = "sweep" /\ listing' \subseteq held' /\ held' \subseteq held
      /\ held \subseteq held' \cup (held \ keep)
  BY DEF AssetsInv, Assets!AssetsKept, Assets!TypeOK, Assets!BeginSweep, Assets!Visit, Assets!turnVars,
         Assets!inputVars, Assets!saveVars
<1>2. Assets!Named' = Assets!Named /\ Used' = Used
  BY <1>1 DEF Used, Assets!Named
<1>3. Used \subseteq keep \cup raced
  BY <1>1 DEF AssetsInv, KeptInv
<1>4. Assets!TypeOK'
  BY <1>1 DEF AssetsInv, Assets!AssetsKept, Assets!TypeOK
<1>5. (Assets!Named \cup promised) \ held' \subseteq raced
  BY <1>1, <1>3 DEF Used, AssetsInv, Assets!AssetsKept
<1> QED
  BY <1>1, <1>2, <1>3, <1>4, <1>5 DEF AssetsInv, KeptInv, Assets!AssetsKept

\* The save is over, after its sweep, in the middle of it or without one: what is missing stays counted.
LEMMA SaveOverStep ==
  ASSUME AssetsInv, Assets!FailSave \/ Assets!EndSweep PROVE AssetsInv'
<1>1. /\ UNCHANGED <<held, messages, turn, queued, retained, admitted, batch, results, promised>>
      /\ save' = "idle" /\ keep' = {} /\ listing' = {} /\ raced' = raced \ held
  BY DEF Assets!FailSave, Assets!EndSweep, Assets!SaveOver, Assets!turnVars, Assets!inputVars
<1>2. Assets!AssetsKept'
  BY <1>1 DEF AssetsInv, Assets!AssetsKept, Assets!TypeOK, Assets!Named
<1> QED
  BY <1>1, <1>2 DEF AssetsInv, KeptInv

LEMMA AssetsStays ==
  ASSUME AssetsInv, UNCHANGED assetVars PROVE AssetsInv'
BY DEF AssetsInv, KeptInv, Used, assetVars, Assets!AssetsKept, Assets!TypeOK, Assets!Named

LEMMA AssetsSteps ==
  ASSUME AssetsInv, [StoresNext]_<<vars, assetVars, memoryVars, store>> PROVE AssetsInv'
<1>1. CASE UNCHANGED assetVars
  BY <1>1, AssetsStays
<1>2. CASE \/ \E i \in Images : Assets!Admit(i) \/ Assets!Recall(i) \/ Assets!ViewImage(i)
           \/ \E k \in Results : Assets!StoreResult(k) \/ Assets!MaterializeOutput(k)
           \/ Assets!EnqueueAdmitted \/ Assets!EnqueueRaises \/ Assets!AcceptQueued \/ Assets!EndBatch
           \/ Assets!Checkpoint \/ Assets!Compact
           \/ Assets!BeginSave \/ Assets!BeginSweep \/ Assets!FailSave \/ Assets!EndSweep
           \/ \E a \in Images \cup Results : Assets!Visit(a)
  BY <1>2, AdmitStep, ViewStep, ResultStep, ArtifactStep, NamedStep, BeginSaveStep, SweepStep, SaveOverStep
<1> QED
  BY <1>1, <1>2 DEF StoresNext, InCatalog, InSegments, InNotes, InHints

\* AssetsHold: for any images and results and wherever saves overlap with stores, fail or end their
\* sweep early, an image the conversation, the queue, the editor or the batch names, or a result
\* whose marker names a file, is missing from the directory only when it was in a race with a save
\* of its own: no plan could see it when the save began, or it was stored while the save was under
\* way (Session.save_snapshot, _collect_assets).
THEOREM AssetsHold == StoresSpec => []Assets!AssetsKept
<1>1. StoresInit => AssetsInv
  BY AssetsStart DEF StoresInit
<1>2. AssetsInv /\ [StoresNext]_<<vars, assetVars, memoryVars, store>> => AssetsInv'
  BY AssetsSteps
<1>3. AssetsInv => Assets!AssetsKept
  BY DEF AssetsInv
<1> QED
  BY <1>1, <1>2, <1>3, PTL DEF StoresSpec
=============================================================================
