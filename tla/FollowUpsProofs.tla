--------------------------- MODULE FollowUpsProofs ---------------------------
(***************************************************************************)
(* The inputs of FollowUps for any worlds: in every one of them no input   *)
(* is lost and none is delivered twice, and what was recalled in time, or  *)
(* cancelled, is not delivered at all; where saves land and no image can   *)
(* be refused none is stranded.                                            *)
(*                                                                         *)
(* An input is in one place at a time: on its way to the consumer, in its  *)
(* hands, pending, queued, current, said, or gone.  The exception is an    *)
(* input recalled out of a request that went on without it: it is gone and *)
(* may be said, and `late` holds it.                                       *)
(***************************************************************************)
EXTENDS MCFollowUps, FiniteSetTheorems, SequenceTheorems, WellFoundedInduction, TLAPS

\* Where an input can be.
Sent(subs)   == {subs[n].id : n \in {m \in DOMAIN subs : subs[m].kind = "input"}}
InHand(cons) == IF cons.at = "admit" THEN {cons.job[1].id} ELSE {}
QueueIds(q)  == {q[n].id : n \in DOMAIN q}
Taken(i)     == {i} \ {0}
Gone         == editor \cup retracted

Kept(n, c, a, p, q, u, s, g) == 1..n \subseteq c \cup a \cup p \cup q \cup u \cup s \cup g
Apart(c, a, p, q, u, s, g) ==
  /\ c \cap a = {} /\ c \cap p = {} /\ c \cap q = {} /\ c \cap u = {} /\ c \cap s = {} /\ c \cap g = {}
  /\ a \cap p = {} /\ a \cap q = {} /\ a \cap u = {} /\ a \cap s = {} /\ a \cap g = {}
  /\ p \cap q = {} /\ p \cap u = {} /\ p \cap s = {} /\ p \cap g = {}
  /\ q \cap u = {} /\ q \cap s = {} /\ q \cap g = {}
  /\ u \cap s = {} /\ u \cap g = {}

KeptInv == Kept(typed, Sent(submissions), InHand(consumer), Range(pending), QueueIds(queue), Taken(current),
                Range(history) \cup Range(turn), Gone)

\* No place but `gone` has one twice, either.
SentOnce(subs) == \A m, n \in DOMAIN subs :
                    subs[m].kind = "input" /\ subs[n].kind = "input" /\ subs[m].id = subs[n].id => m = n
QueuedOnce(q)  == \A m, n \in DOMAIN q : q[m].id = q[n].id => m = n
OnceInv ==
  /\ Apart(Sent(submissions), InHand(consumer), Range(pending), QueueIds(queue), Taken(current),
           Range(history) \cup Range(turn), Gone)
  /\ SentOnce(submissions) /\ IsInjective(pending) /\ QueuedOnce(queue)
  /\ IsInjective(history) /\ IsInjective(turn) /\ Range(history) \cap Range(turn) = {}

\* What was said was not cancelled, and recalled too late if at all.
FateInv ==
  /\ (Range(history) \cup Range(turn)) \cap retracted = {}
  /\ (Range(history) \cup Range(turn)) \cap editor \subseteq late

\* Types, as far as the ids go only numbers already typed.
Numbers(n)   == 1..n
JobsTo(n)    == {Job(k) : k \in {"save", "boundary", "exit"}} \cup {Input(i) : i \in Numbers(n)}
ItemsTo(n)   == [id : Numbers(n), inflight : BOOLEAN]
RestTo(n)    == [at : {"get", "dead", "gone"}, job : {<<>>}, capture : {{}}]
BusyTo(n)    == [at : {"admit", "save"}, job : {<<j>> : j \in JobsTo(n)}, capture : SUBSET Numbers(n)]
EnginesTo(n) == [at : {"none", "open", "ready", "prepare", "attempt", "over", "backoff", "claimed",
                        "tools"},
                 request : Seq(Numbers(n)), failed : Seq(Numbers(n)), step : Nat, tries : Nat]

WorldInv == /\ world \in Worlds /\ kinds \in Seq(Kinds) /\ typed <= Len(world.kinds)
            /\ \A i \in 1..typed : kinds[i] \in world.kinds[i]
            /\ resends \in 0..world.resends
ContentInv ==
  /\ submissions \in Seq(JobsTo(typed)) /\ consumer \in RestTo(typed) \cup BusyTo(typed)
  /\ pending \in Seq(Numbers(typed)) /\ queue \in Seq(ItemsTo(typed)) /\ current \in 0..typed
  /\ turn \in Seq(Numbers(typed)) /\ checkpoint \in Seq(Numbers(typed)) /\ history \in Seq(Numbers(typed))
  /\ editor \subseteq Numbers(typed) /\ retracted \subseteq Numbers(typed) /\ late \subseteq editor
  /\ confirmed \subseteq Numbers(typed) /\ disk \subseteq Numbers(typed)
  /\ engine \in EnginesTo(typed)

\* An image alone is looked at before it is placed.
HandInv == consumer.at = "admit" =>
             \E i \in 1..typed : consumer.job = <<Input(i)>> /\ kinds[i] = "image"

\* The turn's task, its engine, the input loop and the stage of the shutdown.
PhaseInv ==
  /\ mode \in {"chat", "dispatch", "running", "gone"}
  /\ turnActive \in BOOLEAN /\ cancelPending \in BOOLEAN /\ cancelling \in BOOLEAN
  /\ spoke \in BOOLEAN /\ shutdown \in BOOLEAN
  /\ loop \in {"wait", "admit", "command", "turn", "done"}
  /\ task \in {"none", "engine", "boundary", "placed", "failed"}
  /\ stage \in {"up", "drain", "cancel", "closed"}
  /\ task = "engine" <=> engine.at # "none"
  /\ cancelling => task = "engine"
  /\ current # 0 <=> loop \in {"admit", "command"}
  /\ loop \in {"admit", "command"} => task = "none"
  /\ loop = "wait" /\ ~shutdown => task = "none"
  /\ turnActive => task \in {"engine", "boundary", "failed"}
  /\ loop = "done" <=> stage # "up"
  /\ stage # "up" \/ mode = "gone" => shutdown
  /\ task # "engine" => turn = <<>>
  /\ cancelPending => mode \in {"running", "gone"}
  /\ ~world.savesFail /\ stage = "up" => task # "failed"

\* A consumer that is alive has at most one boundary to come to, that of the turn which waits for it.
Boundaries(subs) == {n \in DOMAIN subs : subs[n].kind = "boundary"}
OneBoundary(subs) == \A m, n \in Boundaries(subs) : m = n
AtBoundary == consumer.at = "save" /\ consumer.job[1].kind = "boundary"
BoundaryInv ==
  consumer.at \notin {"dead", "gone"} =>
    /\ OneBoundary(submissions)
    /\ AtBoundary => Boundaries(submissions) = {}
    /\ AtBoundary \/ Boundaries(submissions) # {} => task = "boundary"

\* What is claimed is carried by the request.
Asking == {"ready", "prepare", "attempt", "over", "backoff", "claimed"}
ClaimInv ==
  \A n \in DOMAIN queue : queue[n].inflight => engine.at \in Asking /\ queue[n].id \in Range(engine.request)

\* What a request carries, and what the turn will commit if it fails, waits in the queue or has been
\* recalled; and it is late for whoever was recalled out of a request that may still be answered.
Dispatched == {"attempt", "over", "backoff", "claimed"}
Awaited    == {"prepare", "attempt", "over", "backoff"}
Carried    == Range(engine.request) \cup Range(engine.failed)
CarryInv ==
  /\ engine.at \in {"open", "tools"} => engine.request = <<>> /\ engine.failed = <<>>
  /\ engine.at \in Asking =>
       /\ IsInjective(engine.request) /\ IsInjective(engine.failed)
       /\ Carried \subseteq QueueIds(queue) \cup editor
       /\ Carried \cap (Range(history) \cup Range(turn) \cup retracted) = {}
  /\ engine.at \in Dispatched => engine.failed = engine.request
  /\ engine.at \in Awaited => Range(engine.request) \cap editor \subseteq late
FlightInv == ClaimInv /\ CarryInv

\* At rest, whoever is left in the queue has somebody before it whose end will flush it; and a
\* submission that has taken the prompt away, which a Ctrl-C may drop, is one more.
Plain == IsMild /\ stage = "up"
Owed  == Sent(submissions) \cup InHand(consumer) \cup Range(pending)
RestInv ==
  Plain /\ queue # <<>> =>
    /\ task = "placed" => pending # <<>>
    /\ task = "none" /\ loop \in {"wait", "turn"} =>
         /\ Owed # {}
         /\ mode \in {"dispatch", "running"} => \E i, j \in Owed : i # j

TypeInv == WorldInv /\ ContentInv /\ HandInv /\ PhaseInv
IInv == TypeInv /\ BoundaryInv /\ FlightInv /\ KeptInv /\ OnceInv /\ FateInv /\ RestInv

-----------------------------------------------------------------------------
(***************************************************************************)
(* The items of a sequence at some places.                                 *)
(***************************************************************************)
\* A set of numbers that is not empty has a least one.
LEMMA Least == ASSUME NEW S \in SUBSET Nat, S # {} PROVE \E x \in S : \A y \in S : x <= y
<1>1. PICK x \in S : \A y \in S : ~(<<y, x>> \in OpToRel(<, Nat))
  BY NatLessThanWellFounded, WFMin
<1>2. ASSUME NEW y \in S, y < x PROVE FALSE
  <2>1. <<y, x>> \in Nat \X Nat
    OBVIOUS
  <2>2. <<y, x>>[1] < <<y, x>>[2]
    BY <1>2
  <2>3. <<y, x>> \in OpToRel(<, Nat)
    BY <2>1, <2>2, Zenon DEF OpToRel
  <2> QED
    BY <2>3, <1>1
<1>3. \A y \in S : x <= y
  BY <1>2
<1> QED
  BY <1>3

\* The n-th of a set of places is one of them.
LEMMA NthPlace == ASSUME NEW L \in Nat, NEW I \in SUBSET (1..L), NEW n \in 1..Cardinality(I)
               PROVE  \E i \in I : Cardinality(I \cap (1..i)) = n
<1> DEFINE C(i) == Cardinality(I \cap (1..i))
           S == {i \in 0..L : C(i) >= n}
<1>1. IsFiniteSet(1..L) /\ IsFiniteSet(I)
  <2>1. IsFiniteSet(1..L)
    BY FS_Interval
  <2> QED
    BY <2>1, FS_Subset
<1>2. \A i \in Nat : IsFiniteSet(I \cap (1..i)) /\ C(i) \in Nat
  <2> SUFFICES ASSUME NEW i \in Nat PROVE IsFiniteSet(I \cap (1..i)) /\ C(i) \in Nat
    OBVIOUS
  <2>1. I \cap (1..i) \in SUBSET I
    OBVIOUS
  <2> QED
    BY <1>1, <2>1, FS_Subset, FS_CardinalityType
<1>3. C(0) = 0
  <2>1. I \cap (1..0) = {}
    OBVIOUS
  <2> QED
    BY <2>1, FS_EmptySet
<1>4. L \in S
  <2>1. I \cap (1..L) = I
    OBVIOUS
  <2>2. C(L) = Cardinality(I) /\ Cardinality(I) \in Nat
    BY <1>1, <2>1, FS_CardinalityType
  <2> QED
    BY <2>2
<1>5. PICK m \in S : \A y \in S : m <= y
  <2>1. S \in SUBSET Nat /\ S # {}
    BY <1>4
  <2> HIDE DEF S
  <2> QED
    BY <2>1, Least
<1>6. m \in 1..L /\ C(m) >= n
  <2>1. m \in 0..L /\ C(m) >= n
    OBVIOUS
  <2>2. m # 0
    BY <1>3, <2>1
  <2> QED
    BY <2>1, <2>2
<1>7. C(m - 1) < n
  <2>1. m - 1 \in 0..L /\ m - 1 < m
    BY <1>6
  <2>2. m - 1 \notin S
    <3> HIDE DEF S
    <3> QED
      BY <1>5, <1>6, <2>1
  <2>3. C(m - 1) \in Nat
    BY <1>2, <1>6
  <2> QED
    BY <2>1, <2>2, <2>3
<1>8. m \in I
  <2> SUFFICES ASSUME m \notin I PROVE FALSE
    OBVIOUS
  <2>1. I \cap (1..m) = I \cap (1..(m - 1))
    BY <1>6
  <2>2. C(m) = C(m - 1)
    BY <2>1
  <2>3. C(m) \in Nat /\ C(m - 1) \in Nat
    BY <1>2, <1>6
  <2> HIDE DEF C
  <2> QED
    BY <1>6, <1>7, <2>2, <2>3
<1>9. C(m) = C(m - 1) + 1
  <2>1. I \cap (1..m) = (I \cap (1..(m - 1))) \cup {m} /\ m \notin I \cap (1..(m - 1))
    BY <1>6, <1>8
  <2>2. IsFiniteSet(I \cap (1..(m - 1)))
    BY <1>2, <1>6
  <2> QED
    BY <2>1, <2>2, FS_AddElement
<1>10. C(m) = n
  <2>1. C(m) \in Nat /\ C(m - 1) \in Nat
    BY <1>2, <1>6
  <2> HIDE DEF C
  <2> QED
    BY <1>6, <1>7, <1>9, <2>1
<1> QED
  BY <1>8, <1>10

\* Each place gives one item, and each item picked comes from one place.
LEMMA PickedFacts ==
  ASSUME NEW S, NEW s \in Seq(S), NEW I \in SUBSET DOMAIN s
  PROVE  /\ Picked(s, I) \in Seq(S)
         /\ \A n \in DOMAIN Picked(s, I) : \E i \in I : Picked(s, I)[n] = s[i] /\ Cardinality(I \cap (1..i)) = n
         /\ \A i \in I : \E n \in DOMAIN Picked(s, I) : Picked(s, I)[n] = s[i]
<1> DEFINE C(i) == Cardinality(I \cap (1..i))
           P == Picked(s, I)
<1>1. Len(s) \in Nat /\ DOMAIN s = 1..Len(s) /\ \A i \in 1..Len(s) : s[i] \in S
  OBVIOUS
<1>2. IsFiniteSet(1..Len(s)) /\ IsFiniteSet(I) /\ Cardinality(I) \in Nat
  <2>1. IsFiniteSet(1..Len(s)) /\ I \in SUBSET (1..Len(s))
    BY <1>1, FS_Interval
  <2> QED
    BY <2>1, FS_Subset, FS_CardinalityType
<1>3. \A n \in 1..Cardinality(I) : \E i \in I : C(i) = n
  BY <1>1, NthPlace
<1>4. DOMAIN P = 1..Cardinality(I)
      /\ \A n \in 1..Cardinality(I) : P[n] = s[CHOOSE i \in I : C(i) = n]
  BY DEF Picked
<1>5. \A n \in 1..Cardinality(I) : \E i \in I : P[n] = s[i] /\ C(i) = n
  <2> HIDE DEF P, C
  <2> QED
    BY <1>3, <1>4
<1>6. P \in Seq(S)
  <2>1. \A n \in 1..Cardinality(I) : P[n] \in S
    BY <1>1, <1>5
  <2>2. P = [n \in 1..Cardinality(I) |-> P[n]]
    BY DEF Picked
  <2> HIDE DEF P
  <2> QED
    BY <1>2, <2>1, <2>2
<1>7. \A i \in I : C(i) \in 1..Cardinality(I)
  <2> SUFFICES ASSUME NEW i \in I PROVE C(i) \in 1..Cardinality(I)
    OBVIOUS
  <2>1. I \cap (1..i) \in SUBSET I /\ i \in I \cap (1..i)
    BY <1>1
  <2>2. IsFiniteSet(I \cap (1..i)) /\ C(i) \in Nat /\ C(i) <= Cardinality(I)
    BY <1>2, <2>1, FS_Subset, FS_CardinalityType
  <2>3. C(i) # 0
    BY <2>1, <2>2, FS_EmptySet
  <2> QED
    BY <2>2, <2>3, <1>2
<1>8. ASSUME NEW i \in I, NEW j \in I, C(i) = C(j) PROVE i = j
  <2>1. ASSUME NEW x \in I, NEW y \in I, x < y PROVE C(x) # C(y)
    <3>1. I \cap (1..x) \in SUBSET (I \cap (1..y)) /\ y \in I \cap (1..y) /\ y \notin I \cap (1..x)
      BY <1>1, <2>1
    <3>2. IsFiniteSet(I \cap (1..y))
      <4>1. I \cap (1..y) \in SUBSET I
        OBVIOUS
      <4> QED
        BY <1>2, <4>1, FS_Subset
    <3>3. I \cap (1..x) # I \cap (1..y)
      BY <3>1
    <3> QED
      BY <3>1, <3>2, <3>3, FS_Subset
  <2>2. i \in Nat /\ j \in Nat
    BY <1>1
  <2>3. CASE i < j
    BY <2>1, <2>3, <1>8
  <2>4. CASE j < i
    BY <2>1, <2>4, <1>8
  <2> QED
    BY <2>2, <2>3, <2>4
<1>9. \A i \in I : P[C(i)] = s[i]
  <2> SUFFICES ASSUME NEW i \in I PROVE P[C(i)] = s[i]
    OBVIOUS
  <2>1. PICK j \in I : P[C(i)] = s[j] /\ C(j) = C(i)
    BY <1>5, <1>7
  <2> QED
    BY <1>8, <2>1
<1> QED
  BY <1>4, <1>5, <1>6, <1>7, <1>9

\* So picking from a queue picks its ids, each once if the queue held it once.
LEMMA PickedQueue ==
  ASSUME NEW n, NEW q \in Seq(ItemsTo(n)), NEW I \in SUBSET DOMAIN q
  PROVE  /\ Picked(q, I) \in Seq(ItemsTo(n))
         /\ QueueIds(Picked(q, I)) = {q[i].id : i \in I}
         /\ QueuedOnce(q) => QueuedOnce(Picked(q, I))
         /\ \A m \in DOMAIN Picked(q, I) : \E i \in I : Picked(q, I)[m] = q[i]
<1>1. /\ Picked(q, I) \in Seq(ItemsTo(n))
      /\ \A m \in DOMAIN Picked(q, I) : \E i \in I : Picked(q, I)[m] = q[i] /\ Cardinality(I \cap (1..i)) = m
      /\ \A i \in I : \E m \in DOMAIN Picked(q, I) : Picked(q, I)[m] = q[i]
  BY PickedFacts
<1>2. QueueIds(Picked(q, I)) = {q[i].id : i \in I}
  <2> DEFINE P == Picked(q, I)
  <2>1. /\ \A m \in DOMAIN P : \E i \in I : P[m] = q[i]
        /\ \A i \in I : \E m \in DOMAIN P : P[m] = q[i]
    BY <1>1
  <2> HIDE DEF P
  <2>2. {P[m].id : m \in DOMAIN P} = {q[i].id : i \in I}
    BY <2>1
  <2> QED
    BY <2>2 DEF P, QueueIds
<1>3. ASSUME QueuedOnce(q), NEW k \in DOMAIN Picked(q, I), NEW m \in DOMAIN Picked(q, I),
             Picked(q, I)[k].id = Picked(q, I)[m].id
      PROVE  k = m
  <2>1. PICK i \in I : Picked(q, I)[k] = q[i] /\ Cardinality(I \cap (1..i)) = k
    BY <1>1
  <2>2. PICK j \in I : Picked(q, I)[m] = q[j] /\ Cardinality(I \cap (1..j)) = m
    BY <1>1
  <2>3. i = j
    BY <1>3, <2>1, <2>2 DEF QueuedOnce
  <2> QED
    BY <2>1, <2>2, <2>3
<1> QED
  BY <1>1, <1>2, <1>3 DEF QueuedOnce

-----------------------------------------------------------------------------
(***************************************************************************)
(* Sequences that grow at the end, or lose an end.                         *)
(***************************************************************************)
LEMMA AppendRange ==
  ASSUME NEW S, NEW s \in Seq(S), NEW x \in S
  PROVE  /\ Append(s, x) \in Seq(S) /\ Append(s, x) # <<>>
         /\ Range(Append(s, x)) = Range(s) \cup {x}
         /\ IsInjective(s) /\ x \notin Range(s) => IsInjective(Append(s, x))
<1>1. /\ Append(s, x) \in Seq(S) /\ Len(s) \in Nat /\ DOMAIN s = 1..Len(s)
      /\ DOMAIN Append(s, x) = 1..(Len(s) + 1)
      /\ Append(s, x)[Len(s) + 1] = x /\ \A n \in 1..Len(s) : Append(s, x)[n] = s[n]
  OBVIOUS
<1> DEFINE t == Append(s, x)
<1> HIDE DEF t
<1>2. t # <<>>
  BY <1>1 DEF t
<1>3. Range(t) = Range(s) \cup {x}
  <2>1. \A y : y \in Range(t) <=> y \in Range(s) \/ y = x
    BY <1>1 DEF Range, t
  <2> QED
    BY <2>1
<1>4. ASSUME IsInjective(s), x \notin Range(s) PROVE IsInjective(t)
  <2>1. \A n \in 1..Len(s) : s[n] # x
    BY <1>1, <1>4 DEF Range
  <2>2. \A m, n \in 1..Len(s) : s[m] = s[n] => m = n
    BY <1>1, <1>4 DEF IsInjective
  <2> QED
    BY <1>1, <2>1, <2>2 DEF IsInjective, t
<1> QED
  BY <1>1, <1>2, <1>3, <1>4 DEF t

LEMMA RangeIn == ASSUME NEW S, NEW s \in Seq(S) PROVE Range(s) \subseteq S
<1>1. \A n \in DOMAIN s : s[n] \in S
  OBVIOUS
<1> QED
  BY <1>1 DEF Range

LEMMA ConcatRange ==
  ASSUME NEW S, NEW s \in Seq(S), NEW t \in Seq(S)
  PROVE  /\ s \o t \in Seq(S)
         /\ Range(s \o t) = Range(s) \cup Range(t)
         /\ IsInjective(s) /\ IsInjective(t) /\ Range(s) \cap Range(t) = {} => IsInjective(s \o t)
<1>1. /\ s \o t \in Seq(S) /\ Len(s) \in Nat /\ Len(t) \in Nat /\ DOMAIN s = 1..Len(s) /\ DOMAIN t = 1..Len(t)
      /\ DOMAIN (s \o t) = 1..(Len(s) + Len(t))
      /\ \A n \in 1..Len(s) : (s \o t)[n] = s[n]
      /\ \A n \in 1..(Len(s) + Len(t)) : n > Len(s) => (s \o t)[n] = t[n - Len(s)]
  OBVIOUS
<1> DEFINE u == s \o t
<1> HIDE DEF u
<1>2. \A n \in 1..Len(t) : n + Len(s) \in 1..(Len(s) + Len(t)) /\ n + Len(s) > Len(s) /\ (n + Len(s)) - Len(s) = n
  BY <1>1
<1>3. \A n \in 1..Len(t) : u[n + Len(s)] = t[n]
  BY <1>1, <1>2 DEF u
<1>4. \A n \in 1..(Len(s) + Len(t)) : n > Len(s) => n - Len(s) \in 1..Len(t)
  BY <1>1
<1>5. Range(u) = Range(s) \cup Range(t)
  <2>1. \A n \in DOMAIN u : u[n] \in Range(s) \cup Range(t)
    <3> SUFFICES ASSUME NEW n \in DOMAIN u PROVE u[n] \in Range(s) \cup Range(t)
      OBVIOUS
    <3>1. CASE n <= Len(s)
      BY <1>1, <3>1 DEF Range, u
    <3>2. CASE ~(n <= Len(s))
      <4>1. n > Len(s) /\ n \in 1..(Len(s) + Len(t))
        BY <1>1, <3>2 DEF u
      <4>2. u[n] = t[n - Len(s)] /\ n - Len(s) \in DOMAIN t
        BY <1>1, <1>4, <4>1 DEF u
      <4> QED
        BY <4>2 DEF Range
    <3> QED
      BY <3>1, <3>2
  <2>2. \A n \in DOMAIN s : s[n] \in Range(u)
    BY <1>1 DEF Range, u
  <2>3. \A n \in DOMAIN t : t[n] \in Range(u)
    BY <1>1, <1>2, <1>3 DEF Range, u
  <2> QED
    BY <2>1, <2>2, <2>3 DEF Range
<1>6. ASSUME IsInjective(s), IsInjective(t), Range(s) \cap Range(t) = {},
             NEW m \in DOMAIN u, NEW n \in DOMAIN u, u[m] = u[n]
      PROVE  m = n
  <2>1. m \in 1..(Len(s) + Len(t)) /\ n \in 1..(Len(s) + Len(t))
    BY <1>1 DEF u
  <2>2. ASSUME NEW x \in 1..(Len(s) + Len(t)), NEW y \in 1..(Len(s) + Len(t)), x <= Len(s), y > Len(s)
        PROVE  u[x] # u[y]
    <3>1. u[x] = s[x] /\ x \in DOMAIN s /\ u[y] = t[y - Len(s)] /\ y - Len(s) \in DOMAIN t
      BY <1>1, <1>4, <2>2 DEF u
    <3> QED
      BY <1>6, <3>1 DEF Range
  <2>3. CASE m <= Len(s) /\ n <= Len(s)
    <3>1. m \in DOMAIN s /\ n \in DOMAIN s /\ s[m] = s[n]
      BY <1>1, <1>6, <2>1, <2>3 DEF u
    <3> QED
      BY <1>6, <3>1 DEF IsInjective
  <2>4. CASE m > Len(s) /\ n > Len(s)
    <3>1. u[m] = t[m - Len(s)] /\ u[n] = t[n - Len(s)] /\ m - Len(s) \in DOMAIN t /\ n - Len(s) \in DOMAIN t
      BY <1>1, <1>4, <2>1, <2>4 DEF u
    <3>2. m - Len(s) = n - Len(s)
      BY <1>6, <3>1 DEF IsInjective
    <3> QED
      BY <1>1, <2>1, <3>2
  <2>5. ~(m <= Len(s) /\ n > Len(s)) /\ ~(n <= Len(s) /\ m > Len(s))
    BY <1>6, <2>1, <2>2
  <2> QED
    BY <1>1, <2>1, <2>3, <2>4, <2>5
<1> QED
  BY <1>1, <1>5, <1>6 DEF u, IsInjective

LEMMA TailRange ==
  ASSUME NEW S, NEW s \in Seq(S), s # <<>>
  PROVE  /\ Head(s) \in S /\ Tail(s) \in Seq(S)
         /\ Range(s) = Range(Tail(s)) \cup {Head(s)}
         /\ IsInjective(s) => IsInjective(Tail(s)) /\ Head(s) \notin Range(Tail(s))
<1>1. /\ Head(s) \in S /\ Tail(s) \in Seq(S) /\ Len(s) \in Nat \ {0} /\ DOMAIN s = 1..Len(s)
      /\ Len(Tail(s)) = Len(s) - 1 /\ DOMAIN Tail(s) = 1..(Len(s) - 1)
      /\ Head(s) = s[1] /\ \A n \in 1..(Len(s) - 1) : Tail(s)[n] = s[n + 1]
  OBVIOUS
<1> DEFINE t == Tail(s)
<1> HIDE DEF t
<1>2. \A n \in 1..(Len(s) - 1) : n + 1 \in 1..Len(s) /\ n + 1 # 1
  BY <1>1
<1>3. \A n \in 1..Len(s) : n = 1 \/ (n - 1 \in 1..(Len(s) - 1) /\ (n - 1) + 1 = n)
  BY <1>1
<1>4. Range(s) = Range(t) \cup {Head(s)}
  <2>1. \A n \in DOMAIN s : s[n] \in Range(t) \cup {Head(s)}
    <3> SUFFICES ASSUME NEW n \in DOMAIN s, n # 1 PROVE s[n] \in Range(t)
      BY <1>1
    <3>1. n - 1 \in DOMAIN t /\ t[n - 1] = s[(n - 1) + 1] /\ (n - 1) + 1 = n
      BY <1>1, <1>3 DEF t
    <3> QED
      BY <3>1 DEF Range
  <2>2. \A n \in DOMAIN t : t[n] \in Range(s)
    BY <1>1, <1>2 DEF Range, t
  <2> QED
    BY <1>1, <2>1, <2>2 DEF Range
<1>5. ASSUME IsInjective(s) PROVE IsInjective(t) /\ Head(s) \notin Range(t)
  <2>1. \A m, n \in 1..Len(s) : s[m] = s[n] => m = n
    BY <1>1, <1>5 DEF IsInjective
  <2>2. 1 \in 1..Len(s)
    BY <1>1
  <2>3. \A n \in 1..(Len(s) - 1) : s[n + 1] # Head(s)
    BY <1>1, <1>2, <2>1, <2>2
  <2>4. \A m, n \in 1..(Len(s) - 1) : s[m + 1] = s[n + 1] => m + 1 = n + 1
    BY <1>2, <2>1
  <2> QED
    BY <1>1, <2>3, <2>4 DEF IsInjective, Range, t
<1> QED
  BY <1>1, <1>4, <1>5 DEF t

-----------------------------------------------------------------------------
(***************************************************************************)
(* The consumer's queue.                                                   *)
(***************************************************************************)
SentBy(job) == IF job.kind = "input" THEN {job.id} ELSE {}

LEMMA JobTypes ==
  ASSUME NEW n, NEW j \in JobsTo(n)
  PROVE  /\ j.kind \in {"input", "save", "boundary", "exit"}
         /\ j.kind = "input" => j = Input(j.id) /\ j.id \in Numbers(n)
         /\ j.kind # "input" => j.id = 0
BY DEF JobsTo, Job, Input

LEMMA SubsAppend ==
  ASSUME NEW n, NEW s \in Seq(JobsTo(n)), NEW j \in JobsTo(n)
  PROVE  /\ Append(s, j) \in Seq(JobsTo(n))
         /\ Sent(Append(s, j)) = Sent(s) \cup SentBy(j)
         /\ SentOnce(s) /\ SentBy(j) \cap Sent(s) = {} => SentOnce(Append(s, j))
         /\ j.kind # "boundary" => Boundaries(Append(s, j)) = Boundaries(s)
         /\ Boundaries(s) = {} => OneBoundary(Append(s, j))
<1>1. /\ Append(s, j) \in Seq(JobsTo(n)) /\ Len(s) \in Nat /\ DOMAIN s = 1..Len(s)
      /\ DOMAIN Append(s, j) = 1..(Len(s) + 1)
      /\ Append(s, j)[Len(s) + 1] = j /\ \A x \in 1..Len(s) : Append(s, j)[x] = s[x]
  OBVIOUS
<1> DEFINE t == Append(s, j)
<1> HIDE DEF t
<1>2. \A x \in DOMAIN t : (x \in DOMAIN s /\ t[x] = s[x]) \/ (x = Len(s) + 1 /\ t[x] = j)
  <2> SUFFICES ASSUME NEW x \in DOMAIN t, x # Len(s) + 1 PROVE x \in DOMAIN s /\ t[x] = s[x]
    BY <1>1 DEF t
  <2> QED
    BY <1>1 DEF t
<1>3. Len(s) + 1 \in DOMAIN t /\ t[Len(s) + 1] = j /\ Len(s) + 1 \notin DOMAIN s /\ \A x \in DOMAIN s : x \in DOMAIN t /\ t[x] = s[x]
  BY <1>1 DEF t
<1>4. Sent(t) = Sent(s) \cup SentBy(j)
  <2>1. \A x \in DOMAIN t : t[x].kind = "input" => t[x].id \in Sent(s) \cup SentBy(j)
    BY <1>2 DEF Sent, SentBy
  <2>2. \A x \in DOMAIN s : s[x].kind = "input" => s[x].id \in Sent(t)
    BY <1>3 DEF Sent
  <2>3. SentBy(j) \subseteq Sent(t)
    BY <1>3 DEF Sent, SentBy
  <2> QED
    BY <2>1, <2>2, <2>3 DEF Sent
<1>5. ASSUME SentOnce(s), SentBy(j) \cap Sent(s) = {} PROVE SentOnce(t)
  <2>1. ASSUME NEW x \in DOMAIN s, s[x].kind = "input", j.kind = "input" PROVE s[x].id # j.id
    BY <1>5, <2>1 DEF Sent, SentBy
  <2> QED
    BY <1>2, <1>5, <2>1 DEF SentOnce
<1>6. j.kind # "boundary" => Boundaries(t) = Boundaries(s)
  BY <1>2, <1>3 DEF Boundaries
<1>7. Boundaries(s) = {} => OneBoundary(t)
  BY <1>2 DEF Boundaries, OneBoundary
<1> QED
  BY <1>1, <1>4, <1>5, <1>6, <1>7 DEF t

LEMMA SubsTail ==
  ASSUME NEW n, NEW s \in Seq(JobsTo(n)), s # <<>>
  PROVE  /\ Head(s) \in JobsTo(n) /\ Tail(s) \in Seq(JobsTo(n))
         /\ Sent(s) = Sent(Tail(s)) \cup SentBy(Head(s))
         /\ SentOnce(s) => SentOnce(Tail(s)) /\ SentBy(Head(s)) \cap Sent(Tail(s)) = {}
         /\ OneBoundary(s) => /\ OneBoundary(Tail(s))
                              /\ Head(s).kind = "boundary" => Boundaries(Tail(s)) = {}
         /\ Boundaries(Tail(s)) # {} \/ Head(s).kind = "boundary" => Boundaries(s) # {}
<1>1. /\ Head(s) \in JobsTo(n) /\ Tail(s) \in Seq(JobsTo(n)) /\ Len(s) \in Nat \ {0} /\ DOMAIN s = 1..Len(s)
      /\ Len(Tail(s)) = Len(s) - 1 /\ DOMAIN Tail(s) = 1..(Len(s) - 1)
      /\ Head(s) = s[1] /\ \A x \in 1..(Len(s) - 1) : Tail(s)[x] = s[x + 1]
  OBVIOUS
<1> DEFINE t == Tail(s)
           h == Head(s)
<1> HIDE DEF t, h
<1>2. \A x \in DOMAIN t : x + 1 \in DOMAIN s /\ x + 1 # 1 /\ t[x] = s[x + 1]
  BY <1>1 DEF t
<1>3. \A x \in DOMAIN s : (x = 1 /\ s[x] = h) \/ \E y \in DOMAIN t : s[x] = t[y] /\ x = y + 1
  <2> SUFFICES ASSUME NEW x \in DOMAIN s, x # 1 PROVE \E y \in DOMAIN t : s[x] = t[y] /\ x = y + 1
    BY <1>1 DEF h
  <2>1. x - 1 \in DOMAIN t /\ (x - 1) + 1 = x
    BY <1>1 DEF t
  <2> QED
    BY <1>2, <2>1
<1>4. 1 \in DOMAIN s /\ s[1] = h
  BY <1>1 DEF h
<1>5. Sent(s) = Sent(t) \cup SentBy(h)
  <2>1. \A x \in DOMAIN s : s[x].kind = "input" => s[x].id \in Sent(t) \cup SentBy(h)
    BY <1>3 DEF Sent, SentBy
  <2>2. \A x \in DOMAIN t : t[x].kind = "input" => t[x].id \in Sent(s)
    BY <1>2 DEF Sent
  <2>3. SentBy(h) \subseteq Sent(s)
    BY <1>4 DEF Sent, SentBy
  <2> QED
    BY <2>1, <2>2, <2>3 DEF Sent
<1>6. ASSUME SentOnce(s) PROVE SentOnce(t) /\ SentBy(h) \cap Sent(t) = {}
  <2>1. ASSUME NEW x \in DOMAIN t, t[x].kind = "input", h.kind = "input" PROVE t[x].id # h.id
    BY <1>2, <1>4, <1>6, <2>1 DEF SentOnce
  <2>2. ASSUME NEW x \in DOMAIN t, NEW y \in DOMAIN t, t[x].kind = "input", t[y].kind = "input", t[x].id = t[y].id
        PROVE  x = y
    <3>1. x + 1 = y + 1
      BY <1>2, <1>6, <2>2 DEF SentOnce
    <3> QED
      BY <1>1, <3>1 DEF t
  <2>3. SentBy(h) \cap Sent(t) = {}
    BY <2>1 DEF SentBy, Sent
  <2> QED
    BY <2>2, <2>3 DEF SentOnce
<1>7. ASSUME OneBoundary(s)
      PROVE  /\ OneBoundary(t)
             /\ h.kind = "boundary" => Boundaries(t) = {}
  <2>1. \A x \in Boundaries(t) : x + 1 \in Boundaries(s) /\ x + 1 # 1 /\ x \in Int
    BY <1>1, <1>2 DEF Boundaries, t
  <2>2. \A x, y \in Boundaries(t) : x + 1 = y + 1 /\ x \in Int /\ y \in Int
    BY <1>7, <2>1 DEF OneBoundary
  <2>3. h.kind = "boundary" => 1 \in Boundaries(s)
    BY <1>4 DEF Boundaries
  <2> QED
    BY <1>7, <2>1, <2>2, <2>3 DEF OneBoundary
<1>8. Boundaries(t) # {} \/ h.kind = "boundary" => Boundaries(s) # {}
  BY <1>2, <1>4 DEF Boundaries
<1> QED
  BY <1>1, <1>5, <1>6, <1>7, <1>8 DEF t, h

-----------------------------------------------------------------------------
(***************************************************************************)
(* The session's queue.                                                    *)
(***************************************************************************)
LEMMA IdsRange == ASSUME NEW n, NEW q \in Seq(ItemsTo(n))
                  PROVE  /\ Range(Ids(q)) = QueueIds(q) /\ QueueIds(q) \subseteq Numbers(n)
                         /\ Ids(q) \in Seq(Numbers(n))
                         /\ QueuedOnce(q) => IsInjective(Ids(q))
<1>0. Len(q) \in Nat /\ DOMAIN q = 1..Len(q) /\ \A m \in DOMAIN q : q[m] \in ItemsTo(n)
  OBVIOUS
<1>1. DOMAIN Ids(q) = DOMAIN q /\ \A m \in DOMAIN q : Ids(q)[m] = q[m].id /\ q[m].id \in Numbers(n)
  BY <1>0 DEF Ids, ItemsTo
<1>2. Ids(q) \in Seq(Numbers(n))
  <2>1. Ids(q) = [m \in 1..Len(q) |-> Ids(q)[m]]
    BY <1>0 DEF Ids
  <2> QED
    BY <1>0, <1>1, <2>1
<1> QED
  BY <1>1, <1>2 DEF Range, QueueIds, QueuedOnce, IsInjective

LEMMA QueueAppend ==
  ASSUME NEW n, NEW q \in Seq(ItemsTo(n)), NEW i \in Numbers(n)
  PROVE  /\ Append(q, Queued(i)) \in Seq(ItemsTo(n))
         /\ QueueIds(Append(q, Queued(i))) = QueueIds(q) \cup {i}
         /\ QueuedOnce(q) /\ i \notin QueueIds(q) => QueuedOnce(Append(q, Queued(i)))
         /\ \A m \in DOMAIN Append(q, Queued(i)) :
              Append(q, Queued(i))[m] = Queued(i) \/ \E k \in DOMAIN q : Append(q, Queued(i))[m] = q[k]
<1>1. Queued(i) \in ItemsTo(n) /\ Queued(i).id = i
  BY DEF Queued, ItemsTo
<1> DEFINE x == Queued(i)
           t == Append(q, x)
<1> HIDE DEF x
<1>2. /\ t \in Seq(ItemsTo(n)) /\ Len(q) \in Nat /\ DOMAIN q = 1..Len(q)
      /\ DOMAIN t = 1..(Len(q) + 1)
      /\ t[Len(q) + 1] = x /\ \A m \in 1..Len(q) : t[m] = q[m]
  BY <1>1 DEF x
<1> HIDE DEF t
<1>3. \A m \in DOMAIN t : (m \in DOMAIN q /\ t[m] = q[m]) \/ (m = Len(q) + 1 /\ t[m] = x)
  <2> SUFFICES ASSUME NEW m \in DOMAIN t, m # Len(q) + 1 PROVE m \in DOMAIN q /\ t[m] = q[m]
    BY <1>2
  <2> QED
    BY <1>2
<1>4. Len(q) + 1 \in DOMAIN t /\ \A m \in DOMAIN q : m \in DOMAIN t /\ t[m] = q[m]
  BY <1>2
<1>5. x.id = i
  BY <1>1 DEF x
<1>6. QueueIds(t) = QueueIds(q) \cup {i}
  <2>1. \A m \in DOMAIN t : t[m].id \in QueueIds(q) \cup {i}
    BY <1>3, <1>5 DEF QueueIds
  <2>2. \A m \in DOMAIN q : q[m].id \in QueueIds(t)
    BY <1>4 DEF QueueIds
  <2>3. i \in QueueIds(t)
    BY <1>2, <1>4, <1>5 DEF QueueIds
  <2> QED
    BY <2>1, <2>2, <2>3 DEF QueueIds
<1>7. ASSUME QueuedOnce(q), i \notin QueueIds(q) PROVE QueuedOnce(t)
  <2>1. \A m \in DOMAIN q : q[m].id # i
    BY <1>7 DEF QueueIds
  <2> QED
    BY <1>3, <1>5, <1>7, <2>1 DEF QueuedOnce
<1> QED
  BY <1>2, <1>3, <1>6, <1>7 DEF t, x

\* Up takes the last item; if it was claimed, the others are not claimed any more.
LEMMA QueueRecall ==
  ASSUME NEW n, NEW q \in Seq(ItemsTo(n)), q # <<>>,
         NEW t, t = [m \in 1..(Len(q) - 1) |-> IF Last(q).inflight THEN Queued(q[m].id) ELSE q[m]]
  PROVE  /\ Last(q) \in ItemsTo(n) /\ t \in Seq(ItemsTo(n))
         /\ \E k \in DOMAIN q : Last(q) = q[k]
         /\ QueueIds(q) = QueueIds(t) \cup {Last(q).id}
         /\ QueuedOnce(q) => QueuedOnce(t) /\ Last(q).id \notin QueueIds(t)
         /\ \A m \in DOMAIN t : /\ m \in DOMAIN q
                                /\ Last(q).inflight => ~t[m].inflight
                                /\ ~Last(q).inflight => t[m] = q[m]
<1>1. Len(q) \in Nat \ {0} /\ DOMAIN q = 1..Len(q) /\ \A m \in DOMAIN q : q[m] \in ItemsTo(n)
  OBVIOUS
<1>2. Last(q) = q[Len(q)] /\ Last(q) \in ItemsTo(n) /\ Len(q) \in DOMAIN q
  BY <1>1 DEF Last
<1>3. /\ Len(q) - 1 \in Nat /\ DOMAIN t = 1..(Len(q) - 1)
      /\ \A m \in DOMAIN t : m \in DOMAIN q /\ m # Len(q)
      /\ \A m \in DOMAIN q : m \in DOMAIN t \/ m = Len(q)
  <2>1. Len(q) - 1 \in Nat /\ DOMAIN t = 1..(Len(q) - 1)
    BY <1>1
  <2>2. \A L \in Nat \ {0} : \A m \in Int : m \in 1..L <=> m \in 1..(L - 1) \/ m = L
    OBVIOUS
  <2>3. \A L \in Nat \ {0} : L \notin 1..(L - 1)
    OBVIOUS
  <2>4. \A m \in Int : m \in DOMAIN q <=> m \in DOMAIN t \/ m = Len(q)
    BY <1>1, <2>1, <2>2
  <2>5. DOMAIN q \subseteq Int /\ DOMAIN t \subseteq Int /\ Len(q) \notin DOMAIN t
    BY <1>1, <2>1, <2>3
  <2> QED
    BY <2>1, <2>4, <2>5
<1>4. \A m \in DOMAIN t : /\ t[m] \in ItemsTo(n) /\ t[m].id = q[m].id
                          /\ Last(q).inflight => ~t[m].inflight
                          /\ ~Last(q).inflight => t[m] = q[m]
  <2> SUFFICES ASSUME NEW m \in DOMAIN t
               PROVE  /\ t[m] \in ItemsTo(n) /\ t[m].id = q[m].id
                      /\ Last(q).inflight => ~t[m].inflight
                      /\ ~Last(q).inflight => t[m] = q[m]
    OBVIOUS
  <2>1. q[m] \in ItemsTo(n)
    BY <1>1, <1>3
  <2>2. Queued(q[m].id) \in ItemsTo(n) /\ Queued(q[m].id).id = q[m].id /\ ~Queued(q[m].id).inflight
    BY <2>1 DEF Queued, ItemsTo
  <2>3. CASE Last(q).inflight
    BY <2>2, <2>3, <1>3
  <2>4. CASE ~Last(q).inflight
    BY <2>1, <2>4, <1>3
  <2> QED
    BY <2>3, <2>4
<1>5. t \in Seq(ItemsTo(n))
  <2>1. t = [m \in 1..(Len(q) - 1) |-> t[m]]
    BY <1>3
  <2> QED
    BY <1>3, <1>4, <2>1
<1>6. QueueIds(q) = QueueIds(t) \cup {Last(q).id}
  <2>1. \A m \in DOMAIN q : q[m].id \in {t[k].id : k \in DOMAIN t} \cup {Last(q).id}
    BY <1>2, <1>3, <1>4
  <2>2. \A m \in DOMAIN t : t[m].id \in {q[k].id : k \in DOMAIN q}
    BY <1>3, <1>4
  <2>3. Last(q).id \in {q[k].id : k \in DOMAIN q}
    BY <1>2
  <2>4. QueueIds(q) \subseteq QueueIds(t) \cup {Last(q).id}
    BY <2>1 DEF QueueIds
  <2>5. QueueIds(t) \subseteq QueueIds(q) /\ Last(q).id \in QueueIds(q)
    BY <2>2, <2>3 DEF QueueIds
  <2> QED
    BY <2>4, <2>5
<1>7. QueuedOnce(q) => QueuedOnce(t) /\ Last(q).id \notin QueueIds(t)
  BY <1>2, <1>3, <1>4 DEF QueuedOnce, QueueIds
<1> QED
  BY <1>2, <1>3, <1>4, <1>5, <1>6, <1>7

LEMMA QueueFlags ==
  ASSUME NEW n, NEW q \in Seq(ItemsTo(n)), NEW t, t = [m \in DOMAIN q |-> t[m]],
         \A m \in DOMAIN q : t[m] \in ItemsTo(n) /\ t[m].id = q[m].id
  PROVE  /\ t \in Seq(ItemsTo(n)) /\ DOMAIN t = DOMAIN q /\ \A m \in DOMAIN q : t[m].id = q[m].id
         /\ QueueIds(t) = QueueIds(q) /\ (QueuedOnce(q) => QueuedOnce(t))
<1>1. Len(q) \in Nat /\ DOMAIN q = 1..Len(q) /\ \A m \in DOMAIN q : q[m] \in ItemsTo(n)
  OBVIOUS
<1>2. DOMAIN t = 1..Len(q) /\ \A m \in DOMAIN q : t[m] \in ItemsTo(n) /\ t[m].id = q[m].id
  BY <1>1
<1>3. t = [m \in 1..Len(q) |-> t[m]]
  BY <1>1, <1>2
<1>4. t \in Seq(ItemsTo(n))
  BY <1>1, <1>2, <1>3
<1> QED
  BY <1>1, <1>2, <1>4 DEF QueueIds, QueuedOnce

\* A flush of a queue in which nothing is claimed.
LEMMA FlushFacts ==
  ASSUME NEW n, queue \in Seq(ItemsTo(n)), pending \in Seq(Numbers(n)),
         \A m \in DOMAIN queue : ~queue[m].inflight, Flush
  PROVE  /\ queue' \in Seq(ItemsTo(n)) /\ \A m \in DOMAIN queue' : ~queue'[m].inflight
         /\ \/ queue = <<>> /\ pending' = pending /\ queue' = queue
            \/ \E i \in Numbers(n) : /\ pending' = Append(pending, i)
                                     /\ QueueIds(queue) = QueueIds(queue') \cup {i}
                                     /\ QueuedOnce(queue) => QueuedOnce(queue') /\ i \notin QueueIds(queue')
<1>1. Len(queue) \in Nat /\ DOMAIN queue = 1..Len(queue) /\ \A m \in DOMAIN queue : queue[m] \in ItemsTo(n)
  OBVIOUS
<1>2. Waiting(queue) = DOMAIN queue
  BY DEF Waiting
<1>3. CASE DOMAIN queue = {}
  <2>1. queue = <<>>
    BY <1>1, <1>3
  <2>2. UNCHANGED <<world, pending, queue>>
    BY <1>2, <1>3 DEF Flush
  <2> QED
    BY <2>1, <2>2
<1>4. CASE DOMAIN queue # {}
  <2> DEFINE next == CHOOSE k \in DOMAIN queue : \A m \in DOMAIN queue : k <= m
             rest == Picked(queue, DOMAIN queue \ {next})
             none == Picked(queue, {})
  <2>1. \E k \in DOMAIN queue : \A m \in DOMAIN queue : k <= m
    <3>1. DOMAIN queue \in SUBSET Nat
      BY <1>1
    <3> QED
      BY <3>1, <1>4, Least
  <2>2. next \in DOMAIN queue
    BY <2>1
  <2>3. pending' = Append(pending, queue[next].id) /\ queue' = none \o rest
    BY <1>2, <1>4 DEF Flush
  <2> HIDE DEF next
  <2>4. none = <<>>
    <3>1. none \in Seq(ItemsTo(n)) /\ \A m \in DOMAIN none : \E i \in {} : none[m] = queue[i]
      <4>1. {} \in SUBSET DOMAIN queue
        OBVIOUS
      <4> QED
        BY <4>1, PickedQueue
    <3> HIDE DEF none
    <3>2. Len(none) \in Nat /\ DOMAIN none = 1..Len(none)
      BY <3>1
    <3>3. DOMAIN none = {}
      BY <3>1
    <3>4. Len(none) = 0
      BY <3>2, <3>3
    <3> QED
      BY <3>1, <3>4
  <2>5. /\ rest \in Seq(ItemsTo(n))
        /\ QueueIds(rest) = {queue[i].id : i \in DOMAIN queue \ {next}}
        /\ QueuedOnce(queue) => QueuedOnce(rest)
        /\ \A m \in DOMAIN rest : \E i \in DOMAIN queue \ {next} : rest[m] = queue[i]
    <3> DEFINE others == DOMAIN queue \ {next}
    <3>1. others \in SUBSET DOMAIN queue
      OBVIOUS
    <3> HIDE DEF others, rest
    <3>2. rest = Picked(queue, others)
      BY DEF others, rest
    <3>3. /\ rest \in Seq(ItemsTo(n))
          /\ QueueIds(rest) = {queue[i].id : i \in others}
          /\ QueuedOnce(queue) => QueuedOnce(rest)
          /\ \A m \in DOMAIN rest : \E i \in others : rest[m] = queue[i]
      BY <3>1, <3>2, PickedQueue
    <3> QED
      BY <3>3 DEF others
  <2> HIDE DEF rest, none
  <2>6. queue' = rest
    BY <2>3, <2>4, <2>5
  <2>7. queue[next].id \in Numbers(n)
    BY <1>1, <2>2 DEF ItemsTo
  <2>8. QueueIds(queue) = QueueIds(rest) \cup {queue[next].id}
    BY <2>2, <2>5 DEF QueueIds
  <2>9. QueuedOnce(queue) => queue[next].id \notin QueueIds(rest)
    BY <2>2, <2>5 DEF QueuedOnce
  <2>10. \A m \in DOMAIN rest : ~rest[m].inflight
    BY <2>5
  <2> QED
    BY <2>3, <2>5, <2>6, <2>7, <2>8, <2>9, <2>10
<1> QED
  BY <1>3, <1>4

-----------------------------------------------------------------------------
(***************************************************************************)
(* What a step leaves alone.                                               *)
(***************************************************************************)
LEMMA HandSame ==
  ASSUME ContentInv, HandInv, consumer' = consumer, kinds' = kinds
  PROVE  HandInv'
BY DEF HandInv, typed

LEMMA BoundarySame ==
  ASSUME BoundaryInv, UNCHANGED <<submissions, consumer>>, task = "boundary" => task' = "boundary"
  PROVE  BoundaryInv'
BY DEF BoundaryInv, AtBoundary

LEMMA FlightSame ==
  ASSUME FlightInv, UNCHANGED <<queue, engine, history, turn, editor, retracted, late>>
  PROVE  FlightInv'
BY DEF FlightInv, ClaimInv, CarryInv, Carried

\* Outside the turn's task nothing is claimed and nothing is carried.
LEMMA FlightAway ==
  ASSUME engine'.at = "none", \A n \in DOMAIN queue' : ~queue'[n].inflight
  PROVE  FlightInv'
BY DEF FlightInv, ClaimInv, CarryInv, Asking, Dispatched, Awaited

\* A step of the request that leaves queue, conversation and editor alone.
LEMMA FlightMoves ==
  ASSUME FlightInv, UNCHANGED <<queue, history, turn, editor, retracted, late>>,
         engine.at \in Asking, engine'.at \in Asking, engine'.request = engine.request,
         engine'.failed \in {engine.failed, engine.request},
         engine'.at \in Dispatched => engine'.failed = engine'.request,
         engine'.at \in Awaited => engine.at \in Awaited
  PROVE  FlightInv'
<1>1. ClaimInv'
  BY DEF FlightInv, ClaimInv
<1>2. Carried' \subseteq Carried
  BY DEF Carried
<1>3. CarryInv'
  BY <1>2 DEF FlightInv, CarryInv, Asking
<1> QED
  BY <1>1, <1>3 DEF FlightInv

LEMMA PlacesSame ==
  ASSUME KeptInv, OnceInv, FateInv,
         UNCHANGED <<kinds, pending, current, history, turn, editor, retracted, late>>,
         Sent(submissions') = Sent(submissions), SentOnce(submissions) => SentOnce(submissions'),
         InHand(consumer') = InHand(consumer),
         QueueIds(queue') = QueueIds(queue), QueuedOnce(queue) => QueuedOnce(queue')
  PROVE  KeptInv' /\ OnceInv' /\ FateInv'
BY DEF KeptInv, OnceInv, FateInv, Gone, typed

LEMMA RestSame ==
  ASSUME RestInv, UNCHANGED <<world, stage, pending, loop, task>>,
         Owed' = Owed, queue' # <<>> => queue # <<>>,
         mode' \in {"dispatch", "running"} => mode \in {"dispatch", "running"}
  PROVE  RestInv'
BY DEF RestInv, Plain, IsMild

\* While the turn's task is out, or in a command, nothing is owed.
LEMMA RestAway ==
  ASSUME task' \notin {"none", "placed"} \/ (task' = "none" /\ loop' \notin {"wait", "turn"}) \/ stage' # "up"
  PROVE  RestInv'
BY DEF RestInv, Plain

\* The parts of the invariant that speak of inputs, where none of their holders changes.
LEMMA InputsSame ==
  ASSUME IInv, UNCHANGED <<world, kinds, submissions, consumer, pending, queue, current, history, turn, editor, retracted, late>>
  PROVE  KeptInv' /\ OnceInv' /\ FateInv' /\ HandInv' /\ Owed' = Owed
<1>1. KeptInv' /\ OnceInv' /\ FateInv'
  BY PlacesSame DEF IInv
<1>2. HandInv'
  BY HandSame DEF IInv, TypeInv
<1> QED
  BY <1>1, <1>2 DEF Owed

-----------------------------------------------------------------------------
(***************************************************************************)
(* The user.                                                               *)
(***************************************************************************)
LEMMA ResendGood == ASSUME IInv, Resend PROVE IInv'
<1>1. /\ mode = "running" /\ engine.at = "attempt" /\ resends < world.resends
      /\ engine' = [engine EXCEPT !.at = "claimed"] /\ resends' = resends + 1
      /\ UNCHANGED <<world, tuiVars, consumerVars, turnActive, cancelPending, pending, queue, runVars,
                     cancelling, turnVars, fateVars, confirmed, disk, stageVars>>
  BY DEF Resend, Claimed
<1>2. UNCHANGED <<world, kinds, mode, submissions, consumer, turnActive, cancelPending, pending, queue, loop, current,
                  task, cancelling, turn, checkpoint, spoke, history, editor, retracted, late, confirmed, disk, stage, shutdown>>
  BY <1>1 DEF tuiVars, consumerVars, runVars, turnVars, fateVars, stageVars
<1>3. engine' \in EnginesTo(typed) /\ engine'.at = "claimed" /\ engine'.request = engine.request /\ engine'.failed = engine.failed
  BY <1>1 DEF IInv, TypeInv, ContentInv, EnginesTo
<1>4. WorldInv' /\ ContentInv'
  <2>1. resends' \in 0..world.resends
    <3>1. world.resends \in Nat /\ resends \in 0..world.resends
      BY FollowUpsAssumption DEF IInv, TypeInv, WorldInv
    <3> QED
      BY <1>1, <3>1
  <2> QED
    BY <1>2, <1>3, <2>1 DEF IInv, TypeInv, WorldInv, ContentInv, typed
<1>5. PhaseInv'
  BY <1>1, <1>2, <1>3 DEF IInv, TypeInv, PhaseInv
<1>6. KeptInv' /\ OnceInv' /\ FateInv' /\ HandInv' /\ Owed' = Owed
  BY <1>2, InputsSame
<1>7. BoundaryInv' /\ RestInv'
  BY <1>2, <1>6, BoundarySame, RestSame DEF IInv
<1>8. FlightInv'
  BY <1>1, <1>2, <1>3, FlightMoves DEF IInv, FlightInv, CarryInv, Asking, Dispatched, Awaited
<1> QED
  BY <1>4, <1>5, <1>6, <1>7, <1>8 DEF IInv, TypeInv

LEMMA InterruptGood == ASSUME IInv, Interrupt PROVE IInv'
<1>1. /\ mode \in {"dispatch", "running"} /\ cancelPending' = TRUE /\ mode' = "running"
      /\ cancelling' = (cancelling \/ task = "engine")
      /\ UNCHANGED <<world, kinds, submissions, consumer, turnActive, pending, queue, loop, current, task, engine,
                     turn, checkpoint, spoke, history, editor, retracted, late, confirmed, disk, stage, shutdown, resends>>
  BY DEF Interrupt, consumerVars, runVars, turnVars, fateVars, stageVars
<1>2. WorldInv' /\ ContentInv'
  BY <1>1 DEF IInv, TypeInv, WorldInv, ContentInv, typed
<1>3. PhaseInv'
  BY <1>1 DEF IInv, TypeInv, PhaseInv
<1>4. KeptInv' /\ OnceInv' /\ FateInv' /\ HandInv' /\ Owed' = Owed
  BY <1>1, InputsSame
<1>5. BoundaryInv' /\ RestInv' /\ FlightInv'
  BY <1>1, <1>4, BoundarySame, RestSame, FlightSame DEF IInv
<1> QED
  BY <1>2, <1>3, <1>4, <1>5 DEF IInv, TypeInv

LEMMA ForceExitGood == ASSUME IInv, ForceExit PROVE IInv'
<1>1. /\ mode' = "gone" /\ shutdown' = TRUE /\ cancelling' = (cancelling \/ task = "engine")
      /\ UNCHANGED <<world, kinds, submissions, consumer, turnActive, cancelPending, pending, queue, loop, current, task, engine,
                     turn, checkpoint, spoke, history, editor, retracted, late, confirmed, disk, stage, resends>>
  BY DEF ForceExit, consumerVars, runVars, turnVars, fateVars
<1>2. WorldInv' /\ ContentInv'
  BY <1>1 DEF IInv, TypeInv, WorldInv, ContentInv, typed
<1>3. PhaseInv'
  BY <1>1 DEF IInv, TypeInv, PhaseInv
<1>4. KeptInv' /\ OnceInv' /\ FateInv' /\ HandInv' /\ Owed' = Owed
  BY <1>1, InputsSame
<1>5. BoundaryInv' /\ RestInv' /\ FlightInv'
  BY <1>1, <1>4, BoundarySame, RestSame, FlightSame DEF IInv
<1> QED
  BY <1>2, <1>3, <1>4, <1>5 DEF IInv, TypeInv

\* A job that is no input and no boundary joins the consumer's queue.
LEMMA JobJoins ==
  ASSUME IInv, NEW k \in {"save", "exit"}, submissions' = Append(submissions, Job(k))
  PROVE  /\ submissions' \in Seq(JobsTo(typed)) /\ Sent(submissions') = Sent(submissions)
         /\ SentOnce(submissions) => SentOnce(submissions')
         /\ Boundaries(submissions') = Boundaries(submissions)
<1>1. Job(k) \in JobsTo(typed) /\ Job(k).kind = k /\ SentBy(Job(k)) = {}
  BY DEF Job, JobsTo, SentBy
<1>2. submissions \in Seq(JobsTo(typed))
  BY DEF IInv, TypeInv, ContentInv
<1>3. /\ submissions' \in Seq(JobsTo(typed))
      /\ Sent(submissions') = Sent(submissions) \cup SentBy(Job(k))
      /\ SentOnce(submissions) /\ SentBy(Job(k)) \cap Sent(submissions) = {} => SentOnce(submissions')
      /\ Job(k).kind # "boundary" => Boundaries(submissions') = Boundaries(submissions)
  BY <1>1, <1>2, SubsAppend
<1> QED
  BY <1>1, <1>3

LEMMA ExitGood == ASSUME IInv, Exit PROVE IInv'
<1>1. /\ mode = "chat" /\ mode' = "gone" /\ shutdown' = TRUE /\ submissions' = Append(submissions, Job("exit"))
      /\ UNCHANGED <<world, kinds, consumer, turnActive, cancelPending, pending, queue, loop, current, task, engine, cancelling,
                     turn, checkpoint, spoke, history, editor, retracted, late, confirmed, disk, stage, resends>>
  BY DEF Exit, runVars, turnVars, fateVars
<1>2. /\ submissions' \in Seq(JobsTo(typed)) /\ Sent(submissions') = Sent(submissions)
      /\ SentOnce(submissions) => SentOnce(submissions')
      /\ Boundaries(submissions') = Boundaries(submissions)
  BY <1>1, JobJoins
<1>3. WorldInv' /\ ContentInv'
  BY <1>1, <1>2 DEF IInv, TypeInv, WorldInv, ContentInv, typed
<1>4. PhaseInv'
  BY <1>1 DEF IInv, TypeInv, PhaseInv
<1>5. HandInv'
  BY <1>1, HandSame DEF IInv, TypeInv
<1>6. KeptInv' /\ OnceInv' /\ FateInv'
  BY <1>1, <1>2, PlacesSame DEF IInv
<1>7. BoundaryInv'
  BY <1>1, <1>2 DEF IInv, BoundaryInv, AtBoundary, OneBoundary
<1>8. FlightInv' /\ RestInv'
  <2>1. Owed' = Owed
    BY <1>1, <1>2 DEF Owed
  <2> QED
    BY <1>1, <2>1, RestSame, FlightSame DEF IInv
<1> QED
  BY <1>3, <1>4, <1>5, <1>6, <1>7, <1>8 DEF IInv, TypeInv

\* Every place holds numbers that were typed.
LEMMA PlacesTyped ==
  ASSUME TypeInv
  PROVE  /\ typed \in Nat /\ typed = Len(kinds)
         /\ Sent(submissions) \subseteq 1..typed /\ InHand(consumer) \subseteq 1..typed
         /\ Range(pending) \subseteq 1..typed /\ QueueIds(queue) \subseteq 1..typed /\ Taken(current) \subseteq 1..typed
         /\ Range(history) \subseteq 1..typed /\ Range(turn) \subseteq 1..typed /\ Gone \subseteq 1..typed
         /\ Range(engine.request) \subseteq 1..typed /\ Range(engine.failed) \subseteq 1..typed
<1>1. typed \in Nat /\ typed = Len(kinds)
  BY DEF TypeInv, WorldInv, typed
<1>2. Sent(submissions) \subseteq 1..typed
  <2>1. \A n \in DOMAIN submissions : submissions[n] \in JobsTo(typed)
    BY DEF TypeInv, ContentInv
  <2>2. \A n \in DOMAIN submissions : submissions[n].kind = "input" => submissions[n].id \in Numbers(typed)
    BY <2>1, JobTypes
  <2> QED
    BY <2>2 DEF Sent, Numbers
<1>3. InHand(consumer) \subseteq 1..typed
  <2>1. CASE consumer.at = "admit"
    <3>1. PICK i \in 1..typed : consumer.job = <<Input(i)>>
      BY <2>1 DEF TypeInv, HandInv
    <3>2. consumer.job[1].id = i
      BY <3>1 DEF Input
    <3> QED
      BY <2>1, <3>2 DEF InHand
  <2>2. CASE consumer.at # "admit"
    BY <2>2 DEF InHand
  <2> QED
    BY <2>1, <2>2
<1>4. QueueIds(queue) \subseteq 1..typed
  BY IdsRange DEF TypeInv, ContentInv, Numbers
<1>5. /\ pending \in Seq(1..typed) /\ history \in Seq(1..typed) /\ turn \in Seq(1..typed)
      /\ engine.request \in Seq(1..typed) /\ engine.failed \in Seq(1..typed)
  BY DEF TypeInv, ContentInv, Numbers, EnginesTo
<1>6. \A q \in Seq(1..typed) : Range(q) \subseteq 1..typed
  BY RangeIn
<1>7. Taken(current) \subseteq 1..typed /\ Gone \subseteq 1..typed
  BY <1>1 DEF TypeInv, ContentInv, Numbers, Taken, Gone
<1> QED
  BY <1>1, <1>2, <1>3, <1>4, <1>5, <1>6, <1>7

LEMMA Grows ==
  ASSUME NEW n \in Nat
  PROVE  /\ Numbers(n) \subseteq Numbers(n + 1)
         /\ JobsTo(n) \subseteq JobsTo(n + 1) /\ ItemsTo(n) \subseteq ItemsTo(n + 1)
         /\ RestTo(n) \subseteq RestTo(n + 1) /\ BusyTo(n) \subseteq BusyTo(n + 1)
         /\ EnginesTo(n) \subseteq EnginesTo(n + 1)
         /\ Seq(Numbers(n)) \subseteq Seq(Numbers(n + 1))
         /\ Seq(JobsTo(n)) \subseteq Seq(JobsTo(n + 1)) /\ Seq(ItemsTo(n)) \subseteq Seq(ItemsTo(n + 1))
<1>1. Numbers(n) \subseteq Numbers(n + 1)
  BY DEF Numbers
<1>2. JobsTo(n) \subseteq JobsTo(n + 1)
  BY <1>1 DEF JobsTo
<1>3. ItemsTo(n) \subseteq ItemsTo(n + 1)
  BY <1>1 DEF ItemsTo
<1>4. BusyTo(n) \subseteq BusyTo(n + 1)
  <2>1. {<<j>> : j \in JobsTo(n)} \subseteq {<<j>> : j \in JobsTo(n + 1)}
    BY <1>2
  <2>2. SUBSET Numbers(n) \subseteq SUBSET Numbers(n + 1)
    BY <1>1
  <2> QED
    BY <2>1, <2>2 DEF BusyTo
<1>5. Seq(Numbers(n)) \subseteq Seq(Numbers(n + 1))
  BY <1>1, SeqMonotonic
<1>6. EnginesTo(n) \subseteq EnginesTo(n + 1)
  BY <1>5 DEF EnginesTo
<1>7. Seq(JobsTo(n)) \subseteq Seq(JobsTo(n + 1)) /\ Seq(ItemsTo(n)) \subseteq Seq(ItemsTo(n + 1))
  BY <1>2, <1>3, SeqMonotonic
<1> QED
  BY <1>1, <1>2, <1>3, <1>4, <1>5, <1>6, <1>7 DEF RestTo

LEMMA SubmitGood == ASSUME IInv, Submit PROVE IInv'
<1> DEFINE N == typed
           j == Input(N + 1)
<1>1. PICK k \in world.kinds[N + 1] : kinds' = Append(kinds, k)
  BY DEF Submit
<1>2. /\ stage = "up" /\ N < Len(world.kinds) /\ mode \in {"chat", "running"}
      /\ mode' = IF mode = "chat" THEN "dispatch" ELSE mode
      /\ submissions' = Append(submissions, j)
      /\ UNCHANGED <<world, consumer, turnActive, cancelPending, pending, queue, loop, current, task, engine, cancelling,
                     turn, checkpoint, spoke, history, editor, retracted, late, confirmed, disk, stage, shutdown, resends>>
  BY DEF Submit, accepting, runVars, turnVars, fateVars, stageVars
<1>0. world.kinds \in Seq(SUBSET Kinds) /\ Len(world.kinds) \in Nat /\ N \in Nat /\ kinds \in Seq(Kinds)
  BY FollowUpsAssumption DEF IInv, TypeInv, WorldInv, typed
<1>3. /\ kinds' \in Seq(Kinds) /\ N \in Nat /\ typed' = N + 1
      /\ (\A i \in 1..N : kinds'[i] = kinds[i]) /\ kinds'[N + 1] = k
  <2>1. N + 1 \in 1..Len(world.kinds)
    BY <1>0, <1>2
  <2>2. k \in Kinds
    BY <1>0, <2>1
  <2> QED
    BY <1>0, <1>1, <2>2 DEF typed
<1>4. WorldInv'
  <2>1. N + 1 <= Len(world.kinds) /\ \A i \in 1..(N + 1) : i \in 1..N \/ i = N + 1
    BY <1>0, <1>2
  <2>2. \A i \in 1..N : kinds[i] \in world.kinds[i]
    BY DEF IInv, TypeInv, WorldInv
  <2>3. resends \in 0..world.resends /\ world \in Worlds
    BY DEF IInv, TypeInv, WorldInv
  <2> HIDE DEF N
  <2>4. \A i \in 1..(N + 1) : kinds'[i] \in world.kinds[i]
    BY <1>1, <1>3, <2>1, <2>2
  <2> QED
    BY <1>2, <1>3, <2>1, <2>3, <2>4 DEF WorldInv
<1>5. /\ j \in JobsTo(N + 1) /\ j.kind = "input" /\ SentBy(j) = {N + 1}
      /\ submissions \in Seq(JobsTo(N + 1))
  <2>1. submissions \in Seq(JobsTo(N))
    BY DEF IInv, TypeInv, ContentInv
  <2>2. j \in JobsTo(N + 1) /\ j.kind = "input" /\ SentBy(j) = {N + 1}
    BY <1>3 DEF Input, JobsTo, Numbers, SentBy
  <2> HIDE DEF j, N
  <2> QED
    BY <1>3, <2>1, <2>2, Grows
<1>6. /\ submissions' \in Seq(JobsTo(N + 1))
      /\ Sent(submissions') = Sent(submissions) \cup {N + 1}
      /\ SentOnce(submissions) /\ {N + 1} \cap Sent(submissions) = {} => SentOnce(submissions')
      /\ Boundaries(submissions') = Boundaries(submissions)
  <2> HIDE DEF j, N
  <2>1. /\ submissions' \in Seq(JobsTo(N + 1))
        /\ Sent(submissions') = Sent(submissions) \cup SentBy(j)
        /\ SentOnce(submissions) /\ SentBy(j) \cap Sent(submissions) = {} => SentOnce(submissions')
        /\ j.kind # "boundary" => Boundaries(submissions') = Boundaries(submissions)
    BY <1>2, <1>5, SubsAppend
  <2> QED
    BY <1>5, <2>1
<1>7. ContentInv'
  <2>1. /\ consumer \in RestTo(N) \cup BusyTo(N)
        /\ pending \in Seq(Numbers(N)) /\ queue \in Seq(ItemsTo(N)) /\ current \in 0..N
        /\ turn \in Seq(Numbers(N)) /\ checkpoint \in Seq(Numbers(N)) /\ history \in Seq(Numbers(N))
        /\ editor \subseteq Numbers(N) /\ retracted \subseteq Numbers(N) /\ late \subseteq editor
        /\ confirmed \subseteq Numbers(N) /\ disk \subseteq Numbers(N)
        /\ engine \in EnginesTo(N)
    BY DEF IInv, TypeInv, ContentInv
  <2> HIDE DEF N, j
  <2>2. current \in 0..(N + 1)
    BY <1>3, <2>1
  <2> QED
    BY <1>2, <1>3, <1>6, <2>1, <2>2, Grows DEF ContentInv
<1>8. HandInv'
  BY <1>2, <1>3 DEF IInv, TypeInv, HandInv
<1>9. PhaseInv'
  BY <1>2 DEF IInv, TypeInv, PhaseInv
<1>10. BoundaryInv'
  BY <1>2, <1>6 DEF IInv, BoundaryInv, AtBoundary, OneBoundary
<1>11. FlightInv'
  BY <1>2, FlightSame DEF IInv
<1>12. /\ Sent(submissions) \subseteq 1..N /\ InHand(consumer) \subseteq 1..N
       /\ Range(pending) \subseteq 1..N /\ QueueIds(queue) \subseteq 1..N /\ Taken(current) \subseteq 1..N
       /\ Range(history) \subseteq 1..N /\ Range(turn) \subseteq 1..N /\ Gone \subseteq 1..N
       /\ N + 1 \notin 1..N /\ \A i \in 1..(N + 1) : i \in 1..N \/ i = N + 1
  BY <1>3, PlacesTyped DEF IInv
<1>13. KeptInv'
  <2> HIDE DEF N
  <2>1. Kept(N, Sent(submissions), InHand(consumer), Range(pending), QueueIds(queue), Taken(current),
             Range(history) \cup Range(turn), Gone)
    BY DEF IInv, KeptInv, N
  <2> QED
    BY <1>2, <1>3, <1>6, <1>12, <2>1 DEF KeptInv, Kept, Gone
<1>14. OnceInv'
  <2> HIDE DEF N
  <2> QED
    BY <1>2, <1>6, <1>12 DEF IInv, OnceInv, Apart, Gone
<1>16. FateInv'
  BY <1>2 DEF IInv, FateInv
<1>15. RestInv'
  <2>1. Owed' = Owed \cup {N + 1} /\ N + 1 \notin Owed
    BY <1>2, <1>6, <1>12 DEF Owed
  <2> HIDE DEF N
  <2> QED
    BY <1>2, <2>1 DEF IInv, RestInv, Plain, IsMild
<1> QED
  BY <1>4, <1>7, <1>8, <1>9, <1>10, <1>11, <1>13, <1>14, <1>15, <1>16 DEF IInv, TypeInv

LEMMA RecallGood == ASSUME IInv, Recall PROVE IInv'
<1> DEFINE i == Last(queue).id
           b == Last(queue).inflight
           save == Append(submissions, Job("save"))
<1>1. /\ stage = "up" /\ mode = "running" /\ queue # <<>>
      /\ queue' = [m \in 1..(Len(queue) - 1) |-> IF Last(queue).inflight THEN Queued(queue[m].id) ELSE queue[m]]
      /\ engine' = IF b THEN Claimed ELSE engine
      /\ editor' = editor \cup {i}
      /\ late' = late \cup (IF GoesOut(Last(queue)) THEN {i} ELSE {})
      /\ submissions' = save
      /\ UNCHANGED <<world, kinds, mode, consumer, turnActive, cancelPending, pending, loop, current, task, cancelling,
                     turn, checkpoint, spoke, history, retracted, confirmed, disk, stage, shutdown, resends>>
  BY DEF Recall, accepting, tuiVars, runVars, turnVars, stageVars
<1>2. /\ submissions' \in Seq(JobsTo(typed)) /\ Sent(submissions') = Sent(submissions)
      /\ SentOnce(submissions) => SentOnce(submissions')
      /\ Boundaries(submissions') = Boundaries(submissions)
  BY <1>1, JobJoins
<1>3. queue \in Seq(ItemsTo(typed)) /\ engine \in EnginesTo(typed)
  BY DEF IInv, TypeInv, ContentInv
<1>4. /\ Last(queue) \in ItemsTo(typed) /\ queue' \in Seq(ItemsTo(typed))
      /\ \E k \in DOMAIN queue : Last(queue) = queue[k]
      /\ QueueIds(queue) = QueueIds(queue') \cup {i}
      /\ QueuedOnce(queue) => QueuedOnce(queue') /\ i \notin QueueIds(queue')
      /\ \A m \in DOMAIN queue' : /\ m \in DOMAIN queue
                                  /\ b => ~queue'[m].inflight
                                  /\ ~b => queue'[m] = queue[m]
  <2>1. queue # <<>> /\ queue' = [m \in 1..(Len(queue) - 1) |-> IF Last(queue).inflight THEN Queued(queue[m].id) ELSE queue[m]]
    BY <1>1
  <2> QED
    BY <1>3, <2>1, QueueRecall
<1>5. i \in Numbers(typed) /\ b \in BOOLEAN
  BY <1>4 DEF ItemsTo
<1>6. /\ engine' \in EnginesTo(typed) /\ engine'.request = engine.request /\ engine'.failed = engine.failed
      /\ engine'.at = engine.at \/ (engine.at = "attempt" /\ engine'.at = "claimed")
      /\ b => engine'.at # "attempt"
      /\ ~b => engine' = engine
  <2>1. CASE b /\ engine.at = "attempt"
    BY <1>1, <1>3, <2>1 DEF Claimed, EnginesTo
  <2>2. CASE b /\ engine.at # "attempt"
    BY <1>1, <1>3, <2>2 DEF Claimed
  <2>3. CASE ~b
    BY <1>1, <1>3, <2>3
  <2> QED
    BY <2>1, <2>2, <2>3
<1> HIDE DEF i, b, save
<1>7. WorldInv' /\ ContentInv'
  BY <1>1, <1>2, <1>4, <1>5, <1>6 DEF IInv, TypeInv, WorldInv, ContentInv, typed
<1>8. HandInv'
  BY <1>1, HandSame DEF IInv, TypeInv
<1>9. PhaseInv'
  BY <1>1, <1>6 DEF IInv, TypeInv, PhaseInv
<1>10. BoundaryInv'
  BY <1>1, <1>2 DEF IInv, BoundaryInv, AtBoundary, OneBoundary
<1>11. FlightInv'
  <2>1. ClaimInv'
    <3>1. CASE b
      BY <1>4, <3>1 DEF ClaimInv
    <3>2. CASE ~b
      BY <1>4, <1>6, <3>2 DEF IInv, FlightInv, ClaimInv
    <3> QED
      BY <3>1, <3>2
  <2>2. Carried' = Carried
    BY <1>6 DEF Carried
  <2>3. engine'.at \in Asking <=> engine.at \in Asking
    BY <1>6 DEF Asking
  <2>4. engine'.at \in Awaited /\ i \in Range(engine.request) => i \in late'
    <3>1. b => engine'.at # "attempt"
      BY <1>6
    <3> SUFFICES ASSUME engine'.at \in Awaited, i \in Range(engine.request) PROVE GoesOut(Last(queue))
      BY <1>1
    <3>2. engine.at = engine'.at
      BY <1>6 DEF Awaited
    <3> QED
      BY <3>1, <3>2 DEF GoesOut, Awaited, i, b
  <2>5. engine'.at \in Awaited => engine.at \in Awaited
    BY <1>6 DEF Awaited
  <2>6. engine'.at \in Dispatched => engine.at \in Dispatched
    BY <1>6 DEF Dispatched
  <2>7. engine'.at \in {"open", "tools"} => engine.at \in {"open", "tools"}
    BY <1>6
  <2>8. CarryInv
    BY DEF IInv, FlightInv
  <2>9. engine'.at \in Awaited => Range(engine.request) \cap editor' \subseteq late'
    BY <1>1, <2>4, <2>5, <2>8 DEF CarryInv
  <2>10. CarryInv'
    BY <1>1, <1>4, <1>6, <2>2, <2>3, <2>6, <2>7, <2>8, <2>9 DEF CarryInv
  <2> QED
    BY <2>1, <2>10 DEF FlightInv
<1>12. KeptInv'
  BY <1>1, <1>2, <1>4 DEF IInv, KeptInv, Kept, Gone, typed
<1>13. OnceInv'
  <2> SUFFICES /\ Apart(Sent(submissions'), InHand(consumer), Range(pending), QueueIds(queue'), Taken(current),
                        Range(history) \cup Range(turn), Gone')
               /\ SentOnce(submissions') /\ IsInjective(pending) /\ QueuedOnce(queue')
               /\ IsInjective(history) /\ IsInjective(turn) /\ Range(history) \cap Range(turn) = {}
    BY <1>1 DEF OnceInv
  <2>1. /\ Apart(Sent(submissions), InHand(consumer), Range(pending), QueueIds(queue), Taken(current),
                 Range(history) \cup Range(turn), Gone)
        /\ SentOnce(submissions) /\ IsInjective(pending) /\ QueuedOnce(queue)
        /\ IsInjective(history) /\ IsInjective(turn) /\ Range(history) \cap Range(turn) = {}
    BY DEF IInv, OnceInv
  <2>2. Gone' = Gone \cup {i}
    BY <1>1 DEF Gone
  <2>3. QueuedOnce(queue') /\ i \notin QueueIds(queue') /\ QueueIds(queue) = QueueIds(queue') \cup {i}
    BY <1>4, <2>1
  <2>4. Apart(Sent(submissions'), InHand(consumer), Range(pending), QueueIds(queue'), Taken(current),
              Range(history) \cup Range(turn), Gone')
    BY <1>2, <2>1, <2>2, <2>3 DEF Apart
  <2> QED
    BY <1>2, <2>1, <2>3, <2>4
<1>15. FateInv'
  <2>1. i \notin Range(history) \cup Range(turn)
    BY <1>4 DEF IInv, OnceInv, Apart
  <2> QED
    BY <1>1, <2>1 DEF IInv, FateInv
<1>14. RestInv'
  <2>1. Owed' = Owed
    BY <1>1, <1>2 DEF Owed
  <2> QED
    BY <1>1, <2>1, RestSame DEF IInv
<1> QED
  BY <1>7, <1>8, <1>9, <1>10, <1>11, <1>12, <1>13, <1>14, <1>15 DEF IInv, TypeInv

-----------------------------------------------------------------------------
(***************************************************************************)
(* The consumer.                                                           *)
(***************************************************************************)
LEMMA SavedTyped == ASSUME TypeInv PROVE Saved \subseteq Numbers(typed)
<1>1. Range(Ids(queue)) \subseteq Numbers(typed)
  BY IdsRange DEF TypeInv, ContentInv
<1>2. Range(checkpoint) \subseteq Numbers(typed) /\ Range(history) \subseteq Numbers(typed)
  BY RangeIn DEF TypeInv, ContentInv
<1> QED
  BY <1>1, <1>2 DEF Saved

LEMMA JobInHand ==
  ASSUME TypeInv, consumer.at \in {"admit", "save"}
  PROVE  \E j \in JobsTo(typed) : consumer.job = <<j>> /\ consumer.job[1] = j /\ consumer.capture \subseteq Numbers(typed)
BY DEF TypeInv, ContentInv, RestTo, BusyTo

LEMMA SavingType ==
  ASSUME NEW n, NEW j \in JobsTo(n), NEW C \in SUBSET Numbers(n)
  PROVE  /\ Saving(j, C) \in BusyTo(n) /\ Saving(j, C).at = "save" /\ Saving(j, C).job[1] = j
         /\ InHand(Saving(j, C)) = {} /\ Idle \in RestTo(n) /\ Idle.at = "get" /\ InHand(Idle) = {}
<1>1. <<j>> \in {<<x>> : x \in JobsTo(n)}
  OBVIOUS
<1> QED
  BY <1>1 DEF Saving, BusyTo, InHand, Idle, Rest, RestTo

\* An admitted input leaves the consumer's hands for the turn's queue or for the next task.
LEMMA PlaceGood ==
  ASSUME IInv, NEW i \in Numbers(typed), Place(i), consumer.at \in {"get", "admit"},
         submissions' \in Seq(JobsTo(typed)), SentOnce(submissions) => SentOnce(submissions'),
         Sent(submissions) \cup InHand(consumer) = Sent(submissions') \cup {i},
         i \notin Sent(submissions'),
         OneBoundary(submissions) => OneBoundary(submissions'),
         Boundaries(submissions') # {} => Boundaries(submissions) # {},
         UNCHANGED <<world, kinds, mode, turnActive, cancelPending, loop, current, task, engine, cancelling,
                     turn, checkpoint, spoke, history, editor, retracted, late, confirmed, disk, stage, shutdown, resends>>
  PROVE  IInv'
<1>1. queue \in Seq(ItemsTo(typed)) /\ pending \in Seq(Numbers(typed))
  BY DEF IInv, TypeInv, ContentInv
<1>2. turnActive \in BOOLEAN /\ (turnActive => task \in {"engine", "boundary", "failed"})
  BY DEF IInv, TypeInv, PhaseInv
<1>3. /\ consumer' \in RestTo(typed) \cup BusyTo(typed) /\ InHand(consumer') = {}
      /\ consumer'.at \in {"get", "save"} /\ ~AtBoundary'
  <2>1. Input(i) \in JobsTo(typed) /\ Input(i).kind = "input"
    BY DEF Input, JobsTo
  <2>2. (Saved \cup {i}) \in SUBSET Numbers(typed)
    BY SavedTyped DEF IInv
  <2>3. consumer' = Saving(Input(i), Saved \cup {i}) \/ consumer' = Idle
    BY DEF Place
  <2>4. CASE consumer' = Saving(Input(i), Saved \cup {i})
    <3>1. /\ consumer' \in BusyTo(typed) /\ consumer'.at = "save" /\ consumer'.job[1] = Input(i) /\ InHand(consumer') = {}
      BY <2>1, <2>2, <2>4, SavingType
    <3> QED
      BY <2>1, <3>1 DEF AtBoundary
  <2>5. CASE consumer' = Idle
    <3>1. consumer' \in RestTo(typed) /\ consumer'.at = "get" /\ InHand(consumer') = {}
      BY <2>1, <2>2, <2>5, SavingType
    <3> QED
      BY <3>1 DEF AtBoundary
  <2> QED
    BY <2>3, <2>4, <2>5
<1>4. HandInv'
  BY <1>3 DEF HandInv
<1>5. PhaseInv' /\ WorldInv'
  BY DEF IInv, TypeInv, PhaseInv, WorldInv, typed
<1>9. FateInv'
  BY DEF IInv, FateInv
<1>6. BoundaryInv'
  <2>1. consumer.at \notin {"dead", "gone"} /\ ~AtBoundary
    BY DEF AtBoundary
  <2> QED
    BY <1>3, <2>1 DEF IInv, BoundaryInv
<1>7. CASE turnActive
  <2>1. queue' = Append(queue, Queued(i)) /\ pending' = pending
    BY <1>7 DEF Place
  <2>2. /\ queue' \in Seq(ItemsTo(typed)) /\ QueueIds(queue') = QueueIds(queue) \cup {i}
        /\ QueuedOnce(queue) /\ i \notin QueueIds(queue) => QueuedOnce(queue')
        /\ \A m \in DOMAIN queue' : queue'[m] = Queued(i) \/ \E k \in DOMAIN queue : queue'[m] = queue[k]
    BY <1>1, <2>1, QueueAppend
  <2>3. ContentInv'
    BY <1>3, <2>1, <2>2 DEF IInv, TypeInv, ContentInv, typed
  <2>4. i \notin QueueIds(queue)
    BY DEF IInv, OnceInv, Apart
  <2>5. FlightInv'
    <3>1. Queued(i).id = i /\ ~Queued(i).inflight
      BY DEF Queued
    <3>2. ASSUME NEW m \in DOMAIN queue', queue'[m].inflight PROVE \E k \in DOMAIN queue : queue'[m] = queue[k]
      BY <2>2, <3>1, <3>2
    <3>3. ClaimInv'
      BY <3>1, <3>2 DEF IInv, FlightInv, ClaimInv
    <3>4. Carried' = Carried
      BY DEF Carried
    <3>5. CarryInv'
      BY <2>2, <3>4 DEF IInv, FlightInv, CarryInv
    <3> QED
      BY <3>3, <3>5 DEF FlightInv
  <2>6. KeptInv'
    BY <1>3, <2>1, <2>2 DEF IInv, KeptInv, Kept, Gone, typed
  <2>7. OnceInv'
    <3> SUFFICES /\ Apart(Sent(submissions'), InHand(consumer'), Range(pending), QueueIds(queue'), Taken(current),
                          Range(history) \cup Range(turn), Gone)
                 /\ SentOnce(submissions') /\ IsInjective(pending) /\ QueuedOnce(queue')
                 /\ IsInjective(history) /\ IsInjective(turn) /\ Range(history) \cap Range(turn) = {}
      BY <2>1 DEF OnceInv, Gone
    <3>1. /\ Apart(Sent(submissions), InHand(consumer), Range(pending), QueueIds(queue), Taken(current),
                   Range(history) \cup Range(turn), Gone)
          /\ SentOnce(submissions) /\ IsInjective(pending) /\ QueuedOnce(queue)
          /\ IsInjective(history) /\ IsInjective(turn) /\ Range(history) \cap Range(turn) = {}
      BY DEF IInv, OnceInv
    <3>2. Apart(Sent(submissions'), InHand(consumer'), Range(pending), QueueIds(queue'), Taken(current),
                Range(history) \cup Range(turn), Gone)
      BY <1>3, <2>2, <3>1 DEF Apart
    <3> QED
      BY <2>2, <2>4, <3>1, <3>2
  <2>8. RestInv'
    BY <1>2, <1>7, RestAway
  <2> QED
    BY <1>4, <1>5, <1>6, <1>9, <2>3, <2>5, <2>6, <2>7, <2>8 DEF IInv, TypeInv
<1>8. CASE ~turnActive
  <2>1. pending' = Append(pending, i) /\ queue' = queue
    BY <1>8 DEF Place
  <2>2. /\ pending' \in Seq(Numbers(typed)) /\ pending' # <<>> /\ Range(pending') = Range(pending) \cup {i}
        /\ IsInjective(pending) /\ i \notin Range(pending) => IsInjective(pending')
    BY <1>1, <2>1, AppendRange
  <2>3. ContentInv'
    BY <1>3, <2>1, <2>2 DEF IInv, TypeInv, ContentInv, typed
  <2>5. FlightInv'
    BY <2>1, FlightSame DEF IInv
  <2>6. KeptInv'
    BY <1>3, <2>1, <2>2 DEF IInv, KeptInv, Kept, Gone, typed
  <2>7. OnceInv'
    <3> SUFFICES /\ Apart(Sent(submissions'), InHand(consumer'), Range(pending'), QueueIds(queue), Taken(current),
                          Range(history) \cup Range(turn), Gone)
                 /\ SentOnce(submissions') /\ IsInjective(pending') /\ QueuedOnce(queue)
                 /\ IsInjective(history) /\ IsInjective(turn) /\ Range(history) \cap Range(turn) = {}
      BY <2>1 DEF OnceInv, Gone
    <3>1. /\ Apart(Sent(submissions), InHand(consumer), Range(pending), QueueIds(queue), Taken(current),
                   Range(history) \cup Range(turn), Gone)
          /\ SentOnce(submissions) /\ IsInjective(pending) /\ QueuedOnce(queue)
          /\ IsInjective(history) /\ IsInjective(turn) /\ Range(history) \cap Range(turn) = {}
      BY DEF IInv, OnceInv
    <3>2. /\ i \notin Range(pending)
          /\ Apart(Sent(submissions'), InHand(consumer'), Range(pending'), QueueIds(queue), Taken(current),
                   Range(history) \cup Range(turn), Gone)
      BY <1>3, <2>2, <3>1 DEF Apart
    <3> QED
      BY <2>2, <3>1, <3>2
  <2>8. RestInv'
    <3>1. Owed' = Owed
      BY <1>3, <2>2 DEF Owed
    <3> QED
      BY <2>1, <2>2, <3>1 DEF IInv, RestInv, Plain, IsMild
  <2> QED
    BY <1>4, <1>5, <1>6, <1>9, <2>3, <2>5, <2>6, <2>7, <2>8 DEF IInv, TypeInv
<1> QED
  BY <1>2, <1>7, <1>8

LEMMA TakeGood == ASSUME IInv, Take PROVE IInv'
<1> DEFINE job == Head(submissions)
<1>1. /\ consumer.at = "get" /\ submissions # <<>> /\ submissions' = Tail(submissions)
      /\ UNCHANGED <<world, kinds, mode, turnActive, cancelPending, loop, current, task, engine, cancelling,
                     turn, checkpoint, spoke, history, editor, retracted, late, confirmed, disk, stage, shutdown, resends>>
  BY DEF Take, tuiVars, runVars, turnVars, fateVars, stageVars
<1>2. /\ job.kind # "input" => consumer' = Saving(job, Saved) /\ UNCHANGED <<pending, queue>>
      /\ job.kind = "input" /\ kinds[job.id] = "image" =>
           consumer' = [at |-> "admit", job |-> <<job>>, capture |-> {}] /\ UNCHANGED <<pending, queue>>
      /\ job.kind = "input" /\ kinds[job.id] # "image" => Place(job.id)
  BY DEF Take
<1>3. submissions \in Seq(JobsTo(typed))
  BY DEF IInv, TypeInv, ContentInv
<1>4. /\ job \in JobsTo(typed) /\ submissions' \in Seq(JobsTo(typed))
      /\ Sent(submissions) = Sent(submissions') \cup SentBy(job)
      /\ SentOnce(submissions) => SentOnce(submissions') /\ SentBy(job) \cap Sent(submissions') = {}
      /\ OneBoundary(submissions) => /\ OneBoundary(submissions')
                                     /\ job.kind = "boundary" => Boundaries(submissions') = {}
      /\ Boundaries(submissions') # {} \/ job.kind = "boundary" => Boundaries(submissions) # {}
  <2>1. submissions # <<>> /\ submissions' = Tail(submissions)
    BY <1>1
  <2> QED
    BY <1>3, <2>1, SubsTail
<1> HIDE DEF job
<1>5. /\ job.kind \in {"input", "save", "boundary", "exit"}
      /\ job.kind = "input" => job = Input(job.id) /\ job.id \in Numbers(typed) /\ SentBy(job) = {job.id}
      /\ job.kind # "input" => SentBy(job) = {}
  BY <1>4, JobTypes DEF SentBy
<1>6. InHand(consumer) = {} /\ ~AtBoundary
  BY <1>1 DEF InHand, AtBoundary
<1>7. SentOnce(submissions)
  BY DEF IInv, OnceInv
<1>8. WorldInv' /\ PhaseInv'
  BY <1>1 DEF IInv, TypeInv, WorldInv, PhaseInv, typed
<1>12. /\ OneBoundary(submissions')
       /\ job.kind = "boundary" => Boundaries(submissions') = {}
       /\ Boundaries(submissions') # {} \/ job.kind = "boundary" => task' = "boundary"
  <2>1. /\ OneBoundary(submissions)
        /\ Boundaries(submissions) # {} => task = "boundary"
    BY <1>1 DEF IInv, BoundaryInv
  <2>2. task' = task
    BY <1>1
  <2> QED
    BY <1>4, <2>1, <2>2, Zenon
<1>9. CASE job.kind = "input" /\ kinds[job.id] # "image"
  <2>1. job.id \notin Sent(submissions')
    BY <1>4, <1>5, <1>7, <1>9
  <2>2. Sent(submissions) \cup InHand(consumer) = Sent(submissions') \cup {job.id}
    BY <1>4, <1>5, <1>6, <1>9
  <2> DEFINE i == job.id
  <2>3. i \in Numbers(typed) /\ Place(i)
    BY <1>2, <1>5, <1>9
  <2>4. i \notin Sent(submissions')
    BY <2>1
  <2>5. Sent(submissions) \cup InHand(consumer) = Sent(submissions') \cup {i}
    BY <2>2
  <2> HIDE DEF i
  <2>6. /\ consumer.at \in {"get", "admit"} /\ submissions' \in Seq(JobsTo(typed))
        /\ SentOnce(submissions) => SentOnce(submissions')
        /\ OneBoundary(submissions) => OneBoundary(submissions')
        /\ Boundaries(submissions') # {} => Boundaries(submissions) # {}
    <3>1. consumer.at \in {"get", "admit"}
      BY <1>1
    <3> QED
      BY <1>4, <3>1, Zenon
  <2>7. UNCHANGED <<world, kinds, mode, turnActive, cancelPending, loop, current, task, engine, cancelling,
                    turn, checkpoint, spoke, history, editor, retracted, late, confirmed, disk, stage, shutdown, resends>>
    BY <1>1
  <2> QED
    BY <2>3, <2>4, <2>5, <2>6, <2>7, PlaceGood
<1>10. CASE job.kind = "input" /\ kinds[job.id] = "image"
  <2>1. /\ consumer' = [at |-> "admit", job |-> <<job>>, capture |-> {}] /\ UNCHANGED <<pending, queue>>
        /\ consumer'.at = "admit" /\ consumer'.job = <<job>> /\ consumer'.job[1] = job
    BY <1>2, <1>10
  <2>2. consumer' \in BusyTo(typed) /\ InHand(consumer') = {job.id}
    <3>1. <<job>> \in {<<j>> : j \in JobsTo(typed)}
      BY <1>4
    <3> QED
      BY <2>1, <3>1 DEF BusyTo, InHand
  <2>3. ContentInv'
    BY <1>1, <1>4, <2>1, <2>2 DEF IInv, TypeInv, ContentInv, typed
  <2>4. HandInv'
    <3>1. job.id \in 1..typed /\ job = Input(job.id)
      BY <1>5, <1>10 DEF Numbers
    <3> QED
      BY <1>1, <1>10, <2>1, <3>1 DEF HandInv, typed
  <2>5. BoundaryInv'
    <3>1. ~AtBoundary'
      BY <2>1 DEF AtBoundary
    <3> QED
      BY <1>12, <3>1 DEF BoundaryInv
  <2>6. FlightInv'
    BY <1>1, <2>1, FlightSame DEF IInv
  <2>7. KeptInv'
    BY <1>1, <1>4, <1>5, <1>6, <1>10, <2>1, <2>2 DEF IInv, KeptInv, Kept, Gone, typed
  <2>8. OnceInv'
    <3> SUFFICES /\ Apart(Sent(submissions'), InHand(consumer'), Range(pending), QueueIds(queue), Taken(current),
                          Range(history) \cup Range(turn), Gone)
                 /\ SentOnce(submissions') /\ IsInjective(pending) /\ QueuedOnce(queue)
                 /\ IsInjective(history) /\ IsInjective(turn) /\ Range(history) \cap Range(turn) = {}
      BY <1>1, <2>1 DEF OnceInv, Gone
    <3>1. /\ Apart(Sent(submissions), InHand(consumer), Range(pending), QueueIds(queue), Taken(current),
                   Range(history) \cup Range(turn), Gone)
          /\ SentOnce(submissions) /\ IsInjective(pending) /\ QueuedOnce(queue)
          /\ IsInjective(history) /\ IsInjective(turn) /\ Range(history) \cap Range(turn) = {}
      BY DEF IInv, OnceInv
    <3>2. Sent(submissions) = Sent(submissions') \cup {job.id} /\ job.id \notin Sent(submissions')
      BY <1>4, <1>5, <1>10, <3>1
    <3>3. Apart(Sent(submissions'), InHand(consumer'), Range(pending), QueueIds(queue), Taken(current),
                Range(history) \cup Range(turn), Gone)
      BY <2>2, <3>1, <3>2 DEF Apart
    <3> QED
      BY <1>4, <3>1, <3>3
  <2>10. FateInv'
    BY <1>1 DEF IInv, FateInv
  <2>9. RestInv'
    <3>1. Owed' = Owed
      BY <1>4, <1>5, <1>6, <1>10, <2>1, <2>2 DEF Owed
    <3> QED
      BY <1>1, <2>1, <3>1, RestSame DEF IInv
  <2> QED
    BY <1>8, <2>3, <2>4, <2>5, <2>6, <2>7, <2>8, <2>9, <2>10 DEF IInv, TypeInv
<1>11. CASE job.kind # "input"
  <2>1. consumer' = Saving(job, Saved) /\ UNCHANGED <<pending, queue>>
    BY <1>2, <1>11
  <2>2. /\ consumer' \in BusyTo(typed) /\ consumer'.at = "save" /\ consumer'.job[1] = job /\ InHand(consumer') = {}
    <3>1. Saved \in SUBSET Numbers(typed)
      BY SavedTyped DEF IInv
    <3> QED
      BY <1>4, <2>1, <3>1, SavingType
  <2>3. ContentInv'
    BY <1>1, <1>4, <2>1, <2>2 DEF IInv, TypeInv, ContentInv, typed
  <2>4. HandInv'
    BY <2>2 DEF HandInv
  <2>5. BoundaryInv'
    <3>1. AtBoundary' => job.kind = "boundary"
      BY <2>2 DEF AtBoundary
    <3> QED
      BY <1>12, <3>1 DEF BoundaryInv
  <2>6. FlightInv'
    BY <1>1, <2>1, FlightSame DEF IInv
  <2>7. Sent(submissions') = Sent(submissions) /\ InHand(consumer') = InHand(consumer)
    BY <1>4, <1>5, <1>6, <1>11, <2>2
  <2>8. KeptInv' /\ OnceInv' /\ FateInv'
    BY <1>1, <1>4, <2>1, <2>7, PlacesSame DEF IInv
  <2>9. RestInv'
    <3>1. Owed' = Owed
      BY <2>1, <2>7 DEF Owed
    <3> QED
      BY <1>1, <2>1, <3>1, RestSame DEF IInv
  <2> QED
    BY <1>8, <2>3, <2>4, <2>5, <2>6, <2>8, <2>9 DEF IInv, TypeInv
<1> QED
  BY <1>9, <1>10, <1>11

LEMMA AdmittedGood == ASSUME IInv, Admitted PROVE IInv'
<1>1. /\ consumer.at = "admit" /\ Place(consumer.job[1].id)
      /\ UNCHANGED <<world, kinds, mode, submissions, turnActive, cancelPending, loop, current, task, engine, cancelling,
                     turn, checkpoint, spoke, history, editor, retracted, late, confirmed, disk, stage, shutdown, resends>>
  BY DEF Admitted, tuiVars, runVars, turnVars, fateVars, stageVars
<1>2. PICK i \in 1..typed : consumer.job = <<Input(i)>>
  BY <1>1 DEF IInv, TypeInv, HandInv
<1>3. consumer.job[1].id = i
  BY <1>2 DEF Input
<1>4. Place(i) /\ InHand(consumer) = {i} /\ i \in Numbers(typed)
  BY <1>1, <1>3 DEF InHand, Numbers
<1>5. submissions' \in Seq(JobsTo(typed))
  BY <1>1 DEF IInv, TypeInv, ContentInv
<1>6. i \notin Sent(submissions')
  BY <1>1, <1>4 DEF IInv, OnceInv, Apart
<1> QED
  BY <1>1, <1>4, <1>5, <1>6, PlaceGood

\* A mild world offers no image.
LEMMA ImageIsRough == ASSUME WorldInv, NEW i \in 1..typed, kinds[i] = "image" PROVE ~IsMild
<1>1. world.kinds \in Seq(SUBSET Kinds) /\ typed \in Nat /\ Len(world.kinds) \in Nat /\ typed <= Len(world.kinds)
  BY FollowUpsAssumption DEF WorldInv, typed
<1>2. i \in DOMAIN world.kinds
  BY <1>1
<1> QED
  BY <1>2 DEF IsMild, WorldInv

LEMMA RefusedGood == ASSUME IInv, Refused PROVE IInv'
<1>1. /\ consumer.at = "admit" /\ editor' = editor \cup {consumer.job[1].id} /\ consumer' = Idle
      /\ UNCHANGED <<world, kinds, mode, submissions, turnActive, cancelPending, pending, queue, loop, current, task, engine,
                     cancelling, turn, checkpoint, spoke, history, retracted, late, confirmed, disk, stage, shutdown, resends>>
  BY DEF Refused, tuiVars, runVars, turnVars, stageVars
<1>2. PICK i \in 1..typed : consumer.job = <<Input(i)>> /\ kinds[i] = "image"
  BY <1>1 DEF IInv, TypeInv, HandInv
<1>3. editor' = editor \cup {i} /\ InHand(consumer) = {i}
  BY <1>1, <1>2 DEF Input, InHand
<1>4. consumer' \in RestTo(typed) /\ consumer'.at = "get" /\ InHand(consumer') = {}
  BY <1>1 DEF Idle, Rest, RestTo, InHand
<1>5. WorldInv' /\ ContentInv'
  BY <1>1, <1>3, <1>4 DEF IInv, TypeInv, WorldInv, ContentInv, Numbers, typed
<1>6. HandInv' /\ PhaseInv'
  BY <1>1, <1>4 DEF IInv, TypeInv, HandInv, PhaseInv
<1>7. BoundaryInv'
  BY <1>1, <1>4 DEF IInv, BoundaryInv, AtBoundary
<1>12. /\ i \notin QueueIds(queue) \cup editor /\ i \notin Range(history) \cup Range(turn)
  BY <1>3 DEF IInv, OnceInv, Apart, Gone
<1>8. FlightInv'
  <2>1. CarryInv' = CarryInv
    <3>1. Carried' = Carried
      BY <1>1 DEF Carried
    <3>2. CarryInv
      BY DEF IInv, FlightInv
    <3>3. engine.at \in Asking => i \notin Carried
      BY <1>12, <3>2 DEF CarryInv
    <3>4. engine.at \in Awaited => i \notin Range(engine.request)
      BY <3>3 DEF Carried, Awaited, Asking
    <3> QED
      BY <1>1, <1>3, <3>1, <3>2, <3>4 DEF CarryInv
  <2> QED
    BY <1>1, <2>1 DEF IInv, FlightInv, ClaimInv
<1>13. FateInv'
  BY <1>1, <1>3, <1>12 DEF IInv, FateInv
<1>9. KeptInv'
  BY <1>1, <1>3, <1>4 DEF IInv, KeptInv, Kept, Gone, typed
<1>10. OnceInv'
  <2> SUFFICES /\ Apart(Sent(submissions), InHand(consumer'), Range(pending), QueueIds(queue), Taken(current),
                        Range(history) \cup Range(turn), Gone')
               /\ SentOnce(submissions) /\ IsInjective(pending) /\ QueuedOnce(queue)
               /\ IsInjective(history) /\ IsInjective(turn) /\ Range(history) \cap Range(turn) = {}
    BY <1>1 DEF OnceInv
  <2>1. /\ Apart(Sent(submissions), InHand(consumer), Range(pending), QueueIds(queue), Taken(current),
                 Range(history) \cup Range(turn), Gone)
        /\ SentOnce(submissions) /\ IsInjective(pending) /\ QueuedOnce(queue)
        /\ IsInjective(history) /\ IsInjective(turn) /\ Range(history) \cap Range(turn) = {}
    BY DEF IInv, OnceInv
  <2>2. Gone' = Gone \cup {i}
    BY <1>1, <1>3 DEF Gone
  <2> QED
    BY <1>3, <1>4, <2>1, <2>2 DEF Apart
<1>11. RestInv'
  <2>1. ~IsMild
    BY <1>2, ImageIsRough DEF IInv, TypeInv
  <2> QED
    BY <1>1, <2>1 DEF RestInv, Plain, IsMild
<1> QED
  BY <1>5, <1>6, <1>7, <1>8, <1>9, <1>10, <1>11, <1>13 DEF IInv, TypeInv

\* A flush moves one follow-up to the pending inputs, if there is any, and claims nothing.
LEMMA FlushGood ==
  ASSUME IInv, task # "engine", Flush
  PROVE  /\ queue' \in Seq(ItemsTo(typed)) /\ pending' \in Seq(Numbers(typed))
         /\ \A m \in DOMAIN queue' : ~queue'[m].inflight
         /\ queue' # <<>> => pending' # <<>>
         /\ Range(pending) \cup QueueIds(queue) = Range(pending') \cup QueueIds(queue')
         /\ Range(pending) \subseteq Range(pending')
         /\ Range(pending') \cap QueueIds(queue') = {}
         /\ IsInjective(pending') /\ QueuedOnce(queue')
<1>1. queue \in Seq(ItemsTo(typed)) /\ pending \in Seq(Numbers(typed))
  BY DEF IInv, TypeInv, ContentInv
<1>2. \A m \in DOMAIN queue : ~queue[m].inflight
  BY DEF IInv, TypeInv, PhaseInv, FlightInv, ClaimInv, Asking
<1>3. /\ queue' \in Seq(ItemsTo(typed)) /\ \A m \in DOMAIN queue' : ~queue'[m].inflight
      /\ \/ queue = <<>> /\ pending' = pending /\ queue' = queue
         \/ \E i \in Numbers(typed) : /\ pending' = Append(pending, i)
                                      /\ QueueIds(queue) = QueueIds(queue') \cup {i}
                                      /\ QueuedOnce(queue) => QueuedOnce(queue') /\ i \notin QueueIds(queue')
  BY <1>1, <1>2, FlushFacts
<1>4. Range(pending) \cap QueueIds(queue) = {} /\ IsInjective(pending) /\ QueuedOnce(queue)
  BY DEF IInv, OnceInv, Apart
<1>5. CASE queue = <<>> /\ pending' = pending /\ queue' = queue
  BY <1>1, <1>3, <1>4, <1>5
<1>6. CASE \E i \in Numbers(typed) : /\ pending' = Append(pending, i)
                                     /\ QueueIds(queue) = QueueIds(queue') \cup {i}
                                     /\ QueuedOnce(queue) => QueuedOnce(queue') /\ i \notin QueueIds(queue')
  <2>1. PICK i \in Numbers(typed) : /\ pending' = Append(pending, i)
                                    /\ QueueIds(queue) = QueueIds(queue') \cup {i}
                                    /\ QueuedOnce(queue) => QueuedOnce(queue') /\ i \notin QueueIds(queue')
    BY <1>6
  <2>2. /\ pending' \in Seq(Numbers(typed)) /\ pending' # <<>> /\ Range(pending') = Range(pending) \cup {i}
        /\ IsInjective(pending) /\ i \notin Range(pending) => IsInjective(pending')
    BY <1>1, <2>1, AppendRange
  <2> QED
    BY <1>3, <1>4, <2>1, <2>2
<1> QED
  BY <1>3, <1>5, <1>6

LEMMA HasItem == ASSUME NEW S, NEW s \in Seq(S), s # <<>> PROVE Range(s) # {}
<1>1. Len(s) \in Nat \ {0} /\ DOMAIN s = 1..Len(s)
  OBVIOUS
<1>2. 1 \in DOMAIN s
  BY <1>1
<1> QED
  BY <1>2 DEF Range

\* A flush, while the current input stays or is gone.
LEMMA FlushKeeps ==
  ASSUME IInv, task # "engine", Flush, InHand(consumer') = InHand(consumer),
         UNCHANGED <<world, kinds, submissions, engine, history, turn, editor, late>>,
         \/ UNCHANGED <<current, retracted>>
         \/ current' = 0 /\ current # 0 /\ retracted' = retracted \cup {current}
  PROVE  KeptInv' /\ OnceInv' /\ FateInv' /\ FlightInv'
<1>1. /\ queue' \in Seq(ItemsTo(typed)) /\ pending' \in Seq(Numbers(typed))
      /\ \A m \in DOMAIN queue' : ~queue'[m].inflight
      /\ Range(pending) \cup QueueIds(queue) = Range(pending') \cup QueueIds(queue')
      /\ Range(pending') \cap QueueIds(queue') = {}
      /\ IsInjective(pending') /\ QueuedOnce(queue')
  BY FlushGood
<1>2. FlightInv'
  BY <1>1, FlightAway DEF IInv, TypeInv, PhaseInv
<1>3. /\ Taken(current) \cup Gone = Taken(current') \cup Gone'
      /\ Gone' = Gone \cup (Taken(current) \ Taken(current'))
      /\ Taken(current') \subseteq Taken(current)
      /\ Taken(current') \cap (Taken(current) \ Taken(current')) = {}
  BY DEF Taken, Gone
<1>4. KeptInv'
  BY <1>1, <1>3 DEF IInv, KeptInv, Kept, typed
<1>5. OnceInv'
  <2> SUFFICES /\ Apart(Sent(submissions), InHand(consumer), Range(pending'), QueueIds(queue'), Taken(current'),
                        Range(history) \cup Range(turn), Gone')
               /\ SentOnce(submissions) /\ IsInjective(pending') /\ QueuedOnce(queue')
               /\ IsInjective(history) /\ IsInjective(turn) /\ Range(history) \cap Range(turn) = {}
    BY DEF OnceInv
  <2>1. /\ Apart(Sent(submissions), InHand(consumer), Range(pending), QueueIds(queue), Taken(current),
                 Range(history) \cup Range(turn), Gone)
        /\ SentOnce(submissions) /\ IsInjective(pending) /\ QueuedOnce(queue)
        /\ IsInjective(history) /\ IsInjective(turn) /\ Range(history) \cap Range(turn) = {}
    BY DEF IInv, OnceInv
  <2>2. /\ Range(pending) \cup QueueIds(queue) = Range(pending') \cup QueueIds(queue')
        /\ Range(pending') \cap QueueIds(queue') = {}
        /\ IsInjective(pending') /\ QueuedOnce(queue')
    BY <1>1
  <2>3. Apart(Sent(submissions), InHand(consumer), Range(pending'), QueueIds(queue'), Taken(current'),
              Range(history) \cup Range(turn), Gone')
    BY <1>3, <2>1, <2>2 DEF Apart
  <2> QED
    BY <2>1, <2>2, <2>3
<1>6. FateInv'
  <2>1. Taken(current) \cap (Range(history) \cup Range(turn)) = {}
    BY DEF IInv, OnceInv, Apart
  <2>2. retracted' \subseteq retracted \cup Taken(current)
    BY DEF Taken
  <2> QED
    BY <2>1, <2>2 DEF IInv, FateInv
<1> QED
  BY <1>2, <1>4, <1>5, <1>6

LEMMA SaveDoneGood == ASSUME IInv, SaveDone PROVE IInv'
<1>1. /\ consumer.at = "save" /\ disk' = consumer.capture /\ consumer' = Idle
      /\ UNCHANGED <<kinds, mode, submissions, cancelPending, loop, current, engine, cancelling,
                     turn, checkpoint, spoke, history, editor, retracted, late, stage, shutdown, resends>>
  BY DEF SaveDone, tuiVars, turnVars, fateVars, stageVars
<1>2. /\ consumer.job[1].kind = "boundary" =>
           turnActive' = FALSE /\ Flush /\ UNCHANGED confirmed /\ task' = IF task = "boundary" THEN "placed" ELSE task
      /\ consumer.job[1].kind # "boundary" =>
           /\ confirmed' = IF consumer.job[1].kind = "input" THEN confirmed \cup {consumer.job[1].id} ELSE confirmed
           /\ UNCHANGED <<turnActive, task, pending, queue>>
      /\ UNCHANGED world
  BY DEF SaveDone
<1>3. PICK job \in JobsTo(typed) : consumer.job[1] = job /\ consumer.capture \subseteq Numbers(typed)
  BY <1>1, JobInHand DEF IInv
<1>4. consumer' \in RestTo(typed) /\ consumer'.at = "get" /\ InHand(consumer') = {} /\ InHand(consumer) = {}
  BY <1>1 DEF Idle, Rest, RestTo, InHand
<1>5. WorldInv' /\ HandInv'
  BY <1>1, <1>2, <1>4 DEF IInv, TypeInv, WorldInv, HandInv, typed
<1>6. /\ OneBoundary(submissions)
      /\ Boundaries(submissions) # {} => task = "boundary"
      /\ job.kind = "boundary" => Boundaries(submissions) = {} /\ task = "boundary"
  BY <1>1, <1>3 DEF IInv, BoundaryInv, AtBoundary
<1>7. CASE job.kind = "boundary"
  <2>1. turnActive' = FALSE /\ Flush /\ confirmed' = confirmed /\ task = "boundary" /\ task' = "placed"
    BY <1>2, <1>3, <1>6, <1>7
  <2>2. /\ queue' \in Seq(ItemsTo(typed)) /\ pending' \in Seq(Numbers(typed))
        /\ queue' # <<>> => pending' # <<>>
    BY <2>1, FlushGood
  <2>3. ContentInv'
    BY <1>1, <1>3, <1>4, <2>1, <2>2 DEF IInv, TypeInv, ContentInv, typed
  <2>4. PhaseInv'
    BY <1>1, <1>2, <2>1 DEF IInv, TypeInv, PhaseInv
  <2>5. BoundaryInv'
    <3>1. ~AtBoundary'
      BY <1>4 DEF AtBoundary
    <3>2. OneBoundary(submissions') /\ (Boundaries(submissions') # {} => task' = "boundary")
      BY <1>1, <1>6, <1>7
    <3> QED
      BY <3>1, <3>2 DEF BoundaryInv
  <2>6. KeptInv' /\ OnceInv' /\ FateInv' /\ FlightInv'
    BY <1>1, <1>2, <1>4, <2>1, FlushKeeps
  <2>7. RestInv'
    BY <2>1, <2>2 DEF RestInv
  <2> QED
    BY <1>5, <2>3, <2>4, <2>5, <2>6, <2>7 DEF IInv, TypeInv
<1>8. CASE job.kind # "boundary"
  <2>1. UNCHANGED <<turnActive, task, pending, queue>>
    BY <1>2, <1>3, <1>8
  <2>2. confirmed' \subseteq Numbers(typed)
    <3>1. confirmed' = IF job.kind = "input" THEN confirmed \cup {job.id} ELSE confirmed
      BY <1>2, <1>3, <1>8
    <3> QED
      BY <3>1, JobTypes DEF IInv, TypeInv, ContentInv
  <2>3. ContentInv'
    BY <1>1, <1>3, <1>4, <2>1, <2>2 DEF IInv, TypeInv, ContentInv, typed
  <2>4. PhaseInv'
    BY <1>1, <1>2, <2>1 DEF IInv, TypeInv, PhaseInv
  <2>5. BoundaryInv'
    <3>1. ~AtBoundary'
      BY <1>4 DEF AtBoundary
    <3>2. OneBoundary(submissions') /\ (Boundaries(submissions') # {} => task' = "boundary")
      BY <1>1, <1>6, <2>1
    <3> QED
      BY <3>1, <3>2 DEF BoundaryInv
  <2>6. KeptInv' /\ OnceInv' /\ FateInv'
    BY <1>1, <1>2, <1>4, <2>1, PlacesSame DEF IInv
  <2>7. FlightInv'
    BY <1>1, <1>2, <2>1, FlightSame DEF IInv
  <2>8. RestInv'
    <3>1. Owed' = Owed
      BY <1>1, <1>4, <2>1 DEF Owed
    <3> QED
      BY <1>1, <1>2, <2>1, <3>1, RestSame DEF IInv
  <2> QED
    BY <1>5, <2>3, <2>4, <2>5, <2>6, <2>7, <2>8 DEF IInv, TypeInv
<1> QED
  BY <1>7, <1>8

LEMMA SaveRaisesGood == ASSUME IInv, SaveRaises PROVE IInv'
<1>1. /\ world.savesFail /\ consumer.at = "save" /\ consumer' = Rest("dead") /\ shutdown' = TRUE
      /\ task' = task \/ (task = "boundary" /\ task' = "failed")
      /\ UNCHANGED <<world, kinds, mode, submissions, turnActive, cancelPending, pending, queue, loop, current, engine,
                     cancelling, turn, checkpoint, spoke, history, editor, retracted, late, confirmed, disk, stage, resends>>
  BY DEF SaveRaises, tuiVars, turnVars, fateVars
<1>2. consumer' \in RestTo(typed) /\ consumer'.at = "dead" /\ InHand(consumer') = {} /\ InHand(consumer) = {}
  BY <1>1 DEF Rest, RestTo, InHand
<1>3. WorldInv' /\ ContentInv' /\ HandInv'
  BY <1>1, <1>2 DEF IInv, TypeInv, WorldInv, ContentInv, HandInv, typed
<1>4. PhaseInv'
  BY <1>1 DEF IInv, TypeInv, PhaseInv
<1>5. BoundaryInv' /\ FlightInv'
  BY <1>1, <1>2, FlightSame DEF IInv, BoundaryInv
<1>6. KeptInv' /\ OnceInv' /\ FateInv'
  BY <1>1, <1>2, PlacesSame DEF IInv
<1>7. RestInv'
  BY <1>1 DEF RestInv, Plain, IsMild
<1> QED
  BY <1>3, <1>4, <1>5, <1>6, <1>7 DEF IInv, TypeInv

-----------------------------------------------------------------------------
(***************************************************************************)
(* The input loop and the turn task.                                       *)
(***************************************************************************)
LEMMA NextInputGood == ASSUME IInv, NextInput PROVE IInv'
<1> DEFINE i == Head(pending)
<1>1. /\ loop = "wait" /\ ~shutdown /\ pending # <<>> /\ pending' = Tail(pending)
      /\ UNCHANGED <<world, kinds, submissions, consumer, turnActive, queue, task, engine, cancelling,
                     turn, checkpoint, spoke, history, editor, late, confirmed, disk, stage, shutdown, resends>>
  BY DEF NextInput, consumerVars, turnVars, stageVars
<1>2. /\ cancelPending => /\ retracted' = retracted \cup {i} /\ UNCHANGED <<loop, current>>
                          /\ mode' = (IF mode = "gone" THEN mode ELSE "chat") /\ cancelPending' = FALSE
      /\ ~cancelPending => loop' = "admit" /\ current' = i /\ UNCHANGED <<retracted, mode, cancelPending>>
  BY DEF NextInput, ResetTurn
<1>3. pending \in Seq(Numbers(typed))
  BY DEF IInv, TypeInv, ContentInv
<1>4. /\ i \in Numbers(typed) /\ pending' \in Seq(Numbers(typed))
      /\ Range(pending) = Range(pending') \cup {i}
      /\ IsInjective(pending) => IsInjective(pending') /\ i \notin Range(pending')
  BY <1>1, <1>3, TailRange
<1> HIDE DEF i
<1>5. task = "none" /\ current = 0 /\ Taken(current) = {} /\ stage = "up" /\ mode # "gone"
  BY <1>1 DEF IInv, TypeInv, PhaseInv, Taken
<1>6. i # 0 /\ Taken(i) = {i}
  BY <1>4 DEF Numbers, Taken
<1>7. WorldInv' /\ HandInv'
  BY <1>1 DEF IInv, TypeInv, WorldInv, HandInv, typed
<1>8. BoundaryInv' /\ FlightInv'
  <2>1. engine'.at = "none"
    BY <1>1, <1>5 DEF IInv, TypeInv, PhaseInv
  <2>2. \A n \in DOMAIN queue' : ~queue'[n].inflight
    BY <1>1, <2>1 DEF IInv, FlightInv, ClaimInv, Asking
  <2> QED
    BY <1>1, <2>1, <2>2, BoundarySame, FlightAway DEF IInv
<1>9. /\ Apart(Sent(submissions), InHand(consumer), Range(pending), QueueIds(queue), {},
               Range(history) \cup Range(turn), Gone)
      /\ SentOnce(submissions) /\ IsInjective(pending) /\ QueuedOnce(queue)
      /\ IsInjective(history) /\ IsInjective(turn) /\ Range(history) \cap Range(turn) = {}
      /\ Kept(typed, Sent(submissions), InHand(consumer), Range(pending), QueueIds(queue), {},
              Range(history) \cup Range(turn), Gone)
  BY <1>5 DEF IInv, OnceInv, KeptInv
<1>12. FateInv'
  <2>1. i \notin Range(history) \cup Range(turn)
    BY <1>4, <1>9 DEF Apart
  <2>2. retracted' \subseteq retracted \cup {i}
    BY <1>2
  <2> QED
    BY <1>1, <2>1, <2>2 DEF IInv, FateInv
<1>10. CASE cancelPending
  <2>1. /\ retracted' = retracted \cup {i} /\ UNCHANGED <<loop, current>>
        /\ mode' = "chat" /\ cancelPending' = FALSE
    BY <1>2, <1>5, <1>10
  <2>2. ContentInv'
    BY <1>1, <1>4, <2>1 DEF IInv, TypeInv, ContentInv, typed
  <2>3. PhaseInv'
    BY <1>1, <1>5, <2>1 DEF IInv, TypeInv, PhaseInv
  <2>4. Gone' = Gone \cup {i} /\ Taken(current') = {}
    BY <1>1, <1>5, <2>1 DEF Gone
  <2>5. KeptInv'
    BY <1>1, <1>4, <1>9, <2>1, <2>4 DEF KeptInv, Kept, typed
  <2>6. OnceInv'
    <3> SUFFICES /\ Apart(Sent(submissions), InHand(consumer), Range(pending'), QueueIds(queue), {},
                          Range(history) \cup Range(turn), Gone')
                 /\ SentOnce(submissions) /\ IsInjective(pending') /\ QueuedOnce(queue)
                 /\ IsInjective(history) /\ IsInjective(turn) /\ Range(history) \cap Range(turn) = {}
      BY <1>1, <2>4 DEF OnceInv
    <3>1. IsInjective(pending') /\ i \notin Range(pending') /\ Range(pending) = Range(pending') \cup {i}
      BY <1>4, <1>9
    <3>2. Apart(Sent(submissions), InHand(consumer), Range(pending'), QueueIds(queue), {},
                Range(history) \cup Range(turn), Gone')
      BY <1>9, <2>4, <3>1 DEF Apart
    <3> QED
      BY <1>9, <3>1, <3>2
  <2>7. RestInv'
    <3>1. mode = "running"
      BY <1>5, <1>10 DEF IInv, TypeInv, PhaseInv
    <3>2. Owed = Owed' \cup {i}
      BY <1>1, <1>4 DEF Owed
    <3>3. Plain /\ queue # <<>> => \E x, y \in Owed : x # y
      BY <1>1, <1>5, <3>1 DEF IInv, RestInv
    <3>4. Plain /\ queue # <<>> => Owed' # {}
      BY <3>2, <3>3
    <3>5. Plain' = Plain
      BY <1>1 DEF Plain, IsMild
    <3> QED
      BY <1>1, <1>5, <2>1, <3>4, <3>5 DEF RestInv
  <2> QED
    BY <1>7, <1>8, <1>12, <2>2, <2>3, <2>5, <2>6, <2>7 DEF IInv, TypeInv
<1>11. CASE ~cancelPending
  <2>1. loop' = "admit" /\ current' = i /\ UNCHANGED <<retracted, mode, cancelPending>>
    BY <1>2, <1>11
  <2>2. ContentInv'
    <3>1. i \in 0..typed
      BY <1>4, PlacesTyped DEF Numbers, IInv
    <3> QED
      BY <1>1, <1>4, <2>1, <3>1 DEF IInv, TypeInv, ContentInv, typed
  <2>3. PhaseInv'
    BY <1>1, <1>5, <1>6, <2>1 DEF IInv, TypeInv, PhaseInv
  <2>4. Gone' = Gone /\ Taken(current') = {i}
    BY <1>1, <1>6, <2>1 DEF Gone
  <2>5. KeptInv'
    BY <1>1, <1>4, <1>9, <2>1, <2>4 DEF KeptInv, Kept, typed
  <2>6. OnceInv'
    <3> SUFFICES /\ Apart(Sent(submissions), InHand(consumer), Range(pending'), QueueIds(queue), {i},
                          Range(history) \cup Range(turn), Gone')
                 /\ SentOnce(submissions) /\ IsInjective(pending') /\ QueuedOnce(queue)
                 /\ IsInjective(history) /\ IsInjective(turn) /\ Range(history) \cap Range(turn) = {}
      BY <1>1, <2>4 DEF OnceInv
    <3>1. IsInjective(pending') /\ i \notin Range(pending') /\ Range(pending) = Range(pending') \cup {i}
      BY <1>4, <1>9
    <3>2. Apart(Sent(submissions), InHand(consumer), Range(pending'), QueueIds(queue), {i},
                Range(history) \cup Range(turn), Gone')
      BY <1>9, <2>4, <3>1 DEF Apart
    <3> QED
      BY <1>9, <3>1, <3>2
  <2>7. RestInv'
    BY <1>1, <1>5, <2>1, RestAway
  <2> QED
    BY <1>7, <1>8, <1>12, <2>2, <2>3, <2>5, <2>6, <2>7 DEF IInv, TypeInv
<1> QED
  BY <1>10, <1>11

\* In the hands of the input loop an input is one that was typed.
LEMMA CurrentTyped ==
  ASSUME IInv, loop \in {"admit", "command"}
  PROVE  /\ current \in Numbers(typed) /\ current # 0 /\ Taken(current) = {current} /\ task = "none" /\ stage = "up"
         /\ current \in 1..typed
<1>1. current \in 0..typed /\ current # 0 /\ task = "none" /\ stage = "up"
  BY DEF IInv, TypeInv, ContentInv, PhaseInv
<1>2. typed \in Nat /\ typed = Len(kinds)
  BY PlacesTyped DEF IInv
<1>3. current \in 1..typed
  BY <1>1, <1>2
<1> QED
  BY <1>1, <1>3 DEF Numbers, Taken

LEMMA RefusedAgainGood == ASSUME IInv, RefusedAgain PROVE IInv'
<1>1. /\ loop = "admit" /\ kinds[current] = "image" /\ editor' = editor \cup {current} /\ loop' = "wait" /\ current' = 0
      /\ UNCHANGED <<world, kinds, mode, submissions, consumer, turnActive, cancelPending, pending, queue, task, engine,
                     cancelling, turn, checkpoint, spoke, history, retracted, late, confirmed, disk, stage, shutdown, resends>>
  BY DEF RefusedAgain, tuiVars, consumerVars, turnVars, stageVars
<1>2. /\ current \in Numbers(typed) /\ current # 0 /\ Taken(current) = {current} /\ task = "none" /\ stage = "up"
      /\ current \in 1..typed
  BY <1>1, CurrentTyped
<1>3. Gone' = Gone \cup {current} /\ Taken(current') = {}
  BY <1>1 DEF Gone, Taken
<1>4. ContentInv'
  <2>1. current' \in 0..typed
    BY <1>1, PlacesTyped DEF IInv
  <2> QED
    BY <1>1, <1>2, <2>1 DEF IInv, TypeInv, ContentInv, typed
<1>5. WorldInv' /\ HandInv' /\ PhaseInv'
  BY <1>1, <1>2 DEF IInv, TypeInv, WorldInv, HandInv, PhaseInv, typed
<1>6. BoundaryInv' /\ FlightInv'
  <2>1. engine'.at = "none"
    BY <1>1, <1>2 DEF IInv, TypeInv, PhaseInv
  <2>2. \A n \in DOMAIN queue' : ~queue'[n].inflight
    BY <1>1, <2>1 DEF IInv, FlightInv, ClaimInv, Asking
  <2> QED
    BY <1>1, <2>1, <2>2, BoundarySame, FlightAway DEF IInv
<1>7. KeptInv'
  BY <1>1, <1>2, <1>3 DEF IInv, KeptInv, Kept, typed
<1>8. OnceInv'
  <2> SUFFICES /\ Apart(Sent(submissions), InHand(consumer), Range(pending), QueueIds(queue), {},
                        Range(history) \cup Range(turn), Gone')
               /\ SentOnce(submissions) /\ IsInjective(pending) /\ QueuedOnce(queue)
               /\ IsInjective(history) /\ IsInjective(turn) /\ Range(history) \cap Range(turn) = {}
    BY <1>1, <1>3 DEF OnceInv
  <2>1. /\ Apart(Sent(submissions), InHand(consumer), Range(pending), QueueIds(queue), {current},
                 Range(history) \cup Range(turn), Gone)
        /\ SentOnce(submissions) /\ IsInjective(pending) /\ QueuedOnce(queue)
        /\ IsInjective(history) /\ IsInjective(turn) /\ Range(history) \cap Range(turn) = {}
    BY <1>2 DEF IInv, OnceInv
  <2> QED
    BY <1>3, <2>1 DEF Apart
<1>9. RestInv'
  <2>1. ~IsMild
    BY <1>1, <1>2, ImageIsRough DEF IInv, TypeInv
  <2> QED
    BY <1>1, <2>1 DEF RestInv, Plain, IsMild
<1>10. FateInv'
  <2>1. current \notin Range(history) \cup Range(turn)
    BY <1>2 DEF IInv, OnceInv, Apart
  <2> QED
    BY <1>1, <2>1 DEF IInv, FateInv
<1> QED
  BY <1>4, <1>5, <1>6, <1>7, <1>8, <1>9, <1>10 DEF IInv, TypeInv

LEMMA StartCommandGood == ASSUME IInv, StartCommand PROVE IInv'
<1>1. /\ loop = "admit" /\ loop' = "command" /\ mode' = (IF mode = "gone" THEN mode ELSE "running")
      /\ UNCHANGED <<world, kinds, submissions, consumer, turnActive, cancelPending, pending, queue, current, task, engine,
                     cancelling, turn, checkpoint, spoke, history, editor, retracted, late, confirmed, disk, stage, shutdown, resends>>
  BY DEF StartCommand, consumerVars, turnVars, fateVars, stageVars
<1>2. current # 0 /\ task = "none"
  BY <1>1, CurrentTyped
<1>3. WorldInv' /\ ContentInv' /\ PhaseInv'
  BY <1>1, <1>2 DEF IInv, TypeInv, WorldInv, ContentInv, PhaseInv, typed
<1>4. KeptInv' /\ OnceInv' /\ FateInv' /\ HandInv'
  BY <1>1, InputsSame
<1>5. BoundaryInv' /\ FlightInv' /\ RestInv'
  BY <1>1, <1>2, BoundarySame, FlightSame, RestAway DEF IInv
<1> QED
  BY <1>3, <1>4, <1>5 DEF IInv, TypeInv

LEMMA EndCommandGood == ASSUME IInv, EndCommand PROVE IInv'
<1>1. /\ loop = "command" /\ Flush /\ retracted' = retracted \cup {current} /\ loop' = "wait" /\ current' = 0
      /\ mode' = (IF mode = "gone" THEN mode ELSE "chat") /\ cancelPending' = FALSE
      /\ UNCHANGED <<kinds, submissions, consumer, turnActive, task, engine,
                     cancelling, turn, checkpoint, spoke, history, editor, late, confirmed, disk, stage, shutdown, resends>>
  BY DEF EndCommand, ResetTurn, consumerVars, turnVars, stageVars
<1>2. world' = world
  BY DEF EndCommand
<1>3. current \in Numbers(typed) /\ current # 0 /\ task = "none" /\ stage = "up"
  BY <1>1, CurrentTyped
<1>4. /\ queue' \in Seq(ItemsTo(typed)) /\ pending' \in Seq(Numbers(typed))
      /\ queue' # <<>> => pending' # <<>>
  BY <1>1, <1>3, FlushGood
<1>5. ContentInv'
  <2>1. current' \in 0..typed
    BY <1>1, PlacesTyped DEF IInv
  <2> QED
    BY <1>1, <1>3, <1>4, <2>1 DEF IInv, TypeInv, ContentInv, typed
<1>6. WorldInv' /\ HandInv' /\ PhaseInv'
  BY <1>1, <1>2, <1>3 DEF IInv, TypeInv, WorldInv, HandInv, PhaseInv, typed
<1>7. KeptInv' /\ OnceInv' /\ FateInv' /\ FlightInv'
  BY <1>1, <1>2, <1>3, FlushKeeps
<1>8. BoundaryInv'
  BY <1>1, BoundarySame DEF IInv
<1>9. RestInv'
  <2>1. queue' # <<>> => Range(pending') # {}
    BY <1>4, HasItem
  <2>2. mode' \notin {"dispatch", "running"}
    BY <1>1
  <2> QED
    BY <1>1, <1>3, <2>1, <2>2 DEF RestInv, Owed
<1> QED
  BY <1>5, <1>6, <1>7, <1>8, <1>9 DEF IInv, TypeInv

LEMMA StartTurnGood == ASSUME IInv, StartTurn PROVE IInv'
<1>1. /\ loop = "admit" /\ loop' = "turn" /\ task' = "engine" /\ turnActive' = TRUE
      /\ mode' = (IF mode = "gone" THEN mode ELSE "running") /\ engine' = [NoEngine EXCEPT !.at = "open"]
      /\ cancelling' = FALSE /\ turn' = <<current>> /\ checkpoint' = <<current>> /\ spoke' = FALSE /\ current' = 0
      /\ UNCHANGED <<world, kinds, submissions, consumer, cancelPending, pending, queue, history, editor, retracted, late,
                     confirmed, disk, stage, shutdown, resends>>
  BY DEF StartTurn, consumerVars, fateVars, stageVars
<1>2. current \in Numbers(typed) /\ current # 0 /\ Taken(current) = {current} /\ task = "none" /\ stage = "up"
  BY <1>1, CurrentTyped
<1>3. turn = <<>> /\ Range(turn) = {}
  BY <1>2 DEF IInv, TypeInv, PhaseInv, Range
<1>4. turn' \in Seq(Numbers(typed)) /\ Range(turn') = {current} /\ IsInjective(turn')
  <2>1. DOMAIN <<current>> = {1} /\ <<current>>[1] = current
    OBVIOUS
  <2>2. turn' \in Seq(Numbers(typed))
    BY <1>1, <1>2
  <2> QED
    BY <1>1, <2>1, <2>2 DEF Range, IsInjective
<1>5. engine' \in EnginesTo(typed) /\ engine'.at = "open" /\ engine'.request = <<>> /\ engine'.failed = <<>>
  <2>1. engine' = [at |-> "open", request |-> <<>>, failed |-> <<>>, step |-> 0, tries |-> 0]
    BY <1>1 DEF NoEngine
  <2>2. <<>> \in Seq(Numbers(typed))
    OBVIOUS
  <2> QED
    BY <2>1, <2>2 DEF EnginesTo
<1>6. ContentInv'
  <2>1. current' \in 0..typed
    BY <1>1, PlacesTyped DEF IInv
  <2> QED
    BY <1>1, <1>4, <1>5, <2>1 DEF IInv, TypeInv, ContentInv, typed
<1>7. WorldInv' /\ HandInv' /\ PhaseInv'
  BY <1>1, <1>2, <1>5 DEF IInv, TypeInv, WorldInv, HandInv, PhaseInv, typed
<1>8. BoundaryInv'
  BY <1>1, <1>2, BoundarySame DEF IInv
<1>9. FlightInv'
  <2>1. \A n \in DOMAIN queue : ~queue[n].inflight
    BY <1>2 DEF IInv, TypeInv, PhaseInv, FlightInv, ClaimInv, Asking
  <2> QED
    BY <1>1, <1>5, <2>1 DEF FlightInv, ClaimInv, CarryInv, Asking, Dispatched, Awaited
<1>10. Taken(current') = {}
  BY <1>1 DEF Taken
<1>11. KeptInv'
  BY <1>1, <1>2, <1>3, <1>4, <1>10 DEF IInv, KeptInv, Kept, Gone, typed
<1>12. OnceInv'
  <2> SUFFICES /\ Apart(Sent(submissions), InHand(consumer), Range(pending), QueueIds(queue), {},
                        Range(history) \cup {current}, Gone)
               /\ SentOnce(submissions) /\ IsInjective(pending) /\ QueuedOnce(queue)
               /\ IsInjective(history) /\ IsInjective(turn') /\ Range(history) \cap {current} = {}
    BY <1>1, <1>4, <1>10 DEF OnceInv, Gone
  <2>1. /\ Apart(Sent(submissions), InHand(consumer), Range(pending), QueueIds(queue), {current}, Range(history), Gone)
        /\ SentOnce(submissions) /\ IsInjective(pending) /\ QueuedOnce(queue) /\ IsInjective(history)
    BY <1>2, <1>3 DEF IInv, OnceInv
  <2> QED
    BY <1>4, <2>1 DEF Apart
<1>14. FateInv'
  <2>1. current \notin editor \cup retracted
    BY <1>2 DEF IInv, OnceInv, Apart, Gone
  <2> QED
    BY <1>1, <1>3, <1>4, <2>1 DEF IInv, FateInv
<1>13. RestInv'
  BY <1>1, RestAway
<1> QED
  BY <1>6, <1>7, <1>8, <1>9, <1>11, <1>12, <1>13, <1>14 DEF IInv, TypeInv

LEMMA PlaceAloneGood == ASSUME IInv, PlaceAlone PROVE IInv'
<1>1. /\ task = "boundary" /\ stage # "up" /\ consumer.at # "save"
      /\ \A n \in DOMAIN submissions : submissions[n].kind # "boundary"
      /\ disk' = Saved /\ turnActive' = FALSE /\ Flush /\ task' = "placed"
      /\ UNCHANGED <<kinds, mode, submissions, consumer, cancelPending, loop, current, engine, cancelling,
                     turn, checkpoint, spoke, history, editor, retracted, late, confirmed, stage, shutdown, resends>>
  BY DEF PlaceAlone, accepting, GateFree, tuiVars, consumerVars, turnVars, fateVars, stageVars
<1>2. world' = world
  BY DEF PlaceAlone
<1>3. queue' \in Seq(ItemsTo(typed)) /\ pending' \in Seq(Numbers(typed))
  BY <1>1, FlushGood
<1>4. disk' \subseteq Numbers(typed)
  BY <1>1, SavedTyped DEF IInv
<1>5. WorldInv' /\ ContentInv' /\ HandInv'
  BY <1>1, <1>2, <1>3, <1>4 DEF IInv, TypeInv, WorldInv, ContentInv, HandInv, typed
<1>6. PhaseInv'
  BY <1>1, <1>2 DEF IInv, TypeInv, PhaseInv
<1>7. KeptInv' /\ OnceInv' /\ FateInv' /\ FlightInv'
  BY <1>1, <1>2, FlushKeeps
<1>8. BoundaryInv'
  <2>1. ~AtBoundary' /\ Boundaries(submissions') = {}
    BY <1>1 DEF AtBoundary, Boundaries
  <2> QED
    BY <2>1 DEF BoundaryInv, OneBoundary
<1>9. RestInv'
  BY <1>1, RestAway
<1> QED
  BY <1>5, <1>6, <1>7, <1>8, <1>9 DEF IInv, TypeInv

LEMMA EndTurnGood == ASSUME IInv, EndTurn PROVE IInv'
<1>1. /\ task \in {"placed", "failed"} /\ task' = "none" /\ turnActive' = FALSE
      /\ mode' = (IF mode = "gone" THEN mode ELSE "chat") /\ cancelPending' = FALSE
      /\ shutdown' = (shutdown \/ task = "failed")
      /\ UNCHANGED <<world, kinds, submissions, consumer, pending, queue, loop, current, engine, cancelling,
                     turn, checkpoint, spoke, history, editor, retracted, late, confirmed, disk, stage, resends>>
  BY DEF EndTurn, ResetTurn, consumerVars, turnVars, fateVars
<1>2. WorldInv' /\ ContentInv'
  BY <1>1 DEF IInv, TypeInv, WorldInv, ContentInv, typed
<1>3. PhaseInv'
  BY <1>1 DEF IInv, TypeInv, PhaseInv
<1>4. KeptInv' /\ OnceInv' /\ FateInv' /\ HandInv' /\ Owed' = Owed
  BY <1>1, InputsSame
<1>5. BoundaryInv' /\ FlightInv'
  BY <1>1, BoundarySame, FlightSame DEF IInv
<1>6. RestInv'
  <2>1. Plain' = Plain
    BY <1>1 DEF Plain, IsMild
  <2>2. Plain => task = "placed"
    BY <1>1 DEF IInv, TypeInv, PhaseInv, Plain, IsMild
  <2>3. pending # <<>> => Owed # {}
    BY HasItem DEF IInv, TypeInv, ContentInv, Owed
  <2>4. mode' \notin {"dispatch", "running"}
    BY <1>1
  <2> QED
    BY <1>1, <1>4, <2>1, <2>2, <2>3, <2>4 DEF IInv, RestInv
<1> QED
  BY <1>2, <1>3, <1>4, <1>5, <1>6 DEF IInv, TypeInv

LEMMA LoopBackGood == ASSUME IInv, LoopBack PROVE IInv'
<1>1. /\ loop = "turn" /\ (task = "none" \/ shutdown) /\ loop' = "wait"
      /\ UNCHANGED <<world, kinds, mode, submissions, consumer, turnActive, cancelPending, pending, queue, current, task, engine,
                     cancelling, turn, checkpoint, spoke, history, editor, retracted, late, confirmed, disk, stage, shutdown, resends>>
  BY DEF LoopBack, tuiVars, consumerVars, turnVars, fateVars, stageVars
<1>2. WorldInv' /\ ContentInv'
  BY <1>1 DEF IInv, TypeInv, WorldInv, ContentInv, typed
<1>3. PhaseInv'
  BY <1>1 DEF IInv, TypeInv, PhaseInv
<1>4. KeptInv' /\ OnceInv' /\ FateInv' /\ HandInv' /\ Owed' = Owed
  BY <1>1, InputsSame
<1>5. BoundaryInv' /\ FlightInv'
  BY <1>1, BoundarySame, FlightSame DEF IInv
<1>6. RestInv'
  BY <1>1, <1>4 DEF IInv, RestInv, Plain, IsMild
<1> QED
  BY <1>2, <1>3, <1>4, <1>5, <1>6 DEF IInv, TypeInv

-----------------------------------------------------------------------------
(***************************************************************************)
(* The agent.                                                              *)
(***************************************************************************)
\* A step inside the turn that delivers nothing.
LEMMA EngineStep ==
  ASSUME IInv, task = "engine", engine' \in EnginesTo(typed), engine'.at # "none", FlightInv',
         disk' \subseteq Numbers(typed), checkpoint' \in Seq(Numbers(typed)), queue' \in Seq(ItemsTo(typed)),
         QueueIds(queue') = QueueIds(queue), QueuedOnce(queue) => QueuedOnce(queue'),
         UNCHANGED <<world, kinds, mode, submissions, consumer, turnActive, cancelPending, pending, loop, current, task,
                     cancelling, turn, spoke, history, editor, retracted, late, confirmed, stage, shutdown, resends>>
  PROVE  IInv'
<1>1. WorldInv' /\ ContentInv'
  BY DEF IInv, TypeInv, WorldInv, ContentInv, typed
<1>2. HandInv'
  BY HandSame DEF IInv, TypeInv
<1>3. PhaseInv'
  BY DEF IInv, TypeInv, PhaseInv
<1>4. BoundaryInv' /\ RestInv'
  BY BoundarySame, RestAway DEF IInv
<1>5. KeptInv' /\ OnceInv' /\ FateInv'
  BY PlacesSame DEF IInv
<1> QED
  BY <1>1, <1>2, <1>3, <1>4, <1>5 DEF IInv, TypeInv

LEMMA EngineTyped ==
  ASSUME TypeInv
  PROVE  /\ engine \in EnginesTo(typed) /\ queue \in Seq(ItemsTo(typed)) /\ checkpoint \in Seq(Numbers(typed))
         /\ turn \in Seq(Numbers(typed)) /\ history \in Seq(Numbers(typed))
         /\ engine.request \in Seq(Numbers(typed)) /\ engine.failed \in Seq(Numbers(typed))
         /\ disk \subseteq Numbers(typed) /\ Saved \subseteq Numbers(typed)
BY SavedTyped DEF TypeInv, ContentInv, EnginesTo

\* A step begins with nothing carried.
LEMMA FlightStarts ==
  ASSUME FlightInv, UNCHANGED <<queue, history, turn, editor, retracted, late>>,
         engine.at \in {"open", "tools"}, engine'.at = "ready",
         engine'.request = engine.request, engine'.failed = engine.failed
  PROVE  FlightInv'
<1>1. engine'.request = <<>> /\ engine'.failed = <<>>
  BY DEF FlightInv, CarryInv
<1>2. ClaimInv'
  BY DEF FlightInv, ClaimInv, Asking
<1>3. IsInjective(<<>>) /\ Range(<<>>) = {}
  <2>1. DOMAIN <<>> = {}
    OBVIOUS
  <2> QED
    BY <2>1 DEF IsInjective, Range
<1>4. CarryInv'
  BY <1>1, <1>3 DEF CarryInv, Carried, Dispatched, Awaited
<1> QED
  BY <1>2, <1>4 DEF FlightInv

LEMMA OpenedGood == ASSUME IInv, Opened PROVE IInv'
<1>1. /\ task = "engine" /\ engine.at = "open" /\ disk' = Saved
      /\ engine' = [engine EXCEPT !.at = "ready", !.step = 1]
      /\ UNCHANGED <<world, kinds, mode, submissions, consumer, turnActive, cancelPending, pending, queue, loop, current, task,
                     cancelling, turn, checkpoint, spoke, history, editor, retracted, late, confirmed, stage, shutdown, resends>>
  BY DEF Opened, Running, EngineFrame, tuiVars, turnVars, fateVars, stageVars
<1>2. engine \in EnginesTo(typed) /\ queue \in Seq(ItemsTo(typed)) /\ checkpoint \in Seq(Numbers(typed)) /\ Saved \subseteq Numbers(typed)
  BY EngineTyped DEF IInv
<1>3. engine' \in EnginesTo(typed) /\ engine'.at = "ready" /\ engine'.request = engine.request /\ engine'.failed = engine.failed
  BY <1>1, <1>2 DEF EnginesTo
<1>4. FlightInv'
  BY <1>1, <1>3, FlightStarts DEF IInv
<1> QED
  BY <1>1, <1>2, <1>3, <1>4, EngineStep

LEMMA PrepareGood == ASSUME IInv, Prepare PROVE IInv'
<1>1. /\ task = "engine" /\ engine.at = "ready"
      /\ queue' = [n \in DOMAIN queue |-> [queue[n] EXCEPT !.inflight = TRUE]]
      /\ engine' = [engine EXCEPT !.at = "prepare", !.request = Ids(queue), !.tries = 0]
      /\ UNCHANGED <<world, kinds, mode, submissions, consumer, turnActive, cancelPending, pending, loop, current, task,
                     cancelling, turn, checkpoint, spoke, history, editor, retracted, late, confirmed, disk, stage, shutdown, resends>>
  BY DEF Prepare, Running, EngineFrame, tuiVars, turnVars, fateVars, stageVars
<1>2. engine \in EnginesTo(typed) /\ queue \in Seq(ItemsTo(typed)) /\ checkpoint \in Seq(Numbers(typed)) /\ disk \subseteq Numbers(typed)
  BY EngineTyped DEF IInv
<1>3. /\ Range(Ids(queue)) = QueueIds(queue) /\ Ids(queue) \in Seq(Numbers(typed))
      /\ QueuedOnce(queue) => IsInjective(Ids(queue))
  BY <1>2, IdsRange
<1>4. engine' \in EnginesTo(typed) /\ engine'.at = "prepare" /\ engine'.request = Ids(queue) /\ engine'.failed = engine.failed
  BY <1>1, <1>2, <1>3 DEF EnginesTo
<1>5. /\ queue' \in Seq(ItemsTo(typed)) /\ DOMAIN queue' = DOMAIN queue /\ \A m \in DOMAIN queue : queue'[m].id = queue[m].id
      /\ QueueIds(queue') = QueueIds(queue) /\ (QueuedOnce(queue) => QueuedOnce(queue'))
  <2>1. \A m \in DOMAIN queue : queue[m] \in ItemsTo(typed)
    BY <1>2
  <2>2. \A m \in DOMAIN queue : queue'[m] \in ItemsTo(typed) /\ queue'[m].id = queue[m].id
    BY <1>1, <2>1 DEF ItemsTo
  <2>3. queue \in Seq(ItemsTo(typed)) /\ queue' = [m \in DOMAIN queue |-> queue'[m]]
    BY <1>1, <1>2
  <2> QED
    BY <2>2, <2>3, QueueFlags
<1>6. \A m \in DOMAIN queue' : queue'[m].inflight
  <2>1. \A m \in DOMAIN queue : queue[m] \in ItemsTo(typed)
    BY <1>2
  <2> QED
    BY <1>1, <2>1 DEF ItemsTo
<1>7. FlightInv'
  <2>1. \A m \in DOMAIN queue' : queue'[m].id \in Range(engine'.request)
    BY <1>3, <1>4, <1>5 DEF QueueIds
  <2>2. ClaimInv'
    BY <1>4, <1>6, <2>1 DEF ClaimInv, Asking
  <2>3. /\ QueuedOnce(queue) /\ QueueIds(queue) \cap editor = {}
        /\ QueueIds(queue) \cap (Range(history) \cup Range(turn) \cup retracted) = {}
    BY DEF IInv, OnceInv, Apart, Gone
  <2>4. /\ IsInjective(engine.failed) /\ Range(engine.failed) \subseteq QueueIds(queue) \cup editor
        /\ Range(engine.failed) \cap (Range(history) \cup Range(turn) \cup retracted) = {}
    BY <1>1 DEF IInv, FlightInv, CarryInv, Carried, Asking
  <2>5. /\ IsInjective(engine'.request) /\ Range(engine'.request) = QueueIds(queue') /\ QueueIds(queue') = QueueIds(queue)
        /\ engine'.failed = engine.failed
    BY <1>3, <1>4, <1>5, <2>3
  <2>6. CarryInv'
    BY <1>1, <1>4, <2>3, <2>4, <2>5 DEF CarryInv, Carried, Dispatched
  <2> QED
    BY <2>2, <2>6 DEF FlightInv
<1>8. engine'.at # "none"
  BY <1>4
<1>9. disk' \subseteq Numbers(typed) /\ checkpoint' \in Seq(Numbers(typed))
  BY <1>1, <1>2
<1> QED
  BY <1>1, <1>4, <1>5, <1>7, <1>8, <1>9, EngineStep

LEMMA SendGood == ASSUME IInv, Send PROVE IInv'
<1>1. /\ task = "engine" /\ engine.at \in {"prepare", "backoff"}
      /\ engine' = [engine EXCEPT !.at = "attempt", !.failed = engine.request]
      /\ UNCHANGED <<world, kinds, mode, submissions, consumer, turnActive, cancelPending, pending, queue, loop, current, task,
                     cancelling, turn, checkpoint, spoke, history, editor, retracted, late, confirmed, disk, stage, shutdown, resends>>
  BY DEF Send, EngineFrame, tuiVars, turnVars, fateVars, stageVars
<1>2. engine \in EnginesTo(typed) /\ queue \in Seq(ItemsTo(typed)) /\ checkpoint \in Seq(Numbers(typed)) /\ disk \subseteq Numbers(typed)
  BY EngineTyped DEF IInv
<1>3. engine' \in EnginesTo(typed) /\ engine'.at = "attempt" /\ engine'.request = engine.request
      /\ engine'.failed = engine.request
  BY <1>1, <1>2 DEF EnginesTo
<1>4. FlightInv'
  BY <1>1, <1>3, FlightMoves DEF IInv, FlightInv, CarryInv, Asking, Dispatched, Awaited
<1> QED
  BY <1>1, <1>2, <1>3, <1>4, EngineStep

LEMMA AttemptEndsGood == ASSUME IInv, AttemptEnds PROVE IInv'
<1>1. /\ task = "engine" /\ engine.at = "attempt" /\ engine' = [engine EXCEPT !.at = "over"]
      /\ UNCHANGED <<world, kinds, mode, submissions, consumer, turnActive, cancelPending, pending, queue, loop, current, task,
                     cancelling, turn, checkpoint, spoke, history, editor, retracted, late, confirmed, disk, stage, shutdown, resends>>
  BY DEF AttemptEnds, Running, EngineFrame, tuiVars, turnVars, fateVars, stageVars
<1>2. engine \in EnginesTo(typed) /\ queue \in Seq(ItemsTo(typed)) /\ checkpoint \in Seq(Numbers(typed)) /\ disk \subseteq Numbers(typed)
  BY EngineTyped DEF IInv
<1>3. engine' \in EnginesTo(typed) /\ engine'.at = "over" /\ engine'.request = engine.request
      /\ engine'.failed = engine.failed
  BY <1>1, <1>2 DEF EnginesTo
<1>4. FlightInv'
  BY <1>1, <1>3, FlightMoves DEF IInv, FlightInv, CarryInv, Asking, Dispatched, Awaited
<1> QED
  BY <1>1, <1>2, <1>3, <1>4, EngineStep

LEMMA BackoffGood == ASSUME IInv, Backoff PROVE IInv'
<1>1. /\ task = "engine" /\ engine.at = "over"
      /\ engine' = [engine EXCEPT !.at = "backoff", !.tries = @ + 1]
      /\ UNCHANGED <<world, kinds, mode, submissions, consumer, turnActive, cancelPending, pending, queue, loop, current, task,
                     cancelling, turn, checkpoint, spoke, history, editor, retracted, late, confirmed, disk, stage, shutdown, resends>>
  BY DEF Backoff, Running, EngineFrame, tuiVars, turnVars, fateVars, stageVars
<1>2. engine \in EnginesTo(typed) /\ queue \in Seq(ItemsTo(typed)) /\ checkpoint \in Seq(Numbers(typed)) /\ disk \subseteq Numbers(typed)
  BY EngineTyped DEF IInv
<1>3. engine' \in EnginesTo(typed) /\ engine'.at = "backoff" /\ engine'.request = engine.request
      /\ engine'.failed = engine.failed
  <2>1. engine.tries + 1 \in Nat
    BY <1>2 DEF EnginesTo
  <2>2. engine' = [engine EXCEPT !.at = "backoff", !.tries = engine.tries + 1]
    BY <1>1
  <2> DEFINE T == engine.tries + 1
  <2> HIDE DEF T
  <2>3. engine' = [engine EXCEPT !.at = "backoff", !.tries = T] /\ T \in Nat
    BY <2>1, <2>2 DEF T
  <2> QED
    BY <1>2, <2>3 DEF EnginesTo
<1>4. FlightInv'
  BY <1>1, <1>3, FlightMoves DEF IInv, FlightInv, CarryInv, Asking, Dispatched, Awaited
<1> QED
  BY <1>1, <1>2, <1>3, <1>4, EngineStep

LEMMA RetryGood == ASSUME IInv, Retry PROVE IInv'
<1>1. /\ task = "engine" /\ engine.at = "claimed" /\ engine' = [engine EXCEPT !.at = "ready"]
      /\ UNCHANGED <<world, kinds, mode, submissions, consumer, turnActive, cancelPending, pending, queue, loop, current, task,
                     cancelling, turn, checkpoint, spoke, history, editor, retracted, late, confirmed, disk, stage, shutdown, resends>>
  BY DEF Retry, Running, EngineFrame, tuiVars, turnVars, fateVars, stageVars
<1>2. engine \in EnginesTo(typed) /\ queue \in Seq(ItemsTo(typed)) /\ checkpoint \in Seq(Numbers(typed)) /\ disk \subseteq Numbers(typed)
  BY EngineTyped DEF IInv
<1>3. engine' \in EnginesTo(typed) /\ engine'.at = "ready" /\ engine'.request = engine.request
      /\ engine'.failed = engine.failed
  BY <1>1, <1>2 DEF EnginesTo
<1>4. FlightInv'
  BY <1>1, <1>3, FlightMoves DEF IInv, FlightInv, CarryInv, Asking, Dispatched, Awaited
<1> QED
  BY <1>1, <1>2, <1>3, <1>4, EngineStep

LEMMA BatchDoneGood == ASSUME IInv, BatchDone PROVE IInv'
<1>1. /\ task = "engine" /\ engine.at = "tools" /\ checkpoint' = turn
      /\ disk' = Range(Ids(queue)) \cup Range(turn) \cup Range(history)
      /\ engine' = [engine EXCEPT !.at = "ready", !.step = @ + 1]
      /\ UNCHANGED <<world, kinds, mode, submissions, consumer, turnActive, cancelPending, pending, queue, loop, current, task,
                     cancelling, turn, spoke, history, editor, retracted, late, confirmed, stage, shutdown, resends>>
  BY DEF BatchDone, Running, EngineFrame, tuiVars, fateVars, stageVars
<1>2. engine \in EnginesTo(typed) /\ queue \in Seq(ItemsTo(typed)) /\ turn \in Seq(Numbers(typed)) /\ history \in Seq(Numbers(typed))
  BY EngineTyped DEF IInv
<1>3. engine' \in EnginesTo(typed) /\ engine'.at = "ready" /\ engine'.request = engine.request /\ engine'.failed = engine.failed
  <2>1. engine.step + 1 \in Nat
    BY <1>2 DEF EnginesTo
  <2>2. engine' = [engine EXCEPT !.at = "ready", !.step = engine.step + 1]
    BY <1>1
  <2> DEFINE T == engine.step + 1
  <2> HIDE DEF T
  <2>3. engine' = [engine EXCEPT !.at = "ready", !.step = T] /\ T \in Nat
    BY <2>1, <2>2 DEF T
  <2> QED
    BY <1>2, <2>3 DEF EnginesTo
<1>4. FlightInv'
  BY <1>1, <1>3, FlightStarts DEF IInv
<1>5. disk' \subseteq Numbers(typed)
  BY <1>1, <1>2, IdsRange, RangeIn
<1> QED
  BY <1>1, <1>2, <1>3, <1>4, <1>5, EngineStep

\* What is left of a queue without some ids.
Without(q, R) == {m \in DOMAIN q : q[m].id \notin R}

LEMMA QueueWithout ==
  ASSUME NEW n, NEW q \in Seq(ItemsTo(n)), NEW R
  PROVE  /\ Picked(q, Without(q, R)) \in Seq(ItemsTo(n)) /\ QueueIds(Picked(q, Without(q, R))) = QueueIds(q) \ R
         /\ QueuedOnce(q) => QueuedOnce(Picked(q, Without(q, R)))
         /\ \A m \in DOMAIN Picked(q, Without(q, R)) :
              \E i \in DOMAIN q : Picked(q, Without(q, R))[m] = q[i] /\ q[i].id \notin R
<1> DEFINE I == Without(q, R)
<1>1. I \in SUBSET DOMAIN q
  BY DEF Without
<1> HIDE DEF I
<1>2. /\ Picked(q, I) \in Seq(ItemsTo(n)) /\ QueueIds(Picked(q, I)) = {q[i].id : i \in I}
      /\ QueuedOnce(q) => QueuedOnce(Picked(q, I))
      /\ \A m \in DOMAIN Picked(q, I) : \E i \in I : Picked(q, I)[m] = q[i]
  BY <1>1, PickedQueue
<1>3. {q[i].id : i \in I} = QueueIds(q) \ R
  BY DEF QueueIds, I, Without
<1>4. \A i \in I : i \in DOMAIN q /\ q[i].id \notin R
  BY DEF I, Without
<1>5. /\ Picked(q, I) \in Seq(ItemsTo(n)) /\ QueueIds(Picked(q, I)) = QueueIds(q) \ R
      /\ QueuedOnce(q) => QueuedOnce(Picked(q, I))
      /\ \A m \in DOMAIN Picked(q, I) : \E i \in DOMAIN q : Picked(q, I)[m] = q[i] /\ q[i].id \notin R
  BY <1>2, <1>3, <1>4
<1> QED
  BY <1>5 DEF I

\* An answer leaves in the queue what its request did not carry, and nothing of it is claimed.
LEMMA AcknowledgeGood ==
  ASSUME IInv, Acknowledge
  PROVE  /\ queue' \in Seq(ItemsTo(typed)) /\ QueueIds(queue') = QueueIds(queue) \ Range(engine.request)
         /\ QueuedOnce(queue) => QueuedOnce(queue')
         /\ \A m \in DOMAIN queue' : ~queue'[m].inflight
<1>1. queue \in Seq(ItemsTo(typed))
  BY DEF IInv, TypeInv, ContentInv
<1> DEFINE R == Range(engine.request)
           I == Without(queue, R)
<1>2. queue' = Picked(queue, I)
  BY DEF Acknowledge, Without
<1> HIDE DEF R
<1>4. /\ Picked(queue, I) \in Seq(ItemsTo(typed)) /\ QueueIds(Picked(queue, I)) = QueueIds(queue) \ R
      /\ QueuedOnce(queue) => QueuedOnce(Picked(queue, I))
      /\ \A m \in DOMAIN Picked(queue, I) : \E i \in DOMAIN queue : Picked(queue, I)[m] = queue[i] /\ queue[i].id \notin R
  BY <1>1, QueueWithout
<1> HIDE DEF I
<1>5. /\ queue' \in Seq(ItemsTo(typed)) /\ QueueIds(queue') = QueueIds(queue) \ Range(engine.request)
      /\ QueuedOnce(queue) => QueuedOnce(queue')
      /\ \A m \in DOMAIN queue' : \E i \in DOMAIN queue : queue'[m] = queue[i] /\ queue[i].id \notin Range(engine.request)
  BY <1>2, <1>4 DEF R
<1> QED
  BY <1>5 DEF IInv, FlightInv, ClaimInv

LEMMA AnswerToolsGood == ASSUME IInv, AnswerTools PROVE IInv'
<1>1. /\ task = "engine" /\ engine.at = "over" /\ Acknowledge /\ turn' = turn \o engine.request /\ spoke' = TRUE
      /\ engine' = [engine EXCEPT !.at = "tools", !.request = <<>>, !.failed = <<>>]
      /\ UNCHANGED <<world, kinds, mode, submissions, consumer, turnActive, cancelPending, pending, loop, current, task,
                     cancelling, checkpoint, history, editor, retracted, late, confirmed, disk, stage, shutdown, resends>>
  BY DEF AnswerTools, Running, EngineFrame, tuiVars, fateVars, stageVars
<1>2. engine \in EnginesTo(typed) /\ turn \in Seq(Numbers(typed)) /\ engine.request \in Seq(Numbers(typed))
  BY EngineTyped DEF IInv
<1>3. engine' \in EnginesTo(typed) /\ engine'.at = "tools" /\ engine'.request = <<>> /\ engine'.failed = <<>>
  <2>1. <<>> \in Seq(Numbers(typed))
    OBVIOUS
  <2> QED
    BY <1>1, <1>2, <2>1 DEF EnginesTo
<1>4. /\ queue' \in Seq(ItemsTo(typed)) /\ QueueIds(queue') = QueueIds(queue) \ Range(engine.request)
      /\ QueuedOnce(queue) => QueuedOnce(queue')
      /\ \A m \in DOMAIN queue' : ~queue'[m].inflight
  BY <1>1, AcknowledgeGood
<1>5. /\ turn' \in Seq(Numbers(typed)) /\ Range(turn') = Range(turn) \cup Range(engine.request)
      /\ IsInjective(turn) /\ IsInjective(engine.request) /\ Range(turn) \cap Range(engine.request) = {} => IsInjective(turn')
  BY <1>1, <1>2, ConcatRange
<1>6. WorldInv' /\ ContentInv'
  BY <1>1, <1>3, <1>4, <1>5 DEF IInv, TypeInv, WorldInv, ContentInv, typed
<1>7. HandInv' /\ BoundaryInv' /\ RestInv'
  BY <1>1, HandSame, BoundarySame, RestAway DEF IInv, TypeInv
<1>8. PhaseInv'
  BY <1>1, <1>3 DEF IInv, TypeInv, PhaseInv
<1>9. FlightInv'
  <2>1. ClaimInv'
    BY <1>4 DEF ClaimInv
  <2>2. CarryInv'
    BY <1>3 DEF CarryInv, Asking, Dispatched, Awaited
  <2> QED
    BY <2>1, <2>2 DEF FlightInv
<1>10. KeptInv'
  BY <1>1, <1>4, <1>5 DEF IInv, KeptInv, Kept, Gone, typed
<1>11. /\ IsInjective(engine.request) /\ Range(engine.request) \subseteq QueueIds(queue) \cup editor
       /\ Range(engine.request) \cap (Range(history) \cup Range(turn) \cup retracted) = {}
       /\ Range(engine.request) \cap editor \subseteq late
  BY <1>1 DEF IInv, FlightInv, CarryInv, Carried, Asking, Awaited
<1>12. OnceInv'
  <2> SUFFICES /\ Apart(Sent(submissions), InHand(consumer), Range(pending), QueueIds(queue'), Taken(current),
                        Range(history) \cup Range(turn'), Gone)
               /\ SentOnce(submissions) /\ IsInjective(pending) /\ QueuedOnce(queue')
               /\ IsInjective(history) /\ IsInjective(turn') /\ Range(history) \cap Range(turn') = {}
    BY <1>1 DEF OnceInv, Gone
  <2>1. /\ Apart(Sent(submissions), InHand(consumer), Range(pending), QueueIds(queue), Taken(current),
                 Range(history) \cup Range(turn), Gone)
        /\ SentOnce(submissions) /\ IsInjective(pending) /\ QueuedOnce(queue)
        /\ IsInjective(history) /\ IsInjective(turn) /\ Range(history) \cap Range(turn) = {}
    BY DEF IInv, OnceInv
  <2>2. IsInjective(engine.request) /\ Range(engine.request) \subseteq QueueIds(queue) \cup editor
    BY <1>11
  <2>3. (Range(history) \cup Range(turn)) \cap Range(engine.request) = {} /\ editor \subseteq Gone
    BY <1>11 DEF Gone
  <2>4. QueueIds(queue') = QueueIds(queue) \ Range(engine.request) /\ Range(turn') = Range(turn) \cup Range(engine.request)
    BY <1>4, <1>5
  <2>5. Apart(Sent(submissions), InHand(consumer), Range(pending), QueueIds(queue'), Taken(current),
              Range(history) \cup Range(turn'), Gone)
    BY <2>1, <2>2, <2>3, <2>4 DEF Apart
  <2>6. IsInjective(turn') /\ Range(history) \cap Range(turn') = {} /\ QueuedOnce(queue')
    BY <1>4, <1>5, <2>1, <2>2, <2>3
  <2> QED
    BY <2>1, <2>5, <2>6
<1>13. FateInv'
  <2>1. /\ (Range(history) \cup Range(turn)) \cap retracted = {}
        /\ (Range(history) \cup Range(turn)) \cap editor \subseteq late
    BY DEF IInv, FateInv
  <2>2. (Range(history) \cup Range(turn')) \cap retracted = {} /\ (Range(history) \cup Range(turn')) \cap editor \subseteq late
    BY <1>5, <1>11, <2>1
  <2> QED
    BY <1>1, <2>2 DEF FateInv
<1> QED
  BY <1>6, <1>7, <1>8, <1>9, <1>10, <1>12, <1>13 DEF IInv, TypeInv

\* The agent's end: what it delivered is history, what it retracted is gone, the rest waits unclaimed.
LEMMA EngineEnds ==
  ASSUME IInv, task = "engine", EndEngine,
         queue' \in Seq(ItemsTo(typed)), \A m \in DOMAIN queue' : ~queue'[m].inflight,
         history' \in Seq(Numbers(typed)), checkpoint' \in Seq(Numbers(typed)), disk' \subseteq Numbers(typed),
         retracted' \subseteq Numbers(typed),
         UNCHANGED <<world, kinds, mode, consumer, turnActive, cancelPending, pending, loop, current, editor, confirmed,
                     stage, shutdown, resends>>,
         QueueIds(queue) \cup Range(history) \cup Range(turn) \cup retracted \subseteq
           QueueIds(queue') \cup Range(history') \cup retracted',
         QueuedOnce(queue'), IsInjective(history'), QueueIds(queue') \subseteq QueueIds(queue),
         Range(history') \subseteq Range(history) \cup Range(turn) \cup (QueueIds(queue) \ QueueIds(queue')) \cup editor,
         retracted' \subseteq retracted \cup Range(turn), retracted' \cap Range(history') = {},
         late' \subseteq editor, Range(history') \cap editor \subseteq late'
  PROVE  IInv'
<1>1. engine' = NoEngine /\ turn' = <<>> /\ cancelling' = FALSE /\ spoke' = FALSE /\ task' = "boundary"
  BY DEF EndEngine
<1>2. engine' \in EnginesTo(typed) /\ engine'.at = "none" /\ turn' \in Seq(Numbers(typed)) /\ Range(turn') = {} /\ IsInjective(turn')
  <2>1. <<>> \in Seq(Numbers(typed)) /\ DOMAIN <<>> = {}
    OBVIOUS
  <2>2. engine' = [at |-> "none", request |-> <<>>, failed |-> <<>>, step |-> 0, tries |-> 0]
    BY <1>1 DEF NoEngine
  <2> QED
    BY <1>1, <2>1, <2>2 DEF EnginesTo, Range, IsInjective
<1>3. /\ submissions' \in Seq(JobsTo(typed)) /\ Sent(submissions') = Sent(submissions)
      /\ SentOnce(submissions) => SentOnce(submissions')
      /\ Boundaries(submissions) = {} => OneBoundary(submissions')
  <2>1. submissions \in Seq(JobsTo(typed))
    BY DEF IInv, TypeInv, ContentInv
  <2>2. Job("boundary") \in JobsTo(typed) /\ Job("boundary").kind = "boundary" /\ SentBy(Job("boundary")) = {}
    BY DEF Job, JobsTo, SentBy
  <2>3. CASE accepting
    <3>1. submissions' = Append(submissions, Job("boundary"))
      BY <2>3 DEF EndEngine
    <3>2. /\ submissions' \in Seq(JobsTo(typed))
          /\ Sent(submissions') = Sent(submissions) \cup SentBy(Job("boundary"))
          /\ SentOnce(submissions) /\ SentBy(Job("boundary")) \cap Sent(submissions) = {} => SentOnce(submissions')
          /\ Boundaries(submissions) = {} => OneBoundary(submissions')
      BY <2>1, <2>2, <3>1, SubsAppend
    <3> QED
      BY <2>2, <3>2
  <2>4. CASE ~accepting
    <3>1. submissions' = submissions
      BY <2>4 DEF EndEngine
    <3> QED
      BY <2>1, <3>1 DEF OneBoundary
  <2> QED
    BY <2>3, <2>4
<1>4. WorldInv' /\ ContentInv'
  BY <1>2, <1>3 DEF IInv, TypeInv, WorldInv, ContentInv, typed
<1>5. HandInv' /\ RestInv'
  BY <1>1, HandSame, RestAway DEF IInv, TypeInv
<1>6. PhaseInv'
  BY <1>1, <1>2 DEF IInv, TypeInv, PhaseInv
<1>7. BoundaryInv'
  <2> SUFFICES ASSUME consumer.at \notin {"dead", "gone"} PROVE OneBoundary(submissions') /\ ~AtBoundary'
    BY <1>1 DEF BoundaryInv
  <2>1. Boundaries(submissions) = {} /\ ~AtBoundary
    BY DEF IInv, BoundaryInv
  <2> QED
    BY <1>3, <2>1 DEF AtBoundary
<1>8. FlightInv'
  BY <1>2, FlightAway
<1>9. KeptInv'
  BY <1>2, <1>3 DEF IInv, KeptInv, Kept, Gone, typed
<1>10. OnceInv'
  <2> SUFFICES /\ Apart(Sent(submissions), InHand(consumer), Range(pending), QueueIds(queue'), Taken(current),
                        Range(history'), Gone')
               /\ SentOnce(submissions') /\ IsInjective(pending) /\ QueuedOnce(queue')
               /\ IsInjective(history') /\ IsInjective(turn') /\ Range(history') \cap {} = {}
    BY <1>2, <1>3 DEF OnceInv
  <2>1. /\ Apart(Sent(submissions), InHand(consumer), Range(pending), QueueIds(queue), Taken(current),
                 Range(history) \cup Range(turn), Gone)
        /\ SentOnce(submissions) /\ IsInjective(pending)
    BY DEF IInv, OnceInv
  <2>2. Gone' \subseteq Gone \cup Range(turn) /\ editor \subseteq Gone
    BY DEF Gone
  <2>3. QueueIds(queue') \cap Range(history') = {}
    BY <2>1, <2>2 DEF Apart
  <2>4. Apart(Sent(submissions), InHand(consumer), Range(pending), QueueIds(queue'), Taken(current),
              Range(history'), Gone')
    BY <2>1, <2>2, <2>3 DEF Apart
  <2> QED
    BY <1>2, <1>3, <2>1, <2>4
<1>11. FateInv'
  BY <1>2 DEF FateInv
<1> QED
  BY <1>4, <1>5, <1>6, <1>7, <1>8, <1>9, <1>10, <1>11 DEF IInv, TypeInv

\* A request that is committed with the turn.
LEMMA Committed ==
  ASSUME IInv, NEW r \in Seq(Numbers(typed)), history' = history \o turn \o r
  PROVE  /\ history' \in Seq(Numbers(typed)) /\ Range(history') = Range(history) \cup Range(turn) \cup Range(r)
         /\ IsInjective(r) /\ Range(r) \cap (Range(history) \cup Range(turn)) = {} => IsInjective(history')
<1>1. turn \in Seq(Numbers(typed)) /\ history \in Seq(Numbers(typed))
  BY EngineTyped DEF IInv
<1> DEFINE h == history \o turn
<1>2. /\ h \in Seq(Numbers(typed)) /\ Range(h) = Range(history) \cup Range(turn)
      /\ IsInjective(history) /\ IsInjective(turn) /\ Range(history) \cap Range(turn) = {} => IsInjective(h)
  BY <1>1, ConcatRange
<1>3. history' = h \o r
  OBVIOUS
<1> HIDE DEF h
<1>4. /\ history' \in Seq(Numbers(typed)) /\ Range(history') = Range(h) \cup Range(r)
      /\ IsInjective(h) /\ IsInjective(r) /\ Range(h) \cap Range(r) = {} => IsInjective(history')
  BY <1>2, <1>3, ConcatRange
<1>5. IsInjective(history) /\ IsInjective(turn) /\ Range(history) \cap Range(turn) = {}
  BY DEF IInv, OnceInv
<1> QED
  BY <1>2, <1>4, <1>5

LEMMA AnswerFinalGood == ASSUME IInv, AnswerFinal PROVE IInv'
<1>1. /\ task = "engine" /\ engine.at = "over" /\ Acknowledge /\ history' = history \o turn \o engine.request
      /\ checkpoint' = <<>> /\ EndEngine
      /\ UNCHANGED <<world, kinds, mode, consumer, turnActive, cancelPending, pending, loop, current,
                     editor, retracted, late, confirmed, disk, stage, shutdown, resends>>
  BY DEF AnswerFinal, Running, EngineFrame, tuiVars, fateVars, stageVars
<1>2. engine.request \in Seq(Numbers(typed)) /\ disk' \subseteq Numbers(typed) /\ retracted' \subseteq Numbers(typed)
      /\ checkpoint' \in Seq(Numbers(typed))
  <2>1. <<>> \in Seq(Numbers(typed))
    OBVIOUS
  <2>2. retracted \subseteq Numbers(typed)
    BY DEF IInv, TypeInv, ContentInv
  <2> QED
    BY <1>1, <2>1, <2>2, EngineTyped DEF IInv
<1>3. /\ history' \in Seq(Numbers(typed)) /\ Range(history') = Range(history) \cup Range(turn) \cup Range(engine.request)
      /\ IsInjective(engine.request) /\ Range(engine.request) \cap (Range(history) \cup Range(turn)) = {} => IsInjective(history')
  BY <1>1, <1>2, Committed
<1>4. /\ queue' \in Seq(ItemsTo(typed)) /\ QueueIds(queue') = QueueIds(queue) \ Range(engine.request)
      /\ QueuedOnce(queue) => QueuedOnce(queue')
      /\ \A m \in DOMAIN queue' : ~queue'[m].inflight
  BY <1>1, AcknowledgeGood
<1>5. QueueIds(queue) \cup Range(history) \cup Range(turn) \cup retracted \subseteq
        QueueIds(queue') \cup Range(history') \cup retracted'
  BY <1>1, <1>3, <1>4
<1>6. /\ IsInjective(engine.request) /\ Range(engine.request) \subseteq QueueIds(queue) \cup editor
      /\ Range(engine.request) \cap (Range(history) \cup Range(turn) \cup retracted) = {}
      /\ Range(engine.request) \cap editor \subseteq late
  BY <1>1 DEF IInv, FlightInv, CarryInv, Carried, Asking, Awaited
<1>7. /\ QueuedOnce(queue') /\ IsInjective(history')
      /\ QueueIds(queue') \subseteq QueueIds(queue)
      /\ Range(history') \subseteq Range(history) \cup Range(turn) \cup (QueueIds(queue) \ QueueIds(queue')) \cup editor
      /\ retracted' \subseteq retracted \cup Range(turn)
      /\ retracted' \cap Range(history') = {}
      /\ late' \subseteq editor /\ Range(history') \cap editor \subseteq late'
  <2>1. /\ QueuedOnce(queue) /\ (Range(history) \cup Range(turn)) \cap retracted = {} /\ late \subseteq editor
        /\ (Range(history) \cup Range(turn)) \cap editor \subseteq late
        /\ IsInjective(history) /\ IsInjective(turn) /\ Range(history) \cap Range(turn) = {}
    BY DEF IInv, OnceInv, FateInv, TypeInv, ContentInv
  <2>2. IsInjective(history') /\ QueuedOnce(queue')
    BY <1>3, <1>4, <1>6, <2>1
  <2>3. /\ Range(history') \cap retracted = {} /\ Range(history') \cap editor \subseteq late
        /\ Range(history') \subseteq Range(history) \cup Range(turn) \cup (QueueIds(queue) \ QueueIds(queue')) \cup editor
    BY <1>3, <1>4, <1>6, <2>1
  <2> QED
    BY <1>1, <1>4, <2>1, <2>2, <2>3
<1> QED
  BY <1>1, <1>2, <1>3, <1>4, <1>5, <1>7, EngineEnds

LEMMA ModelFailsGood == ASSUME IInv, ModelFails PROVE IInv'
<1> DEFINE R == Range(engine.failed)
           kept == Picked(queue, {n \in DOMAIN queue : queue[n].id \notin R})
<1>1. /\ task = "engine" /\ engine.at \in {"prepare", "over"}
      /\ queue' = [n \in DOMAIN kept |-> Queued(kept[n].id)]
      /\ history' = history \o turn \o engine.failed /\ checkpoint' = <<>>
      /\ disk' = Range(Ids(queue')) \cup Range(history') /\ EndEngine
      /\ late' = IF engine.at = "prepare" THEN late \cup (editor \cap R) ELSE late
      /\ UNCHANGED <<world, kinds, mode, consumer, turnActive, cancelPending, pending, loop, current,
                     editor, retracted, confirmed, stage, shutdown, resends>>
  BY DEF ModelFails, EngineFrame, tuiVars, fateVars, stageVars
<1>2. engine.failed \in Seq(Numbers(typed)) /\ queue \in Seq(ItemsTo(typed)) /\ retracted' \subseteq Numbers(typed)
      /\ checkpoint' \in Seq(Numbers(typed))
  <2>1. <<>> \in Seq(Numbers(typed))
    OBVIOUS
  <2>2. retracted \subseteq Numbers(typed)
    BY DEF IInv, TypeInv, ContentInv
  <2> QED
    BY <1>1, <2>1, <2>2, EngineTyped DEF IInv
<1>3. /\ history' \in Seq(Numbers(typed)) /\ Range(history') = Range(history) \cup Range(turn) \cup R
      /\ IsInjective(engine.failed) /\ R \cap (Range(history) \cup Range(turn)) = {} => IsInjective(history')
  BY <1>1, <1>2, Committed
<1> HIDE DEF R
<1>4. /\ kept \in Seq(ItemsTo(typed)) /\ QueueIds(kept) = QueueIds(queue) \ R
      /\ QueuedOnce(queue) => QueuedOnce(kept)
  <2> DEFINE I == Without(queue, R)
  <2>1. kept = Picked(queue, I)
    BY DEF Without
  <2> HIDE DEF kept
  <2>2. /\ Picked(queue, I) \in Seq(ItemsTo(typed)) /\ QueueIds(Picked(queue, I)) = QueueIds(queue) \ R
        /\ QueuedOnce(queue) => QueuedOnce(Picked(queue, I))
    BY <1>2, QueueWithout
  <2> QED
    BY <2>1, <2>2
<1> HIDE DEF kept
<1>5. /\ queue' \in Seq(ItemsTo(typed)) /\ QueueIds(queue') = QueueIds(queue) \ R
      /\ QueuedOnce(queue) => QueuedOnce(queue')
      /\ \A m \in DOMAIN queue' : ~queue'[m].inflight
  <2>1. \A m \in DOMAIN kept : kept[m] \in ItemsTo(typed)
    BY <1>4
  <2>2. \A m \in DOMAIN kept : /\ queue'[m] \in ItemsTo(typed) /\ queue'[m].id = kept[m].id /\ ~queue'[m].inflight
    BY <1>1, <2>1 DEF ItemsTo, Queued
  <2>3. queue' = [m \in DOMAIN kept |-> queue'[m]]
    BY <1>1
  <2>4. queue' \in Seq(ItemsTo(typed)) /\ DOMAIN queue' = DOMAIN kept
        /\ QueueIds(queue') = QueueIds(kept) /\ (QueuedOnce(kept) => QueuedOnce(queue'))
    BY <1>4, <2>2, <2>3, QueueFlags
  <2> QED
    BY <1>4, <2>2, <2>4
<1>6. disk' \subseteq Numbers(typed)
  BY <1>1, <1>3, <1>5, IdsRange, RangeIn
<1>7. QueueIds(queue) \cup Range(history) \cup Range(turn) \cup retracted \subseteq
        QueueIds(queue') \cup Range(history') \cup retracted'
  BY <1>1, <1>3, <1>5
<1>8. /\ IsInjective(engine.failed) /\ R \subseteq QueueIds(queue) \cup editor
      /\ R \cap (Range(history) \cup Range(turn) \cup retracted) = {}
      /\ engine.at = "over" => R \cap editor \subseteq late
  BY <1>1 DEF IInv, FlightInv, CarryInv, Carried, Asking, Awaited, Dispatched, R
<1>9. /\ QueuedOnce(queue') /\ IsInjective(history')
      /\ QueueIds(queue') \subseteq QueueIds(queue)
      /\ Range(history') \subseteq Range(history) \cup Range(turn) \cup (QueueIds(queue) \ QueueIds(queue')) \cup editor
      /\ retracted' \subseteq retracted \cup Range(turn)
      /\ retracted' \cap Range(history') = {}
      /\ late' \subseteq editor /\ Range(history') \cap editor \subseteq late'
  <2>1. /\ QueuedOnce(queue) /\ (Range(history) \cup Range(turn)) \cap retracted = {} /\ late \subseteq editor
        /\ (Range(history) \cup Range(turn)) \cap editor \subseteq late
        /\ IsInjective(history) /\ IsInjective(turn) /\ Range(history) \cap Range(turn) = {}
    BY DEF IInv, OnceInv, FateInv, TypeInv, ContentInv
  <2>2. IsInjective(history') /\ QueuedOnce(queue')
    BY <1>3, <1>5, <1>8, <2>1
  <2>3. /\ Range(history') \cap retracted = {}
        /\ Range(history') \subseteq Range(history) \cup Range(turn) \cup (QueueIds(queue) \ QueueIds(queue')) \cup editor
    BY <1>3, <1>5, <1>8, <2>1
  <2>4. late' \subseteq editor /\ Range(history') \cap editor \subseteq late'
    BY <1>1, <1>3, <1>8, <2>1
  <2> QED
    BY <1>1, <1>5, <2>1, <2>2, <2>3, <2>4
<1> QED
  BY <1>1, <1>2, <1>3, <1>5, <1>6, <1>7, <1>9, EngineEnds

LEMMA CancelledGood == ASSUME IInv, Cancelled PROVE IInv'
<1>1. /\ task = "engine" /\ queue' = [n \in DOMAIN queue |-> Queued(queue[n].id)] /\ checkpoint' = <<>>
      /\ spoke => history' = history \o turn /\ retracted' = retracted
      /\ ~spoke => retracted' = retracted \cup Range(turn) /\ history' = history
      /\ disk' = Range(Ids(queue)) \cup Range(history') /\ EndEngine
      /\ UNCHANGED <<world, kinds, mode, consumer, turnActive, cancelPending, pending, loop, current,
                     editor, late, confirmed, stage, shutdown, resends>>
  BY DEF Cancelled, EngineFrame, tuiVars, stageVars
<1>2. queue \in Seq(ItemsTo(typed)) /\ turn \in Seq(Numbers(typed)) /\ history \in Seq(Numbers(typed))
      /\ retracted \subseteq Numbers(typed) /\ checkpoint' \in Seq(Numbers(typed))
  <2>1. <<>> \in Seq(Numbers(typed))
    OBVIOUS
  <2>2. retracted \subseteq Numbers(typed)
    BY DEF IInv, TypeInv, ContentInv
  <2> QED
    BY <1>1, <2>1, <2>2, EngineTyped DEF IInv
<1>3. /\ history \o turn \in Seq(Numbers(typed)) /\ Range(history \o turn) = Range(history) \cup Range(turn)
      /\ IsInjective(history) /\ IsInjective(turn) /\ Range(history) \cap Range(turn) = {} => IsInjective(history \o turn)
      /\ Range(turn) \subseteq Numbers(typed)
  BY <1>2, ConcatRange, RangeIn
<1>4. /\ queue' \in Seq(ItemsTo(typed)) /\ QueueIds(queue') = QueueIds(queue)
      /\ QueuedOnce(queue) => QueuedOnce(queue')
      /\ \A m \in DOMAIN queue' : ~queue'[m].inflight
  <2>1. \A m \in DOMAIN queue : queue[m] \in ItemsTo(typed)
    BY <1>2
  <2>2. \A m \in DOMAIN queue : queue'[m] \in ItemsTo(typed) /\ queue'[m].id = queue[m].id /\ ~queue'[m].inflight
    BY <1>1, <2>1 DEF ItemsTo, Queued
  <2>3. queue \in Seq(ItemsTo(typed)) /\ queue' = [m \in DOMAIN queue |-> queue'[m]]
    BY <1>1, <1>2
  <2>4. queue' \in Seq(ItemsTo(typed)) /\ DOMAIN queue' = DOMAIN queue
        /\ QueueIds(queue') = QueueIds(queue) /\ (QueuedOnce(queue) => QueuedOnce(queue'))
    BY <2>2, <2>3, QueueFlags
  <2> QED
    BY <2>2, <2>4
<1>5. history' \in Seq(Numbers(typed)) /\ retracted' \subseteq Numbers(typed)
      /\ Range(history') \cup retracted' = Range(history) \cup retracted \cup Range(turn)
      /\ Range(history') \subseteq Range(history) \cup Range(turn) /\ retracted' \subseteq retracted \cup Range(turn)
  <2>1. CASE spoke
    BY <1>1, <1>2, <1>3, <2>1
  <2>2. CASE ~spoke
    BY <1>1, <1>2, <1>3, <2>2
  <2> QED
    BY <2>1, <2>2
<1>6. disk' \subseteq Numbers(typed)
  <2>1. Range(Ids(queue)) \subseteq Numbers(typed)
    BY <1>2, IdsRange
  <2>2. Range(history') \subseteq Numbers(typed)
    BY <1>5, RangeIn
  <2> QED
    BY <1>1, <2>1, <2>2
<1>7. QueueIds(queue) \cup Range(history) \cup Range(turn) \cup retracted \subseteq
        QueueIds(queue') \cup Range(history') \cup retracted'
  BY <1>4, <1>5
<1>8. /\ QueuedOnce(queue') /\ IsInjective(history')
      /\ QueueIds(queue') \subseteq QueueIds(queue)
      /\ Range(history') \subseteq Range(history) \cup Range(turn) \cup (QueueIds(queue) \ QueueIds(queue')) \cup editor
      /\ retracted' \subseteq retracted \cup Range(turn)
      /\ retracted' \cap Range(history') = {}
      /\ late' \subseteq editor /\ Range(history') \cap editor \subseteq late'
  <2>1. /\ QueuedOnce(queue) /\ (Range(history) \cup Range(turn)) \cap retracted = {} /\ late \subseteq editor
        /\ (Range(history) \cup Range(turn)) \cap editor \subseteq late
        /\ IsInjective(history) /\ IsInjective(turn) /\ Range(history) \cap Range(turn) = {}
    BY DEF IInv, OnceInv, FateInv, TypeInv, ContentInv
  <2>2. IsInjective(history') /\ retracted' \cap Range(history') = {}
    <3>1. CASE spoke
      BY <1>1, <1>3, <2>1, <3>1
    <3>2. CASE ~spoke
      BY <1>1, <2>1, <3>2
    <3> QED
      BY <3>1, <3>2
  <2> QED
    BY <1>1, <1>4, <1>5, <2>1, <2>2
<1> QED
  BY <1>1, <1>2, <1>4, <1>5, <1>6, <1>7, <1>8, EngineEnds

LEMMA CancelledOpeningGood == ASSUME IInv, CancelledOpening PROVE IInv'
<1>1. /\ task = "engine" /\ engine.at = "open" /\ retracted' = retracted \cup Range(turn) /\ disk' = Saved /\ EndEngine
      /\ UNCHANGED <<world, kinds, mode, consumer, turnActive, cancelPending, pending, queue, loop, current, checkpoint, history,
                     editor, late, confirmed, stage, shutdown, resends>>
  BY DEF CancelledOpening, EngineFrame, tuiVars, stageVars
<1>2. /\ queue' \in Seq(ItemsTo(typed)) /\ history' \in Seq(Numbers(typed)) /\ checkpoint' \in Seq(Numbers(typed))
      /\ disk' \subseteq Numbers(typed) /\ turn \in Seq(Numbers(typed))
  BY <1>1, EngineTyped DEF IInv
<1>3. retracted' \subseteq Numbers(typed)
  BY <1>1, <1>2, RangeIn DEF IInv, TypeInv, ContentInv
<1>4. \A m \in DOMAIN queue' : ~queue'[m].inflight
  BY <1>1 DEF IInv, FlightInv, ClaimInv, Asking
<1>5. QueueIds(queue) \cup Range(history) \cup Range(turn) \cup retracted \subseteq
        QueueIds(queue') \cup Range(history') \cup retracted'
  BY <1>1
<1>6. /\ QueuedOnce(queue') /\ IsInjective(history')
      /\ QueueIds(queue') \subseteq QueueIds(queue)
      /\ Range(history') \subseteq Range(history) \cup Range(turn) \cup (QueueIds(queue) \ QueueIds(queue')) \cup editor
      /\ retracted' \subseteq retracted \cup Range(turn)
      /\ retracted' \cap Range(history') = {}
      /\ late' \subseteq editor /\ Range(history') \cap editor \subseteq late'
  <2>1. /\ QueuedOnce(queue) /\ (Range(history) \cup Range(turn)) \cap retracted = {} /\ late \subseteq editor
        /\ (Range(history) \cup Range(turn)) \cap editor \subseteq late
        /\ IsInjective(history) /\ IsInjective(turn) /\ Range(history) \cap Range(turn) = {}
    BY DEF IInv, OnceInv, FateInv, TypeInv, ContentInv
  <2> QED
    BY <1>1, <2>1
<1> QED
  BY <1>1, <1>2, <1>3, <1>4, <1>5, <1>6, EngineEnds

-----------------------------------------------------------------------------
(***************************************************************************)
(* The shutdown.                                                           *)
(***************************************************************************)
\* Once the submissions are closed the consumer is gone, and stays so.
ClosedInv == stage \in {"cancel", "closed"} => consumer.at = "gone"

LEMMA BeginShutdownGood == ASSUME IInv, BeginShutdown PROVE IInv'
<1>1. /\ stage = "up" /\ shutdown /\ loop = "wait" /\ stage' = "drain" /\ loop' = "done"
      /\ UNCHANGED <<world, kinds, mode, submissions, consumer, turnActive, cancelPending, pending, queue, current, task, engine,
                     cancelling, turn, checkpoint, spoke, history, editor, retracted, late, confirmed, disk, shutdown, resends>>
  BY DEF BeginShutdown, StageFrame, consumerVars, turnVars, fateVars
<1>2. WorldInv' /\ ContentInv'
  BY <1>1 DEF IInv, TypeInv, WorldInv, ContentInv, typed
<1>3. PhaseInv'
  BY <1>1 DEF IInv, TypeInv, PhaseInv
<1>4. KeptInv' /\ OnceInv' /\ FateInv' /\ HandInv'
  BY <1>1, InputsSame
<1>5. BoundaryInv' /\ FlightInv' /\ RestInv'
  BY <1>1, BoundarySame, FlightSame, RestAway DEF IInv
<1> QED
  BY <1>2, <1>3, <1>4, <1>5 DEF IInv, TypeInv

LEMMA CloseSubmissionsGood == ASSUME IInv, CloseSubmissions PROVE IInv'
<1>1. /\ stage = "drain" /\ consumer.at \in {"get", "dead"} /\ stage' = "cancel" /\ consumer' = Rest("gone")
      /\ cancelling' = (task = "engine")
      /\ UNCHANGED <<world, kinds, mode, submissions, turnActive, cancelPending, pending, queue, loop, current, task, engine,
                     turn, checkpoint, spoke, history, editor, retracted, late, confirmed, disk, shutdown, resends>>
  BY DEF CloseSubmissions, StageFrame, turnVars, fateVars
<1>2. consumer' \in RestTo(typed) /\ consumer'.at = "gone" /\ InHand(consumer') = {} /\ InHand(consumer) = {}
  BY <1>1 DEF Rest, RestTo, InHand
<1>3. WorldInv' /\ ContentInv' /\ HandInv'
  BY <1>1, <1>2 DEF IInv, TypeInv, WorldInv, ContentInv, HandInv, typed
<1>4. PhaseInv'
  BY <1>1 DEF IInv, TypeInv, PhaseInv
<1>5. BoundaryInv' /\ FlightInv' /\ RestInv'
  BY <1>1, <1>2, FlightSame, RestAway DEF IInv, BoundaryInv
<1>6. KeptInv' /\ OnceInv' /\ FateInv'
  BY <1>1, <1>2, PlacesSame DEF IInv
<1> QED
  BY <1>3, <1>4, <1>5, <1>6 DEF IInv, TypeInv

LEMMA AbandonBoundaryGood == ASSUME IInv, ClosedInv, AbandonBoundary PROVE IInv'
<1>1. /\ stage = "cancel" /\ task = "boundary" /\ task' = "failed"
      /\ UNCHANGED <<world, kinds, mode, submissions, consumer, turnActive, cancelPending, pending, queue, loop, current, engine,
                     cancelling, turn, checkpoint, spoke, history, editor, retracted, late, confirmed, disk, stage, shutdown, resends>>
  BY DEF AbandonBoundary, StageFrame, consumerVars, turnVars, fateVars, stageVars
<1>2. WorldInv' /\ ContentInv'
  BY <1>1 DEF IInv, TypeInv, WorldInv, ContentInv, typed
<1>3. PhaseInv'
  BY <1>1 DEF IInv, TypeInv, PhaseInv
<1>4. KeptInv' /\ OnceInv' /\ FateInv' /\ HandInv'
  BY <1>1, InputsSame
<1>5. BoundaryInv'
  BY <1>1 DEF ClosedInv, BoundaryInv
<1>6. FlightInv' /\ RestInv'
  BY <1>1, FlightSame, RestAway DEF IInv
<1> QED
  BY <1>2, <1>3, <1>4, <1>5, <1>6 DEF IInv, TypeInv

LEMMA CloseGood == ASSUME IInv, Close PROVE IInv'
<1>1. /\ stage = "cancel" /\ task = "none" /\ stage' = "closed" /\ mode' = "gone"
      /\ UNCHANGED <<world, kinds, submissions, consumer, turnActive, cancelPending, pending, queue, loop, current, task, engine,
                     cancelling, turn, checkpoint, spoke, history, editor, retracted, late, confirmed, disk, shutdown, resends>>
  BY DEF Close, StageFrame, consumerVars, turnVars, fateVars
<1>2. WorldInv' /\ ContentInv'
  BY <1>1 DEF IInv, TypeInv, WorldInv, ContentInv, typed
<1>3. PhaseInv'
  BY <1>1 DEF IInv, TypeInv, PhaseInv
<1>4. KeptInv' /\ OnceInv' /\ FateInv' /\ HandInv'
  BY <1>1, InputsSame
<1>5. BoundaryInv' /\ FlightInv' /\ RestInv'
  BY <1>1, BoundarySame, FlightSame, RestAway DEF IInv
<1> QED
  BY <1>2, <1>3, <1>4, <1>5 DEF IInv, TypeInv

LEMMA ClosedGood == ASSUME ClosedInv, [Next]_vars PROVE ClosedInv'
<1>1. CASE User
  <2>1. stage' = stage /\ consumer' = consumer
    BY <1>1 DEF User, Submit, Recall, Resend, Interrupt, Exit, ForceExit, stageVars, consumerVars
  <2> QED
    BY <2>1 DEF ClosedInv
<1>2. CASE Consumer
  <2>1. stage' = stage /\ consumer.at \in {"get", "admit", "save"}
    BY <1>2 DEF Consumer, Take, Admitted, Refused, SaveDone, SaveRaises, stageVars
  <2> QED
    BY <2>1 DEF ClosedInv
<1>3. CASE RunLoop
  <2>1. stage' = stage /\ consumer' = consumer
    BY <1>3 DEF RunLoop, NextInput, RefusedAgain, StartCommand, EndCommand, StartTurn, LoopBack, stageVars, consumerVars
  <2> QED
    BY <2>1 DEF ClosedInv
<1>4. CASE TurnTask
  <2>1. stage' = stage /\ consumer' = consumer
    BY <1>4 DEF TurnTask, PlaceAlone, EndTurn, stageVars, consumerVars
  <2> QED
    BY <2>1 DEF ClosedInv
<1>5. CASE Agent
  <2>1. stage' = stage /\ consumer' = consumer
    BY <1>5 DEF Agent, Opened, Prepare, Send, AttemptEnds, Backoff, Retry, AnswerTools, BatchDone, AnswerFinal, ModelFails,
                Cancelled, CancelledOpening, EngineFrame, stageVars
  <2> QED
    BY <2>1 DEF ClosedInv
<1>6. CASE Shutdown
  <2>1. CASE BeginShutdown
    BY <2>1 DEF BeginShutdown, ClosedInv
  <2>2. CASE CloseSubmissions
    BY <2>2 DEF CloseSubmissions, Rest, ClosedInv
  <2>3. CASE AbandonBoundary
    BY <2>3 DEF AbandonBoundary, stageVars, consumerVars, ClosedInv
  <2>4. CASE Close
    BY <2>4 DEF Close, consumerVars, ClosedInv
  <2> QED
    BY <1>6, <2>1, <2>2, <2>3, <2>4 DEF Shutdown
<1>7. CASE UNCHANGED vars
  BY <1>7 DEF vars, ClosedInv
<1> QED
  BY <1>1, <1>2, <1>3, <1>4, <1>5, <1>6, <1>7 DEF Next

-----------------------------------------------------------------------------
(***************************************************************************)
(* The invariant.                                                          *)
(***************************************************************************)
LEMMA StartsGood == ASSUME Init PROVE IInv /\ ClosedInv
<1>1. /\ world \in Worlds /\ kinds = <<>> /\ mode = "chat" /\ submissions = <<>> /\ consumer = Idle
      /\ turnActive = FALSE /\ cancelPending = FALSE /\ pending = <<>> /\ queue = <<>>
      /\ loop = "wait" /\ current = 0 /\ task = "none" /\ engine = NoEngine /\ cancelling = FALSE
      /\ turn = <<>> /\ checkpoint = <<>> /\ spoke = FALSE /\ history = <<>>
      /\ editor = {} /\ retracted = {} /\ late = {} /\ confirmed = {} /\ disk = {}
      /\ stage = "up" /\ shutdown = FALSE /\ resends = 0
  BY DEF Init
<1>2. typed = 0 /\ DOMAIN <<>> = {} /\ Numbers(0) = {} /\ \A S : <<>> \in Seq(S)
  BY <1>1 DEF typed, Numbers
<1>3. /\ consumer \in RestTo(0) /\ consumer.at = "get" /\ InHand(consumer) = {} /\ ~AtBoundary
  BY <1>1 DEF Idle, Rest, RestTo, InHand, AtBoundary
<1>4. engine \in EnginesTo(0) /\ engine.at = "none"
  <2>1. engine = [at |-> "none", request |-> <<>>, failed |-> <<>>, step |-> 0, tries |-> 0]
    BY <1>1 DEF NoEngine
  <2>2. <<>> \in Seq(Numbers(0))
    OBVIOUS
  <2> QED
    BY <2>1, <2>2 DEF EnginesTo
<1>5. WorldInv
  <2>1. world.kinds \in Seq(SUBSET Kinds) /\ world.resends \in Nat
    BY <1>1, FollowUpsAssumption
  <2>2. Len(world.kinds) \in Nat /\ 1..0 = {}
    BY <2>1
  <2>3. typed <= Len(world.kinds) /\ 1..typed = {} /\ resends \in 0..world.resends
    BY <1>1, <1>2, <2>1, <2>2
  <2> QED
    BY <1>1, <1>2, <2>3 DEF WorldInv
<1>6. ContentInv
  <2>1. current \in 0..0
    BY <1>1
  <2> QED
    BY <1>1, <1>2, <1>3, <1>4, <2>1 DEF ContentInv
<1>7. HandInv /\ PhaseInv /\ ClosedInv
  BY <1>1, <1>3, <1>4 DEF HandInv, PhaseInv, ClosedInv
<1>8. BoundaryInv
  <2>1. Boundaries(submissions) = {}
    BY <1>1, <1>2 DEF Boundaries
  <2> QED
    BY <1>3, <2>1 DEF BoundaryInv, OneBoundary
<1>9. FlightInv
  BY <1>1, <1>2, <1>4 DEF FlightInv, ClaimInv, CarryInv, Asking, Dispatched, Awaited
<1>10. Sent(submissions) = {} /\ Range(<<>>) = {} /\ QueueIds(queue) = {} /\ Taken(current) = {} /\ Gone = {}
       /\ SentOnce(submissions) /\ QueuedOnce(queue) /\ IsInjective(<<>>)
  BY <1>1, <1>2 DEF Sent, Range, QueueIds, Taken, Gone, SentOnce, QueuedOnce, IsInjective
<1>11. KeptInv
  BY <1>2 DEF KeptInv, Kept
<1>12. OnceInv
  BY <1>1, <1>3, <1>10 DEF OnceInv, Apart
<1>13. RestInv
  BY <1>1 DEF RestInv
<1>14. FateInv
  BY <1>1, <1>10 DEF FateInv
<1> QED
  BY <1>5, <1>6, <1>7, <1>8, <1>9, <1>11, <1>12, <1>13, <1>14 DEF IInv, TypeInv

LEMMA StepsGood == ASSUME IInv, ClosedInv, [Next]_vars PROVE IInv'
<1>1. CASE User
  BY <1>1, SubmitGood, RecallGood, ResendGood, InterruptGood, ExitGood, ForceExitGood DEF User
<1>2. CASE Consumer
  BY <1>2, TakeGood, AdmittedGood, RefusedGood, SaveDoneGood, SaveRaisesGood DEF Consumer
<1>3. CASE RunLoop
  BY <1>3, NextInputGood, RefusedAgainGood, StartCommandGood, EndCommandGood, StartTurnGood, LoopBackGood DEF RunLoop
<1>4. CASE TurnTask
  BY <1>4, PlaceAloneGood, EndTurnGood DEF TurnTask
<1>5. CASE Agent
  BY <1>5, OpenedGood, PrepareGood, SendGood, AttemptEndsGood, BackoffGood, RetryGood, AnswerToolsGood, BatchDoneGood,
     AnswerFinalGood, ModelFailsGood, CancelledGood, CancelledOpeningGood DEF Agent
<1>6. CASE Shutdown
  BY <1>6, BeginShutdownGood, CloseSubmissionsGood, AbandonBoundaryGood, CloseGood DEF Shutdown
<1>7. CASE UNCHANGED vars
  <2>1. UNCHANGED <<world, kinds, mode, submissions, consumer, turnActive, cancelPending, pending, queue, loop, current, task,
                    engine, cancelling, turn, checkpoint, spoke, history, editor, retracted, late, confirmed, disk, stage, shutdown, resends>>
    BY <1>7 DEF vars
  <2>2. WorldInv' /\ ContentInv'
    BY <2>1 DEF IInv, TypeInv, WorldInv, ContentInv, typed
  <2>3. PhaseInv'
    BY <2>1 DEF IInv, TypeInv, PhaseInv
  <2>4. KeptInv' /\ OnceInv' /\ FateInv' /\ HandInv' /\ Owed' = Owed
    BY <2>1, InputsSame
  <2>5. BoundaryInv' /\ FlightInv' /\ RestInv'
    BY <2>1, <2>4, BoundarySame, FlightSame, RestSame DEF IInv
  <2> QED
    BY <2>2, <2>3, <2>4, <2>5 DEF IInv, TypeInv
<1> QED
  BY <1>1, <1>2, <1>3, <1>4, <1>5, <1>6, <1>7 DEF Next

\* The inductive invariant holds in every world.
THEOREM InputsInvariant == Spec => [](IInv /\ ClosedInv)
<1>1. Init => IInv /\ ClosedInv
  BY StartsGood
<1>2. IInv /\ ClosedInv /\ [Next]_vars => (IInv /\ ClosedInv)'
  BY StepsGood, ClosedGood
<1> QED
  BY <1>1, <1>2, PTL DEF Spec

-----------------------------------------------------------------------------
(***************************************************************************)
(* What it means for the user.                                             *)
(***************************************************************************)
LEMMA TypesFollow == ASSUME IInv PROVE TypeOK
<1>1. /\ world \in Worlds /\ resends \in 0..world.resends /\ typed \in Nat /\ typed <= Len(world.kinds)
      /\ \A i \in 1..typed : kinds[i] \in world.kinds[i]
      /\ world.kinds \in Seq(SUBSET Kinds)
  BY PlacesTyped, FollowUpsAssumption DEF IInv, TypeInv, WorldInv
<1>2. Numbers(typed) \subseteq Inputs
  <2>1. Numbers(typed) \subseteq DOMAIN world.kinds
    <3> DEFINE N == typed
               M == Len(world.kinds)
    <3>1. N \in Nat /\ M \in Nat /\ N <= M /\ DOMAIN world.kinds = 1..M
      BY <1>1
    <3> HIDE DEF N, M
    <3>2. 1..N \subseteq 1..M
      BY <3>1
    <3> QED
      BY <3>1, <3>2 DEF Numbers, N
  <2>2. DOMAIN world.kinds \subseteq Inputs
    BY <1>1 DEF Inputs
  <2> QED
    BY <2>1, <2>2
<1>3. JobsTo(typed) \subseteq Jobs
  BY <1>2 DEF JobsTo, Jobs
<1>4. ItemsTo(typed) \subseteq [id : Inputs, inflight : BOOLEAN]
  BY <1>2 DEF ItemsTo
<1>5. /\ Seq(Numbers(typed)) \subseteq Seq(Inputs) /\ Seq(JobsTo(typed)) \subseteq Seq(Jobs)
      /\ Seq(ItemsTo(typed)) \subseteq Seq([id : Inputs, inflight : BOOLEAN])
  BY <1>2, <1>3, <1>4, SeqMonotonic
<1>6. /\ submissions \in Seq(Jobs) /\ pending \in Seq(Inputs) /\ queue \in Seq([id : Inputs, inflight : BOOLEAN])
      /\ turn \in Seq(Inputs) /\ checkpoint \in Seq(Inputs) /\ history \in Seq(Inputs)
      /\ editor \subseteq Inputs /\ retracted \subseteq Inputs /\ late \subseteq editor /\ confirmed \subseteq Inputs /\ disk \subseteq Inputs
  BY <1>2, <1>5 DEF IInv, TypeInv, ContentInv
<1>7. consumer \in [at : {"get", "dead", "gone"}, job : {<<>>}, capture : {{}}]
                     \cup [at : {"admit", "save"}, job : {<<j>> : j \in Jobs}, capture : SUBSET Inputs]
  <2>1. {<<j>> : j \in JobsTo(typed)} \subseteq {<<j>> : j \in Jobs} /\ SUBSET Numbers(typed) \subseteq SUBSET Inputs
    BY <1>2, <1>3
  <2>2. consumer \in RestTo(typed) \cup BusyTo(typed)
    BY DEF IInv, TypeInv, ContentInv
  <2> QED
    BY <2>1, <2>2 DEF RestTo, BusyTo
<1>8. current \in 0..typed
  BY DEF IInv, TypeInv, ContentInv
<1>9. /\ mode \in {"chat", "dispatch", "running", "gone"}
      /\ turnActive \in BOOLEAN /\ cancelPending \in BOOLEAN /\ cancelling \in BOOLEAN
      /\ loop \in {"wait", "admit", "command", "turn", "done"}
      /\ task \in {"none", "engine", "boundary", "placed", "failed"}
      /\ (task = "engine") = (engine.at # "none")
      /\ cancelling => task = "engine"
      /\ (current # 0) = (loop \in {"admit", "command"})
      /\ spoke \in BOOLEAN /\ shutdown \in BOOLEAN /\ stage \in {"up", "drain", "cancel", "closed"}
  BY DEF IInv, TypeInv, PhaseInv
<1> QED
  BY <1>1, <1>6, <1>7, <1>8, <1>9 DEF TypeOK

LEMMA NoneLostFollows == ASSUME IInv PROVE NoneLost
<1>1. Sent(submissions) \subseteq Range(Ids(submissions))
  BY DEF Sent, Range, Ids
<1>2. InHand(consumer) \subseteq Range(Ids(consumer.job))
  <2>1. CASE consumer.at = "admit"
    <3>1. PICK i \in 1..typed : consumer.job = <<Input(i)>>
      BY <2>1 DEF IInv, TypeInv, HandInv
    <3>2. 1 \in DOMAIN consumer.job
      BY <3>1
    <3> QED
      BY <2>1, <3>2 DEF InHand, Range, Ids
  <2>2. CASE consumer.at # "admit"
    BY <2>2 DEF InHand
  <2> QED
    BY <2>1, <2>2
<1>3. QueueIds(queue) = Range(Ids(queue))
  BY IdsRange DEF IInv, TypeInv, ContentInv
<1>4. Taken(current) \subseteq {current}
  BY DEF Taken
<1>5. Kept(typed, Sent(submissions), InHand(consumer), Range(pending), QueueIds(queue), Taken(current),
           Range(history) \cup Range(turn), Gone)
  BY DEF IInv, KeptInv
<1> QED
  BY <1>1, <1>2, <1>3, <1>4, <1>5 DEF Kept, Gone, NoneLost, Said

\* Images apart, nobody is stranded where saves land.
LEMMA NotStranded == ASSUME IInv, IsMild PROVE NothingStranded
<1> SUFFICES ASSUME loop = "wait", task = "none", pending = <<>>, submissions = <<>>, consumer.at = "get", queue # <<>>
             PROVE  FALSE
  BY DEF NothingStranded, AtRest
<1>1. stage = "up"
  BY DEF IInv, TypeInv, PhaseInv
<1>2. Owed # {}
  BY <1>1 DEF IInv, RestInv, Plain
<1>3. DOMAIN <<>> = {}
  OBVIOUS
<1>4. Owed = {}
  BY <1>3 DEF Owed, Sent, InHand, Range
<1> QED
  BY <1>2, <1>4

LEMMA DeliveredOnceFollows == ASSUME IInv PROVE DeliveredOnce
<1>1. /\ Apart(Sent(submissions), InHand(consumer), Range(pending), QueueIds(queue), Taken(current),
               Range(history) \cup Range(turn), Gone)
      /\ IsInjective(history) /\ IsInjective(turn) /\ Range(history) \cap Range(turn) = {}
  BY DEF IInv, OnceInv
<1>2. IsInjective(history \o turn)
  <2>1. history \in Seq(Numbers(typed)) /\ turn \in Seq(Numbers(typed))
    BY DEF IInv, TypeInv, ContentInv
  <2> QED
    BY <1>1, <2>1, ConcatRange
<1>3. QueueIds(queue) = Range(Ids(queue))
  BY IdsRange DEF IInv, TypeInv, ContentInv
<1> QED
  BY <1>1, <1>2, <1>3 DEF IInv, FateInv, Apart, DeliveredOnce, Said

\* Whatever the world does - refused images, requests sent again, saves that raise - every variable
\* keeps its kind and no input that was typed disappears between the prompt, the consumer, the pending
\* inputs, the session's queue, the conversation and the editor.
THEOREM InputsNeverLost == Spec => [](TypeOK /\ NoneLost)
<1>1. IInv => TypeOK /\ NoneLost
  BY TypesFollow, NoneLostFollows
<1> QED
  BY <1>1, InputsInvariant, PTL

\* Where saves land and no image can be refused, no input is left in the queue with nobody to take it
\* either: every ending of a turn or of a command flushes the queue, for any number of inputs and steps.
THEOREM MildInputsStay == Spec => []MildInputsKept
<1>1. IInv => MildInputsKept
  BY TypesFollow, NoneLostFollows, NotStranded DEF MildInputsKept
<1> QED
  BY <1>1, InputsInvariant, PTL

\* In every world the conversation holds an input once and nobody waits with it besides; what was
\* cancelled is not in it, and what was recalled is only if its request could not be pulled back.
THEOREM DeliveriesHold == Spec => []DeliveredOnce
<1>1. IInv => DeliveredOnce
  BY DeliveredOnceFollows
<1> QED
  BY <1>1, InputsInvariant, PTL
=============================================================================
