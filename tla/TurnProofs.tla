------------------------------ MODULE TurnProofs ------------------------------
(***************************************************************************)
(* TurnSound for any number of turns, steps, calls, corrections and        *)
(* follow-ups, wherever a cancellation falls, of a provider that names its *)
(* calls.                                                                  *)
(*                                                                         *)
(* A conversation is a concatenation of parts that are legal each: what    *)
(* was history, what the turn has so far, a batch with its results.  The   *)
(* one part that is not is the message whose batch is running, and all     *)
(* ways out of the batch settle it.                                        *)
(***************************************************************************)
EXTENDS Turn, FiniteSetTheorems, SequenceTheorems, WellFoundedInduction, TLAPS

Items == [id : 1..MaxFollowUps, inflight : BOOLEAN]

\* Where the turn is says how many steps it has begun.
StepInv ==
  /\ at \in {"idle", "ended"} => turn = <<>>
  /\ at # "idle" => number >= 1
  /\ at = "opening" => step = 0
  /\ at = "ready" => step >= 1
  /\ at \in {"request", "corrected", "correcting", "batch", "checkpoint"} => step \in 1..MaxSteps
  /\ at = "batch" => batch # NoBatch

\* A step's results are in the turn only once its batch has returned.
ResultInv ==
  \A n \in DOMAIN turn : turn[n].kind = "result" =>
    turn[n].step < step \/ (turn[n].step = step /\ at = "checkpoint")

\* Only the message whose batch is running waits for its results.
LegalInv ==
  /\ Legal(messages) /\ Legal(disk) /\ Legal(active)
  /\ at # "batch" => Legal(turn)
  /\ at = "batch" => \E t \in Seq(Messages), c \in Messages :
       /\ turn = Append(t, c) /\ Legal(t)
       /\ c.kind = "assistant" /\ c.named = TRUE /\ c.calls = Len(batch) /\ c.step = step

PastInv == retracted \subseteq 1..number

IInv == TypeOK /\ StepInv /\ ResultInv /\ LegalInv /\ PastInv /\ SentIsHistory

-----------------------------------------------------------------------------
(***************************************************************************)
(* The members of a sequence at some places.                               *)
(***************************************************************************)
\* A set of numbers that is not empty has a least one.
LEMMA Least == ASSUME NEW S \in SUBSET Nat, S # {} PROVE \E x \in S : \A y \in S : x <= y
<1>1. PICK x \in S : \A y \in S : ~(<<y, x>> \in OpToRel(<, Nat))
  BY NatLessThanWellFounded, WFMin
<1>2. ASSUME NEW y \in S, y < x PROVE FALSE
  <2>1. <<y, x>> \in Nat \X Nat
    OBVIOUS
  <2>2. <<y, x>>[1] < <<y, x>>[2]
    BY <1>2
  <2>3. <<y, x>> \in OpToRel(<, Nat)
    BY <2>1, <2>2, Zenon DEF OpToRel
  <2> QED
    BY <2>3, <1>1
<1>3. \A y \in S : x <= y
  BY <1>2
<1> QED
  BY <1>3

\* The n-th of a set of places is one of them.
LEMMA Place == ASSUME NEW L \in Nat, NEW I \in SUBSET (1..L), NEW n \in 1..Cardinality(I)
               PROVE  \E i \in I : Cardinality(I \cap (1..i)) = n
<1> DEFINE C(i) == Cardinality(I \cap (1..i))
           S == {i \in 0..L : C(i) >= n}
<1>1. IsFiniteSet(1..L) /\ IsFiniteSet(I)
  <2>1. IsFiniteSet(1..L)
    BY FS_Interval
  <2> QED
    BY <2>1, FS_Subset
<1>2. \A i \in Nat : IsFiniteSet(I \cap (1..i)) /\ C(i) \in Nat
  <2> SUFFICES ASSUME NEW i \in Nat PROVE IsFiniteSet(I \cap (1..i)) /\ C(i) \in Nat
    OBVIOUS
  <2>1. I \cap (1..i) \in SUBSET I
    OBVIOUS
  <2> QED
    BY <1>1, <2>1, FS_Subset, FS_CardinalityType
<1>3. C(0) = 0
  <2>1. I \cap (1..0) = {}
    OBVIOUS
  <2> QED
    BY <2>1, FS_EmptySet
<1>4. L \in S
  <2>1. I \cap (1..L) = I
    OBVIOUS
  <2>2. C(L) = Cardinality(I) /\ Cardinality(I) \in Nat
    BY <1>1, <2>1, FS_CardinalityType
  <2> QED
    BY <2>2
<1>5. PICK m \in S : \A y \in S : m <= y
  <2>1. S \in SUBSET Nat /\ S # {}
    BY <1>4
  <2> HIDE DEF S
  <2> QED
    BY <2>1, Least
<1>6. m \in 1..L /\ C(m) >= n
  <2>1. m \in 0..L /\ C(m) >= n
    OBVIOUS
  <2>2. m # 0
    BY <1>3, <2>1
  <2> QED
    BY <2>1, <2>2
<1>7. C(m - 1) < n
  <2>1. m - 1 \in 0..L /\ m - 1 < m
    BY <1>6
  <2>2. m - 1 \notin S
    <3> HIDE DEF S
    <3> QED
      BY <1>5, <1>6, <2>1
  <2>3. C(m - 1) \in Nat
    BY <1>2, <1>6
  <2> QED
    BY <2>1, <2>2, <2>3
<1>8. m \in I
  <2> SUFFICES ASSUME m \notin I PROVE FALSE
    OBVIOUS
  <2>1. I \cap (1..m) = I \cap (1..(m - 1))
    BY <1>6
  <2>2. C(m) = C(m - 1)
    BY <2>1
  <2>3. C(m) \in Nat /\ C(m - 1) \in Nat
    BY <1>2, <1>6
  <2> HIDE DEF C
  <2> QED
    BY <1>6, <1>7, <2>2, <2>3
<1>9. C(m) = C(m - 1) + 1
  <2>1. I \cap (1..m) = (I \cap (1..(m - 1))) \cup {m} /\ m \notin I \cap (1..(m - 1))
    BY <1>6, <1>8
  <2>2. IsFiniteSet(I \cap (1..(m - 1)))
    BY <1>2, <1>6
  <2> QED
    BY <2>1, <2>2, FS_AddElement
<1>10. C(m) = n
  <2>1. C(m) \in Nat /\ C(m - 1) \in Nat
    BY <1>2, <1>6
  <2> HIDE DEF C
  <2> QED
    BY <1>6, <1>7, <1>9, <2>1
<1> QED
  BY <1>8, <1>10

\* The members at some places are members, and each comes from one of them.
LEMMA PickedType ==
  ASSUME NEW S, NEW s \in Seq(S), NEW I \in SUBSET DOMAIN s
  PROVE  /\ Picked(s, I) \in Seq(S)
         /\ \A n \in DOMAIN Picked(s, I) : \E i \in I : Picked(s, I)[n] = s[i]
<1>1. Len(s) \in Nat /\ DOMAIN s = 1..Len(s) /\ \A i \in 1..Len(s) : s[i] \in S
  OBVIOUS
<1>2. Cardinality(I) \in Nat
  <2>1. IsFiniteSet(1..Len(s)) /\ I \in SUBSET (1..Len(s))
    BY <1>1, FS_Interval
  <2> QED
    BY <2>1, FS_Subset, FS_CardinalityType
<1>3. \A n \in 1..Cardinality(I) : (CHOOSE i \in I : Cardinality(I \cap (1..i)) = n) \in I
  BY <1>1, Place
<1>4. \A n \in 1..Cardinality(I) : \E i \in I : Picked(s, I)[n] = s[i]
  BY <1>3 DEF Picked
<1>5. DOMAIN Picked(s, I) = 1..Cardinality(I)
  BY DEF Picked
<1>6. Picked(s, I) \in [1..Cardinality(I) -> S]
  <2>1. \A n \in 1..Cardinality(I) : Picked(s, I)[n] \in S
    BY <1>1, <1>4
  <2>2. Picked(s, I) = [n \in 1..Cardinality(I) |-> Picked(s, I)[n]]
    BY DEF Picked
  <2> HIDE DEF Picked
  <2> QED
    BY <2>1, <2>2
<1>7. Picked(s, I) \in Seq(S)
  BY <1>2, <1>6, SeqDef
<1> QED
  BY <1>4, <1>5, <1>7

-----------------------------------------------------------------------------
(***************************************************************************)
(* Legal conversations.                                                    *)
(***************************************************************************)
\* The fields of a message that proofs compute with are numbers.
LEMMA MessageFields ==
  ASSUME NEW m \in Messages
  PROVE  m.calls \in Nat /\ m.calls <= MaxCalls /\ m.id \in Nat /\ m.step \in Nat
BY TurnAssumption DEF Messages

\* Two legal conversations, one after the other, are a legal one.
LEMMA LegalJoin == ASSUME NEW a \in Seq(Messages), NEW b \in Seq(Messages), Legal(a), Legal(b) PROVE Legal(a \o b)
<1> DEFINE t == a \o b
<1>1. /\ t \in Seq(Messages) /\ Len(t) = Len(a) + Len(b) /\ Len(a) \in Nat /\ Len(b) \in Nat
      /\ \A i \in 1..Len(t) : t[i] = IF i <= Len(a) THEN a[i] ELSE b[i - Len(a)]
      /\ DOMAIN t = 1..Len(t) /\ DOMAIN a = 1..Len(a) /\ DOMAIN b = 1..Len(b)
  BY ConcatProperties, LenProperties
<1>2. \A i \in 1..Len(t) : t[i] \in Messages /\ t[i].calls \in Nat /\ t[i].id \in Nat
  BY <1>1, MessageFields
<1> HIDE DEF t
<1>3. ASSUME NEW n \in 1..Len(t), t[n].calls > 0, NEW i \in 1..t[n].calls
      PROVE  n + i \in 1..Len(t) /\ t[n + i].kind = "result" /\ t[n + i].step = t[n].step /\ t[n + i].id = i
  <2>0. t[n].calls \in Nat
    BY <1>2
  <2>1. CASE n <= Len(a)
    <3>1. n \in 1..Len(a) /\ t[n] = a[n]
      BY <1>1, <2>1
    <3>2. n + i \in 1..Len(a) /\ a[n + i].kind = "result" /\ a[n + i].step = a[n].step /\ a[n + i].id = i
      BY <1>1, <1>3, <3>1 DEF Legal
    <3>3. n + i \in 1..Len(t) /\ t[n + i] = a[n + i]
      BY <1>1, <3>2
    <3> QED
      BY <3>1, <3>2, <3>3
  <2>2. CASE n > Len(a)
    <3> DEFINE k == n - Len(a)
    <3>1. k \in 1..Len(b) /\ t[n] = b[k]
      BY <1>1, <2>2
    <3>2. k + i \in 1..Len(b) /\ b[k + i].kind = "result" /\ b[k + i].step = b[k].step /\ b[k + i].id = i
      <4> HIDE DEF k
      <4>1. b[k].calls > 0 /\ i \in 1..b[k].calls
        BY <1>3, <3>1
      <4>2. k \in DOMAIN b
        BY <1>1, <3>1
      <4> QED
        BY <1>1, <4>1, <4>2 DEF Legal
    <3>3. n + i \in 1..Len(t) /\ n + i > Len(a) /\ (n + i) - Len(a) = k + i
      BY <1>1, <2>0, <2>2, <3>2
    <3>4. t[n + i] = b[k + i]
      BY <1>1, <3>3
    <3> QED
      BY <3>1, <3>2, <3>3, <3>4
  <2> QED
    BY <1>1, <2>1, <2>2
<1>4. ASSUME NEW n \in 1..Len(t), t[n].kind = "result"
      PROVE  n > t[n].id /\ t[n - t[n].id].kind = "assistant" /\ t[n].id \in 1..t[n - t[n].id].calls
  <2>0. t[n].id \in Nat
    BY <1>2
  <2>1. CASE n <= Len(a)
    <3>1. n \in 1..Len(a) /\ t[n] = a[n]
      BY <1>1, <2>1
    <3>2. n > a[n].id /\ a[n - a[n].id].kind = "assistant" /\ a[n].id \in 1..a[n - a[n].id].calls
      BY <1>1, <1>4, <3>1 DEF Legal
    <3>3. n - a[n].id \in 1..Len(t) /\ n - a[n].id <= Len(a)
      BY <1>1, <2>0, <3>1, <3>2
    <3>4. t[n - a[n].id] = a[n - a[n].id]
      BY <1>1, <3>3
    <3> QED
      BY <3>1, <3>2, <3>4
  <2>2. CASE n > Len(a)
    <3> DEFINE k == n - Len(a)
               j == b[k].id
    <3>1. k \in 1..Len(b) /\ t[n] = b[k]
      BY <1>1, <2>2
    <3>2. k > j /\ b[k - j].kind = "assistant" /\ j \in 1..b[k - j].calls
      <4> HIDE DEF k
      <4>1. b[k].kind = "result"
        BY <1>4, <3>1
      <4>2. k \in DOMAIN b
        BY <1>1, <3>1
      <4> QED
        BY <1>1, <4>1, <4>2 DEF Legal
    <3>3. j \in Nat
      BY <2>0, <3>1
    <3> HIDE DEF j
    <3>4. n - j \in 1..Len(t) /\ n - j > Len(a) /\ (n - j) - Len(a) = k - j
      BY <1>1, <2>2, <3>1, <3>2, <3>3
    <3>5. t[n - j] = b[k - j]
      BY <1>1, <3>4
    <3>6. n > j
      BY <1>1, <3>1, <3>2, <3>3
    <3> QED
      BY <3>1, <3>2, <3>5, <3>6 DEF j
  <2> QED
    BY <1>1, <2>1, <2>2
<1>5. Legal(t)
  <2> SUFFICES ASSUME NEW n \in DOMAIN t
               PROVE  /\ t[n].calls > 0 => \A i \in 1..t[n].calls :
                            n + i \in DOMAIN t /\ t[n + i].kind = "result" /\ t[n + i].step = t[n].step /\ t[n + i].id = i
                      /\ t[n].kind = "result" =>
                            n > t[n].id /\ t[n - t[n].id].kind = "assistant" /\ t[n].id \in 1..t[n - t[n].id].calls
    BY DEF Legal
  <2>1. DOMAIN t = 1..Len(t)
    BY <1>1
  <2> QED
    BY <2>1, <1>3, <1>4
<1> QED
  BY <1>5 DEF t

\* Messages that call nothing and answer nothing can stand anywhere.
Plain(t) == \A n \in DOMAIN t : t[n].calls = 0 /\ t[n].kind # "result"

\* A conversation without calls and results is legal.
LEMMA PlainLegal == ASSUME NEW t \in Seq(Messages), Plain(t) PROVE Legal(t)
BY DEF Legal, Plain

\* A message that neither calls nor answers a call may follow any legal conversation.
LEMMA LegalAppend == ASSUME NEW t \in Seq(Messages), Legal(t), NEW m \in Messages, m.calls = 0, m.kind # "result"
                     PROVE  Append(t, m) \in Seq(Messages) /\ Legal(Append(t, m))
<1>1. <<m>> \in Seq(Messages) /\ Plain(<<m>>)
  BY DEF Plain
<1>2. Append(t, m) = t \o <<m>> /\ Append(t, m) \in Seq(Messages)
  OBVIOUS
<1>3. Legal(<<m>>)
  BY <1>1, PlainLegal
<1>4. Legal(t \o <<m>>)
  BY <1>1, <1>3, LegalJoin
<1> QED
  BY <1>2, <1>4

\* The message that calls tools, with its results.
ResultsOf(k, r) == /\ r \in Seq(Messages) /\ Len(r) = k
                  /\ \A i \in 1..k : r[i].kind = "result" /\ r[i].id = i /\ r[i].step = step /\ r[i].calls = 0

\* A message that calls tools, followed by its results in order, is legal.
LEMMA BatchLegal ==
  ASSUME NEW k \in 1..MaxCalls, NEW r, ResultsOf(k, r), NEW c \in Messages,
         c.kind = "assistant", c.calls = k, c.step = step
  PROVE  /\ <<c>> \o r \in Seq(Messages)
         /\ Legal(<<c>> \o r)
<1> DEFINE t == <<c>> \o r
<1>1. c.kind = "assistant" /\ c.calls = k /\ c.step = step /\ k \in Nat /\ k > 0
  BY TurnAssumption
<1>2. c \in Messages /\ r \in Seq(Messages) /\ Len(r) = k
  BY DEF ResultsOf
<1>3. /\ t \in Seq(Messages) /\ Len(t) = k + 1 /\ DOMAIN t = 1..(k + 1)
      /\ t[1] = c /\ \A i \in 1..k : t[i + 1] = r[i]
  BY <1>1, <1>2
<1> HIDE DEF t
<1>4. \A i \in 1..k : t[i + 1].kind = "result" /\ t[i + 1].id = i /\ t[i + 1].step = step /\ t[i + 1].calls = 0
  <2> SUFFICES ASSUME NEW i \in 1..k
               PROVE  t[i + 1].kind = "result" /\ t[i + 1].id = i /\ t[i + 1].step = step /\ t[i + 1].calls = 0
    OBVIOUS
  <2>1. t[i + 1] = r[i]
    BY <1>3
  <2>2. r[i].kind = "result" /\ r[i].id = i /\ r[i].step = step /\ r[i].calls = 0
    BY DEF ResultsOf
  <2> QED
    BY <2>1, <2>2
<1>5. ASSUME NEW n \in 1..(k + 1), n # 1 PROVE n - 1 \in 1..k /\ n = (n - 1) + 1
  BY <1>1, <1>5
<1>6. ASSUME NEW n \in 1..(k + 1), t[n].calls > 0, NEW i \in 1..t[n].calls
      PROVE  n + i \in 1..(k + 1) /\ t[n + i].kind = "result" /\ t[n + i].step = t[n].step /\ t[n + i].id = i
  <2>1. n = 1
    <3> SUFFICES ASSUME n # 1 PROVE FALSE
      OBVIOUS
    <3> QED
      BY <1>4, <1>5, <1>6
  <2>2. i \in 1..k
    BY <1>1, <1>3, <2>1
  <2>3. n + i = i + 1 /\ i + 1 \in 1..(k + 1)
    BY <1>1, <2>1, <2>2
  <2> QED
    BY <1>1, <1>3, <1>4, <2>1, <2>2, <2>3
<1>7. ASSUME NEW n \in 1..(k + 1), t[n].kind = "result"
      PROVE  n > t[n].id /\ t[n - t[n].id].kind = "assistant" /\ t[n].id \in 1..t[n - t[n].id].calls
  <2>1. n # 1
    BY <1>1, <1>3, <1>7
  <2>2. n - 1 \in 1..k /\ n = (n - 1) + 1
    BY <1>5, <2>1
  <2>3. t[n].id = n - 1
    BY <1>4, <2>2
  <2>4. n - t[n].id = 1 /\ n > t[n].id
    BY <1>1, <2>2, <2>3
  <2> QED
    BY <1>1, <1>3, <2>2, <2>3, <2>4
<1>8. Legal(t)
  <2> SUFFICES ASSUME NEW n \in DOMAIN t
               PROVE  /\ t[n].calls > 0 => \A i \in 1..t[n].calls :
                            n + i \in DOMAIN t /\ t[n + i].kind = "result" /\ t[n + i].step = t[n].step /\ t[n + i].id = i
                      /\ t[n].kind = "result" =>
                            n > t[n].id /\ t[n - t[n].id].kind = "assistant" /\ t[n].id \in 1..t[n - t[n].id].calls
    BY DEF Legal
  <2>1. DOMAIN t = 1..(k + 1)
    BY <1>3
  <2> QED
    BY <2>1, <1>6, <1>7
<1> QED
  BY <1>3, <1>8 DEF t

-----------------------------------------------------------------------------
(***************************************************************************)
(* The messages a turn makes.                                              *)
(***************************************************************************)
\* Numbering a message leaves it a message of its kind.
LEMMA ChangedId ==
  ASSUME NEW m \in Messages, NEW i \in Nat
  PROVE  [m EXCEPT !.id = i] \in Messages /\ [m EXCEPT !.id = i].kind = m.kind /\ [m EXCEPT !.id = i].calls = m.calls
BY DEF Messages

\* Giving a message something to say leaves it a message of its kind.
LEMMA ChangedSays ==
  ASSUME NEW m \in Messages, NEW s \in Says
  PROVE  [m EXCEPT !.says = s] \in Messages /\ [m EXCEPT !.says = s].kind = m.kind /\ [m EXCEPT !.says = s].calls = m.calls
BY DEF Messages

\* What the turn makes are messages of the kind and the step it means.
LEMMA Made ==
  ASSUME number \in 0..MaxTurns, step \in 0..(MaxSteps + 1)
  PROVE  /\ \A i \in Nat : FollowUp(i) \in Messages /\ FollowUp(i).calls = 0 /\ FollowUp(i).kind = "followup"
         /\ Correction \in Messages /\ Correction.calls = 0 /\ Correction.kind = "correction"
         /\ Assistant \in Messages /\ Assistant.calls = 0 /\ Assistant.kind = "assistant"
         /\ \A i \in Nat : [Seen EXCEPT !.id = i] \in Messages /\ [Seen EXCEPT !.id = i].calls = 0
                           /\ [Seen EXCEPT !.id = i].kind = "observation"
         /\ \A s \in {"failed", "interrupt"} :
              Marker(s) \in Messages /\ Marker(s).calls = 0 /\ Marker(s).kind = "marker"
         /\ \A k \in 0..MaxCalls, b \in BOOLEAN : Calling(k, b) \in Messages /\ Calling(k, b).calls = k
              /\ Calling(k, b).step = step /\ Calling(k, b).kind = "assistant" /\ Calling(k, b).named = b
         /\ \A i \in Nat, s \in Says :
              /\ Result(step, i, s) \in Messages /\ Result(step, i, s).calls = 0 /\ Result(step, i, s).id = i
              /\ Result(step, i, s).step = step /\ Result(step, i, s).kind = "result"
<1>1. \A k \in Kinds : Message(k) \in Messages /\ Message(k).kind = k /\ Message(k).calls = 0
                          /\ Message(k).step = step
  BY TurnAssumption DEF Messages, Message, Says
<1>2. {"followup", "correction", "assistant", "observation", "marker", "result"} \subseteq Kinds
        /\ {"failed", "interrupt"} \subseteq Says /\ "" \in Says /\ 0 \in Nat
  BY DEF Kinds, Says
<1>3. \A i \in Nat : FollowUp(i) \in Messages /\ FollowUp(i).calls = 0 /\ FollowUp(i).kind = "followup"
  <2> SUFFICES ASSUME NEW i \in Nat
               PROVE  FollowUp(i) \in Messages /\ FollowUp(i).calls = 0 /\ FollowUp(i).kind = "followup"
    OBVIOUS
  <2> DEFINE m == Message("followup")
  <2>1. m \in Messages /\ m.kind = "followup" /\ m.calls = 0
    BY <1>1, <1>2
  <2>2. FollowUp(i) = [m EXCEPT !.id = i]
    BY DEF FollowUp
  <2> HIDE DEF m
  <2> QED
    BY <2>1, <2>2, ChangedId
<1>4. Correction \in Messages /\ Correction.calls = 0 /\ Correction.kind = "correction"
  BY <1>1, <1>2 DEF Correction
<1>5. Assistant \in Messages /\ Assistant.calls = 0 /\ Assistant.kind = "assistant" /\ Assistant.step = step
  BY <1>1, <1>2 DEF Assistant
<1>6. \A i \in Nat : [Seen EXCEPT !.id = i] \in Messages /\ [Seen EXCEPT !.id = i].calls = 0
                     /\ [Seen EXCEPT !.id = i].kind = "observation"
  BY <1>1, <1>2, ChangedId DEF Seen
<1>7. \A s \in {"failed", "interrupt"} :
        Marker(s) \in Messages /\ Marker(s).calls = 0 /\ Marker(s).kind = "marker"
  <2> SUFFICES ASSUME NEW s \in {"failed", "interrupt"}
               PROVE  Marker(s) \in Messages /\ Marker(s).calls = 0 /\ Marker(s).kind = "marker"
    OBVIOUS
  <2> DEFINE m == Message("marker")
  <2>1. m \in Messages /\ m.kind = "marker" /\ m.calls = 0 /\ s \in Says
    BY <1>1, <1>2
  <2>2. Marker(s) = [m EXCEPT !.says = s]
    BY DEF Marker
  <2> HIDE DEF m
  <2> QED
    BY <2>1, <2>2, ChangedSays
<1>8. \A k \in 0..MaxCalls, b \in BOOLEAN : Calling(k, b) \in Messages /\ Calling(k, b).calls = k
        /\ Calling(k, b).step = step /\ Calling(k, b).kind = "assistant" /\ Calling(k, b).named = b
  BY <1>5 DEF Calling, Messages
<1>9. \A i \in Nat, s \in Says :
        /\ Result(step, i, s) \in Messages /\ Result(step, i, s).calls = 0 /\ Result(step, i, s).id = i
        /\ Result(step, i, s).step = step /\ Result(step, i, s).kind = "result"
  <2> SUFFICES ASSUME NEW i \in Nat, NEW s \in Says
               PROVE  /\ Result(step, i, s) \in Messages /\ Result(step, i, s).calls = 0 /\ Result(step, i, s).id = i
                      /\ Result(step, i, s).step = step /\ Result(step, i, s).kind = "result"
    OBVIOUS
  <2> DEFINE m == Message("result")
  <2>1. m \in Messages /\ m.kind = "result" /\ m.calls = 0
    BY <1>1, <1>2
  <2>2. Result(step, i, s) = [m EXCEPT !.step = step, !.id = i, !.says = s]
    BY DEF Result
  <2> HIDE DEF m
  <2>3. /\ [m EXCEPT !.step = step, !.id = i, !.says = s] \in Messages
        /\ [m EXCEPT !.step = step, !.id = i, !.says = s].kind = m.kind
        /\ [m EXCEPT !.step = step, !.id = i, !.says = s].calls = m.calls
        /\ [m EXCEPT !.step = step, !.id = i, !.says = s].id = i
        /\ [m EXCEPT !.step = step, !.id = i, !.says = s].step = step
    BY <2>1 DEF Messages
  <2> QED
    BY <2>1, <2>2, <2>3
<1> QED
  BY <1>3, <1>4, <1>5, <1>6, <1>7, <1>8, <1>9

-----------------------------------------------------------------------------
(***************************************************************************)
(* Settling.                                                               *)
(***************************************************************************)
\* A legal conversation has nothing to settle.
LEMMA SettledClosed == ASSUME NEW t \in Seq(Messages), Legal(t), NEW says PROVE Settled(t, says) = t
<1>1. DOMAIN t = 1..Len(t) /\ \A n \in DOMAIN t : t[n].calls \in Nat
  BY MessageFields
<1>2. ASSUME NEW c \in Unanswered(t) PROVE FALSE
  <2>1. /\ c[1] \in DOMAIN t /\ c[2] \in 1..MaxCalls /\ c[2] <= t[c[1]].calls
        /\ \A n \in DOMAIN t : ~(t[n].kind = "result" /\ t[n].step = t[c[1]].step /\ t[n].id = c[2])
    BY DEF Unanswered
  <2>2. t[c[1]].calls > 0 /\ c[2] \in 1..t[c[1]].calls
    BY <1>1, <2>1, TurnAssumption
  <2>3. c[1] + c[2] \in DOMAIN t /\ t[c[1] + c[2]].kind = "result"
          /\ t[c[1] + c[2]].step = t[c[1]].step /\ t[c[1] + c[2]].id = c[2]
    BY <2>1, <2>2 DEF Legal
  <2> QED
    BY <2>1, <2>3
<1>3. Unanswered(t) = {} /\ Cardinality(Unanswered(t)) = 0
  BY <1>2, FS_EmptySet
<1> DEFINE r == [k \in 1..0 |-> Result(t[Nth({}, k)[1]].step, Nth({}, k)[2], says)]
<1>4. Settled(t, says) = t \o r
  BY <1>3 DEF Settled
<1>5. r = <<>>
  OBVIOUS
<1>6. t \o <<>> = t
  OBVIOUS
<1> QED
  BY <1>4, <1>5, <1>6

\* The first j calls of one message are j.
LEMMA LineCard == ASSUME NEW L, NEW j \in Nat
                  PROVE  IsFiniteSet({L} \X (1..j)) /\ Cardinality({L} \X (1..j)) = j
<1> DEFINE f == [i \in 1..j |-> <<L, i>>]
<1>1. f \in Bijection(1..j, {L} \X (1..j))
  <2>1. f \in [1..j -> {L} \X (1..j)]
    OBVIOUS
  <2>2. \A a, b \in 1..j : f[a] = f[b] => a = b
    OBVIOUS
  <2>3. \A p \in {L} \X (1..j) : \E a \in 1..j : f[a] = p
    <3> SUFFICES ASSUME NEW p \in {L} \X (1..j) PROVE \E a \in 1..j : f[a] = p
      OBVIOUS
    <3>1. p[2] \in 1..j /\ p = <<L, p[2]>>
      OBVIOUS
    <3> QED
      BY <3>1
  <2> HIDE DEF f
  <2> QED
    BY <2>1, <2>2, <2>3, Zenon DEF Bijection, Injection, Surjection, IsInjective
<1>2. IsFiniteSet(1..j) /\ Cardinality(1..j) = j
  BY FS_Interval
<1>3. ExistsBijection(1..j, {L} \X (1..j))
  BY <1>1 DEF ExistsBijection
<1> QED
  BY <1>2, <1>3, FS_Bijection

\* In a set with one message and k of its calls, the calls are enumerated in order.
LEMMA NthOfLine ==
  ASSUME NEW L \in Nat, NEW k \in Nat, NEW j \in 1..k
  PROVE  Nth({L} \X (1..k), j) = <<L, j>>
<1> DEFINE open == {L} \X (1..k)
<1>1. \A c \in open : UpTo(open, c) = {L} \X (1..c[2]) /\ c[2] \in 1..k /\ c = <<L, c[2]>>
  BY DEF UpTo
<1>2. \A c \in open : Cardinality(UpTo(open, c)) = c[2]
  <2> SUFFICES ASSUME NEW c \in open PROVE Cardinality(UpTo(open, c)) = c[2]
    OBVIOUS
  <2>1. UpTo(open, c) = {L} \X (1..c[2]) /\ c[2] \in Nat
    BY <1>1
  <2>2. Cardinality({L} \X (1..c[2])) = c[2]
    BY <2>1, LineCard
  <2> QED
    BY <2>1, <2>2
<1>3. <<L, j>> \in open /\ <<L, j>>[2] = j
  OBVIOUS
<1> HIDE DEF open
<1>4. \E c \in open : Cardinality(UpTo(open, c)) = j
  BY <1>2, <1>3
<1>5. Nth(open, j) \in open /\ Cardinality(UpTo(open, Nth(open, j))) = j
  BY <1>4 DEF Nth
<1>6. Nth(open, j)[2] = j /\ Nth(open, j) = <<L, Nth(open, j)[2]>>
  BY <1>1, <1>2, <1>5
<1> QED
  BY <1>6 DEF open

\* A turn whose batch is running is settled by one result for each of its calls.
LEMMA SettledOpen ==
  ASSUME NEW t \in Seq(Messages), Legal(t), NEW k \in 1..MaxCalls, NEW c \in Messages,
         c.kind = "assistant", c.calls = k, c.step = step, c.named = TRUE, NEW says,
         \A n \in DOMAIN t : t[n].kind = "result" => t[n].step # step
  PROVE  Settled(Append(t, c), says) = Append(t, c) \o [i \in 1..k |-> Result(step, i, says)]
<1> DEFINE u == Append(t, c)
           L == Len(t) + 1
<1>1. c \in Messages /\ c.kind = "assistant" /\ c.calls = k /\ c.step = step /\ c.named = TRUE /\ k \in Nat
  BY TurnAssumption
<1>2. /\ DOMAIN t = 1..Len(t) /\ DOMAIN u = 1..L /\ Len(t) \in Nat /\ u[L] = c
      /\ \A n \in 1..Len(t) : u[n] = t[n] /\ t[n].calls \in Nat
  BY <1>1, MessageFields
<1> HIDE DEF u
<1>3. ASSUME NEW p \in Unanswered(u) PROVE p \in {L} \X (1..k)
  <2>1. /\ p \in (1..L) \X (1..MaxCalls) /\ p[2] <= u[p[1]].calls
        /\ \A n \in DOMAIN u : ~(u[n].kind = "result" /\ u[n].step = u[p[1]].step /\ u[n].id = p[2])
    BY <1>2 DEF Unanswered
  <2>2. p[1] = L
    <3> SUFFICES ASSUME p[1] # L PROVE FALSE
      OBVIOUS
    <3>1. p[1] \in 1..Len(t) /\ u[p[1]] = t[p[1]] /\ p[2] \in 1..MaxCalls
      BY <1>2, <2>1
    <3>2. p[2] \in 1..t[p[1]].calls /\ t[p[1]].calls > 0
      BY <1>2, <2>1, <3>1, TurnAssumption
    <3>3. p[1] + p[2] \in DOMAIN t /\ t[p[1] + p[2]].kind = "result"
            /\ t[p[1] + p[2]].step = t[p[1]].step /\ t[p[1] + p[2]].id = p[2]
      BY <1>2, <3>1, <3>2 DEF Legal
    <3>4. p[1] + p[2] \in DOMAIN u /\ u[p[1] + p[2]] = t[p[1] + p[2]]
      BY <1>2, <3>3
    <3> QED
      BY <2>1, <3>1, <3>3, <3>4
  <2>3. p[2] \in 1..k
    BY <1>1, <1>2, <2>1, <2>2, TurnAssumption
  <2> QED
    BY <2>1, <2>2, <2>3
<1>4. ASSUME NEW p \in {L} \X (1..k) PROVE p \in Unanswered(u)
  <2>1. p[1] = L /\ p[2] \in 1..k /\ p \in (DOMAIN u) \X (1..MaxCalls)
    BY <1>1, <1>2, TurnAssumption
  <2>2. \A n \in DOMAIN u : u[n].kind = "result" => u[n].step # step
    <3> SUFFICES ASSUME NEW n \in 1..L, u[n].kind = "result" PROVE u[n].step # step
      BY <1>2
    <3>1. n # L
      BY <1>1, <1>2
    <3>2. n \in 1..Len(t) /\ u[n] = t[n]
      BY <1>2, <3>1
    <3> QED
      BY <1>2, <3>2
  <2>3. u[p[1]].kind = "assistant" /\ u[p[1]].named /\ p[2] <= u[p[1]].calls /\ u[p[1]].step = step
    BY <1>1, <1>2, <2>1
  <2> QED
    BY <2>1, <2>2, <2>3 DEF Unanswered
<1>5. Unanswered(u) = {L} \X (1..k)
  BY <1>3, <1>4
<1>6. Cardinality(Unanswered(u)) = k
  <2>1. Cardinality({L} \X (1..k)) = k
    BY <1>1, LineCard
  <2> QED
    BY <1>5, <2>1
<1>7. \A j \in 1..k : Nth(Unanswered(u), j)[1] = L /\ Nth(Unanswered(u), j)[2] = j
  <2> SUFFICES ASSUME NEW j \in 1..k
               PROVE  Nth(Unanswered(u), j)[1] = L /\ Nth(Unanswered(u), j)[2] = j
    OBVIOUS
  <2>1. L \in Nat
    BY <1>2
  <2>2. Nth({L} \X (1..k), j) = <<L, j>>
    BY <1>1, <2>1, NthOfLine
  <2> QED
    BY <1>5, <2>2
<1>8. [j \in 1..k |-> Result(u[Nth(Unanswered(u), j)[1]].step, Nth(Unanswered(u), j)[2], says)]
        = [i \in 1..k |-> Result(step, i, says)]
  <2>1. u[L].step = step
    BY <1>1, <1>2
  <2> QED
    BY <1>7, <2>1
<1>9. Settled(u, says) = u \o [i \in 1..k |-> Result(step, i, says)]
  BY <1>6, <1>8 DEF Settled
<1> QED
  BY <1>9 DEF u

-----------------------------------------------------------------------------
(***************************************************************************)
(* What the invariant says of the conversation in every state.             *)
(***************************************************************************)
\* What the invariant says of the types a conversation is built from.
LEMMA Conversation ==
  ASSUME IInv
  PROVE  /\ turn \in Seq(Messages) /\ active \in Seq(Messages) /\ messages \in Seq(Messages)
         /\ disk \in Seq(Messages) /\ answered \in Seq(Messages)
         /\ claimed \in Seq(1..MaxFollowUps) /\ queue \in Seq(Items)
         /\ number \in 0..MaxTurns /\ step \in 0..(MaxSteps + 1) /\ step \in Nat /\ number \in Nat
BY TurnAssumption DEF IInv, TypeOK, Items

\* A prefix of a conversation is one of everything the conversation grows to.
LEMMA PrefixGrows ==
  ASSUME NEW a \in Seq(Messages), NEW b \in Seq(Messages), NEW c \in Seq(Messages), IsPrefix(a, b)
  PROVE  IsPrefix(a, b \o c)
<1>1. /\ b \o c \in Seq(Messages) /\ Len(b \o c) = Len(b) + Len(c) /\ Len(a) \in Nat /\ Len(b) \in Nat /\ Len(c) \in Nat
      /\ \A i \in 1..Len(b) : (b \o c)[i] = b[i]
  OBVIOUS
<1>2. Len(a) <= Len(b) /\ SubSeq(a, 1, Len(a)) = SubSeq(b, 1, Len(a))
  BY DEF IsPrefix
<1>3. SubSeq(b \o c, 1, Len(a)) = SubSeq(b, 1, Len(a))
  BY <1>1, <1>2
<1> QED
  BY <1>1, <1>2, <1>3 DEF IsPrefix

\* A conversation is a prefix of itself.
LEMMA PrefixSelf == ASSUME NEW a \in Seq(Messages) PROVE IsPrefix(a, a)
BY DEF IsPrefix

\* What was sent stays a prefix when the turn grows, and when it becomes history.
LEMMA StaysSent ==
  ASSUME IInv, number \notin retracted, NEW x \in Seq(Messages)
  PROVE  IsPrefix(answered, messages \o (turn \o x))
<1>1. messages \o turn \in Seq(Messages) /\ IsPrefix(answered, messages \o turn)
  BY Conversation DEF IInv, SentIsHistory
<1>2. IsPrefix(answered, (messages \o turn) \o x)
  BY <1>1, Conversation, PrefixGrows
<1>3. (messages \o turn) \o x = messages \o (turn \o x)
  <2>1. messages \in Seq(Messages) /\ turn \in Seq(Messages)
    BY Conversation
  <2> QED
    BY <2>1, ConcatAssociative
<1> QED
  BY <1>2, <1>3

\* The follow-ups a request carries.
LEMMA SentLegal ==
  ASSUME IInv
  PROVE  /\ FollowUps(claimed) \in Seq(Messages) /\ Plain(FollowUps(claimed)) /\ Sent \in Seq(Messages)
         /\ at # "batch" => Legal(Sent)
<1>1. /\ \A n \in 1..Len(claimed) : claimed[n] \in Nat
      /\ DOMAIN claimed = 1..Len(claimed) /\ Len(claimed) \in Nat
  <2>1. claimed \in Seq(1..MaxFollowUps) /\ \A i \in 1..MaxFollowUps : i \in Nat
    BY Conversation
  <2>2. DOMAIN claimed = 1..Len(claimed) /\ Len(claimed) \in Nat
    BY <2>1
  <2>3. \A n \in 1..Len(claimed) : claimed[n] \in 1..MaxFollowUps
    BY <2>1, ElementOfSeq
  <2> QED
    BY <2>1, <2>2, <2>3
<1>2. /\ DOMAIN FollowUps(claimed) = 1..Len(claimed)
      /\ \A n \in 1..Len(claimed) : FollowUps(claimed)[n] = FollowUp(claimed[n])
  BY <1>1 DEF FollowUps
<1>3. \A n \in 1..Len(claimed) : FollowUps(claimed)[n] \in Messages /\ FollowUps(claimed)[n].calls = 0
                                 /\ FollowUps(claimed)[n].kind = "followup"
  BY <1>1, <1>2, Made, Conversation
<1>4. FollowUps(claimed) \in Seq(Messages)
  <2>1. FollowUps(claimed) = [n \in 1..Len(claimed) |-> FollowUps(claimed)[n]]
    BY <1>1 DEF FollowUps
  <2>2. FollowUps(claimed) \in [1..Len(claimed) -> Messages]
    BY <1>3, <2>1
  <2> QED
    BY <1>1, <2>2, SeqDef
<1>5. Plain(FollowUps(claimed))
  BY <1>2, <1>3 DEF Plain
<1>6. at # "batch" => Legal(turn)
  BY DEF IInv, LegalInv
<1>7. Sent \in Seq(Messages)
  BY <1>4, Conversation DEF Sent
<1>8. at # "batch" => Legal(Sent)
  BY <1>4, <1>5, <1>6, PlainLegal, LegalJoin, Conversation DEF Sent
<1> QED
  BY <1>4, <1>5, <1>7, <1>8

\* The batch that runs.
LEMMA BatchOpen ==
  ASSUME IInv, at = "batch"
  PROVE  \E t \in Seq(Messages), c \in Messages, k \in 1..MaxCalls :
           /\ turn = Append(t, c) /\ Legal(t) /\ k = Len(batch) /\ DOMAIN batch = 1..k
           /\ c.kind = "assistant" /\ c.named = TRUE /\ c.calls = k /\ c.step = step
           /\ \A n \in DOMAIN t : t[n].kind = "result" => t[n].step < step
<1>1. PICK t \in Seq(Messages), c \in Messages :
        /\ turn = Append(t, c) /\ Legal(t)
        /\ c.kind = "assistant" /\ c.named = TRUE /\ c.calls = Len(batch) /\ c.step = step
  BY DEF IInv, LegalInv
<1>2. batch \in Seq(Says \cup {"waiting"}) /\ batch # <<>>
  BY DEF IInv, TypeOK, StepInv, NoBatch
<1>3. Len(batch) \in Nat \ {0} /\ DOMAIN batch = 1..Len(batch)
  BY <1>2
<1>4. Len(batch) \in 1..MaxCalls
  BY <1>1, <1>3, MessageFields
<1>5. \A n \in DOMAIN t : n \in DOMAIN turn /\ turn[n] = t[n]
  BY <1>1
<1>6. \A n \in DOMAIN t : t[n].kind = "result" => t[n].step < step
  BY <1>5 DEF IInv, ResultInv
<1> QED
  BY <1>1, <1>3, <1>4, <1>6

\* The results a step makes for k calls are results of these calls.
LEMMA ResultsMade ==
  ASSUME number \in 0..MaxTurns, step \in 0..(MaxSteps + 1), NEW k \in 1..MaxCalls, NEW f,
         \A i \in 1..k : f[i] \in Says
  PROVE  ResultsOf(k, [i \in 1..k |-> Result(step, i, f[i])])
<1> DEFINE r == [i \in 1..k |-> Result(step, i, f[i])]
<1>1. k \in Nat /\ \A i \in 1..k : i \in Nat
  BY TurnAssumption
<1>2. \A i \in 1..k : r[i] \in Messages /\ r[i].calls = 0 /\ r[i].id = i /\ r[i].step = step /\ r[i].kind = "result"
  <2> SUFFICES ASSUME NEW i \in 1..k
               PROVE  r[i] \in Messages /\ r[i].calls = 0 /\ r[i].id = i /\ r[i].step = step /\ r[i].kind = "result"
    OBVIOUS
  <2>1. i \in Nat /\ f[i] \in Says /\ r[i] = Result(step, i, f[i])
    BY <1>1
  <2> HIDE DEF r
  <2> QED
    BY <2>1, Made
<1>3. r \in [1..k -> Messages]
  BY <1>2
<1>4. r \in Seq(Messages) /\ Len(r) = k
  BY <1>1, <1>3, SeqDef
<1> HIDE DEF r
<1>5. ResultsOf(k, r)
  BY <1>2, <1>4 DEF ResultsOf
<1> QED
  BY <1>5 DEF r

\* However the turn is interrupted, settling it makes it legal and adds to it.
LEMMA SettledTurn ==
  ASSUME IInv, NEW says \in {"failed", "cancelled"}
  PROVE  \E x \in Seq(Messages) : /\ Settled(turn, says) = turn \o x
                                  /\ turn \o x \in Seq(Messages) /\ Legal(turn \o x)
<1>1. CASE at # "batch"
  <2>1. Legal(turn) /\ Settled(turn, says) = turn
    BY <1>1, Conversation, SettledClosed DEF IInv, LegalInv
  <2>2. turn \o <<>> = turn /\ <<>> \in Seq(Messages)
    BY Conversation
  <2> QED
    BY <2>1, <2>2, Conversation
<1>2. CASE at = "batch"
  <2>1. PICK t \in Seq(Messages), c \in Messages, k \in 1..MaxCalls :
           /\ turn = Append(t, c) /\ Legal(t) /\ k = Len(batch) /\ DOMAIN batch = 1..k
           /\ c.kind = "assistant" /\ c.named = TRUE /\ c.calls = k /\ c.step = step
           /\ \A n \in DOMAIN t : t[n].kind = "result" => t[n].step < step
    BY <1>2, BatchOpen
  <2>2. \A n \in DOMAIN t : t[n].kind = "result" => t[n].step # step
    BY <2>1, Conversation, MessageFields
  <2> DEFINE r == [i \in 1..k |-> Result(step, i, says)]
  <2>3. Settled(turn, says) = turn \o r
    BY <2>1, <2>2, SettledOpen
  <2>4. ResultsOf(k, r)
    <3> DEFINE f == [i \in 1..k |-> says]
    <3>1. \A i \in 1..k : f[i] \in Says
      BY DEF Says
    <3>2. ResultsOf(k, [i \in 1..k |-> Result(step, i, f[i])])
      <4> HIDE DEF f
      <4> QED
        BY <3>1, Conversation, ResultsMade
    <3>3. r = [i \in 1..k |-> Result(step, i, f[i])]
      OBVIOUS
    <3> QED
      BY <3>2, <3>3
  <2> HIDE DEF r
  <2>5. r \in Seq(Messages)
    BY <2>4 DEF ResultsOf
  <2>6. <<c>> \o r \in Seq(Messages) /\ Legal(<<c>> \o r)
    BY <2>1, <2>4, BatchLegal
  <2>7. turn \o r = t \o (<<c>> \o r)
    <3>1. turn = t \o <<c>>
      BY <2>1
    <3>2. <<c>> \in Seq(Messages)
      OBVIOUS
    <3> QED
      BY <3>1, <3>2, <2>5, ConcatAssociative
  <2>8. Legal(turn \o r) /\ turn \o r \in Seq(Messages)
    BY <2>1, <2>6, <2>7, LegalJoin, ConcatProperties
  <2> QED
    BY <2>3, <2>5, <2>8
<1> QED
  BY <1>1, <1>2

-----------------------------------------------------------------------------
(***************************************************************************)
(* The ways a turn ends.                                                   *)
(***************************************************************************)
\* An end that leaves legal sequences, of which the history continues what was sent, keeps the invariant.
LEMMA EndStep ==
  ASSUME IInv, at \notin {"idle", "ended"}, Ends,
         messages' \in Seq(Messages), Legal(messages'), active' \in Seq(Messages), Legal(active'),
         disk' \in Seq(Messages), Legal(disk'), queue' \in Seq(Items), retracted' \subseteq 1..number,
         number \notin retracted' => IsPrefix(answered, messages')
  PROVE  IInv'
<1>1. /\ at' = "ended" /\ cancelling' = FALSE /\ claimed' = <<>> /\ batch' = <<>> /\ turn' = <<>>
      /\ UNCHANGED <<answered, number, typed, step, names, ran, hints>>
  BY DEF Ends, NoBatch, countVars
<1>2. number \in 1..MaxTurns
  BY TurnAssumption DEF IInv, TypeOK, StepInv
<1>3. TypeOK'
  <2>1. retracted' \subseteq 1..MaxTurns
    BY <1>2, TurnAssumption
  <2>2. /\ <<>> \in Seq(Messages) /\ <<>> \in Seq(1..MaxFollowUps) /\ <<>> \in Seq(Says \cup {"waiting"})
        /\ "ended" \in Places
    BY DEF Places
  <2>3. /\ answered \in Seq(Messages) /\ number \in 0..MaxTurns /\ step \in 0..(MaxSteps + 1)
        /\ names \in 0..MaxCorrections /\ hints \in BOOLEAN /\ typed \in 0..MaxFollowUps
        /\ ran \subseteq (1..MaxTurns) \X (1..MaxSteps) \X (1..MaxCalls)
    BY Zenon DEF IInv, TypeOK
  <2> QED
    BY <1>1, <2>1, <2>2, <2>3, Zenon DEF TypeOK, Items, NoBatch
<1>4. StepInv'
  BY <1>1, <1>2 DEF StepInv
<1>5. ResultInv'
  BY <1>1 DEF ResultInv
<1>6. Legal(<<>>)
  BY DEF Legal
<1>7. LegalInv'
  BY <1>1, <1>6 DEF LegalInv
<1>8. PastInv'
  BY <1>1 DEF PastInv
<1>9. messages' \o turn' = messages'
  BY <1>1
<1>10. SentIsHistory'
  BY <1>1, <1>9 DEF SentIsHistory
<1> QED
  BY <1>3, <1>4, <1>5, <1>7, <1>8, <1>10 DEF IInv

\* A turn that is answered, with its last messages x.
LEMMA FinishStep ==
  ASSUME IInv, at \notin {"idle", "ended"}, NEW x \in Seq(Messages), Legal(turn \o x), turn \o x \in Seq(Messages),
         Finish(turn \o x), queue' \in Seq(Items)
  PROVE  IInv'
<1>1. /\ messages' = messages \o (turn \o x) /\ active' = <<>> /\ Ends /\ UNCHANGED <<retracted, disk>>
  BY DEF Finish
<1>2. messages \in Seq(Messages) /\ Legal(messages) /\ disk \in Seq(Messages) /\ Legal(disk)
  BY Conversation DEF IInv, LegalInv
<1>3. messages' \in Seq(Messages) /\ Legal(messages')
  BY <1>1, <1>2, LegalJoin, ConcatProperties
<1>4. number \notin retracted => IsPrefix(answered, messages \o (turn \o x))
  BY StaysSent
<1>5. active' \in Seq(Messages) /\ Legal(active')
  BY <1>1 DEF Legal
<1>6. retracted \subseteq 1..number
  BY DEF IInv, PastInv
<1>7. /\ disk' \in Seq(Messages) /\ Legal(disk') /\ retracted' \subseteq 1..number
      /\ number \notin retracted' => IsPrefix(answered, messages')
  BY <1>1, <1>2, <1>4, <1>6, Zenon
<1> QED
  BY <1>1, <1>3, <1>5, <1>7, EndStep

\* A turn that ends early: settled, marked, committed and saved.
LEMMA MarkedStep ==
  ASSUME IInv, at \notin {"idle", "ended"}, NEW x \in Seq(Messages), Legal(turn \o x), turn \o x \in Seq(Messages),
         NEW says \in {"failed", "interrupt"}, messages' = messages \o Append(turn \o x, Marker(says)),
         active' = <<>>, disk' = messages', Ends, UNCHANGED retracted, queue' \in Seq(Items)
  PROVE  IInv'
<1>1. Marker(says) \in Messages /\ Marker(says).calls = 0 /\ Marker(says).kind = "marker"
  BY Conversation, Made
<1>2. messages \in Seq(Messages) /\ Legal(messages) /\ turn \in Seq(Messages)
  BY Conversation DEF IInv, LegalInv
<1>3. Append(turn \o x, Marker(says)) \in Seq(Messages) /\ Legal(Append(turn \o x, Marker(says)))
  BY <1>1, LegalAppend
<1>4. messages' \in Seq(Messages) /\ Legal(messages')
  BY <1>2, <1>3, LegalJoin, ConcatProperties
<1>5. number \notin retracted => IsPrefix(answered, messages')
  <2>1. Append(turn \o x, Marker(says)) = turn \o Append(x, Marker(says)) /\ Append(x, Marker(says)) \in Seq(Messages)
    <3> DEFINE m == Marker(says)
    <3> HIDE DEF m
    <3>1. m \in Messages
      BY <1>1 DEF m
    <3>2. turn \in Seq(Messages) /\ x \in Seq(Messages) /\ <<m>> \in Seq(Messages)
      BY <1>2, <3>1
    <3>3. (turn \o x) \o <<m>> = turn \o (x \o <<m>>)
      BY <3>2, ConcatAssociative
    <3>4. \A q \in Seq(Messages) : Append(q, m) = q \o <<m>> /\ Append(q, m) \in Seq(Messages)
      BY <3>1
    <3>5. turn \o x \in Seq(Messages)
      BY <3>2
    <3> QED
      BY <3>2, <3>3, <3>4, <3>5 DEF m
  <2> QED
    BY <2>1, StaysSent
<1>6. active' \in Seq(Messages) /\ Legal(active')
  BY DEF Legal
<1>7. retracted' \subseteq 1..number /\ (number \notin retracted' => IsPrefix(answered, messages'))
  BY <1>5 DEF IInv, PastInv
<1>8. disk' \in Seq(Messages) /\ Legal(disk')
  BY <1>4, Zenon
<1> QED
  BY <1>4, <1>6, <1>7, <1>8, EndStep

\* Releasing a claim leaves a queue of follow-ups.
LEMMA Released == ASSUME NEW q \in Seq(Items) PROVE Release(q) \in Seq(Items)
<1>1. DOMAIN q = 1..Len(q) /\ Len(q) \in Nat /\ \A n \in 1..Len(q) : q[n] \in Items
  OBVIOUS
<1>2. \A n \in 1..Len(q) : [q[n] EXCEPT !.inflight = FALSE] \in Items
  BY <1>1 DEF Items
<1>3. Release(q) \in [1..Len(q) -> Items]
  BY <1>1, <1>2 DEF Release
<1> QED
  BY <1>1, <1>3, SeqDef

\* What a request did not carry is a queue of follow-ups.
LEMMA UnclaimedType == ASSUME IInv PROVE Unclaimed \in Seq(Items)
<1>1. queue \in Seq(Items)
  BY Conversation
<1> QED
  BY <1>1, PickedType DEF Unclaimed

\* A request, or the preparation of one, that fails: nothing is open, and what was sent is committed.
LEMMA FailSentStep ==
  ASSUME IInv, at \in {"ready", "request", "correcting"}, Fail(Sent, Unclaimed)
  PROVE  IInv'
<1>1. Sent \in Seq(Messages) /\ Legal(Sent) /\ FollowUps(claimed) \in Seq(Messages)
  BY SentLegal
<1>2. Settled(Sent, "failed") = Sent
  BY <1>1, SettledClosed
<1>3. /\ messages' = messages \o Append(turn \o FollowUps(claimed), Marker("failed")) /\ active' = <<>>
      /\ disk' = messages' /\ Ends /\ UNCHANGED retracted
  BY <1>2 DEF Fail, Sent
<1>4. queue' \in Seq(Items)
  BY UnclaimedType, Released DEF Fail
<1>5. turn \o FollowUps(claimed) \in Seq(Messages) /\ Legal(turn \o FollowUps(claimed))
  BY <1>1 DEF Sent
<1> QED
  BY <1>1, <1>3, <1>4, <1>5, MarkedStep

\* A tool that raises: the open calls of its batch are settled.
LEMMA BatchRaisesStep == ASSUME IInv, BatchRaises PROVE IInv'
<1>1. at = "batch" /\ Fail(turn, queue)
  BY DEF BatchRaises
<1>2. PICK x \in Seq(Messages) : /\ Settled(turn, "failed") = turn \o x
                                 /\ turn \o x \in Seq(Messages) /\ Legal(turn \o x)
  BY SettledTurn
<1>3. /\ messages' = messages \o Append(turn \o x, Marker("failed")) /\ active' = <<>>
      /\ disk' = messages' /\ Ends /\ UNCHANGED retracted
  BY <1>1, <1>2 DEF Fail
<1>4. queue' \in Seq(Items)
  BY <1>1, Conversation, Released DEF Fail
<1> QED
  BY <1>1, <1>2, <1>3, <1>4, MarkedStep

\* A cancelled turn is settled, or retracted when the provider never spoke.
LEMMA CancelledStep == ASSUME IInv, Cancelled PROVE IInv'
<1>1. /\ at \notin {"idle", "ended"} /\ active' = <<>> /\ disk' = messages' /\ Ends /\ queue' = Release(queue)
  BY DEF Cancelled
<1>2. queue' \in Seq(Items)
  BY <1>1, Conversation, Released
<1>3. CASE Spoke(turn)
  <2>1. PICK x \in Seq(Messages) : /\ Settled(turn, "cancelled") = turn \o x
                                   /\ turn \o x \in Seq(Messages) /\ Legal(turn \o x)
    BY SettledTurn
  <2>2. messages' = messages \o Append(turn \o x, Marker("interrupt")) /\ UNCHANGED retracted
    BY <1>3, <2>1 DEF Cancelled
  <2> QED
    BY <1>1, <1>2, <2>1, <2>2, MarkedStep
<1>4. CASE ~Spoke(turn)
  <2>1. UNCHANGED messages /\ retracted' = retracted \cup {number}
    BY <1>4 DEF Cancelled
  <2>2. messages \in Seq(Messages) /\ Legal(messages)
    BY Conversation DEF IInv, LegalInv
  <2>3. active' \in Seq(Messages) /\ Legal(active')
    BY <1>1 DEF Legal
  <2>4. retracted' \subseteq 1..number /\ number \in retracted'
    <3>1. retracted \subseteq 1..number /\ number >= 1 /\ number \in Nat
      BY <1>1, Conversation DEF IInv, PastInv, StepInv
    <3> QED
      BY <2>1, <3>1
  <2>5. messages' \in Seq(Messages) /\ Legal(messages') /\ disk' \in Seq(Messages) /\ Legal(disk')
    BY <1>1, <2>1, <2>2, Zenon
  <2> QED
    BY <1>1, <1>2, <2>3, <2>4, <2>5, EndStep
<1> QED
  BY <1>3, <1>4

\* What a checkpoint saves.
LEMMA SnapshotLegal == ASSUME IInv PROVE Snapshot \in Seq(Messages) /\ Legal(Snapshot)
<1>1. /\ messages \in Seq(Messages) /\ active \in Seq(Messages) /\ Legal(messages) /\ Legal(active)
  BY Conversation DEF IInv, LegalInv
<1> QED
  BY <1>1, LegalJoin, ConcatProperties DEF Snapshot

\* A turn cancelled inside its opening checkpoint keeps its opening message in the saved session.
LEMMA CancelledOpeningStep == ASSUME IInv, CancelledOpening PROVE IInv'
<1>1. /\ at = "opening" /\ disk' = Snapshot /\ retracted' = retracted \cup {number} /\ Ends
      /\ UNCHANGED <<active, messages, queue>>
  BY DEF CancelledOpening
<1>2. /\ messages \in Seq(Messages) /\ Legal(messages) /\ active \in Seq(Messages) /\ Legal(active)
      /\ queue \in Seq(Items)
  BY Conversation DEF IInv, LegalInv
<1>3. retracted' \subseteq 1..number /\ number \in retracted'
  <2>1. retracted \subseteq 1..number /\ number >= 1 /\ number \in Nat
    BY <1>1, Conversation DEF IInv, PastInv, StepInv
  <2> QED
    BY <1>1, <2>1
<1>4. /\ messages' \in Seq(Messages) /\ Legal(messages') /\ active' \in Seq(Messages) /\ Legal(active')
      /\ queue' \in Seq(Items) /\ disk' \in Seq(Messages) /\ Legal(disk')
  BY <1>1, <1>2, SnapshotLegal, Zenon
<1> QED
  BY <1>1, <1>3, <1>4, EndStep

-----------------------------------------------------------------------------
(***************************************************************************)
(* The steps of a turn that goes on.                                       *)
(***************************************************************************)
\* TypeOK, by what a proof needs together.
Contents ==
  /\ turn \in Seq(Messages) /\ active \in Seq(Messages) /\ messages \in Seq(Messages)
  /\ disk \in Seq(Messages) /\ answered \in Seq(Messages)
  /\ claimed \in Seq(1..MaxFollowUps) /\ queue \in Seq(Items) /\ batch \in Seq(Says \cup {"waiting"})
Counters ==
  /\ number \in 0..MaxTurns /\ step \in 0..(MaxSteps + 1) /\ names \in 0..MaxCorrections
  /\ typed \in 0..MaxFollowUps /\ retracted \subseteq 1..MaxTurns
  /\ ran \subseteq (1..MaxTurns) \X (1..MaxSteps) \X (1..MaxCalls)
Phases ==
  /\ at \in Places /\ hints \in BOOLEAN /\ cancelling \in BOOLEAN
  /\ (claimed # <<>> => at \in {"ready", "request"}) /\ (batch # NoBatch => at = "batch")
  /\ (cancelling => at \notin {"idle", "ended"})

\* TypeOK is its parts together.
LEMMA TypeParts == TypeOK <=> Contents /\ Counters /\ Phases
BY Zenon DEF TypeOK, Contents, Counters, Phases, Items

\* The same in the next state.
LEMMA TypePartsNext == Contents' /\ Counters' /\ Phases' => TypeOK'
BY Zenon DEF TypeOK, Contents, Counters, Phases, Items

\* A step that leaves the conversation alone.
LEMMA ConversationKept ==
  ASSUME IInv, UNCHANGED <<turn, messages, active, answered, retracted, number>>, Legal(disk'),
         at' = "batch" <=> at = "batch", at = "batch" => step' = step /\ Len(batch') = Len(batch),
         step' = step + 1 \/ (step' = step /\ (at = "checkpoint" => at' = "checkpoint"))
  PROVE  ResultInv' /\ LegalInv' /\ PastInv' /\ SentIsHistory'
<1>1. ResultInv'
  <2> SUFFICES ASSUME NEW n \in DOMAIN turn, turn[n].kind = "result"
               PROVE  turn[n].step < step' \/ (turn[n].step = step' /\ at' = "checkpoint")
    BY DEF ResultInv
  <2>1. turn[n].step \in Nat /\ step \in Nat
    BY Conversation, MessageFields
  <2>2. turn[n].step < step \/ (turn[n].step = step /\ at = "checkpoint")
    BY DEF IInv, ResultInv
  <2> QED
    BY <2>1, <2>2
<1>2. LegalInv'
  <2>1. Legal(messages') /\ Legal(active') /\ (at' # "batch" => Legal(turn'))
    BY DEF IInv, LegalInv
  <2>2. ASSUME at' = "batch"
        PROVE  \E t \in Seq(Messages), c \in Messages :
                 /\ turn' = Append(t, c) /\ Legal(t)
                 /\ c.kind = "assistant" /\ c.named = TRUE /\ c.calls = Len(batch') /\ c.step = step'
    <3>1. PICK t \in Seq(Messages), c \in Messages :
            /\ turn = Append(t, c) /\ Legal(t)
            /\ c.kind = "assistant" /\ c.named = TRUE /\ c.calls = Len(batch) /\ c.step = step
      BY <2>2 DEF IInv, LegalInv
    <3> QED
      BY <2>2, <3>1
  <2> QED
    BY <2>1, <2>2 DEF LegalInv
<1>3. PastInv' /\ SentIsHistory'
  BY DEF IInv, PastInv, SentIsHistory
<1> QED
  BY <1>1, <1>2, <1>3

\* Queueing a follow-up touches the queue alone.
LEMMA EnqueueStep == ASSUME IInv, Enqueue PROVE IInv'
<1>1. /\ typed < MaxFollowUps /\ typed' = typed + 1 /\ queue' = Append(queue, [id |-> typed + 1, inflight |-> FALSE])
      /\ UNCHANGED <<at, number, step, turn, claimed, names, batch, ran, hints, cancelling, answered,
                     active, messages, retracted, disk>>
  BY DEF Enqueue
<1>2. Contents /\ Counters /\ Phases
  BY TypeParts DEF IInv
<1>3. typed + 1 \in 1..MaxFollowUps
  BY <1>1, <1>2, TurnAssumption DEF Counters
<1>4. queue' \in Seq(Items)
  <2>1. [id |-> typed + 1, inflight |-> FALSE] \in Items
    BY <1>3 DEF Items
  <2> QED
    BY <1>1, <1>2, <2>1 DEF Contents
<1>5. Contents' /\ Phases'
  BY <1>1, <1>2, <1>4, Zenon DEF Contents, Phases, Items
<1>6. Counters'
  BY <1>1, <1>2, <1>3 DEF Counters
<1>7. StepInv'
  BY <1>1 DEF IInv, StepInv
<1>8. ResultInv' /\ LegalInv' /\ PastInv' /\ SentIsHistory'
  BY <1>1, ConversationKept DEF IInv, LegalInv
<1> QED
  BY <1>5, <1>6, <1>7, <1>8, TypePartsNext DEF IInv

\* Every save writes the history and the turn as far as it was published: both are legal.
LEMMA SaveStep == ASSUME IInv, Save \/ Leave PROVE IInv'
<1>1. /\ disk' = Snapshot
      /\ UNCHANGED <<number, typed, step, turn, claimed, names, batch, ran, hints, cancelling, answered,
                     active, messages, queue, retracted>>
      /\ at' = at \/ (at = "ended" /\ at' = "idle")
  BY DEF Save, Leave, countVars
<1>2. Contents /\ Counters /\ Phases
  BY TypeParts DEF IInv
<1>3. disk' \in Seq(Messages) /\ Legal(disk')
  BY <1>1, SnapshotLegal
<1>4. Contents' /\ Counters'
  BY <1>1, <1>2, <1>3, Zenon DEF Contents, Counters, Items
<1>5. Phases'
  BY <1>1, <1>2 DEF Phases, Places
<1>6. StepInv'
  BY <1>1 DEF IInv, StepInv
<1>7. ResultInv' /\ LegalInv' /\ PastInv' /\ SentIsHistory'
  BY <1>1, <1>3, ConversationKept
<1> QED
  BY <1>4, <1>5, <1>6, <1>7, TypePartsNext DEF IInv

\* Asking for a cancellation changes nothing else.
LEMMA CancelStep == ASSUME IInv, Cancel PROVE IInv'
<1>1. /\ at \notin {"idle", "ended"} /\ cancelling' = TRUE
      /\ UNCHANGED <<at, number, typed, step, turn, claimed, names, batch, ran, hints, answered, active,
                     messages, queue, retracted, disk>>
  BY DEF Cancel, countVars
<1>2. Contents /\ Counters /\ Phases
  BY TypeParts DEF IInv
<1>3. Contents' /\ Counters'
  BY <1>1, <1>2, Zenon DEF Contents, Counters, Items
<1>4. Phases'
  BY <1>1, <1>2 DEF Phases
<1>5. StepInv'
  BY <1>1 DEF IInv, StepInv
<1>6. ResultInv' /\ LegalInv' /\ PastInv' /\ SentIsHistory'
  BY <1>1, ConversationKept DEF IInv, LegalInv
<1> QED
  BY <1>3, <1>4, <1>5, <1>6, TypePartsNext DEF IInv

\* A checkpoint that has landed saves a legal session, and begins the next step or goes on.
LEMMA CheckpointedStep == ASSUME IInv, Checkpointed PROVE IInv'
<1>1. /\ at \in {"opening", "checkpoint", "corrected"} /\ disk' = Snapshot
      /\ at' = IF at = "corrected" THEN "correcting" ELSE "ready"
      /\ step' = IF at = "corrected" THEN step ELSE step + 1
      /\ UNCHANGED <<number, typed, turn, claimed, names, batch, ran, hints, cancelling, answered, active,
                     messages, queue, retracted>>
  BY DEF Checkpointed, countVars
<1>2. Contents /\ Counters /\ Phases /\ StepInv
  BY TypeParts DEF IInv
<1>3. disk' \in Seq(Messages) /\ Legal(disk')
  BY <1>1, SnapshotLegal
<1>4. Contents'
  BY <1>1, <1>2, <1>3, Zenon DEF Contents, Items
<1>5. step \in Nat /\ step' \in 1..(MaxSteps + 1) /\ (at = "corrected" => step' \in 1..MaxSteps)
  BY <1>1, <1>2, TurnAssumption DEF StepInv
<1>6. Counters'
  <2>1. step' \in 0..(MaxSteps + 1)
    BY <1>5
  <2> QED
    BY <1>1, <1>2, <2>1, Zenon DEF Counters
<1>7. Phases'
  BY <1>1, <1>2 DEF Phases, Places
<1>8. StepInv'
  BY <1>1, <1>2, <1>5 DEF StepInv
<1>9. ResultInv' /\ LegalInv' /\ PastInv' /\ SentIsHistory'
  BY <1>1, <1>3, ConversationKept
<1> QED
  BY <1>4, <1>6, <1>7, <1>8, <1>9, TypePartsNext DEF IInv

\* Preparing a request claims the queue and leaves the conversation alone.
LEMMA PrepareStep == ASSUME IInv, Prepare PROVE IInv'
<1>1. /\ at = "ready" /\ step <= MaxSteps /\ at' = "request" /\ claimed' = Ids(queue)
      /\ queue' = [n \in DOMAIN queue |-> [queue[n] EXCEPT !.inflight = TRUE]]
      /\ UNCHANGED <<number, typed, step, turn, names, batch, ran, hints, cancelling, answered, active,
                     messages, retracted, disk>>
  BY DEF Prepare, countVars
<1>2. Contents /\ Counters /\ Phases /\ StepInv
  BY TypeParts DEF IInv
<1>3. DOMAIN queue = 1..Len(queue) /\ Len(queue) \in Nat /\ \A n \in 1..Len(queue) : queue[n] \in Items
  BY <1>2 DEF Contents
<1>4. queue' \in Seq(Items)
  <2>1. \A n \in 1..Len(queue) : [queue[n] EXCEPT !.inflight = TRUE] \in Items
    BY <1>3 DEF Items
  <2>2. queue' \in [1..Len(queue) -> Items]
    BY <1>1, <1>3, <2>1
  <2> QED
    BY <1>3, <2>2, SeqDef
<1>5. claimed' \in Seq(1..MaxFollowUps)
  <2>1. \A n \in 1..Len(queue) : queue[n].id \in 1..MaxFollowUps
    BY <1>3 DEF Items
  <2>2. claimed' \in [1..Len(queue) -> 1..MaxFollowUps]
    BY <1>1, <1>3, <2>1 DEF Ids
  <2> QED
    BY <1>3, <2>2, SeqDef
<1>6. Contents' /\ Counters'
  BY <1>1, <1>2, <1>4, <1>5, Zenon DEF Contents, Counters, Items
<1>7. Phases'
  BY <1>1, <1>2 DEF Phases, Places
<1>8. StepInv'
  BY <1>1, <1>2, TurnAssumption DEF StepInv, Counters
<1>9. ResultInv' /\ LegalInv' /\ PastInv' /\ SentIsHistory'
  BY <1>1, ConversationKept DEF IInv, LegalInv
<1> QED
  BY <1>6, <1>7, <1>8, <1>9, TypePartsNext DEF IInv

\* A request that is retried leaves everything as it was.
LEMMA RetryStep == ASSUME IInv, Retry PROVE IInv'
<1>1. /\ at = "request" /\ at' = "ready"
      /\ UNCHANGED <<number, typed, step, turn, claimed, names, batch, ran, hints, cancelling, answered, active,
                     messages, queue, retracted, disk>>
  BY DEF Retry, countVars
<1>2. Contents /\ Counters /\ Phases /\ StepInv
  BY TypeParts DEF IInv
<1>3. Contents' /\ Counters'
  BY <1>1, <1>2, Zenon DEF Contents, Counters, Items
<1>4. Phases'
  BY <1>1, <1>2 DEF Phases, Places
<1>5. StepInv'
  BY <1>1, <1>2 DEF StepInv
<1>6. ResultInv' /\ LegalInv' /\ PastInv' /\ SentIsHistory'
  BY <1>1, ConversationKept DEF IInv, LegalInv
<1> QED
  BY <1>3, <1>4, <1>5, <1>6, TypePartsNext DEF IInv

\* A call that finishes changes its outcome alone: the batch still waits.
LEMMA FinishCallStep == ASSUME IInv, FinishCall PROVE IInv'
<1>1. PICK i \in DOMAIN batch, outcome \in {"ok", "seen", "failed", "skipped"} :
        /\ batch' = [batch EXCEPT ![i] = outcome]
        /\ ran' = IF outcome = "skipped" THEN ran ELSE ran \cup {<<number, step, i>>}
  BY DEF FinishCall
<1>2. /\ at = "batch"
      /\ UNCHANGED <<at, number, typed, step, turn, claimed, names, hints, cancelling, answered, active,
                     messages, queue, retracted, disk>>
  BY DEF FinishCall, countVars
<1>3. Contents /\ Counters /\ Phases /\ StepInv
  BY TypeParts DEF IInv
<1>4. outcome \in Says \cup {"waiting"}
  BY DEF Says
<1>5. DOMAIN batch = 1..Len(batch) /\ Len(batch) \in Nat /\ batch # <<>>
  BY <1>2, <1>3 DEF Contents, StepInv, NoBatch
<1>6. batch' \in Seq(Says \cup {"waiting"}) /\ Len(batch') = Len(batch) /\ batch' # <<>>
  <2>1. batch \in Seq(Says \cup {"waiting"})
    BY <1>3 DEF Contents
  <2>2. batch' \in Seq(Says \cup {"waiting"}) /\ Len(batch') = Len(batch)
    BY <1>1, <1>4, <1>5, <2>1, ExceptSeq
  <2> QED
    BY <1>5, <2>1, <2>2
<1>7. ran' \subseteq (1..MaxTurns) \X (1..MaxSteps) \X (1..MaxCalls)
  <2>1. number \in 1..MaxTurns /\ step \in 1..MaxSteps
    BY <1>2, <1>3, TurnAssumption DEF StepInv, Counters
  <2>2. i \in 1..MaxCalls
    <3>1. \E k \in 1..MaxCalls : DOMAIN batch = 1..k
      BY <1>2, BatchOpen
    <3> QED
      BY <3>1, TurnAssumption
  <2>3. <<number, step, i>> \in (1..MaxTurns) \X (1..MaxSteps) \X (1..MaxCalls)
    BY <2>1, <2>2
  <2> QED
    BY <1>1, <1>3, <2>3, Zenon DEF Counters
<1>8. Contents' /\ Counters'
  BY <1>2, <1>3, <1>6, <1>7, Zenon DEF Contents, Counters, Items
<1>9. Phases'
  BY <1>2, <1>3 DEF Phases
<1>10. StepInv'
  BY <1>2, <1>3, <1>6 DEF StepInv, NoBatch
<1>11. ResultInv' /\ LegalInv' /\ PastInv' /\ SentIsHistory'
  BY <1>2, <1>6, ConversationKept DEF IInv, LegalInv
<1> QED
  BY <1>8, <1>9, <1>10, <1>11, TypePartsNext DEF IInv

-----------------------------------------------------------------------------
(***************************************************************************)
(* The turn begins, and is answered.                                       *)
(***************************************************************************)
\* A turn begins with the one message of the user.
LEMMA BeginStep == ASSUME IInv, Begin PROVE IInv'
<1>1. /\ at = "idle" /\ number < MaxTurns /\ at' = "opening" /\ number' = number + 1 /\ step' = 0 /\ names' = 0
      /\ turn' = <<User>> /\ active' = <<User>> /\ answered' = <<>>
      /\ UNCHANGED <<claimed, batch, ran, hints, cancelling, messages, queue, typed, retracted, disk>>
  BY DEF Begin
<1>2. Contents /\ Counters /\ Phases
  BY TypeParts DEF IInv
<1>3. number' \in 1..MaxTurns /\ number \in Nat
  BY <1>1, <1>2, TurnAssumption DEF Counters
<1>4. User \in Messages /\ User.calls = 0 /\ User.kind = "user"
  <2>1. Message("user") \in Messages /\ Message("user").kind = "user" /\ Message("user").calls = 0
    BY <1>2, TurnAssumption DEF Message, Messages, Kinds, Says, Counters
  <2>2. \A m \in Messages, n \in 0..MaxTurns :
          /\ [m EXCEPT !.turn = n, !.step = 0] \in Messages
          /\ [m EXCEPT !.turn = n, !.step = 0].kind = m.kind /\ [m EXCEPT !.turn = n, !.step = 0].calls = m.calls
    <3>1. 0 \in 0..(MaxSteps + 1)
      BY TurnAssumption
    <3> SUFFICES ASSUME NEW m \in Messages, NEW n \in 0..MaxTurns
                 PROVE  /\ [m EXCEPT !.turn = n, !.step = 0] \in Messages
                        /\ [m EXCEPT !.turn = n, !.step = 0].kind = m.kind
                        /\ [m EXCEPT !.turn = n, !.step = 0].calls = m.calls
      OBVIOUS
    <3>2. [m EXCEPT !.turn = n] \in Messages
      BY DEF Messages
    <3>3. \A o \in Messages : [o EXCEPT !.step = 0] \in Messages
      BY <3>1 DEF Messages
    <3>4. [m EXCEPT !.turn = n, !.step = 0] = [[m EXCEPT !.turn = n] EXCEPT !.step = 0]
      BY DEF Messages
    <3>5. [m EXCEPT !.turn = n, !.step = 0].kind = m.kind /\ [m EXCEPT !.turn = n, !.step = 0].calls = m.calls
      BY DEF Messages
    <3> QED
      BY <3>2, <3>3, <3>4, <3>5
  <2>3. number + 1 \in 0..MaxTurns
    BY <1>1, <1>3
  <2> QED
    BY <2>1, <2>2, <2>3 DEF User
<1>5. <<User>> \in Seq(Messages) /\ Legal(<<User>>) /\ Len(<<User>>) = 1
  <2>1. <<User>> \in Seq(Messages) /\ Plain(<<User>>)
    BY <1>4 DEF Plain
  <2> QED
    BY <2>1, PlainLegal
<1>6. Contents'
  <2>1. <<>> \in Seq(Messages)
    OBVIOUS
  <2> QED
    BY <1>1, <1>2, <1>5, <2>1, Zenon DEF Contents, Items
<1>7. Counters'
  <2>1. 0 \in 0..(MaxSteps + 1) /\ 0 \in 0..MaxCorrections /\ number' \in 0..MaxTurns
    BY <1>3, TurnAssumption
  <2> QED
    BY <1>1, <1>2, <2>1, Zenon DEF Counters
<1>8. Phases'
  BY <1>1, <1>2 DEF Phases, Places
<1>9. StepInv'
  BY <1>1, <1>3 DEF StepInv
<1>10. ResultInv'
  BY <1>1, <1>4 DEF ResultInv
<1>11. LegalInv'
  BY <1>1, <1>5 DEF IInv, LegalInv
<1>12. PastInv'
  BY <1>1, <1>3 DEF IInv, PastInv
<1>13. SentIsHistory'
  <2>1. messages' \o turn' \in Seq(Messages)
    BY <1>6, ConcatProperties DEF Contents
  <2>2. IsPrefix(<<>>, messages' \o turn')
    BY <2>1 DEF IsPrefix
  <2> QED
    BY <1>1, <2>2 DEF SentIsHistory
<1> QED
  BY <1>6, <1>7, <1>8, <1>9, <1>10, <1>11, <1>12, <1>13, TypePartsNext DEF IInv

\* What the provider answered: the history and what was sent.
LEMMA SentJoins == ASSUME IInv PROVE messages \o turn \o FollowUps(claimed) = messages \o Sent
<1>1. messages \in Seq(Messages) /\ turn \in Seq(Messages) /\ FollowUps(claimed) \in Seq(Messages)
  BY Conversation, SentLegal
<1> DEFINE f == FollowUps(claimed)
<1> HIDE DEF f
<1>2. messages \in Seq(Messages) /\ turn \in Seq(Messages) /\ f \in Seq(Messages)
  BY <1>1 DEF f
<1>3. (messages \o turn) \o f = messages \o (turn \o f)
  BY <1>2, ConcatAssociative
<1> QED
  BY <1>3 DEF f, Sent

\* An answer that keeps the turn going adds one message to what was sent.
LEMMA AnswerStep ==
  ASSUME IInv, Answer, AnswerFrame, NEW m \in Messages, m.kind # "result", turn' = Append(Sent, m),
         queue' = Unclaimed, active' \in Seq(Messages), Legal(active'), UNCHANGED ran,
         batch' \in Seq(Says \cup {"waiting"}), names' \in 0..MaxCorrections, hints' \in BOOLEAN,
         at' \in {"corrected", "checkpoint", "batch"}, batch' # NoBatch <=> at' = "batch",
         at' # "batch" => m.calls = 0,
         at' = "batch" => m.kind = "assistant" /\ m.named = TRUE /\ m.calls = Len(batch') /\ m.step = step
  PROVE  IInv'
<1>1. /\ at \in {"request", "correcting"} /\ answered' = (messages \o turn) \o FollowUps(claimed) /\ claimed' = <<>>
      /\ UNCHANGED <<number, typed, step, cancelling, messages, retracted, disk>>
  BY DEF Answer, AnswerFrame, countVars
<1>2. Contents /\ Counters /\ Phases /\ StepInv
  BY TypeParts DEF IInv
<1>3. Sent \in Seq(Messages) /\ Legal(Sent) /\ FollowUps(claimed) \in Seq(Messages) /\ Plain(FollowUps(claimed))
  BY <1>1, SentLegal
<1>4. messages \in Seq(Messages) /\ turn \in Seq(Messages) /\ step \in Nat
  BY Conversation
<1>5. answered' = messages \o Sent
  BY <1>1, SentJoins
<1>6. answered' \in Seq(Messages)
  BY <1>3, <1>4, <1>5, ConcatProperties
<1>7. turn' \in Seq(Messages) /\ turn' = Sent \o <<m>> /\ <<m>> \in Seq(Messages)
  <2> DEFINE s == Sent
  <2> HIDE DEF s
  <2>1. s \in Seq(Messages) /\ turn' = Append(s, m)
    BY <1>3 DEF s
  <2>2. turn' \in Seq(Messages) /\ turn' = s \o <<m>> /\ <<m>> \in Seq(Messages)
    BY <2>1
  <2> QED
    BY <2>2 DEF s
<1>8. Contents'
  <2>1. <<>> \in Seq(1..MaxFollowUps) /\ queue' \in Seq(Items)
    BY UnclaimedType
  <2> QED
    BY <1>1, <1>2, <1>6, <1>7, <2>1, Zenon DEF Contents, Items
<1>9. Counters'
  BY <1>1, <1>2, Zenon DEF Counters
<1>10. Phases'
  BY <1>1, <1>2 DEF Phases, Places
<1>11. StepInv'
  BY <1>1, <1>2 DEF StepInv
<1>12. ResultInv'
  <2> SUFFICES ASSUME NEW n \in DOMAIN turn', turn'[n].kind = "result"
               PROVE  turn'[n].step < step' \/ (turn'[n].step = step' /\ at' = "checkpoint")
    BY DEF ResultInv
  <2>1. /\ DOMAIN turn' = 1..(Len(turn) + Len(FollowUps(claimed)) + 1)
        /\ \A i \in 1..(Len(turn) + Len(FollowUps(claimed)) + 1) :
             turn'[i] = IF i <= Len(turn) THEN turn[i]
                        ELSE IF i <= Len(turn) + Len(FollowUps(claimed)) THEN FollowUps(claimed)[i - Len(turn)]
                        ELSE m
    <3> DEFINE f == FollowUps(claimed)
    <3> HIDE DEF f
    <3>1. f \in Seq(Messages) /\ turn' = (turn \o f) \o <<m>>
      BY <1>3, <1>7 DEF f, Sent
    <3>2. Len(turn) \in Nat /\ Len(f) \in Nat
      BY <1>4, <3>1
    <3>3. /\ DOMAIN turn' = 1..(Len(turn) + Len(f) + 1)
          /\ \A i \in 1..(Len(turn) + Len(f) + 1) :
               turn'[i] = IF i <= Len(turn) THEN turn[i]
                          ELSE IF i <= Len(turn) + Len(f) THEN f[i - Len(turn)] ELSE m
      BY <1>4, <3>1, <3>2
    <3> QED
      BY <3>3 DEF f
  <2>2. \A i \in 1..Len(FollowUps(claimed)) : FollowUps(claimed)[i].kind # "result"
    BY <1>3 DEF Plain
  <2>3. n \in 1..Len(turn) /\ turn'[n] = turn[n]
    <3>1. Len(turn) \in Nat /\ Len(FollowUps(claimed)) \in Nat
      BY <1>3, <1>4
    <3>2. n \in 1..(Len(turn) + Len(FollowUps(claimed)) + 1)
      BY <2>1
    <3>3. CASE n <= Len(turn)
      BY <2>1, <3>1, <3>2, <3>3
    <3>4. CASE n > Len(turn) /\ n <= Len(turn) + Len(FollowUps(claimed))
      <4>1. turn'[n] = FollowUps(claimed)[n - Len(turn)]
        BY <2>1, <3>1, <3>2, <3>4
      <4>2. n - Len(turn) \in 1..Len(FollowUps(claimed))
        BY <3>1, <3>2, <3>4
      <4>3. FollowUps(claimed)[n - Len(turn)].kind # "result"
        BY <2>2, <4>2
      <4> QED
        BY <4>1, <4>3
    <3>5. CASE n > Len(turn) + Len(FollowUps(claimed))
      <4>1. ~(n <= Len(turn)) /\ ~(n <= Len(turn) + Len(FollowUps(claimed)))
        BY <3>1, <3>2, <3>5
      <4>2. turn'[n] = m
        BY <2>1, <3>2, <4>1
      <4> QED
        BY <4>2
    <3> QED
      BY <3>1, <3>2, <3>3, <3>4, <3>5
  <2>4. turn[n].step < step
    BY <1>1, <1>4, <2>3 DEF IInv, ResultInv
  <2> QED
    BY <1>1, <2>3, <2>4
<1>13. LegalInv'
  <2>1. Legal(messages') /\ Legal(disk')
    BY <1>1 DEF IInv, LegalInv
  <2>2. at' # "batch" => Legal(turn')
    BY <1>3, LegalAppend
  <2>3. at' = "batch" => \E t \in Seq(Messages), c \in Messages :
          /\ turn' = Append(t, c) /\ Legal(t)
          /\ c.kind = "assistant" /\ c.named = TRUE /\ c.calls = Len(batch') /\ c.step = step'
    BY <1>1, <1>3
  <2> QED
    BY <2>1, <2>2, <2>3 DEF LegalInv
<1>14. PastInv'
  BY <1>1 DEF IInv, PastInv
<1>15. SentIsHistory'
  <2>1. (messages \o Sent) \o <<m>> = messages \o (Sent \o <<m>>)
    BY <1>3, <1>4, <1>7, ConcatAssociative
  <2>2. IsPrefix(answered', (messages \o Sent) \o <<m>>)
    BY <1>5, <1>6, <1>7, PrefixSelf, PrefixGrows
  <2> QED
    BY <1>1, <1>7, <2>1, <2>2 DEF SentIsHistory
<1> QED
  BY <1>8, <1>9, <1>10, <1>11, <1>12, <1>13, <1>14, <1>15, TypePartsNext DEF IInv

\* Textual markup: the correction follows what was sent.
LEMMA AnswerTextualStep == ASSUME IInv, AnswerTextual PROVE IInv'
<1>1. /\ Answer /\ AnswerFrame /\ names < MaxCorrections /\ names' = names + 1 /\ at' = "corrected"
      /\ turn' = Append(Sent, Correction) /\ active' = turn' /\ queue' = Unclaimed
      /\ UNCHANGED <<batch, ran, hints>>
  BY DEF AnswerTextual
<1>2. Contents /\ Counters /\ Phases
  BY TypeParts DEF IInv
<1>3. at # "batch" /\ batch = NoBatch
  BY <1>1, <1>2 DEF Answer, Phases
<1>4. Sent \in Seq(Messages) /\ Legal(Sent)
  BY <1>3, SentLegal
<1>5. Correction \in Messages /\ Correction.calls = 0 /\ Correction.kind # "result"
  BY Conversation, Made
<1>6. active' \in Seq(Messages) /\ Legal(active')
  BY <1>1, <1>4, <1>5, LegalAppend
<1>7. names' \in 0..MaxCorrections
  BY <1>1, <1>2, TurnAssumption DEF Counters
<1>8. batch' \in Seq(Says \cup {"waiting"})
  BY <1>1, <1>2 DEF Contents
<1>9. hints' \in BOOLEAN
  BY <1>1, <1>2, Zenon DEF Phases
<1>10. at' = "corrected" /\ batch' = NoBatch /\ UNCHANGED ran
  BY <1>1, <1>3
<1> QED
  BY <1>1, <1>5, <1>6, <1>7, <1>8, <1>9, <1>10, AnswerStep

\* A paused run: its message follows what was sent.
LEMMA AnswerPausedStep == ASSUME IInv, AnswerPaused PROVE IInv'
<1>1. /\ Answer /\ AnswerFrame /\ at' = "checkpoint"
      /\ turn' = Append(Sent, Assistant) /\ active' = turn' /\ queue' = Unclaimed
      /\ UNCHANGED <<names, batch, ran, hints>>
  BY DEF AnswerPaused
<1>2. Contents /\ Counters /\ Phases
  BY TypeParts DEF IInv
<1>3. at # "batch" /\ batch = NoBatch
  BY <1>1, <1>2 DEF Answer, Phases
<1>4. Sent \in Seq(Messages) /\ Legal(Sent)
  BY <1>3, SentLegal
<1>5. Assistant \in Messages /\ Assistant.calls = 0 /\ Assistant.kind # "result"
  BY Conversation, Made
<1>6. active' \in Seq(Messages) /\ Legal(active')
  BY <1>1, <1>4, <1>5, LegalAppend
<1>7. names' \in 0..MaxCorrections
  BY <1>1, <1>2 DEF Counters
<1>8. batch' \in Seq(Says \cup {"waiting"})
  BY <1>1, <1>2 DEF Contents
<1>9. hints' \in BOOLEAN
  BY <1>1, <1>2, Zenon DEF Phases
<1>10. at' = "checkpoint" /\ batch' = NoBatch /\ UNCHANGED ran
  BY <1>1, <1>3
<1> QED
  BY <1>1, <1>5, <1>6, <1>7, <1>8, <1>9, <1>10, AnswerStep

\* Tool calls: the message that carries them is the one that waits.
LEMMA AnswerToolsStep == ASSUME Identified = {TRUE}, IInv, AnswerTools PROVE IInv'
<1>1. PICK n \in 1..MaxCalls, only \in BOOLEAN, named \in Identified :
        /\ turn' = Append(Sent, Calling(n, named))
        /\ batch' = [i \in 1..n |-> "waiting"]
        /\ hints' = only
  BY Zenon DEF AnswerTools
<1>2. /\ Answer /\ AnswerFrame /\ at' = "batch" /\ queue' = Unclaimed
      /\ UNCHANGED <<names, ran, active>>
  BY DEF AnswerTools
<1>3. Contents /\ Counters /\ Phases
  BY TypeParts DEF IInv
<1>4. active' \in Seq(Messages) /\ Legal(active')
  BY <1>2, <1>3 DEF Contents, IInv, LegalInv
<1>5. n \in Nat /\ n > 0 /\ n \in 0..MaxCalls
  BY TurnAssumption
<1>6. named = TRUE /\ TRUE \in BOOLEAN
  OBVIOUS
<1>7. /\ Calling(n, named) \in Messages /\ Calling(n, named).calls = n /\ Calling(n, named).step = step
      /\ Calling(n, named).kind = "assistant" /\ Calling(n, named).named = TRUE
  BY <1>5, <1>6, Conversation, Made
<1>8. batch' \in Seq(Says \cup {"waiting"}) /\ Len(batch') = n /\ batch' # <<>>
  <2>1. batch' \in [1..n -> Says \cup {"waiting"}]
    BY <1>1
  <2>2. batch' \in Seq(Says \cup {"waiting"}) /\ DOMAIN batch' = 1..n
    BY <1>5, <2>1, SeqDef
  <2>3. Len(batch') = n
    BY <1>5, <2>2
  <2> QED
    BY <1>5, <2>2, <2>3
<1>9. hints' \in BOOLEAN
  BY <1>1, Zenon
<1>10. names' \in 0..MaxCorrections /\ UNCHANGED ran
  BY <1>2, <1>3 DEF Counters
<1>11. batch' # NoBatch <=> at' = "batch"
  BY <1>2, <1>8 DEF NoBatch
<1>12. turn' = Append(Sent, Calling(n, named)) /\ queue' = Unclaimed /\ Answer /\ AnswerFrame /\ at' = "batch"
  BY <1>1, <1>2
<1> HIDE DEF Calling
<1> QED
  BY <1>4, <1>7, <1>8, <1>9, <1>10, <1>11, <1>12, AnswerStep

\* A final answer ends the turn.
LEMMA AnswerFinalStep == ASSUME IInv, AnswerFinal PROVE IInv'
<1>1. at \in {"request", "correcting"} /\ queue' = Unclaimed /\ Finish(Append(Sent, Assistant))
  BY DEF AnswerFinal
<1>2. /\ Sent \in Seq(Messages) /\ Legal(Sent) /\ FollowUps(claimed) \in Seq(Messages)
      /\ turn \in Seq(Messages)
  BY <1>1, SentLegal, Conversation
<1>3. Assistant \in Messages /\ Assistant.calls = 0 /\ Assistant.kind # "result"
  BY Conversation, Made
<1> DEFINE f == FollowUps(claimed)
           a == Assistant
           x == f \o <<a>>
<1>4. Append(Sent, a) = turn \o x /\ x \in Seq(Messages)
  <2> HIDE DEF f, a
  <2>1. f \in Seq(Messages) /\ a \in Messages /\ <<a>> \in Seq(Messages)
    BY <1>2, <1>3 DEF f, a
  <2>2. (turn \o f) \o <<a>> = turn \o (f \o <<a>>)
    BY <1>2, <2>1, ConcatAssociative
  <2>3. turn \o f \in Seq(Messages)
    BY <1>2, <2>1
  <2>4. Append(turn \o f, a) = (turn \o f) \o <<a>>
    BY <2>1, <2>3
  <2>5. Sent = turn \o f
    BY DEF f, Sent
  <2>6. f \o <<a>> \in Seq(Messages)
    BY <2>1
  <2> QED
    BY <2>2, <2>4, <2>5, <2>6
<1>5. Append(Sent, a) \in Seq(Messages) /\ Legal(Append(Sent, a))
  BY <1>2, <1>3, LegalAppend
<1>6. queue' \in Seq(Items)
  BY <1>1, UnclaimedType
<1>7. Finish(turn \o x)
  BY <1>1, <1>4
<1>8. Legal(turn \o x) /\ turn \o x \in Seq(Messages)
  BY <1>4, <1>5
<1> HIDE DEF x
<1> QED
  BY <1>1, <1>4, <1>6, <1>7, <1>8, FinishStep

\* Running out of steps ends the turn with a message of its own.
LEMMA StopStep == ASSUME IInv, Stop PROVE IInv'
<1>1. at = "ready" /\ Finish(Append(turn, Assistant)) /\ UNCHANGED queue
  BY DEF Stop
<1>2. turn \in Seq(Messages) /\ Legal(turn) /\ queue \in Seq(Items)
  BY <1>1, Conversation DEF IInv, LegalInv
<1>3. Assistant \in Messages /\ Assistant.calls = 0 /\ Assistant.kind # "result"
  BY Conversation, Made
<1> DEFINE a == Assistant
<1>4. Append(turn, a) = turn \o <<a>> /\ <<a>> \in Seq(Messages)
  <2> HIDE DEF a
  <2>1. a \in Messages
    BY <1>3 DEF a
  <2> QED
    BY <1>2, <2>1
<1>5. Append(turn, a) \in Seq(Messages) /\ Legal(Append(turn, a))
  BY <1>2, <1>3, LegalAppend
<1>6. queue' \in Seq(Items)
  BY <1>1, <1>2
<1>7. Finish(turn \o <<a>>) /\ Legal(turn \o <<a>>) /\ turn \o <<a>> \in Seq(Messages)
  BY <1>1, <1>4, <1>5
<1> HIDE DEF a
<1> QED
  BY <1>1, <1>4, <1>6, <1>7, FinishStep
-----------------------------------------------------------------------------
(***************************************************************************)
(* The batch returns.                                                      *)
(***************************************************************************)
Returned == batch # NoBatch /\ \A i \in DOMAIN batch : batch[i] # "waiting"

\* The results of the running batch close the message that waits for them.
LEMMA ResultsLegal ==
  ASSUME IInv, at = "batch", Returned
  PROVE  /\ Results \in Seq(Messages) /\ turn \o Results \in Seq(Messages) /\ Legal(turn \o Results)
         /\ \A n \in DOMAIN Results : Results[n].kind = "result" => Results[n].step = step
<1>1. PICK t \in Seq(Messages), c \in Messages, k \in 1..MaxCalls :
         /\ turn = Append(t, c) /\ Legal(t) /\ k = Len(batch) /\ DOMAIN batch = 1..k
         /\ c.kind = "assistant" /\ c.named = TRUE /\ c.calls = k /\ c.step = step
         /\ \A n \in DOMAIN t : t[n].kind = "result" => t[n].step < step
  BY BatchOpen
<1>2. \A i \in 1..k : batch[i] \in Says
  <2>1. batch \in Seq(Says \cup {"waiting"})
    BY DEF IInv, TypeOK
  <2>2. \A i \in 1..k : batch[i] \in Says \cup {"waiting"}
    BY <1>1, <2>1
  <2> QED
    BY <1>1, <2>2 DEF Returned
<1> DEFINE r == [i \in 1..k |-> Result(step, i, batch[i])]
           o == [i \in 1..k |-> [Seen EXCEPT !.id = i]]
           seen == {i \in 1..k : batch[i] = "seen"}
           p == Picked(o, seen)
<1>3. Results = r \o p
  BY <1>1 DEF Results
<1>4. ResultsOf(k, r)
  BY <1>2, Conversation, ResultsMade
<1>5. p \in Seq(Messages) /\ Plain(p)
  <2>1. \A i \in 1..k : i \in Nat
    BY TurnAssumption
  <2>2. \A i \in 1..k : o[i] \in Messages /\ o[i].calls = 0 /\ o[i].kind = "observation"
    <3> SUFFICES ASSUME NEW i \in 1..k
                 PROVE  o[i] \in Messages /\ o[i].calls = 0 /\ o[i].kind = "observation"
      OBVIOUS
    <3>1. i \in Nat /\ o[i] = [Seen EXCEPT !.id = i]
      BY <2>1
    <3>2. [Seen EXCEPT !.id = i] \in Messages /\ [Seen EXCEPT !.id = i].calls = 0
          /\ [Seen EXCEPT !.id = i].kind = "observation"
      BY <3>1, Conversation, Made
    <3> QED
      BY <3>1, <3>2
  <2>3. o \in [1..k -> Messages]
    BY <2>2
  <2>4. k \in Nat
    BY TurnAssumption
  <2>5. o \in Seq(Messages) /\ DOMAIN o = 1..k
    BY <2>3, <2>4, SeqDef
  <2>6. seen \in SUBSET DOMAIN o
    BY <2>5
  <2> HIDE DEF o, seen
  <2>7. p \in Seq(Messages) /\ \A n \in DOMAIN p : \E i \in seen : p[n] = o[i]
    BY <2>5, <2>6, PickedType
  <2>8. \A n \in DOMAIN p : p[n].calls = 0 /\ p[n].kind # "result"
    BY <2>2, <2>5, <2>6, <2>7
  <2> QED
    BY <2>7, <2>8 DEF Plain
<1> HIDE DEF r, p
<1>6. r \in Seq(Messages) /\ \A n \in DOMAIN r : r[n].step = step
  BY <1>4 DEF ResultsOf
<1>7. <<c>> \o r \in Seq(Messages) /\ Legal(<<c>> \o r)
  BY <1>1, <1>4, BatchLegal
<1>8. Legal(p)
  BY <1>5, PlainLegal
<1>9. turn \o Results = t \o ((<<c>> \o r) \o p)
  <2>1. t \in Seq(Messages) /\ <<c>> \in Seq(Messages) /\ r \in Seq(Messages) /\ p \in Seq(Messages)
    BY <1>5, <1>6
  <2>2. turn = t \o <<c>>
    BY <1>1
  <2>3. r \o p \in Seq(Messages) /\ <<c>> \o r \in Seq(Messages)
    BY <2>1
  <2>4. (t \o <<c>>) \o (r \o p) = t \o (<<c>> \o (r \o p))
    BY <2>1, <2>3, ConcatAssociative
  <2>5. (<<c>> \o r) \o p = <<c>> \o (r \o p)
    BY <2>1, ConcatAssociative
  <2> QED
    BY <1>3, <2>2, <2>4, <2>5
<1>10. (<<c>> \o r) \o p \in Seq(Messages) /\ Legal((<<c>> \o r) \o p)
  BY <1>5, <1>7, <1>8, LegalJoin, ConcatProperties
<1>11. Legal(turn \o Results) /\ turn \o Results \in Seq(Messages)
  BY <1>1, <1>9, <1>10, LegalJoin, ConcatProperties
<1>12. \A n \in DOMAIN Results : Results[n].kind = "result" => Results[n].step = step
  <2>1. /\ DOMAIN Results = 1..(Len(r) + Len(p)) /\ Len(r) \in Nat /\ Len(p) \in Nat
        /\ DOMAIN r = 1..Len(r) /\ DOMAIN p = 1..Len(p)
        /\ \A n \in 1..(Len(r) + Len(p)) : Results[n] = IF n <= Len(r) THEN r[n] ELSE p[n - Len(r)]
    BY <1>3, <1>5, <1>6
  <2> SUFFICES ASSUME NEW n \in 1..(Len(r) + Len(p)), Results[n].kind = "result"
               PROVE  Results[n].step = step
    BY <2>1
  <2>2. CASE n <= Len(r)
    BY <1>6, <2>1, <2>2
  <2>3. CASE n > Len(r)
    <3>1. n - Len(r) \in 1..Len(p) /\ Results[n] = p[n - Len(r)]
      BY <2>1, <2>3
    <3>2. p[n - Len(r)].kind # "result"
      BY <1>5, <2>1, <3>1 DEF Plain
    <3> QED
      BY <3>1, <3>2
  <2> QED
    BY <2>1, <2>2, <2>3
<1>13. Results \in Seq(Messages)
  BY <1>3, <1>5, <1>6
<1> QED
  BY <1>11, <1>12, <1>13

\* A batch that returns puts its results behind the message that asked for them.
LEMMA BatchReturnsStep == ASSUME IInv, BatchReturns PROVE IInv'
<1>1. /\ at = "batch" /\ Returned /\ at' = "checkpoint" /\ batch' = NoBatch /\ turn' = turn \o Results
      /\ active' = IF cancelling THEN active ELSE turn \o Results
      /\ UNCHANGED <<number, typed, step, claimed, names, ran, hints, cancelling, answered, messages,
                     queue, retracted, disk>>
  BY DEF BatchReturns, Returned, countVars
<1>2. Contents /\ Counters /\ Phases /\ StepInv
  BY TypeParts DEF IInv
<1>3. /\ Results \in Seq(Messages) /\ turn \o Results \in Seq(Messages) /\ Legal(turn \o Results)
      /\ \A n \in DOMAIN Results : Results[n].kind = "result" => Results[n].step = step
  BY <1>1, ResultsLegal
<1>4. active' \in Seq(Messages) /\ Legal(active')
  BY <1>1, <1>2, <1>3 DEF Contents, IInv, LegalInv
<1>5. Contents'
  <2>1. <<>> \in Seq(Says \cup {"waiting"})
    OBVIOUS
  <2> QED
    BY <1>1, <1>2, <1>3, <1>4, <2>1, Zenon DEF Contents, Items, NoBatch
<1>6. Counters'
  BY <1>1, <1>2, Zenon DEF Counters
<1>7. Phases'
  BY <1>1, <1>2 DEF Phases, Places
<1>8. StepInv'
  BY <1>1, <1>2 DEF StepInv
<1>9. ResultInv'
  <2> DEFINE q == Results
  <2>1. q \in Seq(Messages) /\ turn' = turn \o q /\ \A n \in DOMAIN q : q[n].kind = "result" => q[n].step = step
    BY <1>1, <1>3
  <2> HIDE DEF q
  <2>2. /\ DOMAIN turn' = 1..(Len(turn) + Len(q)) /\ Len(turn) \in Nat /\ Len(q) \in Nat
        /\ DOMAIN q = 1..Len(q) /\ DOMAIN turn = 1..Len(turn)
        /\ \A n \in 1..(Len(turn) + Len(q)) : turn'[n] = IF n <= Len(turn) THEN turn[n] ELSE q[n - Len(turn)]
    BY <1>2, <2>1 DEF Contents
  <2> SUFFICES ASSUME NEW n \in 1..(Len(turn) + Len(q)), turn'[n].kind = "result"
               PROVE  turn'[n].step < step' \/ (turn'[n].step = step' /\ at' = "checkpoint")
    BY <2>2 DEF ResultInv
  <2>3. CASE n <= Len(turn)
    <3>1. n \in DOMAIN turn /\ turn'[n] = turn[n]
      BY <2>2, <2>3
    <3> QED
      BY <1>1, <3>1 DEF IInv, ResultInv
  <2>4. CASE n > Len(turn)
    <3>1. n - Len(turn) \in DOMAIN q /\ turn'[n] = q[n - Len(turn)]
      BY <2>2, <2>4
    <3> QED
      BY <1>1, <2>1, <3>1
  <2> QED
    BY <2>2, <2>3, <2>4
<1>10. LegalInv'
  BY <1>1, <1>3, <1>4 DEF IInv, LegalInv
<1>11. PastInv'
  BY <1>1 DEF IInv, PastInv
<1>12. SentIsHistory'
  BY <1>1, <1>3, StaysSent DEF SentIsHistory
<1> QED
  BY <1>5, <1>6, <1>7, <1>8, <1>9, <1>10, <1>11, <1>12, TypePartsNext DEF IInv

\* A batch of hints ends the turn with its results, and with an answer when it brought text.
LEMMA HintsEndStep == ASSUME IInv, HintsEnd PROVE IInv'
<1>1. at = "batch" /\ Returned /\ UNCHANGED queue
  BY DEF HintsEnd, Returned
<1>2. PICK answer \in {<<>>, <<Assistant>>} : Finish(turn \o Results \o answer)
  BY DEF HintsEnd
<1>3. Results \in Seq(Messages) /\ turn \o Results \in Seq(Messages) /\ Legal(turn \o Results)
  BY <1>1, ResultsLegal
<1>4. answer \in Seq(Messages) /\ Legal(answer)
  <2>1. Assistant \in Messages /\ Assistant.calls = 0 /\ Assistant.kind # "result"
    BY Conversation, Made
  <2>2. \A m \in Messages : m.calls = 0 /\ m.kind # "result" => <<m>> \in Seq(Messages) /\ Plain(<<m>>)
    BY DEF Plain
  <2>3. <<Assistant>> \in Seq(Messages) /\ Legal(<<Assistant>>)
    BY <2>1, <2>2, PlainLegal
  <2>4. <<>> \in Seq(Messages) /\ Legal(<<>>)
    BY DEF Legal
  <2> QED
    BY <2>3, <2>4
<1> DEFINE r == Results
<1>5. turn \o Results \o answer = turn \o (Results \o answer) /\ Results \o answer \in Seq(Messages)
  <2>1. turn \in Seq(Messages) /\ r \in Seq(Messages) /\ answer \in Seq(Messages)
    BY <1>3, <1>4, Conversation
  <2> HIDE DEF r
  <2>2. (turn \o r) \o answer = turn \o (r \o answer)
    BY <2>1, ConcatAssociative
  <2>3. r \o answer \in Seq(Messages)
    BY <2>1
  <2> QED
    BY <2>2, <2>3 DEF r
<1>6. Legal(turn \o Results \o answer) /\ turn \o Results \o answer \in Seq(Messages)
  BY <1>3, <1>4, LegalJoin, ConcatProperties
<1>7. queue' \in Seq(Items)
  BY <1>1, Conversation
<1> DEFINE x == Results \o answer
<1>8. Finish(turn \o x) /\ Legal(turn \o x) /\ turn \o x \in Seq(Messages) /\ x \in Seq(Messages)
  BY <1>2, <1>5, <1>6
<1> HIDE DEF x
<1> QED
  BY <1>1, <1>7, <1>8, FinishStep

-----------------------------------------------------------------------------
(***************************************************************************)
(* The theorems.                                                           *)
(***************************************************************************)
\* The session begins empty.
LEMMA InitInv == Init => IInv
<1> SUFFICES ASSUME Init PROVE IInv
  OBVIOUS
<1>1. /\ at = "idle" /\ number = 0 /\ step = 0 /\ turn = <<>> /\ claimed = <<>> /\ names = 0
      /\ batch = <<>> /\ ran = {} /\ hints = FALSE /\ cancelling = FALSE /\ answered = <<>>
      /\ active = <<>> /\ messages = <<>> /\ queue = <<>> /\ typed = 0 /\ retracted = {} /\ disk = <<>>
  BY DEF Init, NoBatch
<1>2. Contents
  BY <1>1 DEF Contents
<1>3. Counters
  BY <1>1, TurnAssumption DEF Counters
<1>4. Phases
  BY <1>1 DEF Phases, Places, NoBatch
<1>5. StepInv /\ ResultInv /\ PastInv
  BY <1>1 DEF StepInv, ResultInv, PastInv
<1>6. LegalInv
  BY <1>1 DEF LegalInv, Legal
<1>7. SentIsHistory
  BY <1>1 DEF SentIsHistory, IsPrefix
<1> QED
  BY <1>2, <1>3, <1>4, <1>5, <1>6, <1>7, TypeParts DEF IInv

\* A step that changes nothing keeps the invariant.
LEMMA StutterStep == ASSUME IInv, UNCHANGED vars PROVE IInv'
<1>1. UNCHANGED <<at, number, typed, step, turn, claimed, names, batch, ran, hints, cancelling, answered, active,
                  messages, queue, retracted, disk>>
  BY DEF vars
<1>2. Contents /\ Counters /\ Phases /\ StepInv
  BY TypeParts DEF IInv
<1>3. Contents' /\ Counters' /\ Phases'
  BY <1>1, <1>2, Zenon DEF Contents, Counters, Phases, Items, NoBatch, Places
<1>4. StepInv'
  BY <1>1, <1>2 DEF StepInv
<1>5. ResultInv' /\ LegalInv' /\ PastInv' /\ SentIsHistory'
  BY <1>1, ConversationKept DEF IInv, LegalInv
<1> QED
  BY <1>3, <1>4, <1>5, TypePartsNext DEF IInv

\* Every step keeps the invariant.
LEMMA NextInv == ASSUME Identified = {TRUE}, IInv, [Next]_vars PROVE IInv'
<1>1. CASE Enqueue
  BY <1>1, EnqueueStep
<1>2. CASE Save \/ Leave
  BY <1>2, SaveStep
<1>3. CASE Cancel
  BY <1>3, CancelStep
<1>4. CASE Begin
  BY <1>4, BeginStep
<1>5. CASE Retry
  BY <1>5, RetryStep
<1>6. CASE Checkpointed
  BY <1>6, CheckpointedStep
<1>7. CASE Stop
  BY <1>7, StopStep
<1>8. CASE Prepare
  BY <1>8, PrepareStep
<1>9. CASE PrepareFails \/ RequestFails
  BY <1>9, FailSentStep DEF PrepareFails, RequestFails
<1>10. CASE AnswerTextual
  BY <1>10, AnswerTextualStep
<1>11. CASE AnswerPaused
  BY <1>11, AnswerPausedStep
<1>12. CASE AnswerFinal
  BY <1>12, AnswerFinalStep
<1>13. CASE AnswerTools
  BY <1>13, AnswerToolsStep
<1>14. CASE FinishCall
  BY <1>14, FinishCallStep
<1>15. CASE BatchReturns
  BY <1>15, BatchReturnsStep
<1>16. CASE HintsEnd
  BY <1>16, HintsEndStep
<1>17. CASE BatchRaises
  BY <1>17, BatchRaisesStep
<1>18. CASE Cancelled
  BY <1>18, CancelledStep
<1>19. CASE CancelledOpening
  BY <1>19, CancelledOpeningStep
<1>20. CASE UNCHANGED vars
  BY <1>20, StutterStep
<1> QED
  BY <1>1, <1>2, <1>3, <1>4, <1>5, <1>6, <1>7, <1>8, <1>9, <1>10, <1>11, <1>12, <1>13, <1>14, <1>15, <1>16,
     <1>17, <1>18, <1>19, <1>20 DEF Next, Progress, Answers, Tools

\* TurnRuns: a turn ends with nothing left over, its results stand in the turn only once their batch
\* has returned, and of all its messages only the one whose batch is running waits for results.
THEOREM TurnRuns ==
  ASSUME Identified = {TRUE}
  PROVE  Spec => []IInv
<1>1. IInv /\ [Next]_vars => IInv'
  BY NextInv
<1> QED
  BY <1>1, InitInv, PTL DEF Spec

\* The invariant implies what the runs check.
LEMMA InvSound == IInv => TurnSound
<1> SUFFICES ASSUME IInv PROVE TurnSound
  OBVIOUS
<1>1. TypeOK /\ SentIsHistory
  BY DEF IInv
<1>2. Legal(messages) /\ Legal(disk) /\ messages \in Seq(Messages)
  BY Conversation DEF IInv, LegalInv
<1>3. at = "request" => Legal(messages \o Sent)
  BY <1>2, SentLegal, LegalJoin
<1> QED
  BY <1>1, <1>2, <1>3 DEF TurnSound, HistoryIsLegal

\* TurnHolds: when the provider names its calls, every history a turn leaves, every request built on
\* it and every checkpoint saved under it pair each call with one result next to it, whatever the
\* turn was cancelled or failed in the middle of; and what a provider answered is never rewritten.
THEOREM TurnHolds ==
  ASSUME Identified = {TRUE}
  PROVE  Spec => []TurnSound
<1> QED
  BY TurnRuns, InvSound, PTL
=============================================================================
