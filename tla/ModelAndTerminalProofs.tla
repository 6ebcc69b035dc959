----------------------- MODULE ModelAndTerminalProofs -----------------------
(***************************************************************************)
(* Proofs about the two ends of a turn.  ModelRequest: who may answer, and *)
(* what each attempt and each send is accounted to, and what becomes of    *)
(* the description of an image, for any number of retries, resends and     *)
(* cancellations.  Scrollback and Terminal, in MCTerminal: what is said    *)
(* above the application, and who has its row and its modal, for any       *)
(* number of lines, refusals and prompts.                                  *)
(***************************************************************************)
EXTENDS ModelRequest, MCTerminal, Integers, Sequences, FiniteSetTheorems, SequenceTheorems, TLAPS

Waits == {"attempt", "unwind"}

\* What the proofs need of the types; the counters are unbounded here.
Types ==
  /\ attempts \in Nat /\ cancels \in Nat /\ count \in Nat /\ accepted \in Nat
  /\ child \in {"none", "running", "closing", "done"}

\* Attempts are numbered from 1, and only one that was made can have been claimed.
PastInv ==
  /\ \A k \in resent : k \in Nat /\ k <= attempts
  /\ posted \subseteq resent

\* The engine waits exactly while it has an attempt, and a turn unwinds only when it was cancelled.
WaitInv ==
  /\ child # "none" <=> at \in Waits
  /\ at = "unwind" => cancels > 0

\* The claim is about the newest attempt and lives as long as it; an attempt nobody claimed can be.
ClaimInv ==
  /\ claimed => child # "none"
  /\ child # "none" => (claimed <=> attempts \in resent)
  /\ child # "none" /\ ~claimed => started /\ ~waiting /\ ~manual

\* The states in which another request will be sent that was already counted, or is the first.
OwesSend == claimed \/ at \in {"prepare", "observe", "project", "backoff"}

\* A conversion follows the discovery that the route takes no images, which is never forgotten, so
\* that the converted request cannot be refused for its images again.
RouteInv == converted \/ at \in {"convert", "reproject"} => textOnly = TRUE

SendInv ==
  /\ converted => at \in Waits \cup Final \cup {"backoff"}
  /\ attempts + (IF OwesSend THEN 1 ELSE 0) <= 1 + count + (IF converted THEN 1 ELSE 0)

IInv == Types /\ PastInv /\ WaitInv /\ ClaimInv /\ RouteInv /\ SendInv /\ NoStrayCancel /\ AnswerIsWanted

-----------------------------------------------------------------------------
LEMMA InitHolds == Init => IInv
<1> SUFFICES ASSUME Init PROVE IInv
  OBVIOUS
<1> USE DEF Init
<1>1. Types
  BY DEF Types
<1>2. WaitInv /\ PastInv
  BY DEF WaitInv, Waits, PastInv
<1>3. ClaimInv /\ RouteInv
  BY DEF ClaimInv, RouteInv
<1>4. SendInv
  BY DEF SendInv, OwesSend
<1>5. NoStrayCancel /\ AnswerIsWanted
  BY DEF NoStrayCancel, AnswerIsWanted
<1> QED
  BY <1>1, <1>2, <1>3, <1>4, <1>5 DEF IInv

-----------------------------------------------------------------------------
(***************************************************************************)
(* Every step keeps the invariant.                                         *)
(***************************************************************************)
LEMMA StepHolds == IInv /\ [Next]_vars => IInv'
<1> SUFFICES ASSUME IInv, [Next]_vars PROVE IInv'
  OBVIOUS
<1> USE DEF imageVars, statusVars, attemptVars, userVars, IInv,
            Types, PastInv, WaitInv, Waits, ClaimInv, RouteInv, SendInv, OwesSend,
            NoStrayCancel, AnswerIsWanted, Final
<1>1. CASE Enqueue
  BY <1>1 DEF Enqueue
<1>2. CASE Resend
  BY <1>2 DEF Resend, InFlight
<1>3. CASE CancelTurn
  BY <1>3 DEF CancelTurn, InFlight, Hit
<1>4. CASE ChildEnds
  BY <1>4 DEF ChildEnds, AttemptFrame
<1>5. CASE ChildCloses
  BY <1>5 DEF ChildCloses, AttemptFrame
<1>6. CASE Delivered
  BY <1>6 DEF Delivered, InFlight, Hit, AttemptFrame
<1>7. CASE Claim
  BY <1>7 DEF Claim, Frame
<1>8. CASE Observed
  BY <1>8 DEF Observed, Frame
<1>9. CASE Projected
  <2>1. converted' = (at = "reproject") /\ (at = "project" \/ at = "reproject") /\ ~converted
    BY <1>9 DEF Projected
  <2>2. /\ at' = "attempt" /\ attempts' = attempts + 1 /\ child' = "running" /\ outcome' = "none"
        /\ claimed' = FALSE /\ manual' = FALSE /\ started' = TRUE /\ waiting' = FALSE
        /\ UNCHANGED <<posted, cancels, resent, textOnly, count, accepted>>
    BY <1>9 DEF Projected, Begin
  <2>3. CASE at = "project"
    <3>1. converted' = FALSE
      BY <2>1, <2>3
    <3> QED
      BY <2>1, <2>2, <2>3, <3>1
  <2>4. CASE at = "reproject"
    <3>1. converted' = TRUE
      BY <2>1, <2>4
    <3> QED
      BY <2>2, <2>4, <3>1
  <2> QED
    BY <2>1, <2>3, <2>4
<1>10. CASE PrepareFails
  BY <1>10 DEF PrepareFails, Fails, Frame
<1>11. CASE Learn
  BY <1>11 DEF Learn, Woken, Fails, Over, Quiet, Eligible
<1>12. CASE Converted
  BY <1>12 DEF Converted, Frame
<1>13. CASE Unwind
  BY <1>13 DEF Unwind, InFlight, Hit
<1>14. CASE Cancelled
  BY <1>14 DEF Cancelled, Over, Quiet
<1>15. CASE CancelledElsewhere
  BY <1>15 DEF CancelledElsewhere
<1>16. CASE Again
  BY <1>16 DEF Again, Woken, Begin, Over
<1>17. CASE Accept
  BY <1>17 DEF Accept, Woken, Over, Quiet
<1>18. CASE Backoff
  BY <1>18 DEF Backoff, Woken, Over
<1>19. CASE BackoffOver
  BY <1>19 DEF BackoffOver, Begin
<1>20. CASE GiveUp
  BY <1>20 DEF GiveUp, Woken, Fails, Over, Quiet
<1>21. CASE UNCHANGED vars
  BY <1>21 DEF vars
<1> QED
  BY <1>1, <1>2, <1>3, <1>4, <1>5, <1>6, <1>7, <1>8, <1>9, <1>10, <1>11,
     <1>12, <1>13, <1>14, <1>15, <1>16, <1>17, <1>18, <1>19, <1>20, <1>21
  DEF Next, User, Child, Engine

LEMMA InvHolds == Spec => []IInv
<1>1. Init => IInv
  BY InitHolds
<1>2. IInv /\ [Next]_vars => IInv'
  BY StepHolds
<1> QED
  BY <1>1, <1>2, PTL DEF Spec

-----------------------------------------------------------------------------
(***************************************************************************)
(* What follows.                                                           *)
(***************************************************************************)
\* AnswerHolds: however many attempts are resent, retried and cancelled, the one whose answer the turn
\* takes is the newest, was claimed by nobody, and belongs to a turn that was not cancelled.
THEOREM AnswerHolds == Spec => []AnswerIsWanted
<1>1. IInv => AnswerIsWanted
  BY DEF IInv
<1> QED
  BY <1>1, InvHolds, PTL

\* EndHolds: the request loop never leaves an attempt behind, whichever way it goes on.
THEOREM EndHolds == Spec => []AttemptEndsFirst
<1>1. IInv => AttemptEndsFirst
  BY DEF IInv, WaitInv, Waits, AttemptEndsFirst
<1> QED
  BY <1>1, InvHolds, PTL

\* CancelHolds: a cancellation posted for one attempt ends no other, however late it is delivered.
THEOREM CancelHolds == Spec => []NoStrayCancel
<1>1. IInv => NoStrayCancel
  BY DEF IInv
<1> QED
  BY <1>1, InvHolds, PTL

\* ResendHolds: an attempt nobody claimed can always be claimed while it is in flight.
THEOREM ResendHolds == Spec => []ResendOffered
<1>1. IInv => ResendOffered
  BY DEF IInv, ClaimInv, InFlight, ResendOffered
<1> QED
  BY <1>1, InvHolds, PTL

\* SendsHold: no request goes out that the status line has not counted, the first and the conversion aside.
THEOREM SendsHold == Spec => []SendsAccounted
<1>1. IInv => SendsAccounted
  BY DEF IInv, Types, SendInv, SendsAccounted
<1> QED
  BY <1>1, InvHolds, PTL

\* AccountedHolds: the five facts together, for any number of retries, resends and cancellations.
THEOREM AccountedHolds == Spec => []AttemptsAccounted
<1>1. AnswerIsWanted /\ AttemptEndsFirst /\ NoStrayCancel /\ ResendOffered /\ SendsAccounted => AttemptsAccounted
  BY DEF AttemptsAccounted
<1> QED
  BY <1>1, AnswerHolds, EndHolds, CancelHolds, ResendHolds, SendsHold, PTL

-----------------------------------------------------------------------------
(***************************************************************************)
(* Images: a description is made once and kept, for any number of retries, *)
(* resends and cancellations.  The type invariant bounds the attempts, so  *)
(* that its proof counts them: a call of ModelClient.request makes at most *)
(* MaxRetries + 1, and each call but the converted one that is over was    *)
(* ended by a resend or a refusal.                                         *)
(***************************************************************************)
\* What a number of calls of ModelClient.request may send.
Cap(n) == (MaxRetries + 1) * n

\* What the calls that are over may have sent: each but the converted one ended with a claimed attempt.
Sent == Cap(Cardinality(resent)) - (IF claimed THEN Cap(1) ELSE 0)
          + (IF converted \/ at \in {"convert", "reproject"} THEN Cap(1) ELSE 0)

Preparing == {"prepare", "observe", "project", "convert", "reproject"}

CountInv ==
  /\ IsFiniteSet(resent) /\ Cardinality(resent) <= MaxResends
  /\ tries \in Nat /\ tries <= MaxRetries
  /\ at = "backoff" => tries < MaxRetries
  /\ child # "none" => attempts >= 1
  /\ 0 \notin resent /\ accepted <= attempts
  /\ at \in {"attempt", "unwind", "backoff"} => attempts <= Sent + tries + 1
  /\ at \in Preparing => attempts <= Sent
  /\ at \in Final => attempts <= Cap(Cardinality(resent)) + 2 * Cap(1)

\* The types that Types leaves out.
Kinds ==
  /\ at \in Final \cup Preparing \cup {"attempt", "unwind", "backoff"}
  /\ outcome \in {"none", "ok", "transient", "refused", "final", "cancelled"}
  /\ claimed \in BOOLEAN /\ cancels \in 0..MaxCancels
  /\ textOnly \in BOOLEAN /\ vision \in BOOLEAN
  /\ queued \subseteq {"text", "image"} /\ live \subseteq {"turn"}
  /\ draft \in Requests /\ request \in Requests /\ converted \in BOOLEAN
  /\ observed \in [ImageNames -> Nat]
  /\ manual \in BOOLEAN /\ started \in BOOLEAN /\ waiting \in BOOLEAN

\* While nothing is queued the only image is the turn's own.
Alone ==
  /\ ~draft.pending /\ ~request.pending
  /\ draft.raw \subseteq {"turn"} /\ request.raw \subseteq {"turn"}
  /\ observed["turn"] <= 1
  \* an image still to be described, or sent as it is, was not described before
  /\ draft.raw # {} => observed["turn"] = 0
  /\ at \notin Final \cup {"reproject"} /\ request.raw # {} => observed["turn"] = 0
  /\ at = "observe" => draft.raw # {} /\ textOnly /\ vision
  /\ at = "project" /\ draft.raw # {} => ~(textOnly /\ vision)
  /\ at \notin Final \cup {"convert", "reproject"} /\ request.raw # {} => ~(textOnly /\ vision)
  /\ at = "convert" => draft.raw # {}
  /\ at = "reproject" => draft.raw = {}
  /\ at \in {"convert", "reproject"} => request.raw # {}
  /\ converted => request.raw = {}
  \* what is still raw in the turn was described only for the one conversion
  /\ live # {} => \/ observed["turn"] = 0
                  \/ converted /\ at \notin Final
                  \/ at = "reproject"
                  \/ at \in Final /\ request.raw # {}

ImageInv == queued = {} => Alone
More == CountInv /\ Kinds /\ ImageInv

LEMMA CapNext == ASSUME NEW n \in Nat PROVE Cap(n) \in Nat /\ Cap(n + 1) = Cap(n) + Cap(1)
BY ModelRequestAssumption DEF Cap

LEMMA CapGrows == ASSUME NEW m \in Nat, NEW n \in Nat, m <= n PROVE Cap(m) <= Cap(n)
<1>1. n - m \in Nat /\ n = m + (n - m)
  OBVIOUS
<1>2. (MaxRetries + 1) * n = (MaxRetries + 1) * m + (MaxRetries + 1) * (n - m)
  BY <1>1, ModelRequestAssumption
<1>3. (MaxRetries + 1) * (n - m) >= 0
  BY <1>1, ModelRequestAssumption
<1>4. (MaxRetries + 1) * m \in Nat /\ (MaxRetries + 1) * n \in Nat /\ (MaxRetries + 1) * (n - m) \in Nat
  BY <1>1, ModelRequestAssumption
<1> QED
  BY <1>2, <1>3, <1>4 DEF Cap

LEMMA MoreInit == Init => More
<1> SUFFICES ASSUME Init PROVE More
  OBVIOUS
<1> USE ModelRequestAssumption DEF Init, NoRequest
<1>1. IsFiniteSet(resent) /\ Cardinality(resent) = 0
  BY FS_EmptySet
<1>2. Cap(0) \in Nat /\ Cap(1) \in Nat
  BY CapNext
<1>3. CountInv
  BY <1>1, <1>2 DEF CountInv, Sent, Preparing, Final
<1>a. draft \in Requests /\ request \in Requests
  BY DEF Requests
<1>b. observed \in [ImageNames -> Nat] /\ live \subseteq {"turn"} /\ textOnly \in BOOLEAN /\ vision \in BOOLEAN
  OBVIOUS
<1>c. cancels \in 0..MaxCancels
  OBVIOUS
<1>4. Kinds
  BY <1>a, <1>b, <1>c, Zenon DEF Kinds, Preparing, Final
<1>5. ImageInv
  BY DEF ImageInv, Alone, ImageNames, Final
<1> QED
  BY <1>3, <1>4, <1>5 DEF More

\* Every step keeps the types.
LEMMA KindsKept == IInv /\ Kinds /\ [Next]_vars => Kinds'
<1> SUFFICES ASSUME IInv, Kinds, [Next]_vars PROVE Kinds'
  OBVIOUS
<1> USE ModelRequestAssumption DEF imageVars, statusVars, attemptVars, userVars,
        Kinds, Preparing, Final, Requests, ImageNames
<1>a. attempts \in Nat /\ cancels \in Nat
  BY Zenon DEF IInv, Types
<1>1. CASE Enqueue
  BY <1>a, <1>1 DEF Enqueue
<1>2. CASE Resend
  BY <1>a, <1>2 DEF Resend, InFlight
<1>3. CASE CancelTurn
  BY <1>a, <1>3 DEF CancelTurn, InFlight, Hit
<1>4. CASE ChildEnds
  BY <1>a, <1>4 DEF ChildEnds, AttemptFrame
<1>5. CASE ChildCloses
  BY <1>a, <1>5 DEF ChildCloses, AttemptFrame
<1>6. CASE Delivered
  BY <1>a, <1>6 DEF Delivered, InFlight, Hit, AttemptFrame
<1>7. CASE Claim
  BY <1>a, <1>7 DEF Claim, Frame
<1>8. CASE Observed
  BY <1>a, <1>8 DEF Observed, Described, Frame
<1>9. CASE Projected
  BY <1>a, <1>9 DEF Projected, Begin
<1>10. CASE PrepareFails
  <2>1. live' \subseteq {"turn"} /\ at' = "failed"
    BY <1>10 DEF PrepareFails, Fails
  <2> QED
    BY <1>a, <1>10, <2>1 DEF PrepareFails, Frame
<1>11. CASE Learn
  BY <1>a, <1>11 DEF Learn, Woken, Fails, Over, Quiet, Eligible
<1>12. CASE Converted
  BY <1>a, <1>12 DEF Converted, Described, Frame
<1>13. CASE Unwind
  BY <1>a, <1>13 DEF Unwind, InFlight, Hit
<1>14. CASE Cancelled
  BY <1>a, <1>14 DEF Cancelled, Keeps, Over, Quiet
<1>15. CASE CancelledElsewhere
  BY <1>a, <1>15 DEF CancelledElsewhere, Keeps
<1>16. CASE Again
  BY <1>a, <1>16 DEF Again, Woken, Begin, Over
<1>17. CASE Accept
  BY <1>a, <1>17 DEF Accept, Woken, Over, Quiet
<1>18. CASE Backoff
  BY <1>a, <1>18 DEF Backoff, Woken, Over
<1>19. CASE BackoffOver
  BY <1>a, <1>19 DEF BackoffOver, Begin
<1>20. CASE GiveUp
  BY <1>a, <1>20 DEF GiveUp, Woken, Fails, Over, Quiet
<1>21. CASE UNCHANGED vars
  BY <1>a, <1>21 DEF vars
<1> QED
  BY <1>1, <1>2, <1>3, <1>4, <1>5, <1>6, <1>7, <1>8, <1>9, <1>10, <1>11,
     <1>12, <1>13, <1>14, <1>15, <1>16, <1>17, <1>18, <1>19, <1>20, <1>21
  DEF Next, User, Child, Engine

\* Every step keeps what is known of the images.
LEMMA ImagesKept == IInv /\ More /\ [Next]_vars => ImageInv'
<1> SUFFICES ASSUME IInv, More, [Next]_vars PROVE ImageInv'
  OBVIOUS
<1> USE DEF imageVars, statusVars, attemptVars, userVars, ImageInv, Alone, Final, ImageNames
<1>a. Kinds /\ ImageInv /\ RouteInv
  BY DEF More, IInv
<1>b. converted => at \in Waits \cup Final \cup {"backoff"}
  BY DEF IInv, SendInv
<1>c. /\ observed \in [ImageNames -> Nat] /\ live \subseteq {"turn"} /\ textOnly \in BOOLEAN /\ vision \in BOOLEAN
      /\ draft \in Requests /\ request \in Requests
  BY <1>a DEF Kinds
<1>1. CASE Enqueue
  BY <1>a, <1>b, <1>c, <1>1 DEF Enqueue
<1>2. CASE Resend
  BY <1>a, <1>b, <1>c, <1>2 DEF Resend, InFlight
<1>3. CASE CancelTurn
  BY <1>a, <1>b, <1>c, <1>3 DEF CancelTurn, InFlight, Hit
<1>4. CASE ChildEnds
  BY <1>a, <1>b, <1>c, <1>4 DEF ChildEnds, AttemptFrame
<1>5. CASE ChildCloses
  BY <1>a, <1>b, <1>c, <1>5 DEF ChildCloses, AttemptFrame
<1>6. CASE Delivered
  BY <1>a, <1>b, <1>c, <1>6 DEF Delivered, InFlight, Hit, AttemptFrame
<1>7. CASE Claim
  <2>1. /\ at = "prepare" /\ UNCHANGED <<textOnly, vision, queued, live, request, converted, observed>>
        /\ draft' = [pending |-> queued # {}, raw |-> live \cup (IF "image" \in queued THEN {"queued"} ELSE {})]
        /\ at' = IF textOnly /\ vision /\ draft'.raw # {} THEN "observe" ELSE "project"
    BY <1>7 DEF Claim
  <2>2. ~converted
    BY <1>b, <2>1 DEF Waits
  <2> SUFFICES ASSUME queued = {} PROVE Alone'
    BY <2>1
  <2>3. draft'.pending = FALSE /\ draft'.raw = live
    BY <2>1
  <2> HIDE DEF Alone
  <2>4. Alone
    BY <1>a
  <2>5. live # {} => observed["turn"] = 0
    BY <2>1, <2>2, <2>4 DEF Alone
  <2>6. CASE textOnly /\ vision /\ live # {}
    <3>1. at' = "observe"
      BY <2>1, <2>3, <2>6
    <3> QED
      BY <1>c, <2>1, <2>2, <2>3, <2>4, <2>5, <2>6, <3>1 DEF Alone
  <2>7. CASE ~(textOnly /\ vision /\ live # {})
    <3>1. at' = "project"
      BY <2>1, <2>3, <2>7
    <3> QED
      BY <1>c, <2>1, <2>2, <2>3, <2>4, <2>5, <2>7, <3>1 DEF Alone
  <2> QED
    BY <2>6, <2>7
<1>8. CASE Observed
  BY <1>a, <1>b, <1>c, <1>8 DEF Observed, Described, Frame
<1>9. CASE Projected
  <2>1. /\ at \in {"project", "reproject"} /\ at' = "attempt" /\ request' = draft
        /\ UNCHANGED <<textOnly, vision, queued, live, draft, observed>>
        /\ (at = "reproject" => converted') /\ (at = "project" => ~converted')
    BY <1>9 DEF Projected, Begin
  <2> SUFFICES ASSUME queued = {} PROVE Alone'
    BY <2>1
  <2>2. at = "reproject" => draft.raw = {}
    BY <1>a, <2>1
  <2>3. at = "project" => ~converted
    BY <1>b DEF Waits
  <2>4. CASE at = "project"
    BY <1>a, <1>c, <2>1, <2>3, <2>4
  <2>5. CASE at = "reproject"
    BY <1>a, <1>c, <2>1, <2>2, <2>5
  <2> QED
    BY <2>1, <2>4, <2>5
<1>10. CASE PrepareFails
  BY <1>a, <1>b, <1>c, <1>10 DEF PrepareFails, Fails, Frame
<1>11. CASE Learn
  BY <1>a, <1>b, <1>c, <1>11 DEF Learn, Woken, Fails, Over, Quiet, Eligible
<1>12. CASE Converted
  BY <1>a, <1>b, <1>c, <1>12 DEF Converted, Described, Frame
<1>13. CASE Unwind
  BY <1>a, <1>b, <1>c, <1>13 DEF Unwind, InFlight, Hit
<1>14. CASE Cancelled
  BY <1>a, <1>b, <1>c, <1>14 DEF Cancelled, Keeps, Over, Quiet
<1>15. CASE CancelledElsewhere
  <2>1. /\ at \in {"prepare", "observe", "project", "backoff", "convert", "reproject"} /\ at' = "cancelled"
        /\ UNCHANGED <<textOnly, vision, queued, draft, request, converted, observed>>
        /\ (at = "backoff" /\ converted => live' = {})
        /\ (at # "backoff" => live' = live) /\ (~converted => live' = live)
    BY <1>15 DEF CancelledElsewhere, Keeps
  <2> SUFFICES ASSUME queued = {} PROVE Alone'
    BY <2>1
  <2>2. at # "backoff" => ~converted
    BY <1>b, <2>1 DEF Waits
  <2>3. at = "reproject" /\ live # {} /\ observed["turn"] # 0 => request.raw # {}
    BY <1>a
  <2> QED
    BY <1>a, <1>c, <2>1, <2>2, <2>3
<1>16. CASE Again
  BY <1>a, <1>b, <1>c, <1>16 DEF Again, Woken, Begin, Over
<1>17. CASE Accept
  BY <1>a, <1>b, <1>c, <1>17 DEF Accept, Woken, Over, Quiet
<1>18. CASE Backoff
  BY <1>a, <1>b, <1>c, <1>18 DEF Backoff, Woken, Over
<1>19. CASE BackoffOver
  BY <1>a, <1>b, <1>c, <1>19 DEF BackoffOver, Begin
<1>20. CASE GiveUp
  BY <1>a, <1>b, <1>c, <1>20 DEF GiveUp, Woken, Fails, Over, Quiet
<1>21. CASE UNCHANGED vars
  BY <1>a, <1>b, <1>c, <1>21 DEF vars
<1> QED
  BY <1>1, <1>2, <1>3, <1>4, <1>5, <1>6, <1>7, <1>8, <1>9, <1>10, <1>11,
     <1>12, <1>13, <1>14, <1>15, <1>16, <1>17, <1>18, <1>19, <1>20, <1>21
  DEF Next, User, Child, Engine

\* Every step keeps the count.
LEMMA CountKept == IInv /\ More /\ [Next]_vars => CountInv'
<1> SUFFICES ASSUME IInv, More, [Next]_vars PROVE CountInv'
  OBVIOUS
<1> USE DEF imageVars, statusVars, attemptVars, userVars, CountInv, Sent, Preparing, Final, Waits
<1>a. CountInv /\ attempts \in Nat /\ accepted \in Nat
  BY Zenon DEF More, IInv, Types
<1>b. /\ claimed \in BOOLEAN /\ converted \in BOOLEAN
      /\ at \in Final \cup Preparing \cup {"attempt", "unwind", "backoff"}
  BY Zenon DEF More, Kinds
<1>c. /\ child # "none" <=> at \in Waits
      /\ converted => at \in Waits \cup Final \cup {"backoff"}
      /\ (claimed => child # "none")
  BY DEF IInv, WaitInv, SendInv, ClaimInv
<1>d. /\ Cardinality(resent) \in Nat /\ Cap(Cardinality(resent)) \in Nat /\ Cap(1) \in Nat
      /\ Cap(1) = MaxRetries + 1 /\ MaxRetries \in Nat /\ MaxResends \in Nat
  BY <1>a, CapNext, FS_CardinalityType, ModelRequestAssumption DEF Cap
<1>1. CASE Enqueue
  BY <1>a, <1>b, <1>c, <1>d, <1>1 DEF Enqueue
<1>2. CASE Resend
  <2>1. attempts \notin resent
    BY <1>2 DEF Resend, IInv, ClaimInv, InFlight
  <2>2. /\ resent' = resent \cup {attempts} /\ claimed' = TRUE /\ ~claimed /\ child # "none"
        /\ Cardinality(resent) < MaxResends
        /\ UNCHANGED <<at, tries, attempts, child, converted, accepted>>
    BY <1>2 DEF Resend, InFlight
  <2>3. IsFiniteSet(resent') /\ Cardinality(resent') = Cardinality(resent) + 1
    BY <1>a, <2>1, <2>2, FS_AddElement
  <2>4. Cap(Cardinality(resent')) = Cap(Cardinality(resent)) + Cap(1)
    BY <1>d, <2>3, CapNext
  <2> QED
    BY <1>a, <1>b, <1>c, <1>d, <2>2, <2>3, <2>4
<1>3. CASE CancelTurn
  BY <1>a, <1>b, <1>c, <1>d, <1>3 DEF CancelTurn, InFlight, Hit
<1>4. CASE ChildEnds
  BY <1>a, <1>b, <1>c, <1>d, <1>4 DEF ChildEnds, AttemptFrame
<1>5. CASE ChildCloses
  BY <1>a, <1>b, <1>c, <1>d, <1>5 DEF ChildCloses, AttemptFrame
<1>6. CASE Delivered
  BY <1>a, <1>b, <1>c, <1>d, <1>6 DEF Delivered, InFlight, Hit, AttemptFrame
<1>7. CASE Claim
  BY <1>a, <1>b, <1>c, <1>d, <1>7 DEF Claim, Frame
<1>8. CASE Observed
  BY <1>a, <1>b, <1>c, <1>d, <1>8 DEF Observed, Described, Frame
<1>9. CASE Projected
  <2>1. /\ at \in {"project", "reproject"} /\ at' = "attempt" /\ tries' = 0 /\ attempts' = attempts + 1
        /\ child' = "running" /\ claimed' = FALSE /\ UNCHANGED <<resent, accepted>>
        /\ (at = "reproject" => converted') /\ (at = "project" => ~converted')
    BY <1>9 DEF Projected, Begin
  <2>2. ~converted /\ ~claimed
    BY <1>c, <2>1
  <2>3. CASE at = "project"
    BY <1>a, <1>b, <1>c, <1>d, <2>1, <2>2, <2>3
  <2>4. CASE at = "reproject"
    BY <1>a, <1>b, <1>c, <1>d, <2>1, <2>2, <2>4
  <2> QED
    BY <2>1, <2>3, <2>4
<1>10. CASE PrepareFails
  BY <1>a, <1>b, <1>c, <1>d, <1>10 DEF PrepareFails, Fails, Frame
<1>11. CASE Learn
  <2>1. /\ at = "attempt" /\ ~claimed /\ child # "none" /\ outcome = "refused" /\ request.raw # {} /\ textOnly # TRUE
        /\ at' \in {"convert", "failed"} /\ child' = "none" /\ claimed' = FALSE
        /\ UNCHANGED <<tries, attempts, resent, converted, accepted>>
    BY <1>11 DEF Learn, Woken, Fails, Over, Quiet, Eligible
  <2>2. ~converted
    BY <2>1 DEF IInv, RouteInv
  <2>3. attempts <= Cap(Cardinality(resent)) + Cap(1)
    BY <1>a, <1>d, <2>1, <2>2
  <2> QED
    BY <1>a, <1>b, <1>c, <1>d, <2>1, <2>2, <2>3
<1>12. CASE Converted
  BY <1>a, <1>b, <1>c, <1>d, <1>12 DEF Converted, Described, Frame
<1>13. CASE Unwind
  BY <1>a, <1>b, <1>c, <1>d, <1>13 DEF Unwind, InFlight, Hit
<1>14. CASE Cancelled
  BY <1>a, <1>b, <1>c, <1>d, <1>14 DEF Cancelled, Keeps, Over, Quiet
<1>15. CASE CancelledElsewhere
  BY <1>a, <1>b, <1>c, <1>d, <1>15 DEF CancelledElsewhere, Keeps
<1>16. CASE Again
  BY <1>a, <1>b, <1>c, <1>d, <1>16 DEF Again, Woken, Begin, Over
<1>17. CASE Accept
  BY <1>a, <1>b, <1>c, <1>d, <1>17 DEF Accept, Woken, Over, Quiet
<1>18. CASE Backoff
  BY <1>a, <1>b, <1>c, <1>d, <1>18 DEF Backoff, Woken, Over
<1>19. CASE BackoffOver
  <2>1. /\ at = "backoff" /\ at' = "attempt" /\ tries' = tries + 1 /\ attempts' = attempts + 1
        /\ child' = "running" /\ claimed' = FALSE /\ UNCHANGED <<resent, accepted, converted>>
    BY <1>19 DEF BackoffOver, Begin
  <2>2. ~claimed /\ tries + 1 <= MaxRetries
    BY <1>a, <1>c, <1>d, <2>1
  <2> QED
    BY <1>a, <1>b, <1>c, <1>d, <2>1, <2>2
<1>20. CASE GiveUp
  BY <1>a, <1>b, <1>c, <1>d, <1>20 DEF GiveUp, Woken, Fails, Over, Quiet
<1>21. CASE UNCHANGED vars
  BY <1>a, <1>b, <1>c, <1>d, <1>21 DEF vars
<1> QED
  BY <1>1, <1>2, <1>3, <1>4, <1>5, <1>6, <1>7, <1>8, <1>9, <1>10, <1>11,
     <1>12, <1>13, <1>14, <1>15, <1>16, <1>17, <1>18, <1>19, <1>20, <1>21
  DEF Next, User, Child, Engine

\* MoreHolds: the second invariant, which needs the first.
THEOREM MoreHolds == Spec => []More
<1>1. IInv /\ More /\ [Next]_vars => More'
  BY KindsKept, ImagesKept, CountKept DEF More
<1> QED
  BY <1>1, MoreInit, InvHolds, PTL DEF Spec

LEMMA TypesFollow == IInv /\ More => TypeOK
<1> SUFFICES ASSUME IInv, More PROVE TypeOK
  OBVIOUS
<1>1. /\ attempts \in Nat /\ accepted \in Nat /\ count \in Nat /\ posted \subseteq resent
      /\ \A k \in resent : k \in Nat /\ k <= attempts
  BY Zenon DEF IInv, Types, PastInv
<1>2. CountInv /\ Kinds
  BY DEF More
<1>3. /\ Cardinality(resent) \in Nat /\ Cap(Cardinality(resent)) \in Nat
      /\ Cap(1) = MaxRetries + 1 /\ MaxRetries \in Nat /\ MaxResends \in Nat
  BY <1>2, CapNext, FS_CardinalityType, ModelRequestAssumption DEF Cap, CountInv
<1>4. Cap(Cardinality(resent)) <= Cap(MaxResends)
  BY <1>2, <1>3, CapGrows DEF CountInv
<1>5. Cap(MaxResends + 1) = Cap(MaxResends) + Cap(1) /\ Cap(MaxResends + 1 + 1) = Cap(MaxResends + 1) + Cap(1)
  BY <1>3, CapNext
<1>6. MaxResends + 1 + 1 = MaxResends + 2
  BY <1>3
<1>7. MaxAttempts = Cap(MaxResends) + Cap(1) + Cap(1) /\ Cap(MaxResends) \in Nat
  BY <1>3, <1>5, <1>6, CapNext DEF MaxAttempts, Cap
<1>8. /\ claimed \in BOOLEAN /\ converted \in BOOLEAN
      /\ at \in Final \cup Preparing \cup {"attempt", "unwind", "backoff"}
  BY <1>2, Zenon DEF Kinds
<1>9. attempts <= Cap(Cardinality(resent)) + 2 * Cap(1)
  <2>1. Sent <= Cap(Cardinality(resent)) + Cap(1)
    BY <1>3, <1>8 DEF Sent
  <2>2. Sent \in Int /\ tries \in Nat /\ tries <= MaxRetries
    BY <1>2, <1>3, <1>8 DEF Sent, CountInv
  <2>3. \/ attempts <= Sent + tries + 1
        \/ attempts <= Sent
        \/ attempts <= Cap(Cardinality(resent)) + 2 * Cap(1)
    BY <1>2, <1>8 DEF CountInv
  <2> HIDE DEF Sent
  <2> QED
    BY <1>1, <1>3, <2>1, <2>2, <2>3
<1>10. attempts \in 0..MaxAttempts
  BY <1>1, <1>3, <1>4, <1>7, <1>9
<1>11. tries \in 0..MaxRetries /\ resent \subseteq 1..attempts /\ accepted \in 0..attempts
  BY <1>1, <1>2, <1>3 DEF CountInv
<1>12. child \in {"none", "running", "closing", "done"}
  BY Zenon DEF IInv, Types
<1> QED
  BY <1>1, <1>2, <1>10, <1>11, <1>12, Zenon DEF TypeOK, Kinds, Preparing

\* DescriptionsHold: nothing leaves its set, no turn makes more than MaxAttempts attempts, and as long as
\* nothing is queued the turn's image is described at most once and what was described stays described
\* when the turn ends, for any number of retries, resends and cancellations.
THEOREM DescriptionsHold == Spec => []DescriptionsKept
<1>1. IInv /\ More => DescribedOnce
  BY DEF More, ImageInv, Alone, DescribedOnce
<1>2. IInv /\ More => ObservationKept
  <2> SUFFICES ASSUME IInv, More, at \in Final, queued = {}, observed["turn"] > 0, request.raw = {}
               PROVE live = {}
    BY DEF ObservationKept
  <2>1. Alone /\ observed["turn"] # 0 /\ at # "reproject"
    BY DEF More, ImageInv, Final
  <2> QED
    BY <2>1 DEF Alone
<1>3. IInv /\ More => DescriptionsKept
  BY <1>1, <1>2, TypesFollow DEF DescriptionsKept
<1> QED
  BY <1>3, InvHolds, MoreHolds, PTL

-----------------------------------------------------------------------------
(***************************************************************************)
(* The scrollback.                                                         *)
(***************************************************************************)
\* Scrollback: what every sequence and set holds.
Items == [kind : {"write", "barrier", "end"}, of : Nat]
Above == [by : {"pump", "window"}, lines : Seq(Nat)]
Soon  == [at : {"soon", "timer"}, generation : Nat]

ScrollTyped ==
  /\ app \in {"running", "exiting", "stopped"} /\ open \in BOOLEAN
  /\ queue \in Seq(Items) /\ pump \in {"idle", "writing", "ended"} /\ error \in BOOLEAN
  /\ parts \in Seq(Nat) /\ scheduled \in BOOLEAN /\ generation \in Nat /\ timers \in SUBSET Soon
  /\ prints \in Seq(Above) /\ screen \in Seq(Nat)
  /\ said \in Nat /\ submitted \in Seq(Nat) /\ awaited \in Nat /\ cover \in SUBSET Nat /\ passed \in SUBSET Nat
  /\ barriers \in Nat /\ failed \in SUBSET Nat /\ reported \in BOOLEAN

\* The lines of a sequence, of a sequence of prints, of the writes in a queue; and that none is in it twice.
Of(s)       == {s[i] : i \in DOMAIN s}
OfPrints(p) == {x \in Nat : \E i \in DOMAIN p : \E a \in DOMAIN p[i].lines : p[i].lines[a] = x}
OfQueue(q)  == {x \in Nat : \E i \in DOMAIN q : q[i].kind = "write" /\ q[i].of = x}
OfPump(p)   == {x \in Nat : \E i \in DOMAIN p : p[i].by = "pump" /\ p[i].lines[1] = x}

Once(s)       == \A i, j \in DOMAIN s : s[i] = s[j] => i = j
OncePrints(p) == \A i, j \in DOMAIN p : \A a \in DOMAIN p[i].lines, b \in DOMAIN p[j].lines :
                   p[i].lines[a] = p[j].lines[b] => i = j /\ a = b

\* Every line said is in one place.
Spread(sc, fa, pa, pr, qu, n) ==
  /\ sc \cup fa \cup pa \cup pr \cup qu = 1..n
  /\ sc \cap fa = {} /\ sc \cap pa = {} /\ sc \cap pr = {} /\ sc \cap qu = {}
  /\ fa \cap pa = {} /\ fa \cap pr = {} /\ fa \cap qu = {}
  /\ pa \cap pr = {} /\ pa \cap qu = {} /\ pr \cap qu = {}
LinesInv ==
  /\ Once(screen) /\ Once(parts) /\ OncePrints(prints)
  /\ Spread(Of(screen), failed, Of(parts), OfPrints(prints), OfQueue(queue), said)

\* The window: whoever is in it has a callback; a stopped application has none.
WindowInv ==
  /\ parts # <<>> => scheduled
  /\ scheduled => app # "stopped" /\ \E t \in timers : t.generation = generation
  /\ app = "stopped" => prints = <<>>

\* The pump has at most one write with the terminal, and what it told.
PumpInv ==
  /\ \A i \in DOMAIN prints : prints[i].by = "pump" => pump = "writing" /\ Len(prints[i].lines) = 1
  /\ \A i, j \in DOMAIN prints : prints[i].by = "pump" /\ prints[j].by = "pump" => i = j
  /\ \A i \in DOMAIN queue : queue[i].kind = "end" => i = Len(queue) /\ ~open
  /\ pump = "ended" => queue = <<>> /\ ~open /\ ~error
  /\ failed # {} => error \/ reported

\* What was promoted, and in which order.
PromotedInv ==
  /\ OfPump(prints) \cup OfQueue(queue) \subseteq Of(submitted)
  /\ Of(submitted) \subseteq Of(screen) \cup failed \cup OfPump(prints) \cup OfQueue(queue)
Ordered(s, P) == \A i, j \in DOMAIN s : i < j /\ s[i] \in P /\ s[j] \in P => s[i] < s[j]
OrderInv ==
  /\ Ordered(screen, Of(submitted))
  /\ \A x \in Of(screen) \cap Of(submitted), y \in OfPump(prints) \cup OfQueue(queue) : x < y
  /\ \A x \in OfPump(prints), y \in OfQueue(queue) : x < y
  /\ \A i, j \in DOMAIN queue : i < j /\ queue[i].kind = "write" /\ queue[j].kind = "write" => queue[i].of < queue[j].of

\* What the turn waits for is on its way, before the barrier.
Before(q, b) == {x \in Nat : \E i \in DOMAIN q : i < b /\ q[i].kind = "write" /\ q[i].of = x}
BarrierInv ==
  /\ awaited <= barriers
  /\ \A b \in DOMAIN queue : queue[b].kind = "barrier" => queue[b].of \in 1..barriers
  /\ \A b \in DOMAIN queue : awaited # 0 /\ queue[b].kind = "barrier" /\ queue[b].of = awaited =>
       cover \subseteq Of(screen) \cup failed \cup OfPump(prints) \cup Before(queue, b)
  /\ passed \subseteq Of(screen) \cup failed

ScrollInv == ScrollTyped /\ LinesInv /\ WindowInv /\ PumpInv /\ PromotedInv /\ OrderInv /\ BarrierInv
-----------------------------------------------------------------------------
(***************************************************************************)
(* Sequences of lines, of prints and of what the pump is to do.            *)
(***************************************************************************)
LEMMA Appended ==
  ASSUME NEW S, NEW s \in Seq(S), NEW x \in S
  PROVE  /\ Append(s, x) \in Seq(S) /\ Append(s, x) # <<>>
         /\ Of(Append(s, x)) = Of(s) \cup {x}
         /\ Once(s) /\ x \notin Of(s) => Once(Append(s, x))
<1>1. /\ Append(s, x) \in Seq(S) /\ Len(Append(s, x)) = Len(s) + 1 /\ Len(s) \in Nat
      /\ DOMAIN Append(s, x) = 1..(Len(s) + 1) /\ DOMAIN s = 1..Len(s)
      /\ \A i \in 1..Len(s) : Append(s, x)[i] = s[i]
      /\ Append(s, x)[Len(s) + 1] = x
  OBVIOUS
<1>2. Of(Append(s, x)) = Of(s) \cup {x}
  <2>1. ASSUME NEW y \in Of(Append(s, x)) PROVE y \in Of(s) \cup {x}
    <3>1. PICK i \in 1..(Len(s) + 1) : y = Append(s, x)[i]
      BY <1>1 DEF Of
    <3>2. i \in 1..Len(s) \/ i = Len(s) + 1
      BY <1>1
    <3> QED
      BY <1>1, <3>1, <3>2 DEF Of
  <2>2. ASSUME NEW y \in Of(s) PROVE y \in Of(Append(s, x))
    BY <1>1, <2>2 DEF Of
  <2>3. x \in Of(Append(s, x))
    BY <1>1 DEF Of
  <2> QED
    BY <2>1, <2>2, <2>3
<1>3. ASSUME Once(s), x \notin Of(s) PROVE Once(Append(s, x))
  <2> SUFFICES ASSUME NEW i \in 1..(Len(s) + 1), NEW j \in 1..(Len(s) + 1), Append(s, x)[i] = Append(s, x)[j]
               PROVE  i = j
    BY <1>1 DEF Once
  <2>1. CASE i \in 1..Len(s) /\ j \in 1..Len(s)
    BY <1>1, <1>3, <2>1 DEF Once
  <2>2. CASE i \in 1..Len(s) /\ j = Len(s) + 1
    BY <1>1, <1>3, <2>2 DEF Of
  <2>3. CASE j \in 1..Len(s) /\ i = Len(s) + 1
    BY <1>1, <1>3, <2>3 DEF Of
  <2> QED
    BY <1>1, <2>1, <2>2, <2>3
<1> QED
  BY <1>1, <1>2, <1>3

LEMMA Joined ==
  ASSUME NEW S, NEW s \in Seq(S), NEW t \in Seq(S)
  PROVE  /\ s \o t \in Seq(S)
         /\ Of(s \o t) = Of(s) \cup Of(t)
         /\ Once(s) /\ Once(t) /\ Of(s) \cap Of(t) = {} => Once(s \o t)
<1>1. /\ s \o t \in Seq(S) /\ Len(s) \in Nat /\ Len(t) \in Nat
      /\ DOMAIN (s \o t) = 1..(Len(s) + Len(t)) /\ DOMAIN s = 1..Len(s) /\ DOMAIN t = 1..Len(t)
      /\ \A i \in 1..Len(s) : (s \o t)[i] = s[i]
      /\ \A i \in 1..Len(t) : (s \o t)[Len(s) + i] = t[i]
  OBVIOUS
<1>2. \A i \in 1..(Len(s) + Len(t)) : i \in 1..Len(s) \/ (i - Len(s) \in 1..Len(t) /\ i = Len(s) + (i - Len(s)))
  BY <1>1
<1>3. Of(s \o t) = Of(s) \cup Of(t)
  <2>1. ASSUME NEW y \in Of(s \o t) PROVE y \in Of(s) \cup Of(t)
    <3>1. PICK i \in 1..(Len(s) + Len(t)) : y = (s \o t)[i]
      BY <1>1 DEF Of
    <3>2. CASE i \in 1..Len(s)
      BY <1>1, <3>1, <3>2 DEF Of
    <3>3. CASE i - Len(s) \in 1..Len(t) /\ i = Len(s) + (i - Len(s))
      <4>1. y = t[i - Len(s)]
        BY <1>1, <3>1, <3>3
      <4> QED
        BY <1>1, <3>3, <4>1 DEF Of
    <3> QED
      BY <1>2, <3>2, <3>3
  <2>2. ASSUME NEW y \in Of(s) PROVE y \in Of(s \o t)
    BY <1>1, <2>2 DEF Of
  <2>3. ASSUME NEW y \in Of(t) PROVE y \in Of(s \o t)
    <3>1. PICK i \in 1..Len(t) : y = t[i]
      BY <1>1, <2>3 DEF Of
    <3>2. Len(s) + i \in 1..(Len(s) + Len(t)) /\ (s \o t)[Len(s) + i] = y
      BY <1>1, <3>1
    <3> QED
      BY <1>1, <3>2 DEF Of
  <2> QED
    BY <2>1, <2>2, <2>3
<1>4. ASSUME Once(s), Once(t), Of(s) \cap Of(t) = {} PROVE Once(s \o t)
  <2> SUFFICES ASSUME NEW i \in 1..(Len(s) + Len(t)), NEW j \in 1..(Len(s) + Len(t)), (s \o t)[i] = (s \o t)[j]
               PROVE  i = j
    BY <1>1 DEF Once
  <2>1. CASE i \in 1..Len(s) /\ j \in 1..Len(s)
    BY <1>1, <1>4, <2>1 DEF Once
  <2>2. CASE i \in 1..Len(s) /\ j - Len(s) \in 1..Len(t)
    <3>1. (s \o t)[i] = s[i] /\ (s \o t)[j] = t[j - Len(s)]
      BY <1>1, <1>2, <2>2
    <3> QED
      BY <1>1, <1>4, <2>2, <3>1 DEF Of
  <2>3. CASE j \in 1..Len(s) /\ i - Len(s) \in 1..Len(t)
    <3>1. (s \o t)[j] = s[j] /\ (s \o t)[i] = t[i - Len(s)]
      BY <1>1, <1>2, <2>3
    <3> QED
      BY <1>1, <1>4, <2>3, <3>1 DEF Of
  <2>4. CASE i - Len(s) \in 1..Len(t) /\ j - Len(s) \in 1..Len(t)
    <3>1. (s \o t)[j] = t[j - Len(s)] /\ (s \o t)[i] = t[i - Len(s)]
      BY <1>1, <1>2, <2>4
    <3>2. i - Len(s) = j - Len(s)
      BY <1>1, <1>4, <2>4, <3>1 DEF Once
    <3> QED
      BY <1>1, <3>2
  <2> QED
    BY <1>2, <2>1, <2>2, <2>3, <2>4
<1> QED
  BY <1>1, <1>3, <1>4

LEMMA LinesAppend ==
  ASSUME NEW s \in Seq(Nat), NEW x \in Nat
  PROVE  /\ Append(s, x) \in Seq(Nat) /\ Append(s, x) # <<>>
         /\ Of(Append(s, x)) = Of(s) \cup {x}
         /\ Once(s) /\ x \notin Of(s) => Once(Append(s, x))
BY Appended

LEMMA LinesCat ==
  ASSUME NEW s \in Seq(Nat), NEW t \in Seq(Nat)
  PROVE  /\ s \o t \in Seq(Nat)
         /\ Of(s \o t) = Of(s) \cup Of(t)
         /\ Once(s) /\ Once(t) /\ Of(s) \cap Of(t) = {} => Once(s \o t)
BY Joined

LEMMA PrintsAppend ==
  ASSUME NEW p \in Seq(Above), NEW job \in Above
  PROVE  /\ Append(p, job) \in Seq(Above)
         /\ OfPrints(Append(p, job)) = OfPrints(p) \cup Of(job.lines)
         /\ OncePrints(p) /\ Once(job.lines) /\ OfPrints(p) \cap Of(job.lines) = {} => OncePrints(Append(p, job))
         /\ job.by = "pump" => OfPump(Append(p, job)) = OfPump(p) \cup ({job.lines[1]} \cap Nat)
         /\ job.by = "window" => OfPump(Append(p, job)) = OfPump(p)
<1> DEFINE q == Append(p, job)
           n == Len(p) + 1
<1>1. /\ q \in Seq(Above) /\ Len(p) \in Nat
      /\ DOMAIN q = 1..n /\ DOMAIN p = 1..Len(p) /\ n \in DOMAIN q /\ n \notin DOMAIN p
      /\ \A i \in 1..Len(p) : q[i] = p[i] /\ i \in DOMAIN q
      /\ q[n] = job /\ \A i \in DOMAIN q : i \in DOMAIN p \/ i = n
      /\ job.lines \in Seq(Nat)
  BY DEF Above
<1> HIDE DEF q, n
<1>2. OfPrints(q) = OfPrints(p) \cup Of(job.lines)
  <2>1. \A x \in Of(job.lines) : x \in Nat /\ \E a \in DOMAIN job.lines : job.lines[a] = x
    BY <1>1 DEF Of
  <2>2. \A x \in OfPrints(q) : x \in OfPrints(p) \/ x \in Of(job.lines)
    <3> TAKE x \in OfPrints(q)
    <3>1. PICK i \in DOMAIN q : \E a \in DOMAIN q[i].lines : q[i].lines[a] = x
      BY DEF OfPrints
    <3>2. x \in Nat
      BY DEF OfPrints
    <3>3. CASE i \in DOMAIN p
      BY <1>1, <3>1, <3>2, <3>3 DEF OfPrints
    <3>4. CASE i = n
      BY <1>1, <3>1, <3>4 DEF Of
    <3> QED
      BY <1>1, <3>3, <3>4
  <2>3. \A x \in OfPrints(p) : x \in OfPrints(q)
    BY <1>1 DEF OfPrints
  <2>4. \A x \in Of(job.lines) : x \in OfPrints(q)
    BY <1>1, <2>1 DEF OfPrints
  <2> QED
    BY <2>2, <2>3, <2>4
<1>3. ASSUME OncePrints(p), Once(job.lines), OfPrints(p) \cap Of(job.lines) = {} PROVE OncePrints(q)
  <2> SUFFICES ASSUME NEW i \in DOMAIN q, NEW j \in DOMAIN q, NEW a \in DOMAIN q[i].lines, NEW b \in DOMAIN q[j].lines,
                      q[i].lines[a] = q[j].lines[b]
               PROVE  i = j /\ a = b
    BY DEF OncePrints
  <2>1. CASE i \in DOMAIN p /\ j \in DOMAIN p
    BY <1>1, <1>3, <2>1 DEF OncePrints
  <2>2. CASE i = n /\ j = n
    BY <1>1, <1>3, <2>2 DEF Once
  <2>3. CASE i \in DOMAIN p /\ j = n
    <3>1. job.lines[b] \in Of(job.lines) /\ job.lines[b] \in Nat
      BY <1>1, <2>3 DEF Of
    <3>2. job.lines[b] \in OfPrints(p)
      BY <1>1, <2>3, <3>1 DEF OfPrints
    <3> QED
      BY <1>3, <3>1, <3>2
  <2>4. CASE i = n /\ j \in DOMAIN p
    <3>1. job.lines[a] \in Of(job.lines) /\ job.lines[a] \in Nat
      BY <1>1, <2>4 DEF Of
    <3>2. job.lines[a] \in OfPrints(p)
      BY <1>1, <2>4, <3>1 DEF OfPrints
    <3> QED
      BY <1>3, <3>1, <3>2
  <2> QED
    BY <1>1, <2>1, <2>2, <2>3, <2>4
<1>4. /\ job.by = "pump" => OfPump(q) = OfPump(p) \cup ({job.lines[1]} \cap Nat)
      /\ job.by = "window" => OfPump(q) = OfPump(p)
  BY <1>1 DEF OfPump
<1> QED
  BY <1>1, <1>2, <1>3, <1>4 DEF q

LEMMA PrintsTail ==
  ASSUME NEW p \in Seq(Above), p # <<>>, OncePrints(p)
  PROVE  /\ Tail(p) \in Seq(Above) /\ Head(p) \in Above /\ Head(p).lines \in Seq(Nat) /\ Head(p).by \in {"pump", "window"}
         /\ Head(p) = p[1] /\ 1 \in DOMAIN p
         /\ \A i \in DOMAIN Tail(p) : i + 1 \in DOMAIN p /\ Tail(p)[i] = p[i + 1] /\ i \in Nat /\ i # 0
         /\ OfPrints(Tail(p)) = OfPrints(p) \ Of(Head(p).lines) /\ Of(Head(p).lines) \subseteq OfPrints(p)
         /\ Once(Head(p).lines) /\ OncePrints(Tail(p))
         /\ OfPump(Tail(p)) \subseteq OfPump(p)
         /\ \A x \in OfPump(p) : x \in OfPump(Tail(p)) \/ (Head(p).by = "pump" /\ x = Head(p).lines[1])
<1>1. /\ Tail(p) \in Seq(Above) /\ Head(p) = p[1] /\ 1 \in DOMAIN p /\ p[1] \in Above
      /\ \A i \in DOMAIN Tail(p) : i + 1 \in DOMAIN p /\ Tail(p)[i] = p[i + 1] /\ i \in Nat /\ i # 0 /\ i + 1 # 1
      /\ \A j \in DOMAIN p : j = 1 \/ (j - 1 \in DOMAIN Tail(p) /\ Tail(p)[j - 1] = p[j])
      /\ \A i, j \in DOMAIN Tail(p) : i + 1 = j + 1 => i = j
  OBVIOUS
<1>2. Head(p).lines \in Seq(Nat) /\ Head(p).by \in {"pump", "window"} /\ Head(p) \in Above
  BY <1>1 DEF Above
<1>3. Of(Head(p).lines) \subseteq OfPrints(p)
  BY <1>1, <1>2 DEF Of, OfPrints
<1>4. Once(Head(p).lines)
  BY <1>1 DEF Once, OncePrints
<1>5. OncePrints(Tail(p))
  BY <1>1 DEF OncePrints
<1>6. OfPrints(Tail(p)) = OfPrints(p) \ Of(Head(p).lines)
  <2>1. ASSUME NEW x \in OfPrints(Tail(p)) PROVE x \in OfPrints(p) /\ x \notin Of(Head(p).lines)
    <3>1. PICK i \in DOMAIN Tail(p) : \E a \in DOMAIN Tail(p)[i].lines : Tail(p)[i].lines[a] = x
      BY DEF OfPrints
    <3>2. i + 1 \in DOMAIN p /\ i + 1 # 1 /\ \E a \in DOMAIN p[i + 1].lines : p[i + 1].lines[a] = x
      BY <1>1, <3>1
    <3>3. x \in Nat
      BY DEF OfPrints
    <3> QED
      BY <1>1, <3>2, <3>3 DEF OfPrints, OncePrints, Of
  <2>2. ASSUME NEW x \in OfPrints(p), x \notin Of(Head(p).lines) PROVE x \in OfPrints(Tail(p))
    <3>1. PICK j \in DOMAIN p : \E a \in DOMAIN p[j].lines : p[j].lines[a] = x
      BY DEF OfPrints
    <3>2. j # 1
      BY <1>1, <2>2, <3>1 DEF Of
    <3>3. j - 1 \in DOMAIN Tail(p) /\ Tail(p)[j - 1] = p[j] /\ x \in Nat
      BY <1>1, <3>2 DEF OfPrints
    <3> QED
      BY <3>1, <3>3 DEF OfPrints
  <2> QED
    BY <2>1, <2>2
<1>7. OfPump(Tail(p)) \subseteq OfPump(p)
  BY <1>1 DEF OfPump
<1>8. \A x \in OfPump(p) : x \in OfPump(Tail(p)) \/ (Head(p).by = "pump" /\ x = Head(p).lines[1])
  <2> TAKE x \in OfPump(p)
  <2>1. x \in Nat /\ \E j \in DOMAIN p : p[j].by = "pump" /\ p[j].lines[1] = x
    BY DEF OfPump
  <2>2. PICK j \in DOMAIN p : p[j].by = "pump" /\ p[j].lines[1] = x
    BY <2>1
  <2>3. CASE j = 1
    BY <1>1, <2>2, <2>3
  <2>4. CASE j - 1 \in DOMAIN Tail(p) /\ Tail(p)[j - 1] = p[j]
    BY <2>1, <2>2, <2>4 DEF OfPump
  <2> QED
    BY <1>1, <2>3, <2>4
<1> QED
  BY <1>1, <1>2, <1>3, <1>4, <1>5, <1>6, <1>7, <1>8

LEMMA QueueAppends ==
  ASSUME NEW q \in Seq(Items), NEW item \in Items
  PROVE  /\ Append(q, item) \in Seq(Items) /\ Len(Append(q, item)) = Len(q) + 1
         /\ \A i \in DOMAIN q : Append(q, item)[i] = q[i] /\ i \in DOMAIN Append(q, item) /\ i < Len(q) + 1 /\ i \in Nat
         /\ Append(q, item)[Len(q) + 1] = item
         /\ \A i \in DOMAIN Append(q, item) : i \in DOMAIN q \/ i = Len(q) + 1
         /\ OfQueue(Append(q, item)) = OfQueue(q) \cup (IF item.kind = "write" THEN {item.of} ELSE {})
<1>1. /\ Append(q, item) \in Seq(Items) /\ Len(Append(q, item)) = Len(q) + 1
      /\ \A i \in DOMAIN q : Append(q, item)[i] = q[i] /\ i \in DOMAIN Append(q, item) /\ i < Len(q) + 1 /\ i \in Nat
      /\ Append(q, item)[Len(q) + 1] = item /\ Len(q) + 1 \in DOMAIN Append(q, item)
      /\ \A i \in DOMAIN Append(q, item) : i \in DOMAIN q \/ i = Len(q) + 1
  OBVIOUS
<1>2. item.of \in Nat
  BY DEF Items
<1>3. OfQueue(Append(q, item)) = OfQueue(q) \cup (IF item.kind = "write" THEN {item.of} ELSE {})
  BY <1>1, <1>2 DEF OfQueue
<1> QED
  BY <1>1, <1>3

\* The writes of a queue are numbered upwards, so the first is none of the others.
LEMMA QueueTails ==
  ASSUME NEW q \in Seq(Items), q # <<>>
  PROVE  /\ Tail(q) \in Seq(Items) /\ Len(Tail(q)) = Len(q) - 1 /\ Head(q) = q[1] /\ 1 \in DOMAIN q /\ Head(q) \in Items
         /\ Head(q).of \in Nat /\ Len(q) \in Nat
         /\ \A i \in DOMAIN Tail(q) : i + 1 \in DOMAIN q /\ Tail(q)[i] = q[i + 1] /\ i \in Nat /\ i # 0
         /\ \A j \in DOMAIN q : j = 1 \/ (j - 1 \in DOMAIN Tail(q) /\ Tail(q)[j - 1] = q[j])
         /\ OfQueue(q) = OfQueue(Tail(q)) \cup (IF Head(q).kind = "write" THEN {Head(q).of} ELSE {})
<1>1. /\ Tail(q) \in Seq(Items) /\ Len(Tail(q)) = Len(q) - 1 /\ Head(q) = q[1] /\ 1 \in DOMAIN q /\ Head(q) \in Items
      /\ \A i \in DOMAIN Tail(q) : i + 1 \in DOMAIN q /\ Tail(q)[i] = q[i + 1] /\ i \in Nat /\ i # 0
      /\ \A j \in DOMAIN q : j = 1 \/ (j - 1 \in DOMAIN Tail(q) /\ Tail(q)[j - 1] = q[j])
      /\ Len(q) \in Nat
  OBVIOUS
<1>2. Head(q).of \in Nat
  BY <1>1 DEF Items
<1>3. \A x \in OfQueue(q) : x \in OfQueue(Tail(q)) \/ (Head(q).kind = "write" /\ x = Head(q).of)
  <2> TAKE x \in OfQueue(q)
  <2>1. x \in Nat /\ \E j \in DOMAIN q : q[j].kind = "write" /\ q[j].of = x
    BY DEF OfQueue
  <2>2. PICK j \in DOMAIN q : q[j].kind = "write" /\ q[j].of = x
    BY <2>1
  <2>3. CASE j = 1
    BY <1>1, <2>2, <2>3
  <2>4. CASE j - 1 \in DOMAIN Tail(q) /\ Tail(q)[j - 1] = q[j]
    BY <2>1, <2>2, <2>4 DEF OfQueue
  <2> QED
    BY <1>1, <2>3, <2>4
<1>4. \A x \in OfQueue(Tail(q)) : x \in OfQueue(q)
  BY <1>1 DEF OfQueue
<1>5. Head(q).kind = "write" => Head(q).of \in OfQueue(q)
  BY <1>1, <1>2 DEF OfQueue
<1> QED
  BY <1>1, <1>2, <1>3, <1>4, <1>5

\* The line the pump has with the terminal is among those to be printed.
LEMMA PumpIsPrint == ScrollTyped /\ PumpInv => OfPump(prints) \subseteq OfPrints(prints)
<1> SUFFICES ASSUME ScrollTyped, PumpInv, NEW x \in OfPump(prints) PROVE x \in OfPrints(prints)
  OBVIOUS
<1>1. PICK i \in DOMAIN prints : prints[i].by = "pump" /\ prints[i].lines[1] = x
  BY DEF OfPump
<1>2. 1 \in DOMAIN prints[i].lines /\ x \in Nat
  BY <1>1 DEF PumpInv, ScrollTyped, Above, OfPump
<1> QED
  BY <1>1, <1>2 DEF OfPrints

LEMMA OrderCat ==
  ASSUME NEW s \in Seq(Nat), NEW t \in Seq(Nat), NEW P, Ordered(s, P), Ordered(t, P),
         \A x \in Of(s) \cap P, y \in Of(t) \cap P : x < y
  PROVE  Ordered(s \o t, P)
<1>1. /\ Len(s) \in Nat /\ Len(t) \in Nat
      /\ DOMAIN (s \o t) = 1..(Len(s) + Len(t)) /\ DOMAIN s = 1..Len(s) /\ DOMAIN t = 1..Len(t)
      /\ \A i \in 1..Len(s) : (s \o t)[i] = s[i]
      /\ \A i \in 1..Len(t) : (s \o t)[Len(s) + i] = t[i]
  OBVIOUS
<1>2. \A i \in 1..(Len(s) + Len(t)) :
        \/ i \in 1..Len(s) /\ (s \o t)[i] = s[i] /\ s[i] \in Of(s)
        \/ i - Len(s) \in 1..Len(t) /\ i > Len(s) /\ (s \o t)[i] = t[i - Len(s)] /\ t[i - Len(s)] \in Of(t)
  <2> TAKE i \in 1..(Len(s) + Len(t))
  <2>1. CASE i \in 1..Len(s)
    BY <1>1, <2>1 DEF Of
  <2>2. CASE i \notin 1..Len(s)
    <3>1. i - Len(s) \in 1..Len(t) /\ i > Len(s) /\ i = Len(s) + (i - Len(s))
      BY <1>1, <2>2
    <3>2. (s \o t)[i] = t[i - Len(s)]
      BY <1>1, <3>1
    <3> QED
      BY <1>1, <3>1, <3>2 DEF Of
  <2> QED
    BY <2>1, <2>2
<1> SUFFICES ASSUME NEW i \in 1..(Len(s) + Len(t)), NEW j \in 1..(Len(s) + Len(t)), i < j,
                    (s \o t)[i] \in P, (s \o t)[j] \in P
             PROVE  (s \o t)[i] < (s \o t)[j]
  BY <1>1 DEF Ordered
<1>3. CASE i \in 1..Len(s) /\ j \in 1..Len(s)
  BY <1>1, <1>3 DEF Ordered
<1>4. CASE i \in 1..Len(s) /\ j - Len(s) \in 1..Len(t) /\ j > Len(s)
  <2>1. (s \o t)[i] \in Of(s)
    BY <1>1, <1>4 DEF Of
  <2>2. j \notin 1..Len(s)
    BY <1>1, <1>4
  <2>3. (s \o t)[j] \in Of(t)
    BY <1>2, <2>2
  <2> QED
    BY <2>1, <2>3
<1>5. CASE i - Len(s) \in 1..Len(t) /\ i > Len(s) /\ j - Len(s) \in 1..Len(t) /\ j > Len(s)
  <2>1. i - Len(s) < j - Len(s)
    BY <1>1
  <2>2. (s \o t)[i] = t[i - Len(s)] /\ (s \o t)[j] = t[j - Len(s)]
    BY <1>1, <1>2, <1>5
  <2> QED
    BY <1>1, <1>5, <2>1, <2>2 DEF Ordered
<1> QED
  BY <1>1, <1>2, <1>3, <1>4, <1>5

\* Lines that were not promoted, or one alone, are in order.
LEMMA OrderFew ==
  ASSUME NEW s \in Seq(Nat), NEW P, Of(s) \cap P = {} \/ Len(s) = 1
  PROVE  Ordered(s, P)
BY DEF Ordered, Of

\* What goes to the screen in one go, after what is there: lines that were not promoted, and then
\* perhaps one that was.
LEMMA ScreenGrows ==
  ASSUME ScrollTyped, LinesInv, OrderInv, NEW s \in Seq(Nat), NEW t \in Seq(Nat), NEW P,
         Of(s) \cap P = {}, Of(t) \cap P = {} \/ Len(t) = 1, P = Of(submitted),
         \A x \in Of(screen) \cap P, y \in Of(t) \cap P : x < y
  PROVE  Ordered(screen \o s \o t, P) /\ Ordered(screen \o s, P)
<1>1. screen \in Seq(Nat) /\ screen \o s \in Seq(Nat) /\ Of(screen \o s) = Of(screen) \cup Of(s)
  BY LinesCat DEF ScrollTyped
<1>2. Ordered(screen, P) /\ Ordered(s, P) /\ Ordered(t, P)
  BY OrderFew DEF OrderInv
<1>3. Ordered(screen \o s, P)
  BY <1>1, <1>2, OrderCat
<1>4. Ordered((screen \o s) \o t, P)
  BY <1>1, <1>2, <1>3, OrderCat
<1> QED
  BY <1>3, <1>4

-----------------------------------------------------------------------------
(***************************************************************************)
(* The steps.                                                              *)
(***************************************************************************)
\* A line that is new is nowhere yet.
LEMMA NewLine ==
  ASSUME ScrollInv
  PROVE  /\ said + 1 \in Nat /\ said + 1 \notin Of(screen) /\ said + 1 \notin failed /\ said + 1 \notin Of(parts)
         /\ said + 1 \notin OfPrints(prints) /\ said + 1 \notin OfQueue(queue)
         /\ said + 1 \notin Of(submitted) /\ said + 1 \notin OfPump(prints)
         /\ 1..(said + 1) = (1..said) \cup {said + 1}
         /\ \A x \in Of(submitted) : x < said + 1
<1>1. said \in Nat /\ 1..(said + 1) = (1..said) \cup {said + 1} /\ said + 1 \notin 1..said /\ \A x \in 1..said : x < said + 1
  BY DEF ScrollInv, ScrollTyped
<1>2. /\ Of(screen) \subseteq 1..said /\ failed \subseteq 1..said /\ Of(parts) \subseteq 1..said
      /\ OfPrints(prints) \subseteq 1..said /\ OfQueue(queue) \subseteq 1..said
  BY DEF ScrollInv, LinesInv, Spread
<1>3. OfPump(prints) \subseteq OfPrints(prints)
  BY PumpIsPrint DEF ScrollInv
<1>4. Of(submitted) \subseteq 1..said
  BY <1>2, <1>3 DEF ScrollInv, PromotedInv
<1> QED
  BY <1>1, <1>2, <1>3, <1>4

\* What the window holds was not promoted through the writer, and neither was a print of its own.
LEMMA WindowIsPlain ==
  ASSUME ScrollInv
  PROVE  /\ Of(parts) \cap Of(submitted) = {}
         /\ \A i \in DOMAIN prints : prints[i].by # "pump" => Of(prints[i].lines) \cap Of(submitted) = {}
<1>1. Of(parts) \cap Of(submitted) = {}
  BY PumpIsPrint DEF ScrollInv, PromotedInv, LinesInv, Spread
<1>2. ASSUME NEW i \in DOMAIN prints, prints[i].by # "pump", NEW x \in Of(prints[i].lines), x \in Of(submitted) PROVE FALSE
  <2>1. prints[i].lines \in Seq(Nat)
    <3>1. prints \in Seq(Above)
      BY DEF ScrollInv, ScrollTyped
    <3>2. prints[i] \in Above
      BY <3>1, <1>2
    <3> QED
      BY <3>2 DEF Above
  <2>2. PICK a \in DOMAIN prints[i].lines : prints[i].lines[a] = x
    BY DEF Of
  <2>3. x \in Nat /\ x \in OfPrints(prints)
    BY <2>1, <2>2 DEF OfPrints
  <2>4. x \in OfPump(prints)
    BY <1>2, <2>3 DEF ScrollInv, PromotedInv, LinesInv, Spread
  <2>5. PICK j \in DOMAIN prints : prints[j].by = "pump" /\ prints[j].lines[1] = x
    BY <2>4 DEF OfPump
  <2>6. 1 \in DOMAIN prints[j].lines
    BY <2>5 DEF ScrollInv, PumpInv, ScrollTyped, Above
  <2> QED
    BY <1>2, <2>2, <2>5, <2>6 DEF ScrollInv, LinesInv, OncePrints
<1> QED
  BY <1>1, <1>2

\* A line for the window, or for a terminal that has nothing above the prompt any more.
LEMMA PrintStep ==
  ASSUME ScrollInv, said' = said + 1, Scroll!_scrollback_print(said + 1),
         UNCHANGED <<app, open, queue, pump, error, prints, submitted, awaited, cover, passed, barriers, failed, reported>>
  PROVE  ScrollInv'
<1> DEFINE x == said + 1
<1>1. CASE app # "stopped"
  <2>1. /\ parts' = Append(parts, x) /\ scheduled' = TRUE /\ generation' = generation /\ screen' = screen
        /\ timers' = IF scheduled THEN timers ELSE timers \cup {[at |-> "soon", generation |-> generation]}
    BY <1>1 DEF Scroll!_scrollback_print, Scroll!_queue_scrollback
  <2>2. /\ parts' \in Seq(Nat) /\ Of(parts') = Of(parts) \cup {x} /\ Once(parts')
    BY <2>1, NewLine, LinesAppend DEF ScrollInv, ScrollTyped, LinesInv
  <2>3. ScrollTyped'
    BY <2>1, <2>2 DEF ScrollInv, ScrollTyped, Soon
  <2>4. LinesInv'
    BY <2>1, <2>2, NewLine DEF ScrollInv, LinesInv, Spread
  <2>5. WindowInv'
    <3>1. \E t \in timers' : t.generation = generation
      <4>1. CASE scheduled
        BY <2>1, <4>1 DEF ScrollInv, WindowInv
      <4>2. CASE ~scheduled
        <5>1. [at |-> "soon", generation |-> generation] \in timers'
          BY <2>1, <4>2
        <5> QED
          BY <5>1
      <4> QED
        BY <4>1, <4>2
    <3> QED
      BY <1>1, <2>1, <3>1 DEF ScrollInv, WindowInv
  <2>6. PumpInv' /\ PromotedInv' /\ OrderInv' /\ BarrierInv'
    BY <2>1 DEF ScrollInv, PumpInv, PromotedInv, OrderInv, BarrierInv
  <2> QED
    BY <2>3, <2>4, <2>5, <2>6 DEF ScrollInv
<1>2. CASE app = "stopped"
  <2>1. /\ parts = <<>> /\ parts' = <<>> /\ scheduled' = FALSE /\ generation' = generation + 1 /\ timers' = timers
        /\ screen' = screen \o Append(parts, x)
    BY <1>2 DEF Scroll!_scrollback_print, Scroll!drained, ScrollInv, WindowInv
  <2>2. screen' = Append(screen, x)
    BY <2>1, NewLine DEF ScrollInv, ScrollTyped
  <2>3. /\ screen' \in Seq(Nat) /\ Of(screen') = Of(screen) \cup {x} /\ Once(screen')
    BY <2>2, NewLine, LinesAppend DEF ScrollInv, ScrollTyped, LinesInv
  <2>4. ScrollTyped'
    <3>1. parts' \in Seq(Nat) /\ generation' \in Nat /\ said' \in Nat
      BY <2>1, NewLine DEF ScrollInv, ScrollTyped
    <3> QED
      BY <2>1, <2>3, <3>1 DEF ScrollInv, ScrollTyped
  <2>5. LinesInv'
    BY <2>1, <2>3, NewLine DEF ScrollInv, LinesInv, Spread
  <2>6. WindowInv' /\ PumpInv'
    BY <2>1 DEF ScrollInv, WindowInv, PumpInv
  <2>7. PromotedInv'
    BY <2>1, <2>3 DEF ScrollInv, PromotedInv
  <2>8. Ordered(screen', Of(submitted))
    <3>1. Append(parts, x) = <<x>> /\ <<x>> \in Seq(Nat) /\ Len(<<x>>) = 1 /\ Of(<<x>>) = {x} /\ Of(<<>>) = {} /\ <<>> \in Seq(Nat)
      BY <2>1, NewLine DEF Of
    <3> HIDE DEF x
    <3>2. ScrollTyped /\ LinesInv /\ OrderInv
      BY DEF ScrollInv
    <3>4. x \notin Of(submitted)
      BY NewLine DEF x
    <3>5. Ordered(screen \o <<>> \o <<x>>, Of(submitted))
      BY <3>1, <3>2, <3>4, ScreenGrows
    <3>3. screen \o <<>> = screen
      BY DEF ScrollInv, ScrollTyped
    <3> QED
      BY <2>1, <3>1, <3>3, <3>5
  <2>9. OrderInv'
    BY <2>3, <2>8, NewLine DEF ScrollInv, OrderInv
  <2>10. BarrierInv'
    BY <2>3 DEF ScrollInv, BarrierInv
  <2> QED
    BY <2>4, <2>5, <2>6, <2>7, <2>9, <2>10 DEF ScrollInv
<1> QED
  BY <1>1, <1>2

LEMMA SayStep == ASSUME ScrollInv, Scroll!Say PROVE ScrollInv'
BY PrintStep DEF Scroll!Say, Scroll!writer

LEMMA ScheduleStep == ASSUME ScrollInv, Scroll!Schedule PROVE ScrollInv'
<1>1. /\ UNCHANGED <<app, open, queue, pump, error, parts, scheduled, generation, prints, screen,
                    said, submitted, awaited, cover, passed, barriers, failed, reported>>
  BY DEF Scroll!Schedule, Scroll!writer, Scroll!asked
<1>2. timers' \in SUBSET Soon
  BY DEF Scroll!Schedule, ScrollInv, ScrollTyped, Soon
<1>3. scheduled /\ (\E t \in timers : t.generation = generation) => \E t \in timers' : t.generation = generation
  <2> SUFFICES ASSUME scheduled, NEW s \in timers, s.generation = generation
               PROVE  \E t \in timers' : t.generation = generation
    OBVIOUS
  <2>1. PICK t \in timers : timers' = (timers \ {t}) \cup (IF scheduled /\ t.generation = generation
                                                         THEN {[t EXCEPT !.at = "timer"]} ELSE {})
    BY DEF Scroll!Schedule
  <2>2. t \in Soon
    BY DEF ScrollInv, ScrollTyped
  <2>3. [t EXCEPT !.at = "timer"].generation = t.generation
    BY <2>2 DEF Soon
  <2> QED
    BY <2>1, <2>3
<1>4. ScrollTyped'
  BY <1>1, <1>2 DEF ScrollInv, ScrollTyped
<1>5. WindowInv'
  BY <1>1, <1>3 DEF ScrollInv, WindowInv
<1>6. LinesInv' /\ PumpInv' /\ PromotedInv' /\ OrderInv' /\ BarrierInv'
  BY <1>1 DEF ScrollInv, LinesInv, PumpInv, PromotedInv, OrderInv, BarrierInv
<1> QED
  BY <1>4, <1>5, <1>6 DEF ScrollInv

\* What the window held goes to be printed.
LEMMA Handed ==
  ASSUME ScrollInv
  PROVE  LET p == prints \o Scroll!Printed(parts)
         IN  /\ p \in Seq(Above) /\ OfPrints(p) = OfPrints(prints) \cup Of(parts) /\ OncePrints(p)
             /\ OfPump(p) = OfPump(prints)
             /\ \A i \in DOMAIN p : p[i].by = "pump" => i \in DOMAIN prints /\ p[i] = prints[i]
<1> DEFINE job == [by |-> "window", lines |-> parts]
<1>1. prints \in Seq(Above) /\ parts \in Seq(Nat) /\ job \in Above /\ job.by = "window" /\ job.lines = parts
  BY DEF ScrollInv, ScrollTyped, Above
<1>2. CASE parts = <<>>
  <2>1. prints \o Scroll!Printed(parts) = prints /\ Of(parts) = {}
    BY <1>1, <1>2 DEF Scroll!Printed, Of
  <2> QED
    BY <1>1, <2>1 DEF ScrollInv, LinesInv
<1>3. CASE parts # <<>>
  <2>1. prints \o Scroll!Printed(parts) = Append(prints, job)
    BY <1>1, <1>3 DEF Scroll!Printed, Scroll!Above
  <2>2. Once(job.lines) /\ OfPrints(prints) \cap Of(job.lines) = {} /\ OncePrints(prints)
    BY <1>1 DEF ScrollInv, LinesInv, Spread
  <2>3. \A i \in DOMAIN Append(prints, job) : i \in DOMAIN prints \/ i = Len(prints) + 1
    BY <1>1
  <2>4. \A i \in DOMAIN prints : Append(prints, job)[i] = prints[i]
    BY <1>1
  <2>5. Append(prints, job)[Len(prints) + 1] = job
    BY <1>1
  <2> HIDE DEF job
  <2> QED
    BY <1>1, <2>1, <2>2, <2>3, <2>4, <2>5, PrintsAppend
<1> QED
  BY <1>2, <1>3

LEMMA FlushStep == ASSUME ScrollInv, Scroll!Flush PROVE ScrollInv'
<1>1. /\ UNCHANGED <<app, open, queue, pump, error, generation, screen,
                    said, submitted, awaited, cover, passed, barriers, failed, reported>>
      /\ app # "stopped"
  BY DEF Scroll!Flush, Scroll!writer, Scroll!asked
<1>2. PICK t \in timers :
         /\ timers' = timers \ {t}
         /\ IF t.generation = generation
            THEN parts' = <<>> /\ scheduled' = FALSE /\ prints' = prints \o Scroll!Printed(parts)
            ELSE UNCHANGED <<parts, scheduled, prints>>
  BY DEF Scroll!Flush
<1>3. CASE t.generation # generation
  <2>1. UNCHANGED <<parts, scheduled, prints>>
    BY <1>2, <1>3
  <2>2. ScrollTyped'
    BY <1>1, <1>2, <2>1 DEF ScrollInv, ScrollTyped
  <2>3. WindowInv'
    BY <1>1, <1>2, <1>3, <2>1 DEF ScrollInv, WindowInv
  <2>4. LinesInv' /\ PumpInv' /\ PromotedInv' /\ OrderInv' /\ BarrierInv'
    BY <1>1, <2>1 DEF ScrollInv, LinesInv, PumpInv, PromotedInv, OrderInv, BarrierInv
  <2> QED
    BY <2>2, <2>3, <2>4 DEF ScrollInv
<1>4. CASE t.generation = generation
  <2>1. parts' = <<>> /\ scheduled' = FALSE /\ prints' = prints \o Scroll!Printed(parts)
    BY <1>2, <1>4
  <2>2. /\ prints' \in Seq(Above) /\ OfPrints(prints') = OfPrints(prints) \cup Of(parts) /\ OncePrints(prints')
        /\ OfPump(prints') = OfPump(prints)
        /\ \A i \in DOMAIN prints' : prints'[i].by = "pump" => i \in DOMAIN prints /\ prints'[i] = prints[i]
    BY <2>1, Handed
  <2>3. parts' \in Seq(Nat) /\ Of(parts') = {} /\ Once(parts')
    BY <2>1 DEF Of, Once
  <2>4. ScrollTyped'
    BY <1>1, <1>2, <2>1, <2>2, <2>3 DEF ScrollInv, ScrollTyped
  <2>5. LinesInv'
    BY <1>1, <2>2, <2>3 DEF ScrollInv, LinesInv, Spread
  <2>6. WindowInv'
    BY <1>1, <2>1 DEF ScrollInv, WindowInv
  <2>7. PumpInv'
    BY <1>1, <2>2 DEF ScrollInv, PumpInv
  <2>8. PromotedInv' /\ OrderInv' /\ BarrierInv'
    BY <1>1, <2>2 DEF ScrollInv, PromotedInv, OrderInv, BarrierInv
  <2> QED
    BY <2>4, <2>5, <2>6, <2>7, <2>8 DEF ScrollInv
<1> QED
  BY <1>3, <1>4

\* A promotion that comes too late: the window is handed over, and the line begins the next one.
LEMMA LateStep ==
  ASSUME ScrollInv, Scroll!Promote, ~open, app # "stopped" PROVE ScrollInv'
<1> DEFINE x == said + 1
<1>1. /\ UNCHANGED <<app, open, queue, pump, error, screen, submitted, awaited, cover, passed, barriers, failed, reported>>
      /\ said' = x /\ prints' = prints \o Scroll!Printed(parts)
      /\ parts' = Append(<<>>, x) /\ scheduled' = TRUE /\ generation' = generation + 1
      /\ timers' = timers \cup {[at |-> "soon", generation |-> generation + 1]}
  BY DEF Scroll!Promote, Scroll!_queue_scrollback, ScrollInv, ScrollTyped
<1>2. /\ prints' \in Seq(Above) /\ OfPrints(prints') = OfPrints(prints) \cup Of(parts) /\ OncePrints(prints')
      /\ OfPump(prints') = OfPump(prints)
      /\ \A i \in DOMAIN prints' : prints'[i].by = "pump" => i \in DOMAIN prints /\ prints'[i] = prints[i]
  BY <1>1, Handed
<1>3. parts' \in Seq(Nat) /\ Of(parts') = {x} /\ Once(parts')
  <2>1. <<>> \in Seq(Nat) /\ Of(<<>>) = {} /\ Once(<<>>)
    BY DEF Of, Once
  <2> QED
    BY <1>1, <2>1, NewLine, LinesAppend
<1>4. ScrollTyped'
  <2>1. timers' \in SUBSET Soon
    BY <1>1 DEF ScrollInv, ScrollTyped, Soon
  <2>2. said' \in Nat /\ generation' \in Nat /\ scheduled' \in BOOLEAN
    BY <1>1, NewLine DEF ScrollInv, ScrollTyped
  <2>3. prints' \in Seq(Above) /\ parts' \in Seq(Nat)
    BY <1>2, <1>3
  <2>4. UNCHANGED <<app, open, queue, pump, error, screen, submitted, awaited, cover, passed, barriers, failed, reported>>
    BY <1>1
  <2>5. ScrollTyped
    BY DEF ScrollInv
  <2> QED
    BY <2>1, <2>2, <2>3, <2>4, <2>5 DEF ScrollTyped
<1>5. LinesInv'
  BY <1>1, <1>2, <1>3, NewLine DEF ScrollInv, LinesInv, Spread
<1>6. WindowInv'
  <2>1. [at |-> "soon", generation |-> generation + 1] \in timers'
    BY <1>1
  <2>2. \E t \in timers' : t.generation = generation'
    BY <1>1, <2>1
  <2> QED
    BY <1>1, <2>2 DEF ScrollInv, WindowInv
<1>7. PumpInv'
  BY <1>1, <1>2 DEF ScrollInv, PumpInv
<1>8. PromotedInv' /\ OrderInv' /\ BarrierInv'
  BY <1>1, <1>2 DEF ScrollInv, PromotedInv, OrderInv, BarrierInv
<1> QED
  BY <1>4, <1>5, <1>6, <1>7, <1>8 DEF ScrollInv

\* The writer takes the line.
LEMMA SubmitStep ==
  ASSUME ScrollInv, Scroll!Promote, open PROVE ScrollInv'
<1> DEFINE x    == said + 1
           item == [kind |-> "write", of |-> x]
           n    == Len(queue) + 1
<1>1. /\ UNCHANGED <<app, open, pump, error, parts, scheduled, generation, timers, prints, screen, awaited, cover,
                     passed, barriers, failed, reported>>
      /\ awaited = 0 /\ said' = x /\ queue' = Append(queue, item) /\ submitted' = Append(submitted, x)
  BY DEF Scroll!Promote, Scroll!window, Scroll!Write
<1>2. queue \in Seq(Items) /\ item \in Items /\ item.kind = "write" /\ item.of = x /\ x \in Nat
  BY NewLine DEF Items, ScrollInv, ScrollTyped
<1> HIDE DEF item
<1>3. /\ queue' \in Seq(Items) /\ OfQueue(queue') = OfQueue(queue) \cup {x} /\ Len(queue') = n
      /\ \A i \in DOMAIN queue : queue'[i] = queue[i] /\ i \in DOMAIN queue' /\ i < n /\ i \in Nat
      /\ queue'[n] = item
      /\ \A i \in DOMAIN queue' : i \in DOMAIN queue \/ i = n
  BY <1>1, <1>2, QueueAppends
<1>4. submitted' \in Seq(Nat) /\ Of(submitted') = Of(submitted) \cup {x}
  BY <1>1, NewLine, LinesAppend DEF ScrollInv, ScrollTyped
<1>5. ScrollTyped'
  BY <1>1, <1>2, <1>3, <1>4 DEF ScrollInv, ScrollTyped
<1>6. LinesInv'
  BY <1>1, <1>3, NewLine DEF ScrollInv, LinesInv, Spread
<1>7. WindowInv'
  BY <1>1 DEF ScrollInv, WindowInv
<1>8. PumpInv'
  <2>1. pump # "ended"
    BY DEF ScrollInv, PumpInv
  <2>2. \A i \in DOMAIN queue' : queue'[i].kind # "end"
    BY <1>2, <1>3 DEF ScrollInv, PumpInv
  <2> QED
    BY <1>1, <2>1, <2>2 DEF ScrollInv, PumpInv
<1>9. PromotedInv'
  BY <1>1, <1>3, <1>4 DEF ScrollInv, PromotedInv
<1>10. OrderInv'
  <2>1. \A i \in DOMAIN screen : screen[i] \in Of(submitted') => screen[i] \in Of(submitted)
    BY <1>4, NewLine DEF Of
  <2>2. Ordered(screen, Of(submitted'))
    BY <2>1 DEF ScrollInv, OrderInv, Ordered
  <2>3. Of(screen) \cap Of(submitted') = Of(screen) \cap Of(submitted)
    BY <1>4, NewLine
  <2>4. \A y \in Of(submitted) \cup OfPump(prints) \cup OfQueue(queue) : y < x
    BY NewLine DEF ScrollInv, PromotedInv
  <2>5. \A i \in DOMAIN queue : queue[i].kind = "write" => queue[i].of \in OfQueue(queue)
    <3> TAKE i \in DOMAIN queue
    <3>1. queue[i] \in Items
      BY <1>2
    <3> QED
      BY <3>1 DEF OfQueue, Items
  <2>6. \A i, j \in DOMAIN queue' : i < j /\ queue'[i].kind = "write" /\ queue'[j].kind = "write"
                                    => queue'[i].of < queue'[j].of
    <3> SUFFICES ASSUME NEW i \in DOMAIN queue', NEW j \in DOMAIN queue', i < j,
                        queue'[i].kind = "write", queue'[j].kind = "write"
                 PROVE  queue'[i].of < queue'[j].of
      OBVIOUS
    <3>1. n \in Nat
      BY <1>2
    <3>2. CASE i = n
      BY <1>3, <3>1, <3>2
    <3>3. CASE i \in DOMAIN queue /\ j = n
      BY <1>2, <1>3, <2>4, <2>5, <3>3
    <3>4. CASE i \in DOMAIN queue /\ j \in DOMAIN queue
      BY <1>3, <3>4 DEF ScrollInv, OrderInv
    <3> QED
      BY <1>3, <3>2, <3>3, <3>4
  <2>7. /\ \A y \in Of(screen) \cap Of(submitted'), z \in OfPump(prints) \cup OfQueue(queue') : y < z
        /\ \A y \in OfPump(prints), z \in OfQueue(queue') : y < z
    BY <1>3, <2>3, <2>4 DEF ScrollInv, OrderInv
  <2> QED
    BY <1>1, <2>2, <2>6, <2>7 DEF OrderInv
<1>11. BarrierInv'
  <2>1. \A b \in DOMAIN queue' : queue'[b].kind = "barrier" => b \in DOMAIN queue /\ queue'[b] = queue[b]
    BY <1>2, <1>3
  <2> QED
    BY <1>1, <2>1 DEF ScrollInv, BarrierInv
<1> QED
  BY <1>5, <1>6, <1>7, <1>8, <1>9, <1>10, <1>11 DEF ScrollInv

LEMMA PromoteStep == ASSUME ScrollInv, Scroll!Promote PROVE ScrollInv'
<1>1. CASE open
  BY <1>1, SubmitStep
<1>2. CASE ~open /\ app # "stopped"
  BY <1>2, LateStep
<1>3. CASE ~open /\ app = "stopped"
  <2>1. /\ said' = said + 1 /\ Scroll!_scrollback_print(said + 1)
        /\ UNCHANGED <<app, open, queue, pump, error, prints, submitted, awaited, cover, passed, barriers, failed, reported>>
    BY <1>3 DEF Scroll!Promote
  <2> QED
    BY <2>1, PrintStep
<1> QED
  BY <1>1, <1>2, <1>3

LEMMA AwaitStep == ASSUME ScrollInv, Scroll!AwaitBarrier PROVE ScrollInv'
<1>1. /\ UNCHANGED <<app, open, pump, parts, scheduled, generation, timers, prints, screen, said, submitted, passed, failed>>
      /\ barriers' = barriers + 1 /\ awaited = 0 /\ barriers \in Nat
  BY DEF Scroll!AwaitBarrier, Scroll!window, ScrollInv, ScrollTyped
<1>2. CASE ~open
  <2>1. UNCHANGED <<queue, awaited, cover>> /\ reported' = (reported \/ error) /\ error' = FALSE
    BY <1>2 DEF Scroll!AwaitBarrier, Scroll!_raise_pending
  <2>2. ScrollTyped'
    <3>1. (reported \/ error) \in BOOLEAN
      OBVIOUS
    <3>2. reported' \in BOOLEAN /\ error' \in BOOLEAN
      BY <2>1, <3>1
    <3> QED
      BY <1>1, <2>1, <3>2 DEF ScrollInv, ScrollTyped
  <2>3. PumpInv'
    BY <1>1, <2>1 DEF ScrollInv, PumpInv, ScrollTyped
  <2>4. BarrierInv'
    <3>1. \A b \in DOMAIN queue : queue[b].kind = "barrier" => queue[b].of \in 1..(barriers + 1)
      BY <1>1 DEF ScrollInv, BarrierInv
    <3> QED
      BY <1>1, <2>1, <3>1 DEF ScrollInv, BarrierInv
  <2>5. LinesInv' /\ WindowInv' /\ PromotedInv' /\ OrderInv'
    BY <1>1, <2>1 DEF ScrollInv, LinesInv, WindowInv, PromotedInv, OrderInv
  <2> QED
    BY <2>2, <2>3, <2>4, <2>5 DEF ScrollInv
<1>3. CASE open
  <2> DEFINE item == [kind |-> "barrier", of |-> barriers + 1]
             n    == Len(queue) + 1
  <2>1. queue' = Append(queue, item) /\ awaited' = barriers + 1 /\ cover' = Of(submitted) /\ UNCHANGED <<error, reported>>
    BY <1>3 DEF Scroll!AwaitBarrier, Scroll!Barrier, Scroll!ToSet, Of
  <2>2. queue \in Seq(Items) /\ item \in Items /\ item.kind = "barrier" /\ item.of = barriers + 1 /\ n \in Nat
    BY <1>1 DEF Items, ScrollInv, ScrollTyped
  <2> HIDE DEF item
  <2>3. /\ queue' \in Seq(Items) /\ OfQueue(queue') = OfQueue(queue) /\ Len(queue') = n
        /\ \A i \in DOMAIN queue : queue'[i] = queue[i] /\ i \in DOMAIN queue' /\ i < n /\ i \in Nat
        /\ queue'[n] = item
        /\ \A i \in DOMAIN queue' : i \in DOMAIN queue \/ i = n
    <3>1. /\ queue' \in Seq(Items) /\ Len(queue') = n
          /\ \A i \in DOMAIN queue : queue'[i] = queue[i] /\ i \in DOMAIN queue' /\ i < n /\ i \in Nat
          /\ queue'[n] = item
          /\ \A i \in DOMAIN queue' : i \in DOMAIN queue \/ i = n
      BY <2>1, <2>2, QueueAppends
    <3>2. OfQueue(queue') = OfQueue(queue) \cup (IF item.kind = "write" THEN {item.of} ELSE {})
      BY <2>1, <2>2, QueueAppends
    <3> QED
      BY <2>2, <3>1, <3>2
  <2>4. ScrollTyped'
    <3>1. cover' \in SUBSET Nat
      BY <2>1 DEF ScrollInv, ScrollTyped, Of
    <3> QED
      BY <1>1, <2>1, <2>3, <3>1 DEF ScrollInv, ScrollTyped
  <2>5. LinesInv' /\ WindowInv' /\ PromotedInv'
    BY <1>1, <2>3 DEF ScrollInv, LinesInv, WindowInv, PromotedInv
  <2>6. PumpInv'
    <3>1. pump # "ended"
      BY <1>3 DEF ScrollInv, PumpInv
    <3>2. \A i \in DOMAIN queue' : queue'[i].kind # "end"
      BY <1>3, <2>2, <2>3 DEF ScrollInv, PumpInv
    <3> QED
      BY <1>1, <2>1, <3>1, <3>2 DEF ScrollInv, PumpInv
  <2>7. OrderInv'
    <3>1. \A i \in DOMAIN queue' : queue'[i].kind = "write" => i \in DOMAIN queue /\ queue'[i] = queue[i]
      BY <2>2, <2>3
    <3> QED
      BY <1>1, <2>3, <3>1 DEF ScrollInv, OrderInv
  <2>8. BarrierInv'
    <3>1. \A b \in DOMAIN queue : queue[b].kind = "barrier" => queue[b].of \in 1..(barriers + 1) /\ queue[b].of # barriers + 1
      BY <1>1 DEF ScrollInv, BarrierInv
    <3>2. \A b \in DOMAIN queue' : queue'[b].kind = "barrier" => queue'[b].of \in 1..(barriers + 1)
      BY <1>1, <2>2, <2>3, <3>1
    <3>3. \A b \in DOMAIN queue' : queue'[b].kind = "barrier" /\ queue'[b].of = awaited' => b = n
      BY <2>1, <2>3, <3>1
    <3>4. OfQueue(queue) \subseteq Before(queue', n)
      BY <2>3 DEF OfQueue, Before
    <3>5. cover' \subseteq Of(screen) \cup failed \cup OfPump(prints) \cup Before(queue', n)
      BY <2>1, <3>4 DEF ScrollInv, PromotedInv
    <3> QED
      BY <1>1, <2>1, <3>2, <3>3, <3>5 DEF ScrollInv, BarrierInv
  <2> QED
    BY <2>4, <2>5, <2>6, <2>7, <2>8 DEF ScrollInv
<1> QED
  BY <1>2, <1>3

LEMMA CancelTurnStep == ASSUME ScrollInv, Scroll!CancelTurn PROVE ScrollInv'
BY DEF Scroll!CancelTurn, Scroll!writer, Scroll!window, ScrollInv, ScrollTyped, LinesInv, WindowInv, PumpInv,
       PromotedInv, OrderInv, BarrierInv

\* The first of the queue is taken: what is promoted after it is still in order.
LEMMA Taken ==
  ASSUME ScrollInv, queue # <<>>, queue' = Tail(queue)
  PROVE  /\ queue' \in Seq(Items) /\ Head(queue) \in Items /\ Head(queue).of \in Nat
         /\ Head(queue) = queue[1] /\ 1 \in DOMAIN queue
         /\ OfQueue(queue') = OfQueue(queue) \ (IF Head(queue).kind = "write" THEN {Head(queue).of} ELSE {})
         /\ Head(queue).kind = "write" => Head(queue).of \in OfQueue(queue) /\ \A y \in OfQueue(queue') : Head(queue).of < y
         /\ \A i \in DOMAIN queue' : queue'[i].kind = "end" => i = Len(queue') /\ ~open
         /\ \A b \in DOMAIN queue' : queue'[b].kind = "barrier" => queue'[b].of \in 1..barriers
         /\ \A b \in DOMAIN queue' : awaited # 0 /\ queue'[b].kind = "barrier" /\ queue'[b].of = awaited =>
              cover \subseteq Of(screen) \cup failed \cup OfPump(prints) \cup Before(queue', b)
                               \cup (IF Head(queue).kind = "write" THEN {Head(queue).of} ELSE {})
         /\ \A i, j \in DOMAIN queue' : i < j /\ queue'[i].kind = "write" /\ queue'[j].kind = "write"
                                        => queue'[i].of < queue'[j].of
<1>1. /\ queue' \in Seq(Items) /\ Len(queue') = Len(queue) - 1 /\ Head(queue) = queue[1] /\ 1 \in DOMAIN queue
      /\ Head(queue) \in Items /\ Head(queue).of \in Nat /\ Len(queue) \in Nat
      /\ \A i \in DOMAIN queue' : i + 1 \in DOMAIN queue /\ queue'[i] = queue[i + 1] /\ i \in Nat /\ i # 0
      /\ \A j \in DOMAIN queue : j = 1 \/ (j - 1 \in DOMAIN queue' /\ queue'[j - 1] = queue[j])
      /\ OfQueue(queue) = OfQueue(queue') \cup (IF Head(queue).kind = "write" THEN {Head(queue).of} ELSE {})
  BY QueueTails DEF ScrollInv, ScrollTyped
<1>2. Head(queue).kind = "write" => Head(queue).of \in OfQueue(queue) /\ \A y \in OfQueue(queue') : Head(queue).of < y
  <2> SUFFICES ASSUME Head(queue).kind = "write", NEW y \in OfQueue(queue') PROVE Head(queue).of < y
    BY <1>1
  <2>1. PICK i \in DOMAIN queue' : queue'[i].kind = "write" /\ queue'[i].of = y
    BY DEF OfQueue
  <2>2. i + 1 \in DOMAIN queue /\ 1 < i + 1 /\ queue[i + 1].kind = "write" /\ queue[i + 1].of = y /\ queue[1].kind = "write"
    BY <1>1, <2>1
  <2> QED
    BY <1>1, <2>2 DEF ScrollInv, OrderInv
<1>3. Head(queue).kind = "write" => Head(queue).of \notin OfQueue(queue')
  BY <1>1, <1>2
<1>4. OfQueue(queue') = OfQueue(queue) \ (IF Head(queue).kind = "write" THEN {Head(queue).of} ELSE {})
  BY <1>1, <1>3
<1>5. \A i \in DOMAIN queue' : queue'[i].kind = "end" => i = Len(queue') /\ ~open
  <2> TAKE i \in DOMAIN queue'
  <2>1. queue[i + 1].kind = "end" => i + 1 = Len(queue) /\ ~open
    BY <1>1 DEF ScrollInv, PumpInv
  <2> QED
    BY <1>1, <2>1
<1>6. \A b \in DOMAIN queue' : queue'[b].kind = "barrier" => queue'[b].of \in 1..barriers
  BY <1>1 DEF ScrollInv, BarrierInv
<1>7. \A b \in DOMAIN queue' : awaited # 0 /\ queue'[b].kind = "barrier" /\ queue'[b].of = awaited =>
        cover \subseteq Of(screen) \cup failed \cup OfPump(prints) \cup Before(queue', b)
                         \cup (IF Head(queue).kind = "write" THEN {Head(queue).of} ELSE {})
  <2> SUFFICES ASSUME NEW b \in DOMAIN queue', awaited # 0, queue'[b].kind = "barrier", queue'[b].of = awaited
               PROVE  cover \subseteq Of(screen) \cup failed \cup OfPump(prints) \cup Before(queue', b)
                                       \cup (IF Head(queue).kind = "write" THEN {Head(queue).of} ELSE {})
    OBVIOUS
  <2>1. cover \subseteq Of(screen) \cup failed \cup OfPump(prints) \cup Before(queue, b + 1)
    BY <1>1 DEF ScrollInv, BarrierInv
  <2>2. ASSUME NEW x \in Before(queue, b + 1)
        PROVE  x \in Before(queue', b) \/ (Head(queue).kind = "write" /\ x = Head(queue).of)
    <3>1. PICK j \in DOMAIN queue : j < b + 1 /\ queue[j].kind = "write" /\ queue[j].of = x
      BY DEF Before
    <3>2. CASE j = 1
      BY <1>1, <3>1, <3>2
    <3>3. CASE j - 1 \in DOMAIN queue' /\ queue'[j - 1] = queue[j]
      <4>1. x \in Nat /\ j - 1 < b
        BY <1>1, <3>1 DEF Before
      <4> QED
        BY <3>1, <3>3, <4>1 DEF Before
    <3> QED
      BY <1>1, <3>2, <3>3
  <2> QED
    BY <2>1, <2>2
<1>8. \A i, j \in DOMAIN queue' : i < j /\ queue'[i].kind = "write" /\ queue'[j].kind = "write"
                                  => queue'[i].of < queue'[j].of
  <2> SUFFICES ASSUME NEW i \in DOMAIN queue', NEW j \in DOMAIN queue', i < j,
                      queue'[i].kind = "write", queue'[j].kind = "write"
               PROVE  queue'[i].of < queue'[j].of
    OBVIOUS
  <2>1. i + 1 < j + 1
    BY <1>1
  <2> QED
    BY <1>1, <2>1 DEF ScrollInv, OrderInv
<1> QED
  BY <1>1, <1>2, <1>4, <1>5, <1>6, <1>7, <1>8

\* Nothing of the pump is with the terminal.
LEMMA IdlePump == ScrollTyped /\ PumpInv /\ pump # "writing" => OfPump(prints) = {}
BY DEF PumpInv, OfPump

LEMMA PumpWritesStep == ASSUME ScrollInv, Scroll!PumpWrites PROVE ScrollInv'
<1> DEFINE x == Head(queue).of
<1>1. /\ UNCHANGED <<app, open, error, timers, said, submitted, awaited, cover, passed, barriers, failed, reported>>
      /\ pump = "idle" /\ queue # <<>> /\ Head(queue).kind = "write" /\ queue' = Tail(queue)
  BY DEF Scroll!PumpWrites, Scroll!asked
<1>2. /\ queue' \in Seq(Items) /\ x \in Nat /\ OfQueue(queue') = OfQueue(queue) \ {x} /\ x \in OfQueue(queue)
      /\ \A y \in OfQueue(queue') : x < y
      /\ \A i \in DOMAIN queue' : queue'[i].kind = "end" => i = Len(queue') /\ ~open
      /\ \A b \in DOMAIN queue' : queue'[b].kind = "barrier" => queue'[b].of \in 1..barriers
      /\ \A b \in DOMAIN queue' : awaited # 0 /\ queue'[b].kind = "barrier" /\ queue'[b].of = awaited =>
           cover \subseteq Of(screen) \cup failed \cup OfPump(prints) \cup Before(queue', b) \cup {x}
      /\ \A i, j \in DOMAIN queue' : i < j /\ queue'[i].kind = "write" /\ queue'[j].kind = "write"
                                     => queue'[i].of < queue'[j].of
  BY <1>1, Taken
<1>3. OfPump(prints) = {} /\ x \in Of(submitted)
  BY <1>1, <1>2, IdlePump DEF ScrollInv, PromotedInv
<1>4. \A y \in Of(screen) \cap Of(submitted) : y < x
  BY <1>2 DEF ScrollInv, OrderInv
<1> HIDE DEF x
<1>5. CASE app # "stopped"
  <2> DEFINE job == [by |-> "pump", lines |-> <<x>>]
  <2>1. /\ pump' = "writing" /\ prints' = Append(prints, job) /\ UNCHANGED <<screen, parts, scheduled, generation>>
    BY <1>1, <1>5 DEF Scroll!PumpWrites, Scroll!Above, x
  <2>2. /\ job \in Above /\ job.by = "pump" /\ job.lines = <<x>> /\ Of(<<x>>) = {x} /\ Once(<<x>>) /\ <<x>>[1] = x
        /\ Len(<<x>>) = 1 /\ prints \in Seq(Above)
    BY <1>2 DEF Above, Of, Once, ScrollInv, ScrollTyped
  <2>3. OfPrints(prints) \cap {x} = {} /\ OncePrints(prints)
    BY <1>2 DEF ScrollInv, LinesInv, Spread
  <2> HIDE DEF job
  <2>4. /\ prints' \in Seq(Above) /\ OfPrints(prints') = OfPrints(prints) \cup {x} /\ OncePrints(prints')
        /\ OfPump(prints') = {x}
    <3>1. Once(job.lines) /\ OfPrints(prints) \cap Of(job.lines) = {} /\ {job.lines[1]} \cap Nat = {x}
      BY <1>2, <2>2, <2>3
    <3>2. /\ Append(prints, job) \in Seq(Above)
          /\ OfPrints(Append(prints, job)) = OfPrints(prints) \cup Of(job.lines)
          /\ OncePrints(Append(prints, job))
          /\ OfPump(Append(prints, job)) = OfPump(prints) \cup ({job.lines[1]} \cap Nat)
      BY <2>2, <2>3, <3>1, PrintsAppend
    <3> QED
      BY <1>3, <2>1, <2>2, <3>1, <3>2
  <2>5. /\ \A i \in DOMAIN prints' : i \in DOMAIN prints \/ i = Len(prints) + 1
        /\ \A i \in DOMAIN prints : prints'[i] = prints[i]
        /\ prints'[Len(prints) + 1] = job
    BY <2>1, <2>2
  <2>6. ScrollTyped'
    BY <1>1, <1>2, <2>1, <2>4 DEF ScrollInv, ScrollTyped
  <2>7. LinesInv'
    BY <1>1, <1>2, <2>1, <2>4 DEF ScrollInv, LinesInv, Spread
  <2>8. WindowInv'
    BY <1>1, <1>5, <2>1 DEF ScrollInv, WindowInv
  <2>9. PumpInv'
    <3>1. \A i \in DOMAIN prints : prints[i].by # "pump"
      BY <1>1 DEF ScrollInv, PumpInv
    <3>2. \A i \in DOMAIN prints' : prints'[i].by = "pump" => i = Len(prints) + 1
      BY <2>5, <3>1
    <3>3. \A i \in DOMAIN prints' : prints'[i].by = "pump" => Len(prints'[i].lines) = 1
      BY <2>2, <2>5, <3>2
    <3> QED
      BY <1>1, <1>2, <2>1, <3>2, <3>3 DEF ScrollInv, PumpInv
  <2>10. PromotedInv'
    BY <1>1, <1>2, <1>3, <2>1, <2>4 DEF ScrollInv, PromotedInv
  <2>11. OrderInv'
    BY <1>1, <1>2, <1>4, <2>1, <2>4 DEF ScrollInv, OrderInv
  <2>12. BarrierInv'
    BY <1>1, <1>2, <1>3, <2>1, <2>4 DEF ScrollInv, BarrierInv
  <2> QED
    BY <2>6, <2>7, <2>8, <2>9, <2>10, <2>11, <2>12 DEF ScrollInv
<1>6. CASE app = "stopped"
  <2>1. /\ parts = <<>> /\ parts' = <<>> /\ scheduled' = FALSE /\ generation' = generation + 1 /\ UNCHANGED <<pump, prints>>
        /\ screen' = screen \o Append(parts, x) /\ prints = <<>>
    BY <1>1, <1>6 DEF Scroll!PumpWrites, Scroll!drained, x, ScrollInv, WindowInv
  <2>2. /\ Append(parts, x) = <<x>> /\ <<x>> \in Seq(Nat) /\ Len(<<x>>) = 1 /\ Of(<<x>>) = {x} /\ Once(<<x>>)
        /\ <<>> \in Seq(Nat) /\ Of(<<>>) = {} /\ screen \in Seq(Nat) /\ screen \o <<>> = screen
    BY <1>2, <2>1 DEF Of, Once, ScrollInv, ScrollTyped
  <2>3. screen' \in Seq(Nat) /\ Of(screen') = Of(screen) \cup {x} /\ Once(screen')
    <3>1. Of(screen) \cap {x} = {} /\ Once(screen)
      BY <1>2 DEF ScrollInv, LinesInv, Spread
    <3> QED
      BY <2>1, <2>2, <3>1, LinesCat
  <2>4. Ordered(screen', Of(submitted))
    <3>1. ScrollTyped /\ LinesInv /\ OrderInv
      BY DEF ScrollInv
    <3>2. Of(<<>>) \cap Of(submitted) = {} /\ \A y \in Of(screen) \cap Of(submitted), z \in Of(<<x>>) \cap Of(submitted) : y < z
      BY <1>4, <2>2
    <3>3. Ordered(screen \o <<>> \o <<x>>, Of(submitted))
      BY <2>2, <3>1, <3>2, ScreenGrows
    <3> QED
      BY <2>1, <2>2, <3>3
  <2>5. ScrollTyped'
    <3>1. generation' \in Nat /\ parts' \in Seq(Nat)
      BY <2>1 DEF ScrollInv, ScrollTyped
    <3> QED
      BY <1>1, <1>2, <2>1, <2>3, <3>1 DEF ScrollInv, ScrollTyped
  <2>6. LinesInv'
    <3>1. UNCHANGED <<parts, prints, failed, said>>
      BY <1>1, <2>1
    <3>2. Once(screen') /\ Once(parts') /\ OncePrints(prints')
      BY <2>3, <3>1 DEF ScrollInv, LinesInv
    <3>3. Spread(Of(screen'), failed, Of(parts), OfPrints(prints), OfQueue(queue'), said)
      BY <1>2, <2>3 DEF ScrollInv, LinesInv, Spread
    <3> QED
      BY <3>1, <3>2, <3>3 DEF LinesInv
  <2>7. WindowInv' /\ PumpInv'
    BY <1>1, <1>2, <2>1 DEF ScrollInv, WindowInv, PumpInv
  <2>8. PromotedInv'
    BY <1>1, <1>2, <1>3, <2>1, <2>3 DEF ScrollInv, PromotedInv
  <2>9. OrderInv'
    <3>1. OfPump(prints') = {} /\ Of(submitted)' = Of(submitted)
      BY <1>1, <1>3, <2>1
    <3>2. \A y \in Of(screen') \cap Of(submitted), z \in OfQueue(queue') : y < z
      BY <1>2, <2>3 DEF ScrollInv, OrderInv
    <3> QED
      BY <1>1, <1>2, <2>4, <3>1, <3>2 DEF OrderInv
  <2>10. BarrierInv'
    BY <1>1, <1>2, <1>3, <2>1, <2>3 DEF ScrollInv, BarrierInv
  <2> QED
    BY <2>5, <2>6, <2>7, <2>8, <2>9, <2>10 DEF ScrollInv
<1> QED
  BY <1>5, <1>6

\* The pump is at the barrier, and what was before it is printed or refused.
LEMMA PumpPassesStep == ASSUME ScrollInv, Scroll!PumpPasses PROVE ScrollInv'
<1>1. /\ UNCHANGED <<app, open, pump, parts, scheduled, generation, timers, prints, screen, said, submitted, cover,
                     barriers, failed>>
      /\ pump = "idle" /\ queue # <<>> /\ Head(queue).kind = "barrier" /\ queue' = Tail(queue)
      /\ IF Head(queue).of = awaited
         THEN awaited' = 0 /\ passed' = cover /\ reported' = (reported \/ error) /\ error' = FALSE
         ELSE UNCHANGED <<awaited, passed, error, reported>>
  BY DEF Scroll!PumpPasses, Scroll!window, Scroll!_raise_pending
<1>2. /\ queue' \in Seq(Items) /\ Head(queue) = queue[1] /\ 1 \in DOMAIN queue
      /\ OfQueue(queue') = OfQueue(queue)
      /\ \A i \in DOMAIN queue' : queue'[i].kind = "end" => i = Len(queue') /\ ~open
      /\ \A b \in DOMAIN queue' : queue'[b].kind = "barrier" => queue'[b].of \in 1..barriers
      /\ \A b \in DOMAIN queue' : awaited # 0 /\ queue'[b].kind = "barrier" /\ queue'[b].of = awaited =>
           cover \subseteq Of(screen) \cup failed \cup OfPump(prints) \cup Before(queue', b)
      /\ \A i, j \in DOMAIN queue' : i < j /\ queue'[i].kind = "write" /\ queue'[j].kind = "write"
                                     => queue'[i].of < queue'[j].of
  BY <1>1, Taken
<1>3. awaited' \in {0, awaited} /\ passed' \in {passed, cover} /\ (passed' = cover /\ passed' # passed => Head(queue).of = awaited)
      /\ error' \in BOOLEAN /\ reported' \in BOOLEAN /\ (error \/ reported => error' \/ reported') /\ (~error => ~error')
  <2>1. (reported \/ error) \in BOOLEAN /\ FALSE \in BOOLEAN /\ error \in BOOLEAN /\ reported \in BOOLEAN
    BY DEF ScrollInv, ScrollTyped
  <2> QED
    BY <1>1, <2>1
<1>4. ScrollTyped'
  BY <1>1, <1>2, <1>3 DEF ScrollInv, ScrollTyped
<1>5. LinesInv' /\ WindowInv' /\ PromotedInv' /\ OrderInv'
  BY <1>1, <1>2 DEF ScrollInv, LinesInv, WindowInv, PromotedInv, OrderInv
<1>6. PumpInv'
  BY <1>1, <1>2, <1>3 DEF ScrollInv, PumpInv
<1>7. BarrierInv'
  <2>1. passed' \subseteq Of(screen) \cup failed
    <3>1. CASE Head(queue).of = awaited
      <4>1. OfPump(prints) = {}
        BY <1>1, IdlePump DEF ScrollInv
      <4>2. Before(queue, 1) = {}
        <5>1. \A i \in DOMAIN queue : ~(i < 1)
          BY DEF ScrollInv, ScrollTyped
        <5> QED
          BY <5>1 DEF Before
      <4>3. awaited # 0
        BY <1>1, <1>2, <3>1 DEF ScrollInv, BarrierInv
      <4> QED
        BY <1>1, <1>2, <3>1, <4>1, <4>2, <4>3 DEF ScrollInv, BarrierInv
    <3>2. CASE Head(queue).of # awaited
      BY <1>1, <3>2 DEF ScrollInv, BarrierInv
    <3> QED
      BY <3>1, <3>2
  <2>2. awaited' <= barriers
    BY <1>3 DEF ScrollInv, BarrierInv, ScrollTyped
  <2> QED
    BY <1>1, <1>2, <1>3, <2>1, <2>2 DEF BarrierInv
<1> QED
  BY <1>4, <1>5, <1>6, <1>7 DEF ScrollInv

LEMMA PumpEndsStep == ASSUME ScrollInv, Scroll!PumpEnds PROVE ScrollInv'
<1>1. /\ UNCHANGED <<app, open, parts, scheduled, generation, timers, prints, screen, said, submitted, awaited, cover,
                     passed, barriers, failed>>
      /\ pump = "idle" /\ queue # <<>> /\ Head(queue).kind = "end" /\ queue' = Tail(queue) /\ pump' = "ended"
      /\ reported' = (reported \/ error) /\ error' = FALSE
  BY DEF Scroll!PumpEnds, Scroll!window, Scroll!asked, Scroll!_raise_pending
<1>2. /\ queue' \in Seq(Items) /\ Head(queue) = queue[1] /\ 1 \in DOMAIN queue
      /\ OfQueue(queue') = OfQueue(queue)
      /\ \A i \in DOMAIN queue' : queue'[i].kind = "end" => i = Len(queue') /\ ~open
      /\ \A b \in DOMAIN queue' : queue'[b].kind = "barrier" => queue'[b].of \in 1..barriers
      /\ \A b \in DOMAIN queue' : awaited # 0 /\ queue'[b].kind = "barrier" /\ queue'[b].of = awaited =>
           cover \subseteq Of(screen) \cup failed \cup OfPump(prints) \cup Before(queue', b)
      /\ \A i, j \in DOMAIN queue' : i < j /\ queue'[i].kind = "write" /\ queue'[j].kind = "write"
                                     => queue'[i].of < queue'[j].of
  BY <1>1, Taken
<1>3. 1 = Len(queue) /\ ~open
  BY <1>1, <1>2 DEF ScrollInv, PumpInv
<1>4. queue' = <<>>
  <2>1. Len(queue') = 0
    BY <1>1, <1>3, QueueTails DEF ScrollInv, ScrollTyped
  <2> QED
    BY <1>2, <2>1
<1>5. (reported \/ error) \in BOOLEAN
  OBVIOUS
<1>6. error' \in BOOLEAN /\ reported' \in BOOLEAN
  BY <1>1, <1>5
<1>7. ScrollTyped'
  BY <1>1, <1>2, <1>6 DEF ScrollInv, ScrollTyped
<1>8. LinesInv' /\ WindowInv' /\ PromotedInv' /\ OrderInv' /\ BarrierInv'
  BY <1>1, <1>2 DEF ScrollInv, LinesInv, WindowInv, PromotedInv, OrderInv, BarrierInv
<1>9. PumpInv'
  <2>1. \A i \in DOMAIN prints : prints[i].by # "pump"
    BY <1>1 DEF ScrollInv, PumpInv
  <2>2. failed' # {} => error' \/ reported'
    BY <1>1 DEF ScrollInv, PumpInv
  <2> QED
    BY <1>1, <1>2, <1>3, <1>4, <2>1, <2>2 DEF PumpInv
<1> QED
  BY <1>7, <1>8, <1>9 DEF ScrollInv

\* One print more is made: of the window, or of the pump after what the window held.
LEMMA TerminalPrintsStep == ASSUME ScrollInv, Scroll!TerminalPrints PROVE ScrollInv'
<1> DEFINE job == Head(prints)
<1>1. /\ UNCHANGED <<app, open, queue, error, timers, said, submitted, awaited, cover, passed, barriers, failed, reported>>
      /\ prints # <<>> /\ prints' = Tail(prints)
      /\ IF job.by = "pump"
         THEN /\ parts' = <<>> /\ scheduled' = FALSE /\ generation' = generation + 1
              /\ screen' = screen \o parts \o job.lines /\ pump' = "idle"
         ELSE screen' = screen \o job.lines /\ UNCHANGED <<pump, parts, scheduled, generation>>
  BY DEF Scroll!TerminalPrints, Scroll!drained, Scroll!asked
<1>2. /\ prints' \in Seq(Above) /\ job.lines \in Seq(Nat) /\ job = prints[1] /\ 1 \in DOMAIN prints
      /\ \A i \in DOMAIN prints' : i + 1 \in DOMAIN prints /\ prints'[i] = prints[i + 1] /\ i \in Nat /\ i # 0
      /\ OfPrints(prints') = OfPrints(prints) \ Of(job.lines) /\ Of(job.lines) \subseteq OfPrints(prints)
      /\ Once(job.lines) /\ OncePrints(prints')
      /\ OfPump(prints') \subseteq OfPump(prints)
      /\ \A x \in OfPump(prints) : x \in OfPump(prints') \/ (job.by = "pump" /\ x = job.lines[1])
  BY <1>1, PrintsTail DEF ScrollInv, ScrollTyped, LinesInv
<1>3. app # "stopped"
  BY <1>1 DEF ScrollInv, WindowInv
<1> HIDE DEF job
<1>4. CASE job.by = "pump"
  <2>1. /\ parts' = <<>> /\ scheduled' = FALSE /\ generation' = generation + 1
        /\ screen' = (screen \o parts) \o job.lines /\ pump' = "idle"
    BY <1>1, <1>4
  <2>2. Len(job.lines) = 1 /\ pump = "writing" /\ \A i \in DOMAIN prints' : prints'[i].by # "pump"
    <3>1. \A i \in DOMAIN prints' : i + 1 # 1
      BY <1>2
    <3> QED
      BY <1>2, <1>4, <3>1 DEF ScrollInv, PumpInv
  <2>3. OfPump(prints') = {}
    BY <2>2 DEF OfPump
  <2>4. Of(job.lines) = {job.lines[1]} /\ 1 \in DOMAIN job.lines
    BY <1>2, <2>2 DEF Of
  <2>5. screen \in Seq(Nat) /\ parts \in Seq(Nat) /\ Once(screen) /\ Once(parts) /\ Of(screen) \cap Of(parts) = {}
        /\ Of(screen) \cap Of(job.lines) = {} /\ Of(parts) \cap Of(job.lines) = {}
    BY <1>2 DEF ScrollInv, ScrollTyped, LinesInv, Spread
  <2>6. screen' \in Seq(Nat) /\ Of(screen') = Of(screen) \cup Of(parts) \cup Of(job.lines) /\ Once(screen')
    <3>1. screen \o parts \in Seq(Nat) /\ Of(screen \o parts) = Of(screen) \cup Of(parts) /\ Once(screen \o parts)
      BY <2>5, LinesCat
    <3>2. Of(screen \o parts) \cap Of(job.lines) = {}
      BY <2>5, <3>1
    <3> QED
      BY <1>2, <2>1, <3>1, <3>2, LinesCat
  <2>7. parts' \in Seq(Nat) /\ Of(parts') = {} /\ Once(parts') /\ generation' \in Nat
    BY <2>1 DEF Of, Once, ScrollInv, ScrollTyped
  <2>8. job.lines[1] \in OfPump(prints)
    BY <1>2, <1>4, <2>4 DEF OfPump
  <2>9. ScrollTyped'
    BY <1>1, <1>2, <2>1, <2>6, <2>7 DEF ScrollInv, ScrollTyped
  <2>10. LinesInv'
    <3>1. Spread(Of(screen'), failed, Of(parts'), OfPrints(prints'), OfQueue(queue), said)
      BY <1>2, <2>6, <2>7 DEF ScrollInv, LinesInv, Spread
    <3> QED
      BY <1>1, <1>2, <2>6, <2>7, <3>1 DEF LinesInv
  <2>11. WindowInv'
    BY <1>1, <1>3, <2>1 DEF WindowInv
  <2>12. PumpInv'
    BY <1>1, <2>1, <2>2 DEF ScrollInv, PumpInv
  <2>13. PromotedInv'
    <3>1. OfPump(prints) \subseteq Of(screen')
      BY <1>2, <2>3, <2>4, <2>6
    <3> QED
      BY <1>1, <2>3, <2>6, <3>1 DEF ScrollInv, PromotedInv
  <2>14. OrderInv'
    <3>1. ScrollTyped /\ LinesInv /\ OrderInv /\ Of(parts) \cap Of(submitted) = {}
      BY WindowIsPlain DEF ScrollInv
    <3>2. \A x \in Of(screen) \cap Of(submitted), y \in Of(job.lines) \cap Of(submitted) : x < y
      BY <2>4, <2>8 DEF ScrollInv, OrderInv
    <3>3. Ordered(screen', Of(submitted))
      BY <1>2, <2>1, <2>2, <2>5, <3>1, <3>2, ScreenGrows
    <3>4. \A x \in Of(screen') \cap Of(submitted), y \in OfQueue(queue) : x < y
      BY <2>4, <2>6, <2>8, <3>1 DEF OrderInv
    <3>5. \A i, j \in DOMAIN queue : i < j /\ queue[i].kind = "write" /\ queue[j].kind = "write" => queue[i].of < queue[j].of
      BY DEF ScrollInv, OrderInv
    <3> QED
      BY <1>1, <2>3, <3>3, <3>4, <3>5 DEF OrderInv
  <2>15. BarrierInv'
    <3>1. OfPump(prints) \subseteq Of(screen') /\ Of(screen) \subseteq Of(screen')
      BY <1>2, <2>3, <2>4, <2>6
    <3> QED
      BY <1>1, <3>1 DEF ScrollInv, BarrierInv
  <2> QED
    BY <2>9, <2>10, <2>11, <2>12, <2>13, <2>14, <2>15 DEF ScrollInv
<1>5. CASE job.by # "pump"
  <2>1. screen' = screen \o job.lines /\ UNCHANGED <<pump, parts, scheduled, generation>>
    BY <1>1, <1>5
  <2>2. OfPump(prints') = OfPump(prints)
    BY <1>2, <1>5
  <2>3. screen \in Seq(Nat) /\ Once(screen) /\ Of(screen) \cap Of(job.lines) = {}
    BY <1>2 DEF ScrollInv, ScrollTyped, LinesInv, Spread
  <2>4. screen' \in Seq(Nat) /\ Of(screen') = Of(screen) \cup Of(job.lines) /\ Once(screen')
    BY <1>2, <2>1, <2>3, LinesCat
  <2>5. Of(job.lines) \cap Of(submitted) = {}
    BY <1>2, <1>5, WindowIsPlain
  <2>6. ScrollTyped'
    BY <1>1, <1>2, <2>1, <2>4 DEF ScrollInv, ScrollTyped
  <2>7. LinesInv'
    <3>1. Spread(Of(screen'), failed, Of(parts), OfPrints(prints'), OfQueue(queue), said)
      BY <1>2, <2>4 DEF ScrollInv, LinesInv, Spread
    <3> QED
      BY <1>1, <1>2, <2>1, <2>4, <3>1 DEF ScrollInv, LinesInv
  <2>8. WindowInv'
    BY <1>1, <1>3, <2>1 DEF ScrollInv, WindowInv
  <2>9. PumpInv'
    <3>1. \A i, j \in DOMAIN prints' : i + 1 = j + 1 => i = j
      BY <1>2
    <3>2. \A i, j \in DOMAIN prints' : prints'[i].by = "pump" /\ prints'[j].by = "pump" => i = j
      BY <1>2, <3>1 DEF ScrollInv, PumpInv
    <3>3. \A i \in DOMAIN prints' : prints'[i].by = "pump" => pump = "writing" /\ Len(prints'[i].lines) = 1
      BY <1>2 DEF ScrollInv, PumpInv
    <3> QED
      BY <1>1, <2>1, <3>2, <3>3 DEF ScrollInv, PumpInv
  <2>10. PromotedInv'
    BY <1>1, <2>2, <2>4 DEF ScrollInv, PromotedInv
  <2>11. OrderInv'
    <3>1. ScrollTyped /\ LinesInv /\ OrderInv
      BY DEF ScrollInv
    <3>2. Of(<<>>) = {} /\ <<>> \in Seq(Nat)
      BY DEF Of
    <3>3. Ordered(screen \o job.lines, Of(submitted))
      BY <1>2, <2>3, <2>5, <3>1, <3>2, ScreenGrows
    <3> QED
      BY <1>1, <2>1, <2>2, <2>4, <2>5, <3>3 DEF ScrollInv, OrderInv
  <2>12. BarrierInv'
    BY <1>1, <2>2, <2>4 DEF ScrollInv, BarrierInv
  <2> QED
    BY <2>6, <2>7, <2>8, <2>9, <2>10, <2>11, <2>12 DEF ScrollInv
<1> QED
  BY <1>4, <1>5

\* The terminal refuses the pump's write, and perhaps what the window held before it.
LEMMA TerminalRefusesStep == ASSUME ScrollInv, Scroll!TerminalRefuses PROVE ScrollInv'
<1> DEFINE job == Head(prints)
<1>1. /\ UNCHANGED <<app, open, queue, timers, said, submitted, awaited, cover, passed, barriers, reported>>
      /\ prints # <<>> /\ prints' = Tail(prints) /\ job.by = "pump" /\ pump' = "idle" /\ error' = TRUE
      /\ parts' = <<>> /\ scheduled' = FALSE /\ generation' = generation + 1
      /\ \/ screen' = screen /\ failed' = failed \cup Of(parts \o job.lines)
         \/ screen' = screen \o parts /\ failed' = failed \cup Of(job.lines)
  BY DEF Scroll!TerminalRefuses, Scroll!drained, Scroll!asked, Scroll!ToSet, Of
<1>2. /\ prints' \in Seq(Above) /\ job.lines \in Seq(Nat) /\ job = prints[1] /\ 1 \in DOMAIN prints
      /\ \A i \in DOMAIN prints' : i + 1 \in DOMAIN prints /\ prints'[i] = prints[i + 1] /\ i \in Nat /\ i # 0
      /\ OfPrints(prints') = OfPrints(prints) \ Of(job.lines) /\ Of(job.lines) \subseteq OfPrints(prints)
      /\ Once(job.lines) /\ OncePrints(prints')
      /\ OfPump(prints') \subseteq OfPump(prints)
      /\ \A x \in OfPump(prints) : x \in OfPump(prints') \/ (job.by = "pump" /\ x = job.lines[1])
  BY <1>1, PrintsTail DEF ScrollInv, ScrollTyped, LinesInv
<1>3. app # "stopped"
  BY <1>1 DEF ScrollInv, WindowInv
<1> HIDE DEF job
<1>4. Len(job.lines) = 1 /\ \A i \in DOMAIN prints' : prints'[i].by # "pump"
  <2>1. \A i \in DOMAIN prints' : i + 1 # 1
    BY <1>2
  <2> QED
    BY <1>1, <1>2, <2>1 DEF ScrollInv, PumpInv
<1>5. OfPump(prints') = {}
  BY <1>4 DEF OfPump
<1>6. Of(job.lines) = {job.lines[1]} /\ 1 \in DOMAIN job.lines
  BY <1>2, <1>4 DEF Of
<1>7. /\ screen \in Seq(Nat) /\ parts \in Seq(Nat) /\ Once(screen) /\ Once(parts) /\ Of(screen) \cap Of(parts) = {}
      /\ Of(job.lines) \subseteq Nat /\ Of(parts) \subseteq Nat
  <2>1. screen \in Seq(Nat) /\ parts \in Seq(Nat) /\ Once(screen) /\ Once(parts) /\ Of(screen) \cap Of(parts) = {}
    BY DEF ScrollInv, ScrollTyped, LinesInv, Spread
  <2>2. Of(parts) \subseteq Nat
    BY <2>1 DEF Of
  <2>3. Of(job.lines) \subseteq Nat
    BY <1>2 DEF Of
  <2> QED
    BY <2>1, <2>2, <2>3
<1>8. /\ screen' \in Seq(Nat) /\ Once(screen') /\ Ordered(screen', Of(submitted))
      /\ \/ Of(screen') = Of(screen) /\ failed' = failed \cup Of(parts) \cup Of(job.lines)
         \/ Of(screen') = Of(screen) \cup Of(parts) /\ failed' = failed \cup Of(job.lines)
  <2>1. CASE screen' = screen /\ failed' = failed \cup Of(parts \o job.lines)
    <3>1. Of(parts \o job.lines) = Of(parts) \cup Of(job.lines)
      BY <1>2, <1>7, LinesCat
    <3> QED
      BY <1>7, <2>1, <3>1 DEF ScrollInv, OrderInv
  <2>2. CASE screen' = screen \o parts /\ failed' = failed \cup Of(job.lines)
    <3>1. screen' \in Seq(Nat) /\ Of(screen') = Of(screen) \cup Of(parts) /\ Once(screen')
      BY <1>7, <2>2, LinesCat
    <3>2. ScrollTyped /\ LinesInv /\ OrderInv /\ Of(parts) \cap Of(submitted) = {} /\ Of(<<>>) = {} /\ <<>> \in Seq(Nat)
      BY WindowIsPlain DEF ScrollInv, Of
    <3>3. Ordered(screen \o parts, Of(submitted))
      BY <1>7, <3>2, ScreenGrows
    <3> QED
      BY <2>2, <3>1, <3>3
  <2> QED
    BY <1>1, <2>1, <2>2
<1>9. parts' \in Seq(Nat) /\ Of(parts') = {} /\ Once(parts') /\ generation' \in Nat
  BY <1>1 DEF Of, Once, ScrollInv, ScrollTyped
<1>10. ScrollTyped'
  BY <1>1, <1>2, <1>7, <1>8, <1>9 DEF ScrollInv, ScrollTyped
<1>11. LinesInv'
  <2>1. Spread(Of(screen'), failed', Of(parts'), OfPrints(prints'), OfQueue(queue), said)
    BY <1>2, <1>8, <1>9 DEF ScrollInv, LinesInv, Spread
  <2> QED
    BY <1>1, <1>2, <1>8, <1>9, <2>1 DEF LinesInv
<1>12. WindowInv'
  BY <1>1, <1>3 DEF WindowInv
<1>13. PumpInv'
  BY <1>1, <1>4 DEF ScrollInv, PumpInv
<1>14. OfPump(prints) \subseteq failed' /\ Of(screen) \cup failed \subseteq Of(screen') \cup failed'
  BY <1>2, <1>5, <1>6, <1>8
<1>15. PromotedInv'
  <2>1. Of(submitted) \subseteq Of(screen') \cup failed' \cup OfPump(prints') \cup OfQueue(queue)
    BY <1>14 DEF ScrollInv, PromotedInv
  <2>2. OfPump(prints') \cup OfQueue(queue) \subseteq Of(submitted)
    BY <1>5 DEF ScrollInv, PromotedInv
  <2> QED
    BY <1>1, <2>1, <2>2 DEF PromotedInv
<1>16. OrderInv'
  <2>1. Of(screen') \cap Of(submitted) \subseteq Of(screen) \cap Of(submitted)
    BY <1>8, WindowIsPlain
  <2> QED
    BY <1>1, <1>5, <1>8, <2>1 DEF ScrollInv, OrderInv
<1>17. BarrierInv'
  <2>1. passed \subseteq Of(screen') \cup failed'
    BY <1>14 DEF ScrollInv, BarrierInv
  <2>2. \A b \in DOMAIN queue : awaited # 0 /\ queue[b].kind = "barrier" /\ queue[b].of = awaited =>
          cover \subseteq Of(screen') \cup failed' \cup OfPump(prints') \cup Before(queue, b)
    BY <1>14 DEF ScrollInv, BarrierInv
  <2> QED
    BY <1>1, <2>1, <2>2 DEF ScrollInv, BarrierInv
<1> QED
  BY <1>10, <1>11, <1>12, <1>13, <1>15, <1>16, <1>17 DEF ScrollInv

LEMMA CloseWriterStep == ASSUME ScrollInv, Scroll!CloseWriter PROVE ScrollInv'
<1> DEFINE item == [kind |-> "end", of |-> 0]
           n    == Len(queue) + 1
<1>1. /\ UNCHANGED <<app, pump, error, parts, scheduled, generation, timers, prints, screen, said, submitted, awaited,
                     cover, passed, barriers, failed, reported>>
      /\ open /\ awaited = 0 /\ open' = FALSE /\ queue' = Append(queue, item)
  BY DEF Scroll!CloseWriter, Scroll!window, Scroll!asked, Scroll!End
<1>2. queue \in Seq(Items) /\ item \in Items /\ item.kind = "end" /\ n \in Nat
  BY DEF Items, ScrollInv, ScrollTyped
<1> HIDE DEF item
<1>3. /\ queue' \in Seq(Items) /\ Len(queue') = n
      /\ \A i \in DOMAIN queue : queue'[i] = queue[i] /\ i \in DOMAIN queue' /\ i < n /\ i \in Nat
      /\ queue'[n] = item
      /\ \A i \in DOMAIN queue' : i \in DOMAIN queue \/ i = n
  BY <1>1, <1>2, QueueAppends
<1>4. OfQueue(queue') = OfQueue(queue)
  <2>1. OfQueue(queue') = OfQueue(queue) \cup (IF item.kind = "write" THEN {item.of} ELSE {})
    BY <1>1, <1>2, QueueAppends
  <2> QED
    BY <1>2, <2>1
<1>5. ScrollTyped'
  BY <1>1, <1>3 DEF ScrollInv, ScrollTyped
<1>6. LinesInv' /\ WindowInv' /\ PromotedInv'
  BY <1>1, <1>4 DEF ScrollInv, LinesInv, WindowInv, PromotedInv
<1>7. PumpInv'
  <2>1. pump # "ended" /\ \A i \in DOMAIN queue : queue[i].kind # "end"
    BY <1>1 DEF ScrollInv, PumpInv
  <2>2. \A i \in DOMAIN queue' : queue'[i].kind = "end" => i = Len(queue')
    BY <1>3, <2>1
  <2> QED
    BY <1>1, <2>1, <2>2 DEF ScrollInv, PumpInv
<1>8. OrderInv'
  <2>1. \A i \in DOMAIN queue' : queue'[i].kind = "write" => i \in DOMAIN queue /\ queue'[i] = queue[i]
    BY <1>2, <1>3
  <2> QED
    BY <1>1, <1>4, <2>1 DEF ScrollInv, OrderInv
<1>9. BarrierInv'
  <2>1. \A b \in DOMAIN queue' : queue'[b].kind = "barrier" => b \in DOMAIN queue /\ queue'[b] = queue[b]
    BY <1>2, <1>3
  <2> QED
    BY <1>1, <2>1 DEF ScrollInv, BarrierInv
<1> QED
  BY <1>5, <1>6, <1>7, <1>8, <1>9 DEF ScrollInv

LEMMA ExitStep == ASSUME ScrollInv, Scroll!Exit PROVE ScrollInv'
BY DEF Scroll!Exit, Scroll!writer, Scroll!window, Scroll!asked, ScrollInv, ScrollTyped, LinesInv, WindowInv, PumpInv,
       PromotedInv, OrderInv, BarrierInv

LEMMA StopStep == ASSUME ScrollInv, Scroll!Stop PROVE ScrollInv'
<1>1. /\ UNCHANGED <<open, queue, pump, error, timers, prints, said, submitted, awaited, cover, passed, barriers, failed,
                     reported>>
      /\ prints = <<>> /\ app' = "stopped"
      /\ parts' = <<>> /\ scheduled' = FALSE /\ generation' = generation + 1 /\ screen' = screen \o parts
  BY DEF Scroll!Stop, Scroll!drained, Scroll!writer, Scroll!asked
<1>2. screen \in Seq(Nat) /\ parts \in Seq(Nat) /\ Once(screen) /\ Once(parts) /\ Of(screen) \cap Of(parts) = {}
  BY DEF ScrollInv, ScrollTyped, LinesInv, Spread
<1>3. screen' \in Seq(Nat) /\ Of(screen') = Of(screen) \cup Of(parts) /\ Once(screen')
  BY <1>1, <1>2, LinesCat
<1>4. parts' \in Seq(Nat) /\ Of(parts') = {} /\ Once(parts') /\ generation' \in Nat
  BY <1>1 DEF Of, Once, ScrollInv, ScrollTyped
<1>5. ScrollTyped'
  BY <1>1, <1>3, <1>4 DEF ScrollInv, ScrollTyped
<1>6. LinesInv'
  <2>1. Spread(Of(screen'), failed, Of(parts'), OfPrints(prints), OfQueue(queue), said)
    BY <1>3, <1>4 DEF ScrollInv, LinesInv, Spread
  <2> QED
    BY <1>1, <1>3, <1>4, <2>1 DEF ScrollInv, LinesInv
<1>7. WindowInv' /\ PumpInv'
  BY <1>1 DEF ScrollInv, WindowInv, PumpInv
<1>8. PromotedInv' /\ BarrierInv'
  BY <1>1, <1>3 DEF ScrollInv, PromotedInv, BarrierInv
<1>9. OrderInv'
  <2>1. ScrollTyped /\ LinesInv /\ OrderInv /\ Of(parts) \cap Of(submitted) = {} /\ Of(<<>>) = {} /\ <<>> \in Seq(Nat)
    BY WindowIsPlain DEF ScrollInv, Of
  <2>2. Ordered(screen \o parts, Of(submitted))
    BY <1>2, <2>1, ScreenGrows
  <2> QED
    BY <1>1, <1>3, <2>1, <2>2 DEF OrderInv
<1> QED
  BY <1>5, <1>6, <1>7, <1>8, <1>9 DEF ScrollInv

-----------------------------------------------------------------------------
LEMMA ScrollStart == Scroll!Init => ScrollInv
<1> SUFFICES ASSUME Scroll!Init PROVE ScrollInv
  OBVIOUS
<1>1. /\ app = "running" /\ open = TRUE /\ queue = <<>> /\ pump = "idle" /\ error = FALSE
      /\ parts = <<>> /\ scheduled = FALSE /\ generation = 0 /\ timers = {} /\ prints = <<>> /\ screen = <<>>
      /\ said = 0 /\ submitted = <<>> /\ awaited = 0 /\ cover = {} /\ passed = {} /\ barriers = 0 /\ failed = {}
      /\ reported = FALSE
  BY DEF Scroll!Init
<1>2. ScrollTyped
  <2>1. <<>> \in Seq(Nat) /\ <<>> \in Seq(Items) /\ <<>> \in Seq(Above) /\ {} \in SUBSET Soon /\ {} \in SUBSET Nat
    OBVIOUS
  <2> QED
    BY <1>1, <2>1 DEF ScrollTyped
<1>3. Of(<<>>) = {} /\ OfPrints(<<>>) = {} /\ OfQueue(<<>>) = {} /\ OfPump(<<>>) = {} /\ 1..0 = {}
  BY DEF Of, OfPrints, OfQueue, OfPump
<1>4. LinesInv
  BY <1>1, <1>3 DEF LinesInv, Spread, Once, OncePrints
<1>5. WindowInv /\ PumpInv /\ PromotedInv /\ OrderInv /\ BarrierInv
  BY <1>1, <1>3 DEF WindowInv, PumpInv, PromotedInv, OrderInv, Ordered, BarrierInv
<1> QED
  BY <1>2, <1>4, <1>5 DEF ScrollInv

\* What the invariant is for.
LEMMA ScrollKept == ScrollInv => Scroll!ScrollbackSound
<1> SUFFICES ASSUME ScrollInv PROVE Scroll!ScrollbackSound
  OBVIOUS
<1>1. Scroll!BarrierHolds
  BY DEF ScrollInv, BarrierInv, Scroll!BarrierHolds, Scroll!ToSet, Of
<1>2. Scroll!WindowTimed
  BY DEF ScrollInv, WindowInv, Scroll!WindowTimed
<1>3. Scroll!NothingLost
  <2>1. Scroll!IsInjective(screen)
    BY DEF ScrollInv, LinesInv, Once, Scroll!IsInjective
  <2>2. ASSUME app = "stopped", pump = "ended" PROVE Scroll!ToSet(screen) \cup failed = 1..said
    <3>1. parts = <<>> /\ prints = <<>> /\ queue = <<>>
      BY <2>2 DEF ScrollInv, WindowInv, PumpInv
    <3>2. Of(parts) = {} /\ OfPrints(prints) = {} /\ OfQueue(queue) = {}
      BY <3>1 DEF Of, OfPrints, OfQueue
    <3>3. Of(screen) \cup failed = 1..said
      BY <3>2 DEF ScrollInv, LinesInv, Spread
    <3> QED
      BY <3>3 DEF Of, Scroll!ToSet
  <2>3. pump = "ended" /\ failed # {} => reported
    BY DEF ScrollInv, PumpInv
  <2> QED
    BY <2>1, <2>2, <2>3 DEF Scroll!NothingLost
<1>4. Scroll!PromotedInOrder
  BY DEF ScrollInv, OrderInv, Ordered, Scroll!PromotedInOrder, Scroll!Promoted, Scroll!ToSet, Of
<1> QED
  BY <1>1, <1>2, <1>3, <1>4 DEF Scroll!ScrollbackSound

ScrollbackInv == about \in {"row", "scrollback"} /\ (about = "scrollback" => ScrollInv)

LEMMA ScrollSteps == ScrollbackInv /\ [TerminalNext]_allVars => ScrollbackInv'
<1> SUFFICES ASSUME ScrollbackInv, [TerminalNext]_allVars PROVE ScrollbackInv'
  OBVIOUS
<1>1. CASE UNCHANGED <<about, scrollVars>>
  BY <1>1 DEF ScrollbackInv, ScrollInv, scrollVars, ScrollTyped, LinesInv, WindowInv, PumpInv, PromotedInv, OrderInv,
              BarrierInv
<1>2. CASE ScrollNext
  <2>1. about = "scrollback" /\ about' = about /\ ScrollInv
    BY <1>2 DEF ScrollNext, InScroll, ScrollbackInv
  <2>2. ScrollInv'
    BY <1>2, <2>1, SayStep, ScheduleStep, FlushStep, PromoteStep, AwaitStep, CancelTurnStep, PumpWritesStep,
       PumpPassesStep, PumpEndsStep, TerminalPrintsStep, TerminalRefusesStep, CloseWriterStep, ExitStep, StopStep
    DEF ScrollNext
  <2> QED
    BY <2>1, <2>2 DEF ScrollbackInv
<1>3. CASE RowNext
  <2>1. UNCHANGED <<about, scrollVars>>
    BY <1>3 DEF RowNext, InRow
  <2> QED
    BY <1>1, <2>1
<1> QED
  BY <1>1, <1>2, <1>3 DEF TerminalNext, allVars

\* ScrollbackHolds: however lines are said and promoted, drained, timed, refused and cancelled, and
\* wherever the application ends: past its barrier the turn finds what it had promoted, a line in
\* the window has a callback on its way, none is printed twice or lost, and what was promoted comes
\* out in the order of its promotion.
THEOREM ScrollbackHolds == TerminalSpec => []ScrollbackSound
<1>1. TerminalInit => ScrollbackInv
  BY ScrollStart DEF TerminalInit, ScrollbackInv
<1>2. ScrollbackInv /\ [TerminalNext]_allVars => ScrollbackInv'
  BY ScrollSteps
<1>3. ScrollbackInv => ScrollbackSound
  BY ScrollKept DEF ScrollbackInv, ScrollbackSound
<1> QED
  BY <1>1, <1>2, <1>3, PTL DEF TerminalSpec

-----------------------------------------------------------------------------
(***************************************************************************)
(* The input row and the modal.                                            *)
(***************************************************************************)
\* Terminal: what each variable holds.
Modes     == {"chat", "dispatch", "running"}
Places    == {"off", "work", "probe", "start", "waitInput", "waitModal", "input", "modal"}
Reasons   == {"none", "turn", "queued", "dispatch", "list", "approve", "ask", "view"}
Queues    == Seq(Row!Tasks)

RowTyped ==
  /\ mode \in Modes \cup {"approval"} /\ text \in Row!Texts /\ leftText \in Row!Texts
  /\ saved \in [mode : Modes, text : Row!Texts]
  /\ form \in BOOLEAN /\ focus \in Row!Actions /\ reply \in {"pending", "cancel"} \cup Row!Actions \cup Row!Texts
  /\ modal \in Row!Tasks \cup {Row!NoTask} /\ overtaken \in BOOLEAN /\ exiting \in BOOLEAN
  /\ waiters \in Queues /\ ready \in Queues
  /\ task \in [Row!Tasks -> [at : Places, for : Reasons]]
  /\ outside.text \in Row!Texts
  /\ \A a \in Row!Tasks : task[a].at = "off" => task[a] = Row!Off

\* The request for input, its form and its answer.
PromptInv ==
  /\ mode = "approval" <=> task["turn"].at = "input"
  /\ form => \/ task["turn"].at = "off" /\ exiting
             \/ task["turn"].at \in {"waitInput", "input"} /\ task["turn"].for = "approve"
  /\ task["turn"].at \in {"waitInput", "input"} => /\ task["turn"].for \in {"approve", "ask"}
                                                   /\ form = (task["turn"].for = "approve")
  /\ task["turn"].at = "input" /\ reply = "" => by = "enter"
  /\ task["command"].at # "off" /\ task["command"].for = "dispatch" => task["turn"].at = "off"

\* What the user left is in the row, or is what the row gets back.
DraftInv == ~overtaken => IF task["turn"].at = "input" THEN saved.text = leftText ELSE text = leftText

\* Of three tasks that may want the screen at once, one does not.
RoomInv == \E c \in Row!Tasks : task[c].at \in {"off", "work", "probe"}

\* A queue has a task once, and for a reason.
Waiting == {a \in Row!Tasks : task[a].at \in {"waitInput", "waitModal"}}
QueueInv ==
  /\ Once(waiters) /\ Once(ready)
  /\ Of(waiters) \cap Of(ready) = {} /\ Of(waiters) \subseteq Waiting
  /\ \A a \in Of(ready) : task[a].at \in {"start", "waitInput", "waitModal", "modal", "input"}
  /\ "turn" \in Of(ready) /\ task["turn"].at = "input" => reply # "pending"

\* The visible modal and those that wait for it; who is woken after it is the first to resume,
\* before another task can open a modal.
First(q, W) == \A i \in DOMAIN q : q[i] \in W => i = 1
ModalInv ==
  /\ \A a \in Row!Tasks : task[a].at = "modal" /\ a \notin Of(ready) => modal = a
  /\ modal # Row!NoTask => task[modal].at = "modal" /\ modal \notin Of(ready)
  /\ waiters # <<>> => modal # Row!NoTask
  /\ First(ready, Waiting)
  /\ \A a \in Of(ready) : a \in Waiting => modal = Row!NoTask
  /\ \A a \in Of(ready) : a \in Waiting /\ ~exiting => \E b \in Of(ready) : b \notin Waiting

RowInv == RowTyped /\ PromptInv /\ DraftInv /\ RoomInv /\ QueueInv /\ ModalInv
-----------------------------------------------------------------------------
(***************************************************************************)
(* Queues of tasks.                                                        *)
(***************************************************************************)
LEMMA QueueAppend ==
  ASSUME NEW q \in Queues, NEW a \in Row!Tasks
  PROVE  /\ Append(q, a) \in Queues /\ Append(q, a) # <<>> /\ Of(Append(q, a)) = Of(q) \cup {a}
         /\ Once(q) /\ a \notin Of(q) => Once(Append(q, a))
BY Appended DEF Queues

LEMMA QueueJoin ==
  ASSUME NEW q \in Queues, NEW r \in Queues
  PROVE  /\ q \o r \in Queues /\ Of(q \o r) = Of(q) \cup Of(r)
         /\ Once(q) /\ Once(r) /\ Of(q) \cap Of(r) = {} => Once(q \o r)
BY Joined DEF Queues

LEMMA QueueOne ==
  ASSUME NEW a \in Row!Tasks
  PROVE  <<a>> \in Queues /\ Of(<<a>>) = {a} /\ Once(<<a>>)
BY DEF Queues, Of, Once

LEMMA QueueNone == <<>> \in Queues /\ Of(<<>>) = {} /\ Once(<<>>)
BY DEF Queues, Of, Once

LEMMA QueueSome == ASSUME NEW q \in Queues PROVE Of(q) \subseteq Row!Tasks /\ (q = <<>> <=> Of(q) = {})
<1>1. q \in Seq(Row!Tasks)
  BY DEF Queues
<1>2. Of(q) \subseteq Row!Tasks
  BY <1>1 DEF Of
<1>3. ASSUME q # <<>> PROVE q[1] \in Of(q)
  <2>1. 1 \in DOMAIN q
    BY <1>1, <1>3
  <2> QED
    BY <2>1 DEF Of
<1>4. q = <<>> => Of(q) = {}
  BY DEF Of
<1> QED
  BY <1>2, <1>3, <1>4

LEMMA QueueTail ==
  ASSUME NEW q \in Queues, q # <<>>, Once(q), NEW W
  PROVE  /\ Tail(q) \in Queues /\ Head(q) \in Row!Tasks /\ Head(q) \in Of(q)
         /\ Of(Tail(q)) = Of(q) \ {Head(q)} /\ Once(Tail(q))
         /\ First(q, W) => Of(Tail(q)) \cap W = {}
<1>1. /\ Len(q) \in Nat \ {0} /\ DOMAIN q = 1..Len(q) /\ Tail(q) \in Seq(Row!Tasks)
      /\ DOMAIN Tail(q) = 1..(Len(q) - 1) /\ Head(q) = q[1] /\ Head(q) \in Row!Tasks
      /\ \A i \in DOMAIN Tail(q) : Tail(q)[i] = q[i + 1]
  BY DEF Queues
<1>2. \A i \in DOMAIN Tail(q) : i + 1 \in DOMAIN q /\ i + 1 # 1
  BY <1>1
<1>3. \A j \in DOMAIN q : j # 1 => j - 1 \in DOMAIN Tail(q) /\ (j - 1) + 1 = j
  BY <1>1
<1>4. Head(q) \in Of(q)
  BY <1>1 DEF Of
<1>5. Of(Tail(q)) \subseteq Of(q) \ {Head(q)}
  BY <1>1, <1>2 DEF Of, Once
<1>6. ASSUME NEW x \in Of(q) \ {Head(q)} PROVE x \in Of(Tail(q))
  <2>1. PICK j \in DOMAIN q : q[j] = x
    BY DEF Of
  <2>2. j # 1
    BY <1>1, <2>1
  <2>3. Tail(q)[j - 1] = x /\ j - 1 \in DOMAIN Tail(q)
    BY <1>1, <1>3, <2>1, <2>2
  <2> QED
    BY <2>3 DEF Of
<1>7. Once(Tail(q))
  <2> SUFFICES ASSUME NEW i \in DOMAIN Tail(q), NEW j \in DOMAIN Tail(q), Tail(q)[i] = Tail(q)[j] PROVE i = j
    BY DEF Once
  <2>1. i + 1 = j + 1
    BY <1>1, <1>2 DEF Once
  <2> QED
    BY <1>1, <2>1
<1>8. First(q, W) => Of(Tail(q)) \cap W = {}
  BY <1>1, <1>2 DEF First, Of
<1> QED
  BY <1>1, <1>4, <1>5, <1>6, <1>7, <1>8 DEF Queues

\* A queue without a task keeps the others, and who is first in it.
LEMMA QueueWithout ==
  ASSUME NEW q \in Queues, Once(q), NEW a, NEW W
  PROVE  /\ Row!Without(q, a) \in Queues /\ Of(Row!Without(q, a)) = Of(q) \ {a} /\ Once(Row!Without(q, a))
         /\ First(q, W) => First(Row!Without(q, a), W)
<1>1. /\ Len(q) \in Nat /\ DOMAIN q = 1..Len(q) /\ q \in Seq(Row!Tasks)
  BY DEF Queues
<1>2. CASE a \notin Of(q)
  <2>1. Row!Without(q, a) = q
    BY <1>1, <1>2 DEF Row!Without, Row!Contains, Of
  <2> QED
    BY <1>2, <2>1
<1>3. CASE a \in Of(q)
  <2> DEFINE k == CHOOSE i \in DOMAIN q : q[i] = a
             w == Row!Without(q, a)
             n == Len(q)
  <2>1. k \in 1..n /\ q[k] = a
    BY <1>1, <1>3 DEF Of
  <2>2. w = SubSeq(q, 1, k - 1) \o SubSeq(q, k + 1, n)
    <3>1. Row!Contains(q, a)
      BY <1>1, <2>1 DEF Row!Contains
    <3> QED
      BY <3>1 DEF Row!Without, Row!RemoveAt
  <2> HIDE DEF k, w
  <2>3. /\ w \in Seq(Row!Tasks) /\ Len(w) = n - 1 /\ DOMAIN w = 1..(n - 1)
        /\ \A i \in 1..(n - 1) : w[i] = IF i < k THEN q[i] ELSE q[i + 1]
    <3> DEFINE l == SubSeq(q, 1, k - 1)
               r == SubSeq(q, k + 1, n)
    <3>1. l \in Seq(Row!Tasks) /\ Len(l) = k - 1 /\ \A i \in 1..(k - 1) : l[i] = q[i]
      BY <1>1, <2>1
    <3>2. r \in Seq(Row!Tasks) /\ Len(r) = n - k /\ \A i \in 1..(n - k) : r[i] = q[k + i]
      <4>1. k + 1 \in Int /\ n \in Int /\ n - (k + 1) + 1 = n - k /\ \A i \in (k + 1)..n : q[i] \in Row!Tasks
        BY <1>1, <2>1
      <4>2. /\ r \in Seq(Row!Tasks) /\ Len(r) = IF k + 1 <= n THEN n - (k + 1) + 1 ELSE 0
            /\ \A i \in 1..(n - (k + 1) + 1) : r[i] = q[(k + 1) + i - 1]
        BY <4>1, SubSeqProperties
      <4> HIDE DEF r
      <4>3. Len(r) = n - k
        <5>1. k \in Nat /\ n \in Nat /\ k <= n
          BY <1>1, <2>1
        <5>2. CASE k = n
          BY <4>2, <5>1, <5>2
        <5>3. CASE k < n
          <6>1. k + 1 <= n
            BY <5>1, <5>3
          <6>2. Len(r) = n - (k + 1) + 1
            BY <4>2, <6>1
          <6> QED
            BY <4>1, <6>2
        <5> QED
          BY <5>1, <5>2, <5>3
      <4>4. \A i \in 1..(n - k) : (k + 1) + i - 1 = k + i
        BY <2>1
      <4> QED
        BY <4>1, <4>2, <4>3, <4>4
    <3> HIDE DEF l, r
    <3>3. l \o r \in Seq(Row!Tasks) /\ Len(l \o r) = n - 1 /\ DOMAIN (l \o r) = 1..(n - 1)
      <4>1. l \o r \in Seq(Row!Tasks) /\ Len(l \o r) = Len(l) + Len(r)
        BY <3>1, <3>2
      <4>2. Len(l \o r) = n - 1
        BY <1>1, <2>1, <3>1, <3>2, <4>1
      <4> QED
        BY <4>1, <4>2
    <3>4. \A i \in 1..(n - 1) : i < k => (l \o r)[i] = q[i]
      BY <1>1, <2>1, <3>1, <3>2
    <3>5. \A i \in 1..(n - 1) : ~(i < k) => (l \o r)[i] = q[i + 1]
      <4> SUFFICES ASSUME NEW i \in 1..(n - 1), ~(i < k) PROVE (l \o r)[i] = q[i + 1]
        OBVIOUS
      <4>1. (l \o r)[i] = r[i - (k - 1)]
        BY <1>1, <2>1, <3>1, <3>2
      <4>2. i - (k - 1) \in 1..(n - k) /\ k + (i - (k - 1)) = i + 1
        BY <1>1, <2>1
      <4> QED
        BY <3>2, <4>1, <4>2
    <3>6. w = l \o r
      BY <2>2 DEF l, r
    <3> QED
      BY <3>3, <3>4, <3>5, <3>6
  <2>4. \A i \in 1..(n - 1) : IF i < k THEN i \in 1..n ELSE i + 1 \in 1..n /\ i + 1 # k /\ i + 1 # 1
    BY <1>1, <2>1
  <2>5. \A j \in 1..n : j # k => IF j < k THEN j \in 1..(n - 1) ELSE j - 1 \in 1..(n - 1) /\ ~(j - 1 < k) /\ (j - 1) + 1 = j
    BY <1>1, <2>1
  <2>6. Of(w) \subseteq Of(q) \ {a}
    <3> SUFFICES ASSUME NEW i \in 1..(n - 1) PROVE w[i] \in Of(q) /\ w[i] # a
      BY <2>3 DEF Of
    <3>1. CASE i < k
      <4>1. w[i] = q[i] /\ i \in DOMAIN q /\ i # k
        BY <1>1, <2>1, <2>3, <2>4, <3>1
      <4> QED
        BY <1>1, <2>1, <4>1 DEF Of, Once
    <3>2. CASE ~(i < k)
      BY <1>1, <2>1, <2>3, <2>4, <3>2 DEF Of, Once
    <3> QED
      BY <3>1, <3>2
  <2>7. ASSUME NEW x \in Of(q), x # a PROVE x \in Of(w)
    <3>1. PICK j \in 1..n : q[j] = x
      BY <1>1 DEF Of
    <3>2. j # k
      BY <2>1, <2>7, <3>1
    <3>3. CASE j < k
      BY <2>3, <2>5, <3>1, <3>2, <3>3 DEF Of
    <3>4. CASE ~(j < k)
      <4>1. w[j - 1] = x /\ j - 1 \in DOMAIN w
        BY <2>3, <2>5, <3>1, <3>2, <3>4
      <4> QED
        BY <4>1 DEF Of
    <3> QED
      BY <3>3, <3>4
  <2>8. Once(w)
    <3> SUFFICES ASSUME NEW i \in 1..(n - 1), NEW j \in 1..(n - 1), w[i] = w[j] PROVE i = j
      BY <2>3 DEF Once
    <3> DEFINE pos(x) == IF x < k THEN x ELSE x + 1
    <3>1. w[i] = q[pos(i)] /\ w[j] = q[pos(j)] /\ pos(i) \in DOMAIN q /\ pos(j) \in DOMAIN q
      BY <1>1, <2>3, <2>4
    <3>2. pos(i) = pos(j)
      BY <3>1 DEF Once
    <3> QED
      BY <1>1, <2>1, <3>2
  <2>9. First(q, W) => First(w, W)
    BY <1>1, <2>3, <2>4 DEF First
  <2> QED
    BY <2>3, <2>6, <2>7, <2>8, <2>9 DEF w, Queues
<1> QED
  BY <1>2, <1>3
-----------------------------------------------------------------------------
(***************************************************************************)
(* Who opens, waits, is woken and resumes.                                 *)
(***************************************************************************)
LEMMA TwoAtMost ==
  ASSUME RoomInv, NEW a \in Row!Opening, NEW b \in Row!Opening, NEW c \in Row!Opening, a # b
  PROVE  c = a \/ c = b
<1>1. /\ {a, b, c} \subseteq {"turn", "browser", "command"} 
      /\ \A x \in {a, b, c} : task[x].at \notin {"off", "work", "probe"}
  BY DEF Row!Opening, Row!Tasks
<1>2. PICK d \in {"turn", "browser", "command"} : task[d].at \in {"off", "work", "probe"}
  BY DEF RoomInv, Row!Tasks
<1>3. d \notin {a, b, c}
  BY <1>1, <1>2
<1> QED
  BY <1>1, <1>3

\* Of the tasks, only a goes on.
Only(a) == \A b \in Row!Tasks : b # a => task'[b] = task[b]

\* Where nobody else wants the screen, there is room for one.
LEMMA RoomForOne == ASSUME Row!Room, ~Crowded, NEW a \in Row!Tasks, Only(a) PROVE RoomInv'
<1>1. \A b, c \in Row!Opening : b = c
  BY DEF Row!Room
<1>2. PICK b \in Row!Tasks, c \in Row!Tasks : a # b /\ a # c /\ b # c
  BY DEF Row!Tasks
<1>3. b \notin Row!Opening \/ c \notin Row!Opening
  BY <1>1, <1>2
<1> QED
  BY <1>2, <1>3 DEF Row!Opening, RoomInv, Only

LEMMA RoomStays ==
  ASSUME RoomInv, NEW a \in Row!Tasks, Only(a), a \in Row!Opening \/ task'[a].at \in {"off", "work", "probe"}
  PROVE  RoomInv'
BY DEF RoomInv, Row!Opening, Only

\* Two tasks with a modal between them leave nobody to be ready.
LEMMA NobodyElse ==
  ASSUME RowTyped, RoomInv, QueueInv, ModalInv, waiters # <<>>
  PROVE  /\ modal \in Row!Opening /\ ready = <<>> /\ First(waiters, Waiting)
         /\ \A a \in Row!Tasks : task[a].at = "input" => FALSE
<1>1. modal \in Row!Tasks /\ task[modal].at = "modal" /\ modal \notin Of(ready)
  BY DEF RowTyped, ModalInv
<1>2. waiters \in Queues /\ Of(waiters) # {} /\ Of(waiters) \subseteq Row!Tasks
  BY QueueSome DEF RowTyped
<1>3. PICK w \in Of(waiters) : w \in Row!Tasks
  BY <1>2
<1>4. \A x \in Of(waiters) : task[x].at \in {"waitInput", "waitModal"} /\ x \notin Of(ready)
  BY <1>2 DEF QueueInv, Waiting
<1>5. modal \in Row!Opening /\ Of(waiters) \subseteq Row!Opening /\ w # modal /\ modal \notin Of(waiters)
  BY <1>1, <1>2, <1>3, <1>4 DEF Row!Opening
<1>6. Of(ready) = {}
  <2> SUFFICES ASSUME NEW x \in Of(ready) PROVE FALSE
    OBVIOUS
  <2>1. x \in Row!Opening
    BY QueueSome DEF RowTyped, QueueInv, Row!Opening
  <2> QED
    BY <1>1, <1>3, <1>4, <1>5, <2>1, TwoAtMost
<1>7. First(waiters, Waiting)
  <2> SUFFICES ASSUME NEW i \in DOMAIN waiters PROVE i = 1
    BY DEF First
  <2>1. 1 \in DOMAIN waiters
    BY DEF RowTyped, Queues
  <2>2. waiters[i] \in Of(waiters) /\ waiters[1] \in Of(waiters)
    BY <2>1 DEF Of
  <2>3. waiters[i] = waiters[1]
    BY <1>5, <2>2, TwoAtMost
  <2> QED
    BY <2>1, <2>3 DEF QueueInv, Once
<1>8. ASSUME NEW a \in Row!Tasks, task[a].at = "input" PROVE FALSE
  <2>1. a \in Row!Opening /\ a # w /\ a # modal
    BY <1>1, <1>3, <1>4, <1>8 DEF Row!Opening
  <2> QED
    BY <1>3, <1>5, <2>1, TwoAtMost
<1> QED
  BY <1>5, <1>6, <1>7, <1>8, QueueSome DEF RowTyped

LEMMA FirstJoin ==
  ASSUME NEW q \in Queues, NEW r \in Queues, NEW W,
         \/ q = <<>> /\ First(r, W)
         \/ First(q, W) /\ Of(r) \cap W = {}
  PROVE  First(q \o r, W)
<1>1. q \in Seq(Row!Tasks) /\ r \in Seq(Row!Tasks)
  BY DEF Queues
<1>2. CASE q = <<>> /\ First(r, W)
  <2>1. q \o r = r
    BY <1>1, <1>2
  <2> QED
    BY <1>2, <2>1
<1>3. CASE First(q, W) /\ Of(r) \cap W = {}
  <2> SUFFICES ASSUME NEW i \in DOMAIN (q \o r), (q \o r)[i] \in W PROVE i = 1
    BY DEF First
  <2>1. i \in 1..(Len(q) + Len(r)) /\ Len(q) \in Nat /\ Len(r) \in Nat
    BY <1>1
  <2>2. CASE i <= Len(q)
    <3>1. i \in DOMAIN q /\ (q \o r)[i] = q[i]
      BY <1>1, <2>1, <2>2
    <3> QED
      BY <1>3, <3>1 DEF First
  <2>3. CASE i > Len(q)
    <3>1. i - Len(q) \in DOMAIN r /\ (q \o r)[i] = r[i - Len(q)]
      BY <1>1, <2>1, <2>3
    <3> QED
      BY <1>3, <3>1 DEF Of
  <2> QED
    BY <2>1, <2>2, <2>3
<1> QED
  BY <1>2, <1>3

LEMMA FirstNone == ASSUME NEW q, NEW W, Of(q) \cap W = {} PROVE First(q, W)
BY DEF First, Of

\* A task that no queue holds any more, and no modal; nobody who was woken is left in the queue.
Unheld(a, rest) ==
  /\ rest \in Queues /\ Once(rest) /\ Of(rest) = Of(ready) \ {a}
  /\ a \in Row!Tasks /\ a \notin Of(waiters) /\ a # modal /\ Of(rest) \cap Waiting = {}

LEMMA HeadIsUnheld ==
  ASSUME RowTyped, QueueInv, ModalInv, ready # <<>>
  PROVE  Unheld(Head(ready), Tail(ready)) /\ Head(ready) \in Of(ready) /\ Head(ready) \in Row!Opening
<1>1. /\ Tail(ready) \in Queues /\ Head(ready) \in Row!Tasks /\ Head(ready) \in Of(ready)
      /\ Of(Tail(ready)) = Of(ready) \ {Head(ready)} /\ Once(Tail(ready)) /\ Of(Tail(ready)) \cap Waiting = {}
  BY QueueTail DEF RowTyped, QueueInv, ModalInv
<1>2. Head(ready) \notin Of(waiters) /\ Head(ready) # modal
  BY <1>1 DEF QueueInv, ModalInv, RowTyped, Row!NoTask, Row!Tasks
<1> QED
  BY <1>1, <1>2 DEF Unheld, QueueInv, Row!Opening

\* While the loop waits for a dispatched command, who was woken has who showed the modal after it.
WokenInv ==
  exiting /\ Row!Dispatched /\ ~closed =>
    \A a \in Of(ready) : a \in Waiting => \E b \in Of(ready) : b \notin Waiting

LEMMA OpenerIsUnheld ==
  ASSUME RowTyped, QueueInv, ModalInv, WokenInv, Row!Room, ~Crowded, exiting => Row!Dispatched /\ ~closed,
         NEW a \in Row!Tasks, task[a].at \in {"off", "work", "probe"}
  PROVE  Unheld(a, ready) /\ a \notin Of(ready)
<1>1. a \notin Of(ready) /\ a \notin Of(waiters) /\ a # modal
  BY DEF QueueInv, ModalInv, Waiting, Row!Tasks, Row!NoTask
<1>2. Of(ready) \cap Waiting = {}
  <2> SUFFICES ASSUME NEW x \in Of(ready), x \in Waiting PROVE FALSE
    OBVIOUS
  <2>1. PICK b \in Of(ready) : b \notin Waiting
    BY DEF ModalInv, WokenInv
  <2>2. x \in Row!Opening /\ b \in Row!Opening
    BY QueueSome DEF RowTyped, QueueInv, Row!Opening
  <2> QED
    BY <2>1, <2>2 DEF Row!Room
<1> QED
  BY <1>1, <1>2 DEF Unheld, RowTyped, QueueInv

\* A task that no queue holds begins, works or asks for a line.
LEMMA IdleStep ==
  ASSUME RowTyped, QueueInv, ModalInv, UNCHANGED <<modal, waiters, ready, reply, exiting>>,
         NEW a \in Row!Tasks, Only(a), task[a].at \in {"off", "work", "probe"}, task'[a].at \in {"off", "work", "probe"}
  PROVE  QueueInv' /\ ModalInv'
<1>1. a \notin Of(ready) /\ a \notin Of(waiters) /\ a # modal
  BY DEF QueueInv, ModalInv, Waiting, Row!Tasks, Row!NoTask
<1>2. \A b \in Row!Tasks : b # a => task'[b] = task[b]
  BY DEF Only
<1>3. Waiting' = Waiting
  BY <1>2 DEF Waiting
<1>4. Of(ready) \subseteq Row!Tasks
  BY QueueSome DEF RowTyped
<1>5. QueueInv'
  BY <1>1, <1>2, <1>3, <1>4 DEF QueueInv, Row!Tasks
<1>6. /\ \A b \in Row!Tasks : task'[b].at = "modal" /\ b \notin Of(ready) => modal = b
      /\ modal # Row!NoTask => task'[modal].at = "modal" /\ modal \notin Of(ready)
  BY <1>1, <1>2 DEF ModalInv, RowTyped, Row!Tasks, Row!NoTask
<1> QED
  BY <1>3, <1>5, <1>6 DEF ModalInv

LEMMA MoveStep ==
  ASSUME RowTyped, QueueInv, ModalInv, UNCHANGED <<modal, waiters, exiting>>,
         NEW a, NEW rest, Unheld(a, rest), ready' = rest,
         Only(a), task'[a].at \in {"off", "work", "input"}, a = "turn" \/ reply' = reply
  PROVE  QueueInv' /\ ModalInv'
<1>1. \A b \in Row!Tasks : b # a => task'[b] = task[b]
  BY DEF Only
<1>2. Waiting' = Waiting \ {a} /\ Of(ready') = Of(ready) \ {a} /\ a \in Row!Tasks
  BY <1>1 DEF Waiting, Unheld
<1>3. Of(ready) \subseteq Row!Tasks
  BY QueueSome DEF RowTyped
<1>4. QueueInv'
  BY <1>1, <1>2, <1>3 DEF QueueInv, Unheld, Row!Tasks
<1>5. First(ready', Waiting')
  BY <1>2, FirstNone DEF Unheld
<1>6. Waiting' \cap Of(ready') = {}
  BY <1>2 DEF Unheld
<1>7. \A b \in Row!Tasks : task'[b].at = "modal" /\ b \notin Of(ready') => modal = b
  BY <1>1, <1>2 DEF ModalInv
<1>8. modal # Row!NoTask => task'[modal].at = "modal" /\ modal \notin Of(ready')
  BY <1>1, <1>2 DEF ModalInv, RowTyped, Unheld
<1> QED
  BY <1>4, <1>5, <1>6, <1>7, <1>8 DEF ModalInv

LEMMA WaitStep ==
  ASSUME RowTyped, QueueInv, ModalInv, UNCHANGED <<modal, exiting>>, modal # Row!NoTask,
         NEW a, NEW rest, Unheld(a, rest), ready' = rest, waiters' = Append(waiters, a),
         Only(a), task'[a].at \in {"waitInput", "waitModal"}, a = "turn" \/ reply' = reply
  PROVE  QueueInv' /\ ModalInv' /\ waiters' \in Queues
<1>1. \A b \in Row!Tasks : b # a => task'[b] = task[b]
  BY DEF Only
<1>2. Waiting' = Waiting \cup {a} /\ Of(ready') = Of(ready) \ {a} /\ a \in Row!Tasks
  BY <1>1 DEF Waiting, Unheld
<1>3. Of(ready) \subseteq Row!Tasks
  BY QueueSome DEF RowTyped
<1>4. waiters' \in Queues /\ Of(waiters') = Of(waiters) \cup {a} /\ Once(waiters')
  BY <1>2, QueueAppend DEF Unheld, RowTyped, QueueInv
<1>5. QueueInv'
  BY <1>1, <1>2, <1>3, <1>4 DEF QueueInv, Unheld, Row!Tasks
<1>6. Waiting' \cap Of(ready') = {}
  BY <1>2 DEF Unheld
<1>7. First(ready', Waiting')
  BY <1>6, FirstNone
<1>8. \A b \in Row!Tasks : task'[b].at = "modal" /\ b \notin Of(ready') => modal = b
  BY <1>1, <1>2 DEF ModalInv
<1>9. task'[modal].at = "modal" /\ modal \notin Of(ready')
  BY <1>1, <1>2 DEF ModalInv, RowTyped, Unheld
<1> QED
  BY <1>4, <1>5, <1>6, <1>7, <1>8, <1>9 DEF ModalInv

LEMMA ActivateStep ==
  ASSUME RowTyped, QueueInv, ModalInv, UNCHANGED <<waiters, exiting>>, modal = Row!NoTask,
         NEW a, NEW rest, Unheld(a, rest), ready' = rest, modal' = a,
         Only(a), task'[a].at = "modal", a = "turn" \/ reply' = reply
  PROVE  QueueInv' /\ ModalInv'
<1>1. \A b \in Row!Tasks : b # a => task'[b] = task[b]
  BY DEF Only
<1>2. Waiting' = Waiting \ {a} /\ Of(ready') = Of(ready) \ {a} /\ a \in Row!Tasks
  BY <1>1 DEF Waiting, Unheld
<1>3. Of(ready) \subseteq Row!Tasks /\ waiters = <<>>
  BY QueueSome DEF RowTyped, ModalInv
<1>4. QueueInv'
  BY <1>1, <1>2, <1>3 DEF QueueInv, Unheld, Row!Tasks
<1>5. Waiting' \cap Of(ready') = {}
  BY <1>2 DEF Unheld
<1>6. First(ready', Waiting')
  BY <1>5, FirstNone
<1>7. \A b \in Row!Tasks : task'[b].at = "modal" /\ b \notin Of(ready') => a = b
  BY <1>1, <1>2 DEF ModalInv, Row!Tasks, Row!NoTask
<1> QED
  BY <1>1, <1>2, <1>3, <1>4, <1>5, <1>6, <1>7 DEF ModalInv, Row!Tasks, Row!NoTask

\* show_modal of an application that has ended: the task goes on at once.
LEMMA UnshownStep ==
  ASSUME RowTyped, QueueInv, ModalInv, UNCHANGED <<modal, waiters, exiting>>,
         NEW a, NEW rest, Unheld(a, rest), ready' = <<a>> \o rest,
         Only(a), task'[a].at = "modal", a = "turn" \/ reply' = reply
  PROVE  QueueInv' /\ ModalInv' /\ ready' \in Queues
<1>1. \A b \in Row!Tasks : b # a => task'[b] = task[b]
  BY DEF Only
<1>2. Waiting' = Waiting \ {a} /\ Of(rest) = Of(ready) \ {a} /\ a \in Row!Tasks /\ a \notin Of(rest)
  BY <1>1 DEF Waiting, Unheld
<1>3. Of(ready) \subseteq Row!Tasks
  BY QueueSome DEF RowTyped
<1>4. <<a>> \in Queues /\ Of(<<a>>) = {a} /\ Once(<<a>>) /\ rest \in Queues /\ Once(rest)
  BY <1>2, QueueOne DEF Unheld
<1>5. ready' \in Queues /\ Of(ready') = {a} \cup Of(rest) /\ Once(ready')
  BY <1>2, <1>4, QueueJoin
<1>6. QueueInv'
  BY <1>1, <1>2, <1>3, <1>5 DEF QueueInv, Unheld, Row!Tasks
<1>7. Waiting' \cap Of(ready') = {}
  BY <1>2, <1>5 DEF Unheld
<1>8. First(ready', Waiting')
  BY <1>7, FirstNone
<1>9. \A b \in Row!Tasks : task'[b].at = "modal" /\ b \notin Of(ready') => modal = b
  BY <1>1, <1>2, <1>5 DEF ModalInv
<1>10. modal # Row!NoTask => task'[modal].at = "modal" /\ modal \notin Of(ready')
  BY <1>1, <1>2, <1>5 DEF ModalInv, RowTyped, Unheld
<1> QED
  BY <1>5, <1>6, <1>7, <1>8, <1>9, <1>10 DEF ModalInv

\* Those who waited for the modal wake, then who showed it.
LEMMA WokenStep ==
  ASSUME RowTyped, RoomInv, QueueInv, ModalInv, UNCHANGED <<task, reply, exiting>>,
         modal # Row!NoTask, modal' = Row!NoTask, waiters' = <<>>, ready' = (ready \o waiters) \o <<modal>>
  PROVE  QueueInv' /\ ModalInv' /\ ready' \in Queues
<1>1. modal \in Row!Tasks /\ <<modal>> \in Queues /\ Of(<<modal>>) = {modal} /\ Once(<<modal>>)
  BY QueueOne DEF RowTyped
<1>2. /\ ready \o waiters \in Queues /\ Of(ready \o waiters) = Of(ready) \cup Of(waiters) /\ Once(ready \o waiters)
  BY QueueJoin DEF RowTyped, QueueInv
<1>3. modal \notin Of(ready) /\ modal \notin Waiting /\ modal \notin Of(waiters) /\ task[modal].at = "modal"
  BY <1>1 DEF ModalInv, QueueInv, Waiting
<1>4. /\ ready' \in Queues /\ Of(ready') = Of(ready) \cup Of(waiters) \cup {modal} /\ Once(ready')
  BY <1>1, <1>2, <1>3, QueueJoin
<1>5. Of(ready) \cap Waiting = {}
  BY <1>1 DEF ModalInv
<1>6. First(ready \o waiters, Waiting)
  <2>1. CASE waiters = <<>>
    BY <1>5, <2>1, QueueNone, FirstNone, <1>2
  <2>2. CASE waiters # <<>>
    BY <2>2, NobodyElse, FirstJoin DEF RowTyped
  <2> QED
    BY <2>1, <2>2
<1>7. First(ready', Waiting)
  BY <1>1, <1>2, <1>3, <1>6, FirstJoin
<1>8. Of(waiters') = {} /\ Once(waiters')
  BY QueueNone
<1>9. \A a \in Of(waiters) : task[a].at \in {"waitInput", "waitModal"}
  BY DEF QueueInv, Waiting
<1>10. QueueInv'
  BY <1>3, <1>4, <1>8, <1>9 DEF QueueInv, Waiting
<1>11. Waiting' = Waiting
  BY DEF Waiting
<1> QED
  BY <1>1, <1>3, <1>4, <1>7, <1>10, <1>11 DEF ModalInv

\* The answer of a prompt makes the turn ready.
LEMMA AnsweredStep ==
  ASSUME RowTyped, RoomInv, QueueInv, ModalInv, UNCHANGED <<task, modal, waiters, exiting>>,
         task["turn"].at = "input", reply = "pending", reply' # "pending", ready' = Append(ready, "turn")
  PROVE  QueueInv' /\ ModalInv' /\ ready' \in Queues
<1>1. "turn" \in Row!Tasks /\ "turn" \notin Of(ready) /\ "turn" \notin Of(waiters) /\ "turn" \notin Waiting
  BY DEF Row!Tasks, QueueInv, Waiting
<1>2. ready' \in Queues /\ Of(ready') = Of(ready) \cup {"turn"} /\ Once(ready')
  BY <1>1, QueueAppend DEF RowTyped, QueueInv
<1>3. QueueInv'
  BY <1>1, <1>2 DEF QueueInv, Waiting
<1>4. Waiting' = Waiting
  BY DEF Waiting
<1>5. First(ready', Waiting)
  <2>1. ready' = ready \o <<"turn">>
    BY DEF RowTyped, Queues
  <2> QED
    <3>1. <<"turn">> \in Queues /\ Of(<<"turn">>) \cap Waiting = {} /\ ready \in Queues /\ First(ready, Waiting)
      BY <1>1, QueueOne DEF RowTyped, ModalInv
    <3> QED
      BY <2>1, <3>1, FirstJoin
<1>6. modal # "turn"
  BY <1>1 DEF ModalInv, Row!NoTask
<1>7. \A b \in Row!Tasks : task[b].at = "modal" /\ b \notin Of(ready') => modal = b
  BY <1>2 DEF ModalInv
<1>8. Waiting \cap Of(ready') = Waiting \cap Of(ready)
  BY <1>1, <1>2
<1> QED
  BY <1>2, <1>3, <1>4, <1>5, <1>6, <1>7, <1>8 DEF ModalInv

\* A cancelled task leaves the screen; who waited for its modal is woken.
LEMMA CancelledStep ==
  ASSUME RowTyped, RoomInv, QueueInv, ModalInv, exiting, UNCHANGED <<reply, exiting>>,
         NEW a \in Row!Tasks, Row!Cancelled(a)
  PROVE  RoomInv' /\ QueueInv' /\ ModalInv' /\ waiters' \in Queues /\ ready' \in Queues /\ modal' \in {modal, Row!NoTask}
<1>1. task' = [task EXCEPT ![a] = Row!Off] /\ Row!Off.at = "off"
  BY DEF Row!Cancelled, Row!Off
<1>2. task'[a].at = "off" /\ \A b \in Row!Tasks : b # a => task'[b] = task[b]
  BY <1>1 DEF RowTyped
<1>3. RoomInv' /\ Only(a)
  BY <1>2, RoomStays DEF Only
<1>4. Waiting' = Waiting \ {a}
  BY <1>2 DEF Waiting
<1>5. /\ Row!Without(ready, a) \in Queues /\ Once(Row!Without(ready, a))
      /\ Of(Row!Without(ready, a)) = Of(ready) \ {a} /\ First(Row!Without(ready, a), Waiting)
  BY QueueWithout DEF RowTyped, QueueInv, ModalInv
<1>6. Of(ready) \subseteq Row!Tasks
  BY QueueSome DEF RowTyped
<1>7. CASE modal = a
  <2>1. modal' = Row!NoTask /\ waiters' = <<>> /\ ready' = Row!Without(ready, a) \o waiters
    BY <1>7 DEF Row!Cancelled
  <2>2. a \notin Of(ready) /\ a \notin Of(waiters) /\ a \notin Waiting /\ a # Row!NoTask
    BY <1>7 DEF ModalInv, QueueInv, Waiting, Row!Tasks, Row!NoTask
  <2>3. ready' \in Queues /\ Of(ready') = Of(ready) \cup Of(waiters) /\ Once(ready')
    BY <1>5, <2>1, <2>2, QueueJoin DEF RowTyped, QueueInv
  <2>4. First(ready', Waiting)
    <3>1. CASE waiters = <<>>
      <4>1. Of(waiters) \cap Waiting = {} /\ waiters \in Queues
        BY <3>1, QueueNone
      <4> QED
        BY <1>5, <2>1, <4>1, FirstJoin
    <3>2. CASE waiters # <<>>
      <4>1. Row!Without(ready, a) = <<>> /\ First(waiters, Waiting)
        BY <1>5, <3>2, NobodyElse, QueueNone, QueueSome
      <4> QED
        BY <1>5, <2>1, <4>1, FirstJoin DEF RowTyped
    <3> QED
      BY <3>1, <3>2
  <2>5. First(ready', Waiting')
    BY <1>4, <2>4 DEF First
  <2>6. \A b \in Row!Tasks : task'[b].at = "modal" => b \in Of(ready')
    BY <1>2, <1>7, <2>3 DEF ModalInv
  <2>7. ModalInv'
    BY <2>1, <2>5, <2>6 DEF ModalInv
  <2>8. Of(waiters') = {} /\ Once(waiters')
    BY <2>1, QueueNone
  <2>9. \A b \in Of(ready') : b # a /\ b \in Row!Tasks /\ task[b].at \in {"start", "waitInput", "waitModal", "modal", "input"}
    BY <1>6, <2>2, <2>3 DEF QueueInv, Waiting
  <2>10. "turn" \in Of(ready') /\ task["turn"].at = "input" => "turn" \in Of(ready)
    BY <2>3 DEF QueueInv, Waiting
  <2>11. QueueInv'
    BY <1>2, <2>3, <2>8, <2>9, <2>10 DEF QueueInv
  <2> QED
    BY <1>3, <2>1, <2>3, <2>7, <2>11, QueueNone
<1>8. CASE modal # a
  <2>1. modal' = modal /\ waiters' = Row!Without(waiters, a) /\ ready' = Row!Without(ready, a)
    BY <1>8 DEF Row!Cancelled
  <2>2. waiters' \in Queues /\ Once(waiters') /\ Of(waiters') = Of(waiters) \ {a}
    BY <2>1, QueueWithout DEF RowTyped, QueueInv
  <2>3. QueueInv'
    BY <1>2, <1>4, <1>5, <1>6, <2>1, <2>2 DEF QueueInv
  <2>4. waiters' # <<>> => modal # Row!NoTask
    <3>1. waiters' # <<>> => Of(waiters) # {}
      BY <2>2, QueueSome
    <3> QED
      BY <3>1, QueueNone DEF ModalInv
  <2>5. First(ready', Waiting')
    BY <1>4, <1>5, <2>1 DEF First
  <2>6. \A b \in Row!Tasks : task'[b].at = "modal" /\ b \notin Of(ready') => modal = b
    BY <1>2, <1>5, <2>1 DEF ModalInv
  <2>7. modal # Row!NoTask => task'[modal].at = "modal" /\ modal \notin Of(ready')
    BY <1>2, <1>5, <1>8, <2>1 DEF ModalInv, RowTyped
  <2>8. \A b \in Of(ready') : b \in Waiting' => modal = Row!NoTask
    BY <1>4, <1>5, <2>1 DEF ModalInv
  <2> QED
    BY <1>3, <1>5, <2>1, <2>2, <2>3, <2>4, <2>5, <2>6, <2>7, <2>8 DEF ModalInv
<1> QED
  BY <1>7, <1>8

\* The end of the application wakes the prompt, those who wait and who shows the modal.
LEMMA AfterRunStep ==
  ASSUME RowTyped, RoomInv, QueueInv, ModalInv, Row!AfterRun
  PROVE  RoomInv' /\ QueueInv' /\ ModalInv' /\ waiters' \in Queues /\ ready' \in Queues
<1> DEFINE asked == task["turn"].at = "input" /\ reply = "pending"
           x     == IF asked THEN <<"turn">> ELSE <<>>
           y     == IF modal = Row!NoTask THEN <<>> ELSE waiters \o <<modal>>
<1>1. /\ UNCHANGED <<task, exiting>> /\ exiting /\ modal' = Row!NoTask
      /\ reply' = IF asked THEN "cancel" ELSE reply
      /\ waiters' = IF modal = Row!NoTask THEN waiters ELSE <<>>
      /\ ready' = (ready \o x) \o y
  BY DEF Row!AfterRun, Row!Interrupted
<1>2. waiters' = <<>> /\ waiters' \in Queues /\ Of(waiters') = {} /\ Once(waiters')
  BY <1>1, QueueNone DEF ModalInv
<1>3. /\ x \in Queues /\ Once(x) /\ Of(x) \subseteq {"turn"} /\ Of(x) \cap Waiting = {} /\ Of(x) \cap Of(ready) = {}
      /\ asked => Of(x) = {"turn"}
      /\ ~asked => x = <<>> /\ Of(x) = {}
  BY QueueOne, QueueNone DEF Row!Tasks, Waiting, QueueInv
<1> HIDE DEF x
<1>4. /\ ready \o x \in Queues /\ Of(ready \o x) = Of(ready) \cup Of(x) /\ Once(ready \o x)
      /\ First(ready \o x, Waiting)
  BY <1>3, QueueJoin, FirstJoin DEF RowTyped, QueueInv, ModalInv
<1>5. /\ y \in Queues /\ Once(y) /\ Of(y) \cap Of(ready \o x) = {} /\ First((ready \o x) \o y, Waiting)
      /\ Of(y) = IF modal = Row!NoTask THEN {} ELSE Of(waiters) \cup {modal}
  <2>1. CASE modal = Row!NoTask
    <3>1. y = <<>> /\ y \in Queues /\ Of(y) = {} /\ Once(y)
      BY <2>1, QueueNone
    <3> HIDE DEF y
    <3>2. First((ready \o x) \o y, Waiting)
      BY <1>4, <3>1, FirstJoin
    <3> QED
      BY <2>1, <3>1, <3>2
  <2>2. CASE modal # Row!NoTask
    <3>1. y = waiters \o <<modal>> /\ modal \in Row!Tasks /\ modal \notin Of(ready) /\ task[modal].at = "modal"
      BY <2>2 DEF RowTyped, ModalInv
    <3> HIDE DEF y
    <3>2. <<modal>> \in Queues /\ Of(<<modal>>) = {modal} /\ Once(<<modal>>)
      BY <3>1, QueueOne
    <3>3. modal \notin Of(waiters) /\ modal \notin Waiting
      BY <3>1 DEF QueueInv, Waiting
    <3>4. y \in Queues /\ Of(y) = Of(waiters) \cup {modal} /\ Once(y)
      BY <3>1, <3>2, <3>3, QueueJoin DEF RowTyped, QueueInv
    <3>5. Of(y) \cap Of(ready \o x) = {}
      <4>1. Of(x) \cap (Of(waiters) \cup {modal}) = {}
        BY <1>3, <3>1 DEF QueueInv, Waiting
      <4> QED
        BY <1>4, <3>1, <3>4, <4>1 DEF QueueInv
    <3>6. First((ready \o x) \o y, Waiting)
      <4>1. CASE waiters = <<>>
        <5>1. Of(y) \cap Waiting = {}
          BY <3>3, <3>4, <4>1, QueueNone
        <5> QED
          BY <1>4, <3>4, <5>1, FirstJoin
      <4>2. CASE waiters # <<>>
        <5>1. ready = <<>> /\ ~asked /\ First(waiters, Waiting)
          BY <4>2, NobodyElse DEF Row!Tasks
        <5>2. ready \o x = <<>>
          BY <1>3, <5>1
        <5>3. First(y, Waiting)
          BY <3>1, <3>2, <3>3, <5>1, FirstJoin DEF RowTyped
        <5> QED
          BY <1>4, <3>4, <5>2, <5>3, FirstJoin
      <4> QED
        BY <4>1, <4>2
    <3> QED
      BY <2>2, <3>4, <3>5, <3>6
  <2> QED
    BY <2>1, <2>2
<1> HIDE DEF y
<1>6. /\ ready' \in Queues /\ Once(ready') /\ First(ready', Waiting)
      /\ Of(ready') = Of(ready) \cup Of(x) \cup Of(y)
  BY <1>1, <1>4, <1>5, QueueJoin
<1>7. Waiting' = Waiting /\ RoomInv'
  BY <1>1 DEF Waiting, RoomInv
<1>8. QueueInv'
  <2>1. \A a \in Of(ready') : task[a].at \in {"start", "waitInput", "waitModal", "modal", "input"}
    <3>1. ASSUME NEW a \in Of(x) PROVE task[a].at = "input"
      BY <1>3
    <3>2. ASSUME NEW a \in Of(y) PROVE task[a].at \in {"waitInput", "waitModal", "modal"}
      BY <1>5 DEF QueueInv, Waiting, ModalInv
    <3> QED
      BY <1>6, <3>1, <3>2 DEF QueueInv
  <2>2. task["turn"].at = "input" /\ "turn" \in Of(ready') => reply' # "pending"
    BY <1>1
  <2> QED
    BY <1>1, <1>2, <1>6, <1>7, <2>1, <2>2 DEF QueueInv
<1>9. \A b \in Row!Tasks : task[b].at = "modal" => b \in Of(ready')
  BY <1>5, <1>6 DEF ModalInv, Row!Tasks, Row!NoTask
<1> QED
  BY <1>1, <1>2, <1>6, <1>7, <1>8, <1>9 DEF ModalInv

\* The browser begins, ready to show its list.
LEMMA CtrlOQueues ==
  ASSUME RowTyped, RoomInv, QueueInv, ModalInv, ~Crowded, Row!CtrlO
  PROVE  RoomInv' /\ QueueInv' /\ ModalInv' /\ ready' \in Queues
<1>1. /\ ready = <<>> /\ modal = Row!NoTask /\ UNCHANGED <<modal, waiters, reply, exiting>> /\ Row!Room
      /\ "browser" \in Row!Tasks /\ task["browser"].at = "off" /\ ready' = Append(ready, "browser")
      /\ task' = [task EXCEPT !["browser"] = [at |-> "start", for |-> "list"]]
  BY DEF Row!CtrlO, Row!RowKey, Row!Key, Row!RowFrame, Row!Rest, Row!Off, Row!Tasks, Row!exitVars
<1>2. task'["browser"].at = "start" /\ \A b \in Row!Tasks : b # "browser" => task'[b] = task[b]
  BY <1>1 DEF RowTyped
<1>3. RoomInv'
  BY <1>1, <1>2, RoomForOne DEF Only
<1>4. ready' \in Queues /\ Of(ready') = {"browser"} /\ Once(ready')
  BY <1>1, QueueAppend, QueueNone
<1>5. waiters = <<>> /\ Of(waiters) = {} /\ "browser" \notin Waiting'
  BY <1>1, <1>2, QueueNone DEF ModalInv, Waiting
<1>6. QueueInv'
  BY <1>1, <1>2, <1>4, <1>5 DEF QueueInv
<1>7. First(ready', Waiting')
  BY <1>4, <1>5, FirstNone
<1>8. \A b \in Row!Tasks : task'[b].at = "modal" => FALSE
  BY <1>1, <1>2, QueueNone DEF ModalInv, Row!Tasks, Row!NoTask
<1> QED
  BY <1>1, <1>3, <1>4, <1>5, <1>6, <1>7, <1>8 DEF ModalInv
-----------------------------------------------------------------------------
(***************************************************************************)
(* What the user does.                                                     *)
(***************************************************************************)
Screen == RoomInv /\ QueueInv /\ ModalInv

LEMMA SameScreen ==
  ASSUME Screen, UNCHANGED <<task, modal, waiters, ready, reply>>, exiting => exiting'
  PROVE  Screen'
BY DEF Screen, RoomInv, QueueInv, ModalInv, Waiting

\* A text that goes into the row is what the user left there, except in a prompt.
LEMMA TextStep ==
  ASSUME RowInv, UNCHANGED <<mode, saved, form, reply, by, modal, task, waiters, ready, exiting>>,
         text' \in Row!Texts, leftText' \in Row!Texts, focus' \in Row!Actions, outside'.text \in Row!Texts,
         overtaken' \in BOOLEAN, overtaken => overtaken',
         \/ UNCHANGED <<text, leftText>>
         \/ mode = "approval" /\ leftText' = leftText
         \/ mode # "approval" /\ text' = leftText'
  PROVE  RowInv'
<1>1. Screen'
  BY SameScreen DEF RowInv, Screen
<1>2. RowTyped'
  BY DEF RowInv, RowTyped
<1>3. PromptInv'
  BY DEF RowInv, PromptInv
<1>4. DraftInv'
  BY DEF RowInv, PromptInv, DraftInv
<1> QED
  BY <1>1, <1>2, <1>3, <1>4 DEF RowInv, Screen

LEMMA LeftIsText ==
  ASSUME NEW t \in Row!Texts, Row!Left(t), RowTyped
  PROVE  /\ text' \in Row!Texts /\ leftText' \in Row!Texts
         /\ \/ mode = "approval" /\ leftText' = leftText
            \/ mode # "approval" /\ text' = leftText'
BY DEF Row!Left, RowTyped

LEMMA OutsideStarts ==
  ASSUME Row!StartOutside
  PROVE  /\ outside'.text = text
         /\ UNCHANGED <<saved, form, overtaken, exiting, mode, text, focus, leftText, task, reply, by, ready, modal, waiters>>
<1>1. UNCHANGED <<saved, form, overtaken, exiting, mode, text, focus, leftText, task, reply, by, ready, modal, waiters>>
  BY DEF Row!StartOutside, Row!Still, Row!Rest, Row!exitVars
<1>2. \/ outside' = [program |-> "editor", text |-> text]
      \/ outside' = [program |-> "picker", text |-> text]
  BY DEF Row!StartOutside
<1> QED
  BY <1>1, <1>2

LEMMA RowTextSteps ==
  ASSUME RowInv,
         \/ Row!Type \/ Row!MoveFocus \/ Row!ClearRow \/ Row!Recall \/ Row!StartOutside
         \/ Row!PickerDone \/ Row!EditorDone \/ Row!RestoreSubmission
  PROVE  RowInv'
<1> RowTyped /\ \A t \in {"", "draft", "reason", "recalled", "edited", "refused"} : t \in Row!Texts
  BY DEF RowInv, Row!Texts
<1> USE DEF Row!RowFrame, Row!Still, Row!Rest, Row!exitVars, RowTyped, Row!Actions
<1>1. CASE Row!Type
  <2>1. PICK t \in {"reason", "draft"} : Row!Left(t)
    BY <1>1 DEF Row!Type
  <2> QED
    BY <1>1, <2>1, LeftIsText, TextStep DEF Row!Type
<1>2. CASE Row!MoveFocus
  BY <1>2, TextStep DEF Row!MoveFocus
<1>3. CASE Row!ClearRow
  BY <1>3, LeftIsText, TextStep DEF Row!ClearRow
<1>4. CASE Row!Recall
  BY <1>4, LeftIsText, TextStep DEF Row!Recall
<1>5. CASE Row!StartOutside
  BY <1>5, OutsideStarts, TextStep
<1>6. CASE Row!PickerDone
  BY <1>6, LeftIsText, TextStep DEF Row!PickerDone, Row!Free
<1>7. CASE Row!EditorDone
  BY <1>7, LeftIsText, TextStep DEF Row!EditorDone, Row!Free
<1>8. CASE Row!RestoreSubmission
  BY <1>8, LeftIsText, TextStep DEF Row!RestoreSubmission
<1> QED
  BY <1>1, <1>2, <1>3, <1>4, <1>5, <1>6, <1>7, <1>8

\* Enter in the row: the text is gone, and a command may start.
LEMMA RowSubmit == ASSUME RowInv, Row!Submit PROVE RowInv'
<1>1. /\ UNCHANGED <<saved, form, overtaken, outside, exiting, reply, by, ready, modal, waiters, focus>>
      /\ mode \in {"chat", "running"} /\ mode' \in {"dispatch", "running"} /\ text' = "" /\ leftText' = ""
      /\ \/ task' = task
         \/ task["command"] = Row!Off /\ task' = [task EXCEPT !["command"] = [at |-> "probe", for |-> "queued"]]
  BY DEF Row!Submit, Row!Left, Row!RowFrame, Row!Still, Row!Rest, Row!exitVars
<1>2. "command" \in Row!Tasks /\ "turn" \in Row!Tasks /\ "" \in Row!Texts /\ RowTyped
  BY DEF RowInv, Row!Tasks, Row!Texts
<1>3. CASE task' = task
  <2>1. Screen'
    BY <1>1, <1>3, SameScreen DEF RowInv, Screen
  <2>2. RowTyped'
    BY <1>1, <1>2, <1>3 DEF RowTyped, Modes
  <2>3. PromptInv' /\ DraftInv'
    BY <1>1, <1>3 DEF RowInv, PromptInv, DraftInv
  <2> QED
    BY <2>1, <2>2, <2>3 DEF RowInv, Screen
<1>4. ASSUME NEW x, x = [at |-> "probe", for |-> "queued"],
             task["command"] = Row!Off, task' = [task EXCEPT !["command"] = x]
      PROVE  RowInv'
  <2>1. task["command"].at = "off" /\ x.at = "probe" /\ x.for = "queued" /\ x \in [at : Places, for : Reasons]
    BY <1>4 DEF Row!Off, Places, Reasons
  <2>2. task'["command"] = x /\ Only("command")
    BY <1>2, <1>4 DEF RowTyped, Only
  <2>3. RowTyped /\ QueueInv' /\ ModalInv' /\ RoomInv'
    BY <1>1, <1>2, <2>1, <2>2, IdleStep, RoomStays DEF RowInv
  <2>4. RowTyped'
    BY <1>1, <1>2, <1>4, <2>1, <2>2 DEF RowTyped, Modes, Only
  <2>5. PromptInv' /\ DraftInv'
    BY <1>1, <1>2, <2>1, <2>2 DEF RowInv, PromptInv, DraftInv, Only
  <2> QED
    BY <2>3, <2>4, <2>5 DEF RowInv
<1> QED
  BY <1>1, <1>3, <1>4

\* The prompt is answered; a later answer is ignored.
LEMMA ResolveStep ==
  ASSUME RowInv, NEW value \in {"cancel"} \cup Row!Actions \cup Row!Texts, NEW key, Row!Resolve(value, key),
         value = "" => key = "enter",
         UNCHANGED <<mode, text, saved, form, focus, modal, task, waiters, outside, exiting, leftText, overtaken>>
  PROVE  RowInv'
<1>1. CASE task["turn"].at = "input" /\ reply = "pending"
  <2>1. reply' = value /\ by' = key /\ ready' = Append(ready, "turn") /\ value # "pending"
    BY <1>1 DEF Row!Resolve, Row!Actions, Row!Texts
  <2>2. QueueInv' /\ ModalInv' /\ ready' \in Queues
    BY <1>1, <2>1, AnsweredStep DEF RowInv
  <2>3. RoomInv' /\ DraftInv'
    BY DEF RowInv, RoomInv, DraftInv
  <2>4. RowTyped'
    BY <2>1, <2>2 DEF RowInv, RowTyped
  <2>5. PromptInv'
    BY <2>1 DEF RowInv, PromptInv
  <2> QED
    BY <2>2, <2>3, <2>4, <2>5 DEF RowInv
<1>2. CASE ~(task["turn"].at = "input" /\ reply = "pending")
  <2>1. UNCHANGED <<reply, by, ready>>
    BY <1>2 DEF Row!Resolve
  <2> QED
    BY <2>1, TextStep DEF RowInv, RowTyped
<1> QED
  BY <1>1, <1>2

LEMMA RowAnswer == ASSUME RowInv, Row!Answer PROVE RowInv'
<1>1. PICK value : value = (IF text = "" /\ form THEN focus ELSE text) /\ Row!Resolve(value, "enter")
  BY DEF Row!Answer
<1>2. value \in {"cancel"} \cup Row!Actions \cup Row!Texts
  BY <1>1 DEF RowInv, RowTyped
<1> QED
  BY <1>1, <1>2, ResolveStep DEF Row!Answer, Row!RowFrame, Row!Rest, Row!exitVars

LEMMA RowEscape == ASSUME RowInv, Row!Escape PROVE RowInv'
<1>1. /\ UNCHANGED <<mode, saved, form, focus, overtaken, outside, exiting, modal, waiters, leftText, task>>
      /\ mode = "approval"
      /\ \/ text' = "" /\ UNCHANGED <<reply, by, ready>>
         \/ Row!Resolve("cancel", "escape") /\ UNCHANGED text
  BY DEF Row!Escape, Row!RowFrame, Row!Rest, Row!Still, Row!exitVars
<1>2. CASE text' = "" /\ UNCHANGED <<reply, by, ready>>
  <2>1. text' \in Row!Texts
    BY <1>2 DEF Row!Texts
  <2> QED
    BY <1>1, <1>2, <2>1, TextStep DEF RowInv, RowTyped
<1>3. CASE Row!Resolve("cancel", "escape") /\ UNCHANGED text
  BY <1>1, <1>3, ResolveStep
<1> QED
  BY <1>1, <1>2, <1>3

\* Whatever closes the visible modal.
LEMMA CloseStep ==
  ASSUME RowInv, Row!CloseModal, modal # Row!NoTask,
         UNCHANGED <<mode, text, saved, form, focus, reply, by, task, outside, exiting, leftText, overtaken>>
  PROVE  RowInv'
<1>1. modal' = Row!NoTask /\ waiters' = <<>> /\ ready' = (ready \o waiters) \o <<modal>>
  BY DEF Row!CloseModal
<1>2. QueueInv' /\ ModalInv' /\ ready' \in Queues
  BY <1>1, WokenStep DEF RowInv
<1>3. RoomInv' /\ DraftInv' /\ PromptInv'
  BY DEF RowInv, RoomInv, DraftInv, PromptInv
<1>4. RowTyped'
  BY <1>1, <1>2, QueueNone DEF RowInv, RowTyped
<1> QED
  BY <1>2, <1>3, <1>4 DEF RowInv

LEMMA RowModalKey == ASSUME RowInv, Row!ModalKey PROVE RowInv'
BY CloseStep DEF Row!ModalKey, Row!RowFrame, Row!exitVars

LEMMA RowCtrlC == ASSUME RowInv, Row!CtrlC PROVE RowInv'
<1>1. UNCHANGED <<saved, form, overtaken, outside, exiting, focus, task>>
  BY DEF Row!CtrlC, Row!RowFrame, Row!exitVars
<1>2. CASE modal # Row!NoTask
  BY <1>1, <1>2, CloseStep DEF Row!CtrlC
<1>3. CASE modal = Row!NoTask
  <2>1. UNCHANGED <<modal, waiters>>
    BY <1>3 DEF Row!CtrlC, Row!Rest
  <2>2. CASE Row!Asked
    <3>1. Row!Resolve("cancel", "c-c") /\ UNCHANGED <<mode, text, leftText>>
      BY <1>3, <2>2 DEF Row!CtrlC, Row!Interrupted
    <3> QED
      BY <1>1, <2>1, <3>1, ResolveStep
  <2>3. CASE ~Row!Asked /\ text # ""
    <3>1. Row!Left("") /\ UNCHANGED <<reply, by, ready, mode>> /\ "" \in Row!Texts
      BY <1>3, <2>3 DEF Row!CtrlC, Row!Still, Row!Texts
    <3> QED
      BY <1>1, <2>1, <3>1, LeftIsText, TextStep DEF RowInv, RowTyped
  <2>4. CASE ~Row!Asked /\ text = ""
    <3>1. mode \in {"dispatch", "running"} /\ mode' = "running" /\ UNCHANGED <<reply, by, ready, text, leftText>>
      BY <1>3, <2>4 DEF Row!CtrlC, Row!Still
    <3>2. Screen'
      BY <1>1, <2>1, <3>1, SameScreen DEF RowInv, Screen
    <3>3. RowTyped'
      BY <1>1, <2>1, <3>1 DEF RowInv, RowTyped, Modes
    <3>4. PromptInv' /\ DraftInv'
      BY <1>1, <3>1 DEF RowInv, PromptInv, DraftInv
    <3> QED
      BY <3>2, <3>3, <3>4 DEF RowInv, Screen
  <2> QED
    BY <2>2, <2>3, <2>4
<1> QED
  BY <1>2, <1>3

\* The application is told to exit.
LEMMA ExitsStep ==
  ASSUME RowInv, exiting' = TRUE,
         UNCHANGED <<mode, text, saved, form, focus, reply, by, modal, task, waiters, ready, outside, leftText, overtaken>>
  PROVE  RowInv'
<1>1. Screen'
  BY SameScreen DEF RowInv, Screen
<1> QED
  BY <1>1 DEF RowInv, Screen, RowTyped, PromptInv, DraftInv

LEMMA RowCtrlD == ASSUME RowInv, Row!CtrlD PROVE RowInv'
<1>1. UNCHANGED <<saved, form, overtaken, outside, mode, focus, task, modal, waiters>>
  BY DEF Row!CtrlD, Row!Rest
<1>2. CASE Row!Asked
  <2>1. PICK value : value = (IF text = "" THEN "cancel" ELSE text) /\ Row!Resolve(value, "c-d")
    BY <1>2 DEF Row!CtrlD, Row!Interrupted
  <2>2. value \in {"cancel"} \cup Row!Actions \cup Row!Texts /\ value # ""
    BY <2>1 DEF RowInv, RowTyped
  <2> QED
    BY <1>1, <1>2, <2>1, <2>2, ResolveStep DEF Row!CtrlD
<1>3. CASE ~Row!Asked
  <2>1. /\ UNCHANGED <<reply, by, ready>>
        /\ \/ Row!Left("") /\ UNCHANGED exiting
           \/ exiting' = TRUE /\ UNCHANGED <<text, leftText>>
    BY <1>3 DEF Row!CtrlD, Row!Still
  <2>2. "" \in Row!Texts
    BY DEF Row!Texts
  <2>3. CASE Row!Left("") /\ UNCHANGED exiting
    BY <1>1, <2>1, <2>2, <2>3, LeftIsText, TextStep DEF RowInv, RowTyped
  <2>4. CASE exiting' = TRUE /\ UNCHANGED <<text, leftText>>
    BY <1>1, <2>1, <2>4, ExitsStep
  <2> QED
    BY <2>1, <2>3, <2>4
<1> QED
  BY <1>2, <1>3

LEMMA RowForceExit == ASSUME RowInv, Row!ForceExit PROVE RowInv'
BY ExitsStep DEF Row!ForceExit, Row!rowVars, Row!taskVars, Row!userVars

LEMMA RowCtrlO == ASSUME RowInv, ~Crowded, Row!CtrlO PROVE RowInv'
<1>1. RoomInv' /\ QueueInv' /\ ModalInv' /\ ready' \in Queues
  BY CtrlOQueues DEF RowInv
<1>2. /\ UNCHANGED <<mode, text, saved, form, focus, reply, by, modal, waiters, outside, exiting, leftText, overtaken>>
      /\ task' = [task EXCEPT !["browser"] = [at |-> "start", for |-> "list"]]
  BY DEF Row!CtrlO, Row!RowFrame, Row!Rest, Row!exitVars
<1>3. /\ task' \in [Row!Tasks -> [at : Places, for : Reasons]] /\ task'["browser"].at = "start"
      /\ \A a \in Row!Tasks : a # "browser" => task'[a] = task[a]
  BY <1>2 DEF RowInv, RowTyped, Places, Reasons, Row!Tasks
<1>4. RowTyped'
  BY <1>1, <1>2, <1>3 DEF RowInv, RowTyped
<1>5. PromptInv' /\ DraftInv'
  BY <1>2, <1>3 DEF RowInv, PromptInv, DraftInv, Row!Tasks
<1> QED
  BY <1>1, <1>4, <1>5 DEF RowInv
-----------------------------------------------------------------------------
(***************************************************************************)
(* What the tasks do.                                                      *)
(***************************************************************************)
\* The queues and the tasks hold what they should after a step of a.
Goes(a) ==
  /\ Only(a) /\ Screen' /\ waiters' \in Queues /\ ready' \in Queues /\ modal' \in Row!Tasks \cup {Row!NoTask}
  /\ task' \in [Row!Tasks -> [at : Places, for : Reasons]]
  /\ task'[a].at = "off" => task'[a] = Row!Off

LEMMA TaskSet ==
  ASSUME RowTyped, NEW a \in Row!Tasks, NEW x \in [at : Places, for : Reasons], task' = [task EXCEPT ![a] = x]
  PROVE  task' \in [Row!Tasks -> [at : Places, for : Reasons]] /\ task'[a] = x /\ Only(a)
BY DEF RowTyped, Only

LEMMA Activates ==
  ASSUME RowInv, RoomInv', UNCHANGED <<reply, exiting>>, modal = Row!NoTask,
         NEW a, NEW rest, Unheld(a, rest), NEW why \in Reasons, Row!Activate(a, why, rest)
  PROVE  Goes(a) /\ task'[a] = [at |-> "modal", for |-> why]
<1>1. /\ modal' = a /\ ready' = rest /\ waiters' = waiters /\ a \in Row!Tasks /\ rest \in Queues
      /\ task' = [task EXCEPT ![a] = [at |-> "modal", for |-> why]]
  BY DEF Row!Activate, Unheld
<1>2. task' \in [Row!Tasks -> [at : Places, for : Reasons]] /\ Only(a) /\ task'[a] = [at |-> "modal", for |-> why]
  BY <1>1, TaskSet DEF RowInv, Places
<1>3. QueueInv' /\ ModalInv'
  BY <1>1, <1>2, ActivateStep DEF RowInv
<1> QED
  BY <1>1, <1>2, <1>3 DEF Goes, Screen, RowInv, RowTyped

LEMMA Shows ==
  ASSUME RowInv, RoomInv', UNCHANGED <<reply, exiting>>,
         NEW a, NEW rest, Unheld(a, rest), NEW why \in Reasons, Row!ShowModal(a, why, rest)
  PROVE  Goes(a) /\ task'[a].at \in {"modal", "waitModal"} /\ task'[a].for = why
<1>1. CASE ~closed /\ modal = Row!NoTask
  <2>1. Row!Activate(a, why, rest)
    BY <1>1 DEF Row!ShowModal
  <2>2. Goes(a) /\ task'[a] = [at |-> "modal", for |-> why]
    BY <1>1, <2>1, Activates
  <2> QED
    BY <2>2
<1>2. CASE ~closed /\ modal # Row!NoTask
  <2>1. /\ modal' = modal /\ ready' = rest /\ waiters' = Append(waiters, a) /\ a \in Row!Tasks /\ rest \in Queues
        /\ task' = [task EXCEPT ![a] = [at |-> "waitModal", for |-> why]]
    BY <1>2 DEF Row!ShowModal, Unheld
  <2>2. task' \in [Row!Tasks -> [at : Places, for : Reasons]] /\ Only(a) /\ task'[a] = [at |-> "waitModal", for |-> why]
    BY <2>1, TaskSet DEF RowInv, Places
  <2>3. QueueInv' /\ ModalInv' /\ waiters' \in Queues
    BY <1>2, <2>1, <2>2, WaitStep DEF RowInv
  <2> QED
    BY <2>1, <2>2, <2>3 DEF Goes, Screen, RowInv, RowTyped
<1>3. CASE closed
  <2>1. /\ modal' = modal /\ waiters' = waiters /\ ready' = <<a>> \o rest /\ a \in Row!Tasks
        /\ task' = [task EXCEPT ![a] = [at |-> "modal", for |-> why]]
    BY <1>3 DEF Row!ShowModal, Unheld
  <2>2. task' \in [Row!Tasks -> [at : Places, for : Reasons]] /\ Only(a) /\ task'[a] = [at |-> "modal", for |-> why]
    BY <2>1, TaskSet DEF RowInv, Places
  <2>3. QueueInv' /\ ModalInv' /\ ready' \in Queues
    BY <2>1, <2>2, UnshownStep DEF RowInv
  <2> QED
    BY <2>1, <2>2, <2>3 DEF Goes, Screen, RowInv, RowTyped
<1> QED
  BY <1>1, <1>2, <1>3

LEMMA Moves ==
  ASSUME RowInv, RoomInv', UNCHANGED <<modal, waiters, exiting>>,
         NEW a, NEW rest, Unheld(a, rest), ready' = rest, a = "turn" \/ reply' = reply,
         NEW x \in [at : {"off", "work", "input"}, for : Reasons], x.at = "off" => x = Row!Off, task' = [task EXCEPT ![a] = x]
  PROVE  Goes(a) /\ task'[a] = x
<1>1. x \in [at : Places, for : Reasons] /\ a \in Row!Tasks /\ rest \in Queues
  BY DEF Places, Unheld
<1>2. task' \in [Row!Tasks -> [at : Places, for : Reasons]] /\ Only(a) /\ task'[a] = x
  BY <1>1, TaskSet DEF RowInv
<1>3. QueueInv' /\ ModalInv'
  BY <1>2, MoveStep DEF RowInv
<1> QED
  BY <1>1, <1>2, <1>3 DEF Goes, Screen, RowInv, RowTyped

\* A step of a task that leaves the row alone.
LEMMA QuietStep ==
  ASSUME RowInv, NEW a \in Row!Tasks, Goes(a), Row!Quiet, UNCHANGED <<outside, exiting, leftText>>,
         a = "turn" => /\ task["turn"].at \in {"work", "waitModal", "modal"}
                       /\ task'["turn"].at \in {"work", "waitModal", "modal"},
         a = "command" /\ task'["command"].at # "off" =>
           task["command"].at # "off" /\ task'["command"].for = task["command"].for
  PROVE  RowInv'
<1>1. UNCHANGED <<mode, text, saved, form, focus, reply, by, overtaken>>
  BY DEF Row!Quiet, Row!rowVars
<1>2. "turn" \in Row!Tasks /\ "command" \in Row!Tasks /\ \A b \in Row!Tasks : b # a => task'[b] = task[b]
  BY DEF Row!Tasks, Goes, Only
<1>3. RowTyped'
  BY <1>1, <1>2 DEF RowInv, RowTyped, Goes
<1>4. PromptInv'
  <2>1. CASE a = "turn"
    BY <1>1, <1>2, <2>1 DEF RowInv, PromptInv
  <2>2. CASE a # "turn"
    BY <1>1, <1>2, <2>2 DEF RowInv, PromptInv
  <2> QED
    BY <2>1, <2>2
<1>5. DraftInv'
  <2>1. task'["turn"].at = "input" <=> task["turn"].at = "input"
    BY <1>2
  <2> QED
    BY <1>1, <2>1 DEF RowInv, DraftInv
<1> QED
  BY <1>3, <1>4, <1>5 DEF RowInv, Goes, Screen

\* The row becomes a prompt, or the turn waits for the modal to be gone.
LEMMA StartsInput ==
  ASSUME RowInv, RoomInv', NEW rest, Unheld("turn", rest), NEW why \in {"approve", "ask"},
         form' = (why = "approve"), focus' \in Row!Actions, mode # "approval",
         Row!StartInput(why, rest, Row!Row), UNCHANGED <<outside, exiting, leftText>>, task["turn"].at # "off"
  PROVE  RowInv'
<1>1. /\ saved' = [mode |-> mode, text |-> text] /\ mode' = "approval" /\ text' = "" /\ reply' = "pending"
      /\ task' = [task EXCEPT !["turn"] = [at |-> "input", for |-> why]]
      /\ overtaken' = (overtaken \/ outside.program = "editor")
      /\ ready' = rest /\ UNCHANGED <<modal, waiters>>
  BY DEF Row!StartInput, Row!Row
<1>2. /\ [at |-> "input", for |-> why] \in [at : {"off", "work", "input"}, for : Reasons]
      /\ [at |-> "input", for |-> why].at # "off"
  BY DEF Reasons
<1>3. Goes("turn") /\ task'["turn"] = [at |-> "input", for |-> why]
  BY <1>1, <1>2, Moves
<1>4. /\ "turn" \in Row!Tasks /\ "command" \in Row!Tasks /\ task'["command"] = task["command"]
      /\ \A b \in Row!Tasks : b # "turn" => task'[b] = task[b]
  BY <1>3 DEF Row!Tasks, Goes, Only
<1>5. RowTyped'
  <2>1. saved' \in [mode : Modes, text : Row!Texts] /\ "" \in Row!Texts /\ overtaken' \in BOOLEAN /\ form' \in BOOLEAN
    BY <1>1 DEF RowInv, RowTyped, Row!Texts
  <2> QED
    BY <1>1, <1>3, <1>4, <2>1 DEF RowInv, RowTyped, Goes
<1>6. task'["turn"].at = "input" /\ task'["turn"].for = why /\ task["turn"].at # "input" /\ saved'.text = text
  <2>1. task'["turn"].at = "input" /\ task'["turn"].for = why
    BY <1>3
  <2>2. task["turn"].at # "input"
    BY DEF RowInv, PromptInv
  <2>3. saved'.text = text
    BY <1>1
  <2> QED
    BY <2>1, <2>2, <2>3
<1>7. PromptInv'
  BY <1>1, <1>4, <1>6 DEF RowInv, PromptInv
<1>8. DraftInv'
  BY <1>1, <1>6 DEF RowInv, DraftInv
<1> QED
  BY <1>3, <1>5, <1>7, <1>8 DEF RowInv, Goes, Screen

LEMMA RequestsInput ==
  ASSUME RowInv, RoomInv', NEW rest, Unheld("turn", rest), NEW why \in {"approve", "ask"},
         task["turn"].at \in {"work", "modal"},
         Row!RequestInput(why, rest, Row!Row), UNCHANGED <<outside, exiting, leftText>>
  PROVE  RowInv'
<1>1. mode # "approval" /\ form = FALSE
  BY DEF RowInv, PromptInv, RowTyped
<1>2. form' = (why = "approve") /\ focus' = "" /\ focus' \in Row!Actions
  BY <1>1 DEF Row!RequestInput, Row!Declared, Row!Actions
<1>3. CASE modal = Row!NoTask
  BY <1>1, <1>2, <1>3, StartsInput DEF Row!RequestInput
<1>4. CASE modal # Row!NoTask
  <2>1. /\ task' = [task EXCEPT !["turn"] = [at |-> "waitInput", for |-> why]]
        /\ waiters' = Append(waiters, "turn") /\ ready' = rest
        /\ UNCHANGED <<mode, text, saved, reply, by, modal, overtaken>>
    BY <1>4 DEF Row!RequestInput, Row!Row
  <2>2. "turn" \in Row!Tasks /\ "command" \in Row!Tasks /\ rest \in Queues
    BY DEF Row!Tasks, Unheld
  <2>3. /\ task' \in [Row!Tasks -> [at : Places, for : Reasons]] /\ task'["turn"] = [at |-> "waitInput", for |-> why]
        /\ Only("turn")
    <3>1. [at |-> "waitInput", for |-> why] \in [at : Places, for : Reasons]
      BY DEF Places, Reasons
    <3> QED
      BY <2>1, <2>2, <3>1, TaskSet DEF RowInv
  <2>4. QueueInv' /\ ModalInv' /\ waiters' \in Queues
    BY <1>4, <2>1, <2>3, WaitStep DEF RowInv
  <2>5. \A b \in Row!Tasks : b # "turn" => task'[b] = task[b]
    BY <2>3 DEF Only
  <2>6. RowTyped'
    BY <1>2, <2>1, <2>2, <2>3, <2>4, <2>5 DEF RowInv, RowTyped
  <2>7. PromptInv'
    BY <1>1, <1>2, <2>1, <2>2, <2>3, <2>5 DEF RowInv, PromptInv
  <2>8. DraftInv'
    BY <2>1, <2>3 DEF RowInv, DraftInv
  <2> QED
    BY <2>4, <2>6, <2>7, <2>8 DEF RowInv
<1> QED
  BY <1>3, <1>4

\* The row is what it was before the prompt.
LEMMA GivesBack ==
  ASSUME RowInv, Goes("turn"), task["turn"].at = "input", task'["turn"].at \in {"work", "modal", "waitModal", "off"},
         mode' = saved.mode, text' = saved.text, form' = FALSE,
         UNCHANGED <<saved, focus, reply, by, overtaken, outside, exiting, leftText>>
  PROVE  RowInv'
<1>1. /\ "turn" \in Row!Tasks /\ "command" \in Row!Tasks /\ task'["command"] = task["command"]
      /\ \A b \in Row!Tasks : b # "turn" => task'[b] = task[b]
  BY DEF Row!Tasks, Goes, Only
<1>2. mode' \in Modes /\ mode' # "approval" /\ text' \in Row!Texts
  BY DEF RowInv, RowTyped, Modes
<1>3. RowTyped'
  BY <1>1, <1>2 DEF RowInv, RowTyped, Goes
<1>4. PromptInv'
  BY <1>1, <1>2 DEF RowInv, PromptInv
<1>5. DraftInv'
  BY DEF RowInv, DraftInv
<1> QED
  BY <1>3, <1>4, <1>5 DEF RowInv, Goes, Screen

LEMMA TurnWorks ==
  ASSUME RowInv, RoomInv', UNCHANGED exiting, NEW rest, Unheld("turn", rest), Row!Working(rest)
  PROVE  Goes("turn") /\ task'["turn"].at = "work"
<1> DEFINE x == [task["turn"] EXCEPT !.at = "work"]
<1>1. /\ "turn" \in Row!Tasks /\ ready' = rest /\ UNCHANGED <<modal, waiters>>
      /\ task' = [task EXCEPT !["turn"] = x]
  BY DEF Row!Tasks, Row!Working
<1>2. x \in [at : {"off", "work", "input"}, for : Reasons] /\ x.at = "work"
  BY <1>1 DEF RowInv, RowTyped
<1> HIDE DEF x
<1>3. Goes("turn") /\ task'["turn"] = x
  BY <1>1, <1>2, Moves
<1> QED
  BY <1>2, <1>3

\* The answer of a prompt.
LEMMA EndsInput ==
  ASSUME RowInv, RoomInv', NEW rest, Unheld("turn", rest), task["turn"].at = "input", Row!EndInput(rest),
         UNCHANGED <<outside, exiting, leftText>>
  PROVE  RowInv'
<1>1. mode' = saved.mode /\ text' = saved.text /\ form' = FALSE /\ UNCHANGED <<saved, focus, reply, by, overtaken>>
  BY DEF Row!EndInput, Row!Restored, Row!FormAfter
<1>2. \/ Row!Working(rest)
      \/ Row!ShowModal("turn", "view", rest)
      \/ Row!ShowModal("turn", "ask", rest)
  BY DEF Row!EndInput
<1>3. CASE Row!Working(rest)
  <2>1. Goes("turn") /\ task'["turn"].at = "work"
    BY <1>1, <1>3, TurnWorks
  <2> QED
    BY <1>1, <2>1, GivesBack
<1>4. CASE Row!ShowModal("turn", "view", rest)
  <2>1. "view" \in Reasons
    BY DEF Reasons
  <2>2. Goes("turn") /\ task'["turn"].at \in {"modal", "waitModal"}
    BY <1>1, <1>4, <2>1, Shows
  <2> QED
    BY <1>1, <2>2, GivesBack
<1>5. CASE Row!ShowModal("turn", "ask", rest)
  <2>1. "ask" \in Reasons
    BY DEF Reasons
  <2>2. Goes("turn") /\ task'["turn"].at \in {"modal", "waitModal"}
    BY <1>1, <1>5, <2>1, Shows
  <2> QED
    BY <1>1, <2>2, GivesBack
<1> QED
  BY <1>2, <1>3, <1>4, <1>5

LEMMA TurnGoesOn ==
  ASSUME RowInv, RoomInv', NEW rest, Unheld("turn", rest), "turn" \in Of(ready), Row!TurnResumes(rest),
         UNCHANGED <<outside, exiting, leftText>>
  PROVE  RowInv'
<1> DEFINE place == task["turn"].at
           why   == task["turn"].for
<1>1. "turn" \in Row!Tasks /\ why \in Reasons
  BY DEF RowInv, RowTyped, Row!Tasks
<1>2. \/ place = "waitInput" /\ Row!StartInput(why, rest, Row!Row) /\ UNCHANGED <<form, focus>>
      \/ place = "input" /\ Row!EndInput(rest)
      \/ place = "waitModal" /\ Row!Activate("turn", why, rest) /\ Row!Quiet
      \/ place = "modal" /\ why = "view" /\ Row!RequestInput("approve", rest, Row!Row)
      \/ place = "modal" /\ why = "ask" /\ Row!Working(rest) /\ Row!Quiet
      \/ place = "modal" /\ why = "ask" /\ Row!RequestInput("ask", rest, Row!Row)
  BY DEF Row!TurnResumes
<1>3. CASE place = "waitInput" /\ Row!StartInput(why, rest, Row!Row) /\ UNCHANGED <<form, focus>>
  <2>1. why \in {"approve", "ask"} /\ mode # "approval" /\ form' = (why = "approve") /\ focus' \in Row!Actions
    BY <1>3 DEF RowInv, RowTyped, PromptInv
  <2> QED
    BY <1>3, <2>1, StartsInput
<1>4. CASE place = "input" /\ Row!EndInput(rest)
  BY <1>4, EndsInput
<1>5. CASE place = "waitModal" /\ Row!Activate("turn", why, rest) /\ Row!Quiet
  <2>1. modal = Row!NoTask /\ UNCHANGED reply
    BY <1>1, <1>5 DEF RowInv, ModalInv, Waiting, Row!Quiet, Row!rowVars
  <2>2. Goes("turn") /\ task'["turn"] = [at |-> "modal", for |-> why]
    BY <1>1, <1>5, <2>1, Activates
  <2>3. task'["turn"].at = "modal"
    BY <2>2
  <2> QED
    BY <1>1, <1>5, <2>2, <2>3, QuietStep
<1>6. CASE place = "modal" /\ Row!RequestInput("approve", rest, Row!Row)
  BY <1>6, RequestsInput
<1>7. CASE place = "modal" /\ Row!Working(rest) /\ Row!Quiet
  <2>1. Goes("turn") /\ task'["turn"].at = "work"
    BY <1>7, TurnWorks
  <2> QED
    BY <1>1, <1>7, <2>1, QuietStep
<1>8. CASE place = "modal" /\ Row!RequestInput("ask", rest, Row!Row)
  BY <1>8, RequestsInput
<1> QED
  BY <1>2, <1>3, <1>4, <1>5, <1>6, <1>7, <1>8

LEMMA BrowserGoesOn ==
  ASSUME RowInv, RoomInv', NEW rest, Unheld("browser", rest), "browser" \in Of(ready), Row!BrowserResumes(rest),
         UNCHANGED <<outside, exiting, leftText>>
  PROVE  RowInv'
<1>1. "browser" \in Row!Tasks /\ "list" \in Reasons /\ Row!Quiet /\ UNCHANGED reply
  BY DEF Row!Tasks, Reasons, Row!BrowserResumes, Row!Quiet, Row!rowVars
<1>2. \/ task["browser"].at = "waitModal" /\ Row!Activate("browser", "list", rest)
      \/ Row!ShowModal("browser", "list", rest)
      \/ task' = [task EXCEPT !["browser"] = Row!Off] /\ ready' = rest /\ UNCHANGED <<modal, waiters>>
  BY DEF Row!BrowserResumes
<1>3. Goes("browser")
  <2>1. CASE task["browser"].at = "waitModal" /\ Row!Activate("browser", "list", rest)
    <3>1. modal = Row!NoTask
      BY <1>1, <2>1 DEF RowInv, ModalInv, Waiting
    <3> QED
      BY <1>1, <2>1, <3>1, Activates
  <2>2. CASE Row!ShowModal("browser", "list", rest)
    BY <1>1, <2>2, Shows
  <2>3. CASE task' = [task EXCEPT !["browser"] = Row!Off] /\ ready' = rest /\ UNCHANGED <<modal, waiters>>
    <3>1. Row!Off \in [at : {"off", "work", "input"}, for : Reasons]
      BY DEF Row!Off, Reasons
    <3> QED
      BY <1>1, <2>3, <3>1, Moves
  <2> QED
    BY <1>2, <2>1, <2>2, <2>3
<1> QED
  BY <1>1, <1>3, QuietStep

\* The end of a command; of one that was dispatched there is no turn to take the row from.
LEMMA EndsCommand ==
  ASSUME RowInv, RoomInv', NEW rest, ready' = rest, Screen', rest \in Queues,
         task["command"].at # "off", Row!CommandEnds(rest), UNCHANGED <<outside, exiting, leftText>>
  PROVE  RowInv'
<1>1. /\ mode' = IF task["command"].for = "dispatch" THEN "chat" ELSE mode
      /\ task' = [task EXCEPT !["command"] = Row!Off]
      /\ UNCHANGED <<text, saved, form, focus, reply, by, modal, waiters, overtaken>>
  BY DEF Row!CommandEnds
<1>2. "command" \in Row!Tasks /\ "turn" \in Row!Tasks /\ Row!Off \in [at : Places, for : Reasons] /\ Row!Off.at = "off"
  BY DEF Row!Tasks, Row!Off, Places, Reasons
<1>3. task' \in [Row!Tasks -> [at : Places, for : Reasons]] /\ task'["command"] = Row!Off /\ Only("command")
  BY <1>1, <1>2, TaskSet DEF RowInv
<1>4. \A b \in Row!Tasks : b # "command" => task'[b] = task[b]
  BY <1>3 DEF Only
<1>5. RowTyped'
  BY <1>1, <1>2, <1>3, <1>4 DEF RowInv, RowTyped, Modes
<1>6. task'["turn"] = task["turn"] /\ task'["command"].at = "off"
  BY <1>2, <1>3, <1>4
<1>7. PromptInv'
  BY <1>1, <1>6 DEF RowInv, PromptInv
<1>8. DraftInv'
  BY <1>1, <1>6 DEF RowInv, DraftInv
<1> QED
  BY <1>5, <1>7, <1>8 DEF RowInv, Screen

LEMMA CommandGoesOn ==
  ASSUME RowInv, RoomInv', NEW rest, Unheld("command", rest), "command" \in Of(ready), Row!CommandResumes(rest),
         UNCHANGED <<outside, exiting, leftText>>
  PROVE  RowInv'
<1>1. "command" \in Row!Tasks /\ task["command"].for \in Reasons
  BY DEF RowInv, RowTyped, Row!Tasks
<1>2. CASE task["command"].at = "waitModal" /\ Row!Activate("command", task["command"].for, rest) /\ Row!Quiet
  <2>1. modal = Row!NoTask /\ UNCHANGED reply
    BY <1>1, <1>2 DEF RowInv, ModalInv, Waiting, Row!Quiet, Row!rowVars
  <2>2. Goes("command") /\ task'["command"] = [at |-> "modal", for |-> task["command"].for]
    BY <1>1, <1>2, <2>1, Activates
  <2>3. task'["command"].for = task["command"].for
    BY <2>2
  <2> QED
    BY <1>1, <1>2, <2>2, <2>3, QuietStep
<1>3. CASE task["command"].at = "modal" /\ Row!CommandEnds(rest)
  <2>1. Row!Off \in [at : {"off", "work", "input"}, for : Reasons]
    BY DEF Row!Off, Reasons
  <2>2. Goes("command")
    BY <1>3, <2>1, Moves DEF Row!CommandEnds
  <2>3. ready' = rest /\ rest \in Queues /\ Screen'
    BY <1>3, <2>2 DEF Row!CommandEnds, Unheld, Goes
  <2> QED
    BY <1>3, <2>3, EndsCommand
<1> QED
  BY <1>2, <1>3 DEF Row!CommandResumes

LEMMA RowResume == ASSUME RowInv, Row!Resume PROVE RowInv'
<1> DEFINE a == Head(ready)
<1>1. ready # <<>> /\ UNCHANGED <<outside, exiting, leftText>>
  BY DEF Row!Resume, Row!Frame, Row!exitVars
<1>2. Unheld(a, Tail(ready)) /\ a \in Of(ready) /\ a \in Row!Opening
  BY <1>1, HeadIsUnheld DEF RowInv
<1>3. \/ a = "turn" /\ Row!TurnResumes(Tail(ready))
      \/ a = "browser" /\ Row!BrowserResumes(Tail(ready))
      \/ a = "command" /\ Row!CommandResumes(Tail(ready))
  BY DEF Row!Resume
<1>4. Only(a)
  <2>1. \E x : task' = [task EXCEPT ![a] = x]
    <3>1. CASE a = "turn" /\ Row!TurnResumes(Tail(ready))
      BY <3>1 DEF Row!TurnResumes, Row!StartInput, Row!EndInput, Row!Activate, Row!RequestInput, Row!Working, Row!ShowModal
    <3>2. CASE a = "browser" /\ Row!BrowserResumes(Tail(ready))
      BY <3>2 DEF Row!BrowserResumes, Row!Activate, Row!ShowModal
    <3>3. CASE a = "command" /\ Row!CommandResumes(Tail(ready))
      BY <3>3 DEF Row!CommandResumes, Row!Activate, Row!CommandEnds
    <3> QED
      BY <1>3, <3>1, <3>2, <3>3
  <2> QED
    BY <2>1 DEF RowInv, RowTyped, Only
<1>5. RoomInv'
  BY <1>2, <1>4, RoomStays DEF RowInv, Row!Opening
<1> HIDE DEF a
<1>6. CASE a = "turn" /\ Row!TurnResumes(Tail(ready))
  BY <1>1, <1>2, <1>5, <1>6, TurnGoesOn
<1>7. CASE a = "browser" /\ Row!BrowserResumes(Tail(ready))
  BY <1>1, <1>2, <1>5, <1>7, BrowserGoesOn
<1>8. CASE a = "command" /\ Row!CommandResumes(Tail(ready))
  BY <1>1, <1>2, <1>5, <1>8, CommandGoesOn
<1> QED
  BY <1>3, <1>6, <1>7, <1>8

LEMMA RowDispatch == ASSUME RowInv, Row!Dispatch PROVE RowInv'
<1>1. /\ UNCHANGED <<text, saved, form, focus, reply, by, modal, waiters, ready, overtaken, outside, exiting, leftText>>
      /\ mode = "dispatch" /\ ~exiting /\ task["turn"] = Row!Off /\ task["command"] = Row!Off
  BY DEF Row!Dispatch, Row!Frame, Row!exitVars
<1>2. "command" \in Row!Tasks /\ "turn" \in Row!Tasks /\ Row!Off.at = "off" /\ RowTyped
  BY DEF RowInv, Row!Tasks, Row!Off
<1>3. ASSUME NEW a \in {"turn", "command"}, NEW x \in [at : {"work", "probe"}, for : Reasons],
             task' = [task EXCEPT ![a] = x], mode' \in Modes, a = "turn" => x.for # "dispatch" /\ x.at = "work"
      PROVE  RowInv'
  <2>1. a \in Row!Tasks /\ x \in [at : Places, for : Reasons] /\ x.at \in {"off", "work", "probe"} /\ x.at \notin {"off", "waitInput", "input"}
    BY <1>2 DEF Places
  <2>2. task' \in [Row!Tasks -> [at : Places, for : Reasons]] /\ task'[a] = x /\ Only(a)
    BY <1>2, <1>3, <2>1, TaskSet
  <2>3. task[a].at = "off"
    BY <1>1, <1>2
  <2>4. RoomInv' /\ QueueInv' /\ ModalInv'
    BY <1>1, <1>2, <2>1, <2>2, <2>3, IdleStep, RoomStays DEF RowInv
  <2>5. \A b \in Row!Tasks : b # a => task'[b] = task[b]
    BY <2>2 DEF Only
  <2>6. RowTyped'
    BY <1>1, <1>2, <1>3, <2>1, <2>2, <2>5 DEF RowTyped
  <2>7. form = FALSE /\ task["turn"].at = "off" /\ task["command"].at = "off" /\ mode' # "approval"
    BY <1>1, <1>2, <1>3 DEF RowInv, RowTyped, PromptInv, Modes
  <2>8. task'["turn"].at \notin {"waitInput", "input"} /\ (task'["turn"].at = "off" \/ task'["command"].at = "off")
    BY <1>2, <2>1, <2>2, <2>5, <2>7, <1>3
  <2>9. PromptInv'
    BY <1>1, <2>7, <2>8 DEF PromptInv
  <2>10. DraftInv'
    BY <1>1, <2>7, <2>8 DEF RowInv, DraftInv
  <2> QED
    BY <2>4, <2>6, <2>9, <2>10 DEF RowInv
<1>4. CASE task' = [task EXCEPT !["command"] = [at |-> "probe", for |-> "dispatch"]] /\ UNCHANGED mode
  <2>1. mode' \in Modes /\ [at |-> "probe", for |-> "dispatch"] \in [at : {"work", "probe"}, for : Reasons]
    BY <1>1, <1>4 DEF Modes, Reasons
  <2> QED
    BY <1>3, <1>4, <2>1
<1>5. CASE task' = [task EXCEPT !["turn"] = [at |-> "work", for |-> "turn"]] /\ mode' = "running"
  <2>1. mode' \in Modes /\ [at |-> "work", for |-> "turn"] \in [at : {"work", "probe"}, for : Reasons]
    BY <1>5 DEF Modes, Reasons
  <2> QED
    BY <1>3, <1>5, <2>1
<1> QED
  BY <1>4, <1>5 DEF Row!Dispatch

LEMMA RowTurnStep == ASSUME RowInv, ~Crowded, Row!TurnStep PROVE RowInv'
<1>1. task["turn"].at = "work" /\ ~exiting /\ UNCHANGED <<outside, exiting, leftText>> /\ "turn" \in Row!Tasks
  BY DEF Row!TurnStep, Row!Frame, Row!exitVars, Row!Tasks
<1>2. CASE Row!Room /\ Row!RequestInput("approve", ready, Row!Row)
  <2>1. Unheld("turn", ready)
    BY <1>1, <1>2, OpenerIsUnheld DEF RowInv, WokenInv
  <2>2. Only("turn")
    BY <1>2 DEF Row!RequestInput, Row!StartInput, RowInv, RowTyped, Only
  <2>3. RoomInv'
    BY <1>1, <1>2, <2>2, RoomForOne
  <2> QED
    BY <1>1, <1>2, <2>1, <2>3, RequestsInput
<1>3. CASE Row!Room /\ Row!ShowModal("turn", "ask", ready) /\ Row!Quiet
  <2>1. Unheld("turn", ready)
    BY <1>1, <1>3, OpenerIsUnheld DEF RowInv, WokenInv
  <2>2. Only("turn")
    BY <1>3 DEF Row!ShowModal, Row!Activate, RowInv, RowTyped, Only
  <2>3. RoomInv' /\ "ask" \in Reasons /\ UNCHANGED reply
    BY <1>1, <1>3, <2>2, RoomForOne DEF Reasons, Row!Quiet, Row!rowVars
  <2>4. Goes("turn") /\ task'["turn"].at \in {"modal", "waitModal"}
    BY <1>1, <1>3, <2>1, <2>3, Shows
  <2> QED
    BY <1>1, <1>3, <2>4, QuietStep
<1>4. CASE /\ task' = [task EXCEPT !["turn"] = Row!Off] /\ mode' = "chat"
           /\ UNCHANGED <<text, saved, form, focus, reply, by, modal, waiters, ready, overtaken, steps>>
  <2>1. Row!Off \in [at : Places, for : Reasons] /\ Row!Off.at = "off"
    BY DEF Row!Off, Places, Reasons
  <2>2. task' \in [Row!Tasks -> [at : Places, for : Reasons]] /\ task'["turn"] = Row!Off /\ Only("turn")
    BY <1>1, <1>4, <2>1, TaskSet DEF RowInv
  <2>3. RoomInv' /\ QueueInv' /\ ModalInv'
    BY <1>1, <1>4, <2>1, <2>2, IdleStep, RoomStays DEF RowInv
  <2>4. \A b \in Row!Tasks : b # "turn" => task'[b] = task[b]
    BY <2>2 DEF Only
  <2>5. RowTyped'
    BY <1>1, <1>4, <2>2, <2>4 DEF RowInv, RowTyped, Modes
  <2>6. task'["turn"].at = "off" /\ form = FALSE
    BY <1>1, <2>1, <2>2 DEF RowInv, PromptInv, RowTyped
  <2>7. PromptInv' /\ DraftInv'
    BY <1>1, <1>4, <2>6 DEF RowInv, PromptInv, DraftInv
  <2> QED
    BY <2>3, <2>5, <2>7 DEF RowInv
<1> QED
  BY <1>2, <1>3, <1>4 DEF Row!TurnStep

LEMMA RowCommandReady == ASSUME RowInv, WokenInv, ~Crowded, Row!CommandReady PROVE RowInv'
<1>1. task["command"].at = "probe" /\ (exiting => Row!Dispatched) /\ UNCHANGED <<outside, exiting, leftText>> /\ "command" \in Row!Tasks
  BY DEF Row!CommandReady, Row!Frame, Row!exitVars, Row!Tasks
<1>2. CASE Row!Room /\ ~closed /\ Row!ShowModal("command", task["command"].for, ready) /\ Row!Quiet
  <2>1. Unheld("command", ready)
    BY <1>1, <1>2, OpenerIsUnheld DEF RowInv
  <2>2. Only("command")
    BY <1>2 DEF Row!ShowModal, Row!Activate, RowInv, RowTyped, Only
  <2>3. RoomInv' /\ task["command"].for \in Reasons /\ UNCHANGED reply
    BY <1>1, <1>2, <2>2, RoomForOne DEF RowInv, RowTyped, Row!Quiet, Row!rowVars
  <2>4. Goes("command") /\ task'["command"].for = task["command"].for
    BY <1>1, <1>2, <2>1, <2>3, Shows
  <2> QED
    BY <1>1, <1>2, <2>4, QuietStep
<1>3. CASE Row!CommandEnds(ready)
  <2>1. task' = [task EXCEPT !["command"] = Row!Off] /\ UNCHANGED <<modal, waiters, ready, reply>>
    BY <1>3 DEF Row!CommandEnds
  <2>2. task'["command"].at = "off" /\ Only("command")
    BY <1>1, <2>1 DEF RowInv, RowTyped, Only, Row!Off
  <2>3. RoomInv' /\ QueueInv' /\ ModalInv' /\ ready \in Queues
    BY <1>1, <2>1, <2>2, IdleStep, RoomStays DEF RowInv, RowTyped
  <2> QED
    BY <1>1, <1>3, <2>1, <2>3, EndsCommand DEF Screen
<1> QED
  BY <1>2, <1>3 DEF Row!CommandReady

LEMMA RowAfterRun == ASSUME RowInv, Row!AfterRun PROVE RowInv'
<1>1. RoomInv' /\ QueueInv' /\ ModalInv' /\ waiters' \in Queues /\ ready' \in Queues
  BY AfterRunStep DEF RowInv
<1>2. /\ UNCHANGED <<mode, text, saved, form, focus, task, exiting, leftText, overtaken>> /\ modal' = Row!NoTask
      /\ outside'.text = "" /\ reply' \in {reply, "cancel"} /\ (reply' = reply => by' = by \/ reply = "pending")
      /\ reply' = "cancel" \/ by' = by
  BY DEF Row!AfterRun, Row!Interrupted, Row!Free, Row!userVars
<1>3. RowTyped'
  <2>1. outside'.text \in Row!Texts
    BY <1>2 DEF Row!Texts
  <2>2. reply' \in {"pending", "cancel"} \cup Row!Actions \cup Row!Texts
    BY <1>2 DEF RowInv, RowTyped
  <2> QED
    BY <1>1, <1>2, <2>1, <2>2 DEF RowInv, RowTyped
<1>4. PromptInv' /\ DraftInv'
  BY <1>2 DEF RowInv, PromptInv, DraftInv
<1> QED
  BY <1>1, <1>3, <1>4 DEF RowInv

LEMMA RowCancelTask == ASSUME RowInv, NEW a \in Row!Tasks, Row!CancelTask(a) PROVE RowInv'
<1>1. /\ UNCHANGED <<saved, focus, reply, by, outside, exiting, leftText, overtaken>> /\ exiting /\ Row!Cancelled(a)
      /\ IF a = "turn" /\ task[a].at = "input"
         THEN mode' = saved.mode /\ text' = saved.text /\ form' = FALSE
         ELSE UNCHANGED <<mode, text, form>>
  BY DEF Row!CancelTask, Row!FormAfter, Row!exitVars, Row!userVars
<1>2. RoomInv' /\ QueueInv' /\ ModalInv' /\ waiters' \in Queues /\ ready' \in Queues /\ modal' \in {modal, Row!NoTask}
  BY <1>1, CancelledStep DEF RowInv
<1>3. task' = [task EXCEPT ![a] = Row!Off] /\ Row!Off \in [at : Places, for : Reasons] /\ Row!Off.at = "off"
  BY <1>1 DEF Row!Cancelled, Row!Off, Places, Reasons
<1>4. task' \in [Row!Tasks -> [at : Places, for : Reasons]] /\ task'[a] = Row!Off /\ Only(a)
  BY <1>3, TaskSet DEF RowInv
<1>5. /\ "turn" \in Row!Tasks /\ "command" \in Row!Tasks /\ task'[a].at = "off"
      /\ \A b \in Row!Tasks : b # a => task'[b] = task[b]
  BY <1>3, <1>4 DEF Only, Row!Tasks
<1>6. Goes(a)
  BY <1>2, <1>4 DEF Goes, Screen, RowInv, RowTyped
<1>7. CASE a = "turn" /\ task[a].at = "input"
  BY <1>1, <1>5, <1>6, <1>7, GivesBack
<1>8. CASE ~(a = "turn" /\ task[a].at = "input")
  <2>1. UNCHANGED <<mode, text, form>>
    BY <1>1, <1>8
  <2>2. RowTyped'
    BY <1>1, <1>4, <1>5, <1>6, <2>1 DEF RowInv, RowTyped, Goes
  <2>3. PromptInv'
    <3>1. CASE a = "turn"
      BY <1>1, <1>5, <1>8, <2>1, <3>1 DEF RowInv, PromptInv
    <3>2. CASE a # "turn"
      BY <1>1, <1>5, <2>1, <3>2 DEF RowInv, PromptInv
    <3> QED
      BY <3>1, <3>2
  <2>4. task'["turn"].at = "input" <=> task["turn"].at = "input"
    BY <1>5, <1>8
  <2>5. DraftInv'
    BY <1>1, <2>1, <2>4 DEF RowInv, DraftInv
  <2> QED
    BY <1>2, <2>2, <2>3, <2>5 DEF RowInv
<1> QED
  BY <1>7, <1>8

LEMMA RowKept == ASSUME RowInv PROVE Row!PromptKept /\ Row!ScreenKept
<1>1. Row!IsInjective(waiters \o ready)
  <2>1. Once(waiters \o ready)
    BY QueueJoin DEF RowInv, RowTyped, QueueInv
  <2> QED
    BY <2>1 DEF Once, Row!IsInjective
<1>2. Row!TypeOK
  BY <1>1 DEF Row!TypeOK, RowInv, RowTyped, Modes, Queues
<1>3. Row!RowIsTheRequest /\ Row!FormIsThePrompts /\ Row!ApprovedByEnter
  BY DEF RowInv, PromptInv, Row!RowIsTheRequest, Row!FormIsThePrompts, Row!ApprovedByEnter
<1>4. Row!DraftKept
  BY DEF RowInv, DraftInv, PromptInv, Row!DraftKept
<1>5. Row!ModalsExclusive
  <2>1. \A a \in Row!Tasks : Row!Contains(ready, a) <=> a \in Of(ready)
    BY DEF Row!Contains, Of, RowInv, RowTyped, Queues
  <2> QED
    BY <2>1 DEF RowInv, ModalInv, Row!ModalsExclusive
<1> QED
  BY <1>2, <1>3, <1>4, <1>5 DEF Row!PromptKept, Row!ScreenKept

LEMMA RowStart == Row!Init => RowInv
<1> SUFFICES ASSUME Row!Init PROVE RowInv
  OBVIOUS
<1> USE DEF Row!Init
<1>1. RowTyped
  BY QueueNone DEF RowTyped, Modes, Places, Reasons, Row!Texts, Row!Actions, Row!Tasks, Row!NoTask, Row!Off, Row!Free
<1>2. PromptInv /\ DraftInv
  BY DEF PromptInv, DraftInv, Row!Off, Row!Tasks
<1>3. RoomInv
  BY DEF RoomInv, Row!Off, Row!Tasks
<1>4. QueueInv
  BY QueueNone DEF QueueInv
<1>5. ModalInv
  BY QueueNone, FirstNone DEF ModalInv, Row!Off
<1> QED
  BY <1>1, <1>2, <1>3, <1>4, <1>5 DEF RowInv

\* The exit keys find the queue as it is; after them only a task that resumes, the command, the end
\* of the application and the cancellations move it.
LEMMA RowWoken == ASSUME RowInv, WokenInv, ~Crowded, RowNext PROVE WokenInv'
<1>1. CASE ~exiting
  <2>1. exiting' => /\ UNCHANGED <<task, ready>>
    BY <1>1 DEF RowNext, Row!Type, Row!Submit, Row!Answer, Row!MoveFocus, Row!Escape, Row!ClearRow, Row!CtrlC, Row!CtrlD,
       Row!ModalKey, Row!CtrlO, Row!Recall, Row!StartOutside, Row!PickerDone, Row!EditorDone, Row!RestoreSubmission,
       Row!Dispatch, Row!TurnStep, Row!Resume, Row!CommandReady, Row!ForceExit, Row!AfterRun, Row!CancelTask,
       Row!RowFrame, Row!Frame, Row!exitVars, Row!Still, Row!taskVars
  <2> QED
    BY <1>1, <2>1 DEF WokenInv, RowInv, ModalInv, Waiting
<1>2. CASE exiting /\ (closed' \/ ~Row!Dispatched')
  BY <1>2 DEF WokenInv
<1>3. CASE exiting /\ ~closed' /\ Row!Dispatched'
  <2>1. Row!Resume \/ Row!CommandReady \/ Row!AfterRun \/ \E a \in Row!Tasks : Row!CancelTask(a)
    BY <1>3 DEF RowNext, Row!Type, Row!Submit, Row!Answer, Row!MoveFocus, Row!Escape, Row!ClearRow, Row!CtrlC, Row!CtrlD,
       Row!ModalKey, Row!CtrlO, Row!Recall, Row!StartOutside, Row!PickerDone, Row!EditorDone, Row!RestoreSubmission,
       Row!Dispatch, Row!TurnStep, Row!ForceExit, Row!RowKey, Row!Key
  <2>2. CASE Row!Resume
    <3> DEFINE a == Head(ready)
    <3>1. Unheld(a, Tail(ready)) /\ ready # <<>> /\ ~closed
      BY <1>3, <2>2, HeadIsUnheld DEF RowInv, Row!Resume, Row!Frame, Row!exitVars
    <3>2. ready' = Tail(ready) /\ \E x : task' = [task EXCEPT ![a] = x]
      BY <2>2, <3>1 DEF Row!Resume, Row!TurnResumes, Row!StartInput, Row!EndInput, Row!Activate, Row!RequestInput, Row!Working,
         Row!ShowModal, Row!BrowserResumes, Row!CommandResumes, Row!CommandEnds
    <3> HIDE DEF a
    <3>3. \A b \in Of(ready') : b # a /\ task'[b] = task[b] /\ b \in Row!Tasks
      BY <3>1, <3>2, QueueSome DEF Unheld, RowInv, RowTyped
    <3>4. Of(ready') \cap Waiting' = {}
      BY <3>1, <3>2, <3>3 DEF Unheld, Waiting
    <3> QED
      BY <3>4 DEF WokenInv
  <2>3. CASE Row!CommandReady
    <3>1. /\ exiting => Row!Dispatched /\ ~closed
          /\ Row!Room /\ task["command"].at = "probe" /\ Row!ShowModal("command", task["command"].for, ready)
      BY <1>3, <2>3 DEF Row!CommandReady, Row!CommandEnds, Row!Dispatched, Row!Frame, Row!exitVars, Row!Tasks, RowInv, RowTyped
    <3>2. Unheld("command", ready)
      BY <3>1, OpenerIsUnheld DEF RowInv, Row!Tasks
    <3>3. ready' = ready /\ \E x : task' = [task EXCEPT !["command"] = x]
      BY <1>3, <3>1 DEF Row!ShowModal, Row!Activate
    <3>4. \A b \in Of(ready') : b # "command" /\ task'[b] = task[b] /\ b \in Row!Tasks
      BY <3>2, <3>3, QueueSome DEF Unheld, RowInv, RowTyped
    <3>5. Of(ready') \cap Waiting' = {}
      BY <3>2, <3>3, <3>4 DEF Unheld, Waiting
    <3> QED
      BY <3>5 DEF WokenInv
  <2>4. CASE Row!AfterRun
    BY <1>3, <2>4 DEF Row!AfterRun
  <2>5. CASE \E a \in Row!Tasks : Row!CancelTask(a)
    BY <1>3, <2>5 DEF Row!CancelTask, Row!Cancelled, Row!Dispatched, RowInv, RowTyped, Row!Tasks
  <2> QED
    BY <2>1, <2>2, <2>3, <2>4, <2>5
<1> QED
  BY <1>1, <1>2, <1>3

RowsInv == about \in {"row", "scrollback"} /\ (about = "row" => RowInv /\ WokenInv)

LEMMA RowSteps == ASSUME ~Crowded PROVE RowsInv /\ [TerminalNext]_allVars => RowsInv'
<1> SUFFICES ASSUME RowsInv, [TerminalNext]_allVars PROVE RowsInv'
  OBVIOUS
<1>1. CASE UNCHANGED <<about, rowVars>>
  <2>1. UNCHANGED <<about, mode, text, saved, form, focus, reply, by, modal, task, waiters, ready, outside, exiting, leftText,
                    overtaken>>
    BY <1>1 DEF rowVars
  <2>2. RowInv => Screen'
    BY <2>1, SameScreen DEF RowInv, Screen
  <2>3. RowInv => RowTyped'
    BY <2>1 DEF RowInv, RowTyped
  <2>4. RowInv => PromptInv' /\ DraftInv'
    BY <2>1 DEF RowInv, PromptInv, DraftInv
  <2>5. closed' = closed
    BY <1>1 DEF rowVars
  <2>6. WokenInv => WokenInv'
    BY <2>1, <2>5 DEF WokenInv, Waiting, Row!Dispatched
  <2> QED
    BY <2>1, <2>2, <2>3, <2>4, <2>6 DEF RowsInv, RowInv, Screen
<1>2. CASE RowNext
  <2>1. about = "row" /\ about' = about /\ RowInv /\ WokenInv
    BY <1>2 DEF RowNext, InRow, RowsInv
  <2>2. RowInv'
    BY <1>2, <2>1, RowTextSteps, RowSubmit, RowAnswer, RowEscape, RowCtrlC, RowCtrlD, RowModalKey, RowCtrlO, RowDispatch,
       RowTurnStep, RowResume, RowCommandReady, RowForceExit, RowAfterRun, RowCancelTask
    DEF RowNext
  <2> QED
    BY <1>2, <2>1, <2>2, RowWoken DEF RowsInv
<1>3. CASE ScrollNext
  <2>1. UNCHANGED <<about, rowVars>>
    BY <1>3 DEF ScrollNext, InScroll
  <2> QED
    BY <1>1, <2>1
<1> QED
  BY <1>1, <1>2, <1>3 DEF TerminalNext, allVars

\* TerminalHolds: whatever the user presses, the tasks await and the end of the application
\* interrupts, as long as not all three tasks want the screen at once: the row is a prompt exactly
\* while one is asked, with its own actions; only Enter approves; a modal and the task that shows
\* it have each other, nobody waits for one that is gone, and the row the user comes back to holds
\* what the user left in it.
THEOREM TerminalHolds == ~Crowded => (TerminalSpec => []TerminalSound)
<1> SUFFICES ASSUME ~Crowded PROVE TerminalSpec => []TerminalSound
  OBVIOUS
<1>1. TerminalInit => RowsInv
  BY RowStart DEF TerminalInit, RowsInv, WokenInv, Row!Init
<1>2. RowsInv /\ [TerminalNext]_allVars => RowsInv'
  BY RowSteps
<1>3. RowsInv => TerminalSound
  BY RowKept DEF RowsInv, TerminalSound
<1> QED
  BY <1>1, <1>2, <1>3, PTL DEF TerminalSpec
=============================================================================
