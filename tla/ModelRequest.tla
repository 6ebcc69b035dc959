---------------------------- MODULE ModelRequest ----------------------------
(***************************************************************************)
(* One answer of the model: the request loop of Agent._run_turn, the       *)
(* retries and attempts of ModelClient, and the description of images for  *)
(* a route that takes none (engine.py, model/client.py, session/images.py).*)
(*                                                                         *)
(* An attempt is a child task.  It runs, then closes its client, then is   *)
(* done, and only later does the engine's coroutine wake up to look at it. *)
(* Meanwhile the user may ask for the attempt to be sent again, which      *)
(* claims it and schedules its cancellation on the loop, or cancel the     *)
(* turn, more than once.                                                   *)
(***************************************************************************)
EXTENDS Naturals, FiniteSets

CONSTANTS
  MaxRetries,   \* MODEL_REQUEST_RETRIES
  MaxResends,   \* bound: attempts the user claims
  MaxCancels,   \* bound: cancellations of the turn
  Routes,       \* whether the route is known to take no images when the request begins
  Visions       \* whether a [vision] provider is configured

ASSUME ModelRequestAssumption ==
  /\ MaxRetries \in Nat /\ MaxResends \in Nat /\ MaxCancels \in Nat
  /\ Routes \subseteq BOOLEAN /\ Visions \subseteq BOOLEAN

VARIABLES
  at,         \* what the engine awaits
  tries,      \* retries of this call of ModelClient.request
  attempts,   \* attempts so far; the newest is the one in flight
  child,      \* the attempt's task: "none", "running", "closing" its client, or "done"
  outcome,    \* what it will return or raise
  claimed,    \* _attempt_claimed
  posted,     \* attempts whose cancellation is scheduled on the loop
  cancels,    \* cancellations of the turn so far
  textOnly,   \* ImageRoute.is_text_only
  vision,     \* config.vision_provider is set
  queued,     \* what the queue holds: "text", "image"
  live,       \* {"turn"} while the turn's own image has no description in turn_messages
  draft,      \* the request being prepared
  request,    \* failed_request, the last one prepared
  converted,  \* it is the one retry after a refused image
  observed,   \* how often each image was described
  manual,     \* state.manual_model_retry_requested
  started,    \* state.current_model_call_started_at > 0
  waiting,    \* state.model_retry_until > 0
  count,      \* state.model_retry_count
  resent,     \* history: attempts the user claimed
  accepted    \* history: the attempt that answered

imageVars   == <<textOnly, vision, queued, live, draft, request, converted, observed>>
statusVars  == <<manual, started, waiting, count>>
attemptVars == <<tries, attempts, child, outcome, claimed>>
userVars    == <<posted, cancels, resent>>
vars == <<at, attemptVars, userVars, imageVars, statusVars, accepted>>

ImageNames == {"turn", "queued"}
Final      == {"answered", "failed", "cancelled"}
InFlight   == child \in {"running", "closing"}
NoRequest  == [pending |-> FALSE, raw |-> {}]

Init ==
  /\ at = "prepare" /\ tries = 0 /\ attempts = 0 /\ child = "none" /\ outcome = "none"
  /\ claimed = FALSE /\ posted = {} /\ cancels = 0 /\ resent = {} /\ accepted = 0
  /\ textOnly \in Routes /\ vision \in Visions /\ queued = {} /\ live \in {{}, {"turn"}}
  /\ draft = NoRequest /\ request = NoRequest /\ converted = FALSE
  /\ observed = [i \in ImageNames |-> 0]
  /\ manual = FALSE /\ started = FALSE /\ waiting = FALSE /\ count = 0

-----------------------------------------------------------------------------
(***************************************************************************)
(* The user.                                                               *)
(***************************************************************************)
Enqueue ==
  /\ at \notin Final
  /\ \E kind \in {"text", "image"} \ queued : queued' = queued \cup {kind}
  /\ UNCHANGED <<at, attemptVars, userVars, textOnly, vision, live, draft, request, converted, observed,
                 statusVars, accepted>>

\* /resend, or a recalled follow-up: claim the attempt in flight, once.
Resend ==
  /\ ~waiting /\ ~manual /\ InFlight /\ ~claimed /\ Cardinality(resent) < MaxResends
  /\ claimed' = TRUE /\ posted' = posted \cup {attempts} /\ resent' = resent \cup {attempts}
  /\ manual' = TRUE /\ count' = count + 1
  /\ UNCHANGED <<at, tries, attempts, child, outcome, cancels, imageVars, started, waiting, accepted>>

\* task.cancel: what the attempt was doing is interrupted, the closing of its client included.
Hit == /\ child' = IF child = "running" THEN "closing" ELSE "done"
       /\ outcome' = "cancelled"

\* Agent.cancel.  While the engine awaits a cancelled attempt a second one goes through to it.
CancelTurn ==
  /\ at \notin Final /\ cancels < MaxCancels
  /\ cancels' = cancels + 1
  /\ IF at = "unwind" /\ InFlight THEN Hit ELSE UNCHANGED <<child, outcome>>
  /\ UNCHANGED <<at, tries, attempts, claimed, posted, resent, imageVars, statusVars, accepted>>

-----------------------------------------------------------------------------
(***************************************************************************)
(* The attempt.                                                            *)
(***************************************************************************)
AttemptFrame == UNCHANGED <<at, tries, attempts, claimed, cancels, resent, imageVars, statusVars, accepted>>

\* The provider answered; a transport error; HTTP 400; any other error, or the response deadline.
ChildEnds ==
  /\ child = "running" /\ child' = "closing"
  /\ outcome' \in {"ok", "transient", "refused", "final"}
  /\ UNCHANGED posted /\ AttemptFrame

ChildCloses ==
  /\ child = "closing" /\ child' = "done"
  /\ UNCHANGED <<outcome, posted>> /\ AttemptFrame

\* Mutant: the scheduled callback cancels whatever attempt it finds.
Delivered_Newest ==
  \E k \in posted :
    /\ posted' = posted \ {k}
    /\ IF InFlight THEN Hit ELSE UNCHANGED <<child, outcome>>
    /\ AttemptFrame

\* The scheduled cancellation reaches its task, which may be over.
Delivered ==
  \E k \in posted :
    /\ posted' = posted \ {k}
    /\ IF k = attempts /\ InFlight THEN Hit ELSE UNCHANGED <<child, outcome>>
    /\ AttemptFrame

-----------------------------------------------------------------------------
(***************************************************************************)
(* prepare_request.                                                        *)
(***************************************************************************)
Frame == UNCHANGED <<attemptVars, userVars, statusVars, accepted>>

\* Claim the queue; on a route without images describe those the request would carry.
Claim ==
  /\ at = "prepare" /\ cancels = 0
  /\ LET current == live \cup (IF "image" \in queued THEN {"queued"} ELSE {}) IN
       /\ draft' = [pending |-> queued # {}, raw |-> current]
       /\ at' = IF textOnly /\ vision /\ current # {} THEN "observe" ELSE "project"
  /\ UNCHANGED <<textOnly, vision, queued, live, request, converted, observed>> /\ Frame

Described == observed' = [i \in ImageNames |-> observed[i] + (IF i \in draft.raw THEN 1 ELSE 0)]

\* Mutant: the description never replaces the image in the live turn.
Observed_NotSynced ==
  /\ at = "observe" /\ cancels = 0
  /\ Described /\ draft' = [draft EXCEPT !.raw = {}]
  /\ UNCHANGED live
  /\ at' = "project"
  /\ UNCHANGED <<textOnly, vision, queued, request, converted>> /\ Frame

\* With claimed input the turn under preparation is a copy, and the live one keeps its image.
Observed ==
  /\ at = "observe" /\ cancels = 0
  /\ Described /\ draft' = [draft EXCEPT !.raw = {}]
  /\ live' = IF draft.pending THEN live ELSE {}
  /\ at' = "project"
  /\ UNCHANGED <<textOnly, vision, queued, request, converted>> /\ Frame

\* The top of ModelClient.request's loop, and the child task.
Begin ==
  /\ attempts' = attempts + 1 /\ child' = "running" /\ outcome' = "none"
  /\ claimed' = FALSE /\ manual' = FALSE /\ started' = TRUE /\ waiting' = FALSE

\* prepare_messages, which may have to compact first.
Projected ==
  /\ at \in {"project", "reproject"} /\ cancels = 0
  /\ request' = draft /\ converted' = (at = "reproject")
  /\ at' = "attempt" /\ tries' = 0 /\ Begin
  /\ UNCHANGED <<userVars, textOnly, vision, queued, live, draft, observed, count, accepted>>

-----------------------------------------------------------------------------
(***************************************************************************)
(* The engine wakes up: the order of the cases is the order of the code.   *)
(***************************************************************************)
Woken == at = "attempt" /\ child = "done"
Over  == child' = "none" /\ claimed' = FALSE /\ UNCHANGED <<tries, attempts, outcome>>
Quiet == started' = FALSE /\ UNCHANGED <<manual, waiting, count>>

\* What a turn that ends now keeps raw: a conversion that was sent replaces the live image.
Keeps == IF converted THEN {} ELSE live

\* The cancellation arrives at the wait: cancel the attempt and wait for its end.
Unwind ==
  /\ at = "attempt" /\ cancels > 0 /\ InFlight
  /\ at' = "unwind" /\ Hit
  /\ UNCHANGED <<tries, attempts, claimed, userVars, imageVars, statusVars, accepted>>

\* Mutant: a claim made meanwhile keeps the cancelled turn waiting for another attempt.
Cancelled_Unclaimed ==
  /\ child = "done" /\ at \in {"attempt", "unwind"} /\ ~claimed
  /\ at = "unwind" \/ cancels > 0 \/ outcome = "cancelled"
  /\ at' = "cancelled" /\ live' = Keeps /\ Over /\ Quiet
  /\ UNCHANGED <<userVars, textOnly, vision, queued, draft, request, converted, observed, accepted>>

\* The turn was cancelled, or the attempt was, by nobody who claimed it.
Cancelled ==
  /\ child = "done" /\ at \in {"attempt", "unwind"}
  /\ at = "unwind" \/ cancels > 0 \/ (outcome = "cancelled" /\ ~claimed)
  /\ at' = "cancelled" /\ live' = Keeps /\ Over /\ Quiet
  /\ UNCHANGED <<userVars, textOnly, vision, queued, draft, request, converted, observed, accepted>>

\* A cancellation at any other await.
CancelledElsewhere ==
  /\ at \in {"prepare", "observe", "project", "backoff", "convert", "reproject"} /\ cancels > 0
  /\ at' = "cancelled"
  /\ live' = IF at = "backoff" THEN Keeps ELSE live
  /\ waiting' = FALSE /\ started' = FALSE
  /\ UNCHANGED <<attemptVars, userVars, textOnly, vision, queued, draft, request, converted, observed,
                 manual, count, accepted>>

\* ModelRequestRetry: the request is prepared anew, a converted one is sent as it is.
Again ==
  /\ Woken /\ cancels = 0 /\ claimed
  /\ IF converted THEN at' = "attempt" /\ tries' = 0 /\ Begin
                  ELSE at' = "prepare" /\ Over /\ started' = FALSE /\ UNCHANGED <<manual, waiting>>
  /\ UNCHANGED <<userVars, imageVars, count, accepted>>

Accept ==
  /\ Woken /\ cancels = 0 /\ ~claimed /\ outcome = "ok"
  /\ at' = "answered" /\ accepted' = attempts /\ live' = request.raw \cap {"turn"}
  /\ Over /\ Quiet
  /\ UNCHANGED <<userVars, textOnly, vision, queued, draft, request, converted, observed>>

Backoff ==
  /\ Woken /\ cancels = 0 /\ ~claimed /\ outcome = "transient" /\ tries < MaxRetries
  /\ at' = "backoff" /\ waiting' = TRUE /\ count' = count + 1
  /\ Over /\ UNCHANGED <<userVars, imageVars, manual, started, accepted>>

BackoffOver ==
  /\ at = "backoff" /\ cancels = 0
  /\ at' = "attempt" /\ tries' = tries + 1 /\ Begin
  /\ UNCHANGED <<userVars, imageVars, count, accepted>>

-----------------------------------------------------------------------------
(***************************************************************************)
(* Errors, and the one fallback for images.                                *)
(***************************************************************************)
\* The outer handler commits the request that failed, with what it carried.
Fails == /\ at' = "failed"
         /\ live' = IF converted THEN {} ELSE IF request.pending THEN request.raw \cap {"turn"} ELSE live

Eligible == outcome = "refused" /\ request.raw # {} /\ ~textOnly

\* Learn that the route takes no images, and describe those that were refused.
Learn ==
  /\ Woken /\ cancels = 0 /\ ~claimed /\ Eligible
  /\ textOnly' = TRUE
  /\ IF vision THEN at' = "convert" /\ draft' = request /\ UNCHANGED live
               ELSE Fails /\ UNCHANGED draft
  /\ Over /\ Quiet /\ UNCHANGED <<userVars, vision, queued, request, converted, observed, accepted>>

Converted ==
  /\ at = "convert" /\ cancels = 0
  /\ Described /\ draft' = [draft EXCEPT !.raw = {}]
  /\ at' = "reproject"
  /\ UNCHANGED <<textOnly, vision, queued, live, request, converted>> /\ Frame

GiveUp ==
  /\ Woken /\ cancels = 0 /\ ~claimed
  /\ outcome = "final" \/ (outcome = "refused" /\ ~Eligible) \/ (outcome = "transient" /\ tries = MaxRetries)
  /\ Fails /\ Over /\ Quiet
  /\ UNCHANGED <<userVars, textOnly, vision, queued, draft, request, converted, observed, accepted>>

\* The description failed; a compaction that fails degrades to trimming.
PrepareFails ==
  /\ at \in {"observe", "convert"} /\ cancels = 0
  /\ Fails
  /\ UNCHANGED <<textOnly, vision, queued, draft, request, converted, observed>> /\ Frame

-----------------------------------------------------------------------------
User   == Enqueue \/ Resend \/ CancelTurn
Child  == ChildEnds \/ ChildCloses
Engine == \/ Claim \/ Observed \/ Projected \/ PrepareFails \/ Learn \/ Converted
          \/ Unwind \/ Cancelled \/ CancelledElsewhere
          \/ Again \/ Accept \/ Backoff \/ BackoffOver \/ GiveUp
Next   == User \/ Child \/ Delivered \/ Engine

Spec == Init /\ [][Next]_vars

\* The loop runs what is ready; a provider answers, or the response deadline answers for it.
FairSpec == Spec /\ WF_vars(Child) /\ WF_vars(Delivered) /\ WF_vars(Engine)

-----------------------------------------------------------------------------
(***************************************************************************)
(* Properties.                                                             *)
(***************************************************************************)
MaxAttempts == (MaxRetries + 1) * (MaxResends + 2)
Requests    == [pending : BOOLEAN, raw : SUBSET ImageNames]

\* TypeOK: every variable stays in its set.
TypeOK ==
  /\ at \in Final \cup {"prepare", "observe", "project", "attempt", "unwind", "backoff", "convert",
                        "reproject"}
  /\ tries \in 0..MaxRetries /\ attempts \in 0..MaxAttempts
  /\ child \in {"none", "running", "closing", "done"}
  /\ outcome \in {"none", "ok", "transient", "refused", "final", "cancelled"}
  /\ claimed \in BOOLEAN /\ posted \subseteq resent /\ cancels \in 0..MaxCancels
  /\ textOnly \in BOOLEAN /\ vision \in BOOLEAN
  /\ queued \subseteq {"text", "image"} /\ live \subseteq {"turn"}
  /\ draft \in Requests /\ request \in Requests /\ converted \in BOOLEAN
  /\ observed \in [ImageNames -> Nat]
  /\ manual \in BOOLEAN /\ started \in BOOLEAN /\ waiting \in BOOLEAN /\ count \in Nat
  /\ resent \subseteq 1..attempts /\ accepted \in 0..attempts

\* AnswerIsWanted: the answer is that of the last attempt, which nobody asked to have sent again, in
\* a turn nobody cancelled, although the provider may answer before either is noticed.
AnswerIsWanted ==
  at = "answered" => accepted = attempts /\ accepted \notin resent /\ cancels = 0

\* AttemptEndsFirst: the engine never goes on, nor the turn end, with an attempt still in flight.
AttemptEndsFirst == child # "none" => at \in {"attempt", "unwind"}

\* NoStrayCancel: a cancellation scheduled for one attempt never ends another: an attempt is cancelled
\* only when it was claimed itself or its turn was cancelled.
NoStrayCancel == child # "none" /\ outcome = "cancelled" => attempts \in resent \/ cancels > 0

\* ResendOffered: an attempt that runs and was not claimed can be claimed: no status left by an earlier
\* attempt, retry or resend stands in the way.
ResendOffered == InFlight /\ ~claimed => started /\ ~waiting /\ ~manual

\* SendsAccounted: beyond the first, every request sent is a retry or a resend the status line has
\* counted, or the one conversion.
SendsAccounted == attempts <= 1 + count + (IF converted THEN 1 ELSE 0)

\* DescribedOnce: as long as nothing is queued, the turn's image is described at most once, however
\* often the request is retried, resent or refused.
DescribedOnce == queued = {} => observed["turn"] <= 1

\* ObservationKept: as long as nothing is queued, a description that was sent is not lost with the
\* request, whether that failed or was cancelled.
ObservationKept ==
  at \in Final /\ queued = {} /\ observed["turn"] > 0 /\ request.raw = {} => live = {}

\* RequestEnds: the request is answered, fails or is cancelled.
RequestEnds == <>(at \in Final)

\* ObservedOnce (refuted): no image is described twice.
ObservedOnce == \A i \in ImageNames : observed[i] <= 1

\* Each attempt is accounted for: who may answer, who may be cancelled, what was sent.
AttemptsAccounted == AnswerIsWanted /\ AttemptEndsFirst /\ NoStrayCancel /\ ResendOffered /\ SendsAccounted

\* A description of an image is paid for once and kept.
DescriptionsKept == TypeOK /\ DescribedOnce /\ ObservationKept
=============================================================================
