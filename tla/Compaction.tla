----------------------------- MODULE Compaction -----------------------------
(* Compaction of the model's context: wizolt/context.py, compaction.py and   *)
(* the /compact command.  Before every request the context is measured; over *)
(* its budget, the prior history and then the active turn are split into a   *)
(* part to summarise and a part to keep, a summary is asked for, and the     *)
(* evicted messages leave the context for a recallable segment.              *)
(*                                                                           *)
(* A message is its number in the order of creation, and `born` says what it *)
(* is; 0 is a checkpoint.  The text of a summary is the set of result keys   *)
(* it names.  Sizes are in units of the token estimate; the fixed header is  *)
(* left out of both the request and the budget.                              *)
EXTENDS Integers, FiniteSets, SequencesExt

CONSTANTS Budget,          \* request_token_budget
          Recent,          \* COMPACT_RECENT_MESSAGES
          MinRecent,       \* COMPACT_MINIMUM_RECENT
          MaxSegments,     \* MAX_HISTORY_SEGMENTS
          MaxRecords,      \* tool results the session retains (400)
          Big, MaxBig,     \* the size of a large message (an ordinary one has 1); bound: how many there are
          Drops,           \* a request carrying a follow-up may be interrupted
          MaxMessages      \* bound: messages created

VARIABLES born,        \* what each message is: its kind and its size
          messages,    \* Session.messages
          turn,        \* the turn's messages in the request being prepared
          held,        \* the engine's own list while that is a copy with follow-ups
          acted,       \* the assistant has called a tool in this turn
          phase,       \* where the engine is in its round
          pass,        \* the compaction in progress
          marks,       \* ContextManager._auto_compacted_at
          left,        \* history: what the last automatic pass over a scope left
          overdue,     \* ContextManager._overdue_by_usage
          segments,    \* Session.history
          summary,     \* AgentState.summary: the result keys its text names
          records,     \* Session.tool_records
          retired      \* history: messages whose segment expired, or retracted

conversation == <<born, messages, turn, held, acted>>
archive == <<segments, summary, records, retired>>
guards == <<marks, left, overdue>>
vars == <<born, messages, turn, held, acted, phase, pass, marks, left, overdue, segments, summary, records, retired>>

Checkpoint == 0
NotHeld == <<-1>>
NoPass == [scope |-> "none", out |-> <<>>, keep |-> <<>>, sent |-> <<>>, attempt |-> 0]

Init == /\ born = <<>> /\ messages = <<>> /\ turn = <<>>
        /\ held = NotHeld /\ acted = FALSE
        /\ phase = "idle" /\ pass = NoPass
        /\ marks = [history |-> -1, turn |-> -1]
        /\ left = [history |-> <<-1>>, turn |-> <<-1>>]
        /\ overdue = FALSE
        /\ segments = <<>> /\ summary = {} /\ records = {} /\ retired = {}

-----------------------------------------------------------------------------
(* Splitting                                                                 *)

Kind(m) == IF m = Checkpoint THEN "checkpoint" ELSE born[m].kind
SizeOf(m) == IF m = Checkpoint THEN 1 ELSE born[m].size
Size(list) == FoldSeq(LAMBDA m, n: n + SizeOf(m), 0, list)
WithoutSummaries(list) == SelectSeq(list, LAMBDA m: m # Checkpoint)
Rest(list, cut) == SubSeq(list, cut + 1, Len(list))

\* latest_user_index (0: there is none): no session event, checkpoint or tool observation; the markers
\* of interrupted turns are ordinary user messages to it.
LatestUser(list) == Max({0} \cup {i \in 1..Len(list): Kind(list[i]) \in {"user", "marker"}})

\* safe_cut: back off the middle of a tool exchange.
SafeCut(list, cut) ==
  IF cut < Len(list) /\ Kind(list[cut + 1]) = "result"
  THEN LET q == Max({0} \cup {i \in 1..cut: Kind(list[i]) # "result"})
       IN IF q > 0 /\ Kind(list[q]) = "call" THEN q - 1 ELSE q
  ELSE cut

\* keep_start: at most `recent` messages and a quarter of the budget, but always one.
KeepStart(list, recent) ==
  LET share == Max({1, Budget \div 4})
      n == Len(list)
  IN SafeCut(list, Min({s \in 0..n: n - s <= recent /\ (s >= n - 1 \/ Size(Rest(list, s)) <= share)}))

\* Mutant: what lies between the latest user message and the tail is neither kept nor evicted.
Split_Gap(list, recent) ==
  LET start == KeepStart(list, recent)
      user == LatestUser(list)
  IN IF start < user \/ user = 0
     THEN [out |-> SubSeq(list, 1, start), keep |-> Rest(list, start)]
     ELSE [out |-> SubSeq(list, 1, user - 1), keep |-> <<list[user]>> \o Rest(list, start)]

\* The kept tail, and the latest user message whether it is in that tail or not.
Cut(list, start, user) ==
  IF start < user \/ user = 0
  THEN [out |-> SubSeq(list, 1, start), keep |-> Rest(list, start)]
  ELSE [out |-> SubSeq(list, 1, user - 1) \o SubSeq(list, user + 1, start), keep |-> <<list[user]>> \o Rest(list, start)]

Split(list, recent) == Cut(list, KeepStart(list, recent), LatestUser(list))

\* The list a scope compacts, and whether nothing of it is kept: a history with no user message.
Listed(scope)    == IF scope = "turn" THEN turn ELSE messages
Unanchored(scope) == scope # "turn" /\ LatestUser(messages) = 0

\* parts and turn_parts.
Parts(scope, recent) ==
  IF Unanchored(scope) THEN [out |-> messages, keep |-> <<>>] ELSE Split(Listed(scope), recent)

\* prefix_count: the messages of the scope's own list that the summary request carries.
PrefixCount(scope, recent) == IF Unanchored(scope) THEN Len(messages) ELSE KeepStart(Listed(scope), recent)

\* Compactor.request: a prefix of the live projection; with another provider, the evicted span itself.
Sent(scope, recent, out, inline) ==
  IF ~inline THEN out
  ELSE (IF scope = "turn" THEN messages ELSE <<>>) \o SubSeq(Listed(scope), 1, PrefixCount(scope, recent))

\* Tried again with the minimal window when the first leaves nothing (not by /compact).
Window(scope) ==
  IF scope # "manual" /\ WithoutSummaries(Parts(scope, Recent).out) = <<>> THEN MinRecent ELSE Recent

Pass(scope, inline, recent, parts) ==
  [scope |-> scope, out |-> WithoutSummaries(parts.out), keep |-> WithoutSummaries(parts.keep),
   sent |-> Sent(scope, recent, WithoutSummaries(parts.out), inline), attempt |-> 1]

NewPass(scope, inline) == Pass(scope, inline, Window(scope), Parts(scope, Window(scope)))

-----------------------------------------------------------------------------
(* The engine's round, as far as it makes messages                           *)

Born(kinds) == /\ Len(born) + Len(kinds) <= MaxMessages
               /\ \E big \in 0..Len(kinds):      \* which of them is large, if any
                    /\ big # 0 => /\ kinds[big] \in {"user", "result"}
                                 /\ Cardinality({m \in 1..Len(born): born[m].size = Big}) < MaxBig
                    /\ born' = born \o [i \in 1..Len(kinds) |-> [kind |-> kinds[i], size |-> IF i = big THEN Big ELSE 1]]
New(kinds) == [i \in 1..Len(kinds) |-> Len(born) + i]
\* The newest of these results, as many as the session retains.
Retained(results) == {m \in results: Cardinality({n \in results: n > m}) < MaxRecords}

NewResults(kinds) == {Len(born) + i: i \in {j \in 1..Len(kinds): kinds[j] = "result"}}

BeginTurn == /\ phase = "idle"
             /\ Born(<<"user">>)
             /\ turn' = New(<<"user">>)
             /\ phase' = "measure"
             /\ UNCHANGED <<messages, held, acted, pass>> /\ UNCHANGED guards /\ UNCHANGED archive

\* The request is accepted, its follow-up with it, and answered by calls; an observation may follow the results.
Exchange == /\ phase = "sent"
            /\ \E kinds \in {<<"call", "result">>, <<"call", "result", "result">>, <<"call", "result", "event">>}:
                 /\ Born(kinds)
                 /\ turn' = turn \o New(kinds)
                 /\ records' = Retained(records \cup NewResults(kinds))
            /\ phase' = "measure" /\ held' = NotHeld /\ acted' = TRUE
            /\ UNCHANGED <<messages, pass, segments, summary, retired>> /\ UNCHANGED guards

Answer == /\ phase = "sent"
          /\ Born(<<"text">>)
          /\ messages' = messages \o turn \o New(<<"text">>)
          /\ turn' = <<>> /\ held' = NotHeld /\ acted' = FALSE
          /\ phase' = "idle"
          /\ UNCHANGED pass /\ UNCHANGED guards /\ UNCHANGED archive

\* prepare_request claims a queued follow-up into a copy of the turn; the engine's list is `held` meanwhile.
FollowUp == /\ phase = "measure" /\ acted /\ held = NotHeld
            /\ Born(<<"user">>)
            /\ turn' = turn \o New(<<"user">>)
            /\ held' = turn
            /\ UNCHANGED <<messages, phase, acted, pass>> /\ UNCHANGED guards /\ UNCHANGED archive

\* settle_interrupted_turn: retracted if the assistant has not acted, kept with a marker otherwise.
\* A claimed follow-up goes back to its queue, and the copy with it.
Settle == /\ phase \in {"sent", "cancelled"}
          /\ held # NotHeld => Drops
          /\ LET live == IF held = NotHeld THEN turn ELSE held
                 gone == ToSet(turn) \ ToSet(live)
             IN IF acted
                THEN /\ Born(<<"marker">>)
                     /\ messages' = messages \o live \o New(<<"marker">>)
                     /\ retired' = retired \cup gone
                ELSE /\ retired' = retired \cup (ToSet(turn) \ {Checkpoint})
                     /\ UNCHANGED <<born, messages>>
          /\ turn' = <<>> /\ held' = NotHeld /\ phase' = "idle" /\ acted' = FALSE
          /\ UNCHANGED <<pass, segments, summary, records>> /\ UNCHANGED guards

-----------------------------------------------------------------------------
(* prepare_messages                                                          *)

Over(request) == Size(request) >= Budget

\* Mutant: a pass over the same messages may run again.
Allowed_Always(scope) == TRUE

Allowed(scope) == marks[scope] # Len(Listed(scope))

Mark(scope, list) == /\ marks' = [marks EXCEPT ![scope] = Len(list)]
                     /\ left' = [left EXCEPT ![scope] = list]

\* Within budget, or every scope marked: the request goes out; its usage may say the next is overdue.
Send(used) == /\ phase' = "sent" /\ overdue' = used

Measure == /\ phase = "measure"
           /\ IF ~Over(messages \o turn) /\ ~overdue
              THEN \E used \in BOOLEAN: Send(used)
              ELSE phase' = "history" /\ UNCHANGED overdue
           /\ UNCHANGED conversation /\ UNCHANGED archive /\ UNCHANGED <<pass, marks, left>>

\* A scope's pass: none when the scope is spent, none when the split leaves nothing.
Start(scope, after) ==
  /\ phase = scope /\ pass = NoPass
  /\ \E inline \in BOOLEAN:
       LET p == NewPass(scope, inline) IN
       IF p.out = <<>>
       THEN Mark(scope, Listed(scope)) /\ phase' = after /\ UNCHANGED pass
       ELSE pass' = p /\ UNCHANGED <<phase, marks, left>>

HistoryPass == /\ IF Allowed("history") THEN Start("history", "turn")
                  ELSE /\ phase = "history" /\ pass = NoPass
                       /\ phase' = "turn" /\ UNCHANGED <<pass, marks, left>>
               /\ UNCHANGED conversation /\ UNCHANGED archive /\ UNCHANGED overdue

TurnPass == /\ phase = "turn" /\ pass = NoPass
            /\ IF Over(messages \o turn) /\ Allowed("turn")
               THEN Start("turn", "send")
               ELSE phase' = "send" /\ UNCHANGED <<pass, marks, left>>
            /\ UNCHANGED conversation /\ UNCHANGED archive /\ UNCHANGED overdue

Dispatch == /\ phase = "send"
            /\ \E used \in BOOLEAN: Send(used)
            /\ UNCHANGED conversation /\ UNCHANGED archive /\ UNCHANGED <<pass, marks, left>>

\* /compact, at the prompt only.
Compact == /\ phase = "idle" /\ pass = NoPass
           /\ \E inline \in BOOLEAN: pass' = NewPass("manual", inline) /\ pass'.out # <<>>
           /\ phase' = "manual"
           /\ UNCHANGED conversation /\ UNCHANGED archive /\ UNCHANGED guards

-----------------------------------------------------------------------------
(* The summary request and apply_compaction                                  *)

\* A reply that is no JSON object, or copies what was sent, is asked for once more.
BadReply == /\ pass.attempt = 1
            /\ pass' = [pass EXCEPT !.attempt = 2]
            /\ UNCHANGED conversation /\ UNCHANGED <<phase>> /\ UNCHANGED archive /\ UNCHANGED guards

\* next_segment_key: above the highest key retained.
NextSegmentKey == Max({Len(segments)} \cup {segments[i].key: i \in 1..Len(segments)}) + 1

\* store_history_segment: the newest MAX_HISTORY_SEGMENTS are retained.
StoreSegment(out) ==
  LET all == Append(segments, [key |-> NextSegmentKey, span |-> ToSet(out)])
      drop == Max({0, Len(all) - MaxSegments})
  IN /\ segments' = Rest(all, drop)
     /\ retired' = retired \cup UNION {all[i].span: i \in 1..drop}

\* The result keys a list of messages names: its own results, and what a checkpoint's text names.
Names(list, text) == {m \in ToSet(list): Kind(m) = "result"} \cup (IF Checkpoint \in ToSet(list) THEN text ELSE {})

\* prune_tool_records' roots: the rebuilt context; after a failed history pass, without its checkpoint.
Roots(how, newMessages, newTurn) ==
  IF pass.scope # "turn" /\ how = "fallback" THEN pass.keep \o newTurn ELSE newMessages \o newTurn

\* apply_compaction: the checkpoint replaces the head of the history, or follows the turn's latest user message.
Apply(how, text) ==
  LET keep == pass.keep
      at == IF LatestUser(keep) = 0 THEN Len(keep) ELSE LatestUser(keep)
      newMessages == IF pass.scope = "turn" THEN messages ELSE <<Checkpoint>> \o keep
      newTurn == IF pass.scope = "turn" THEN SubSeq(keep, 1, at) \o <<Checkpoint>> \o Rest(keep, at) ELSE turn
  IN /\ StoreSegment(pass.out)
     /\ summary' = text
     /\ messages' = newMessages
     /\ records' = Retained(records \cap Names(Roots(how, newMessages, newTurn), text))
     /\ overdue' = FALSE
     /\ pass' = NoPass
     /\ turn' = newTurn
     /\ UNCHANGED <<held, acted>>

\* The pass is over: the scope is marked and the round goes on; /compact returns to the prompt.
GoOn == /\ phase' = CASE pass.scope = "history" -> "turn" [] pass.scope = "turn" -> "send" [] OTHER -> "idle"
        /\ IF pass.scope = "manual" THEN UNCHANGED <<marks, left>>
           ELSE Mark(pass.scope, IF pass.scope = "turn" THEN turn' ELSE messages')

\* The summariser may name any key it was shown or was told of; it names all of them or none.
Summarised == /\ pass # NoPass
              /\ \E text \in {{}, summary \cup Names(pass.out, {})}: Apply("summary", text)
              /\ GoOn
              /\ UNCHANGED born

\* Any failure, or a second bad reply: deterministic trimming, the old summary with a note.
Trimmed == /\ pass # NoPass
           /\ Apply("fallback", summary)
           /\ GoOn
           /\ UNCHANGED born

\* Ctrl-C in an automatic pass: the trim still runs, then the cancellation ends the turn; no mark is set.
CancelledPass == /\ pass.scope \in {"history", "turn"}
                 /\ held # NotHeld => Drops
                 /\ Apply("fallback", summary)
                 /\ phase' = "cancelled"
                 /\ UNCHANGED <<born, marks, left>>

\* Ctrl-C in /compact changes nothing.
CancelledCompact == /\ pass.scope = "manual"
                    /\ pass' = NoPass /\ phase' = "idle"
                    /\ UNCHANGED conversation /\ UNCHANGED archive /\ UNCHANGED guards

-----------------------------------------------------------------------------
Next == \/ BeginTurn \/ Exchange \/ Answer \/ FollowUp \/ Settle
        \/ Measure \/ HistoryPass \/ TurnPass \/ Dispatch \/ Compact
        \/ BadReply \/ Summarised \/ Trimmed \/ CancelledPass \/ CancelledCompact

Spec == Init /\ [][Next]_vars

-----------------------------------------------------------------------------
(* Properties                                                                *)

Ids == 0..Len(born)
Context == messages \o turn

TypeOK ==
  /\ born \in Seq([kind: {"user", "call", "result", "event", "text", "marker"}, size: {1, Big}])
  /\ Len(born) <= MaxMessages
  /\ messages \in Seq(Ids) /\ turn \in Seq(Ids) /\ (held = NotHeld \/ held \in Seq(Ids))
  /\ acted \in BOOLEAN /\ overdue \in BOOLEAN
  /\ phase \in {"idle", "measure", "history", "turn", "send", "sent", "cancelled", "manual"}
  /\ pass \in [scope: {"none", "history", "turn", "manual"}, out: Seq(Ids), keep: Seq(Ids), sent: Seq(Ids), attempt: 0..2]
  /\ marks \in [{"history", "turn"} -> Nat \cup {-1}]
  /\ Len(segments) <= MaxSegments
  /\ \A i \in 1..Len(segments): segments[i].key \in Nat /\ segments[i].span \subseteq Ids
  /\ {summary, records, retired} \subseteq SUBSET Ids

\* Every message is in exactly one place: the context, in the order it was said, or one segment, or
\* a segment that has expired or a retracted turn.  "Each evicted span is captured once"
\* (DESIGN.md:569), and no pass loses or repeats a message (split, apply_compaction).
CapturedOnce ==
  LET said == WithoutSummaries(Context) IN
  /\ \A i, j \in 1..Len(said): i < j => said[i] < said[j]
  /\ \A m \in 1..Len(born):
       (IF m \in ToSet(said) THEN 1 ELSE 0) + (IF m \in retired THEN 1 ELSE 0)
       + Cardinality({i \in 1..Len(segments): m \in segments[i].span}) = 1

\* No provider is sent a call without its results or a result without its call, whatever was evicted
\* between them (safe_cut).
ExchangesWhole ==
  \A m \in 1..(Len(born) - 1): born[m + 1].kind = "result" => (m \in ToSet(Context) <=> m + 1 \in ToSet(Context))

\* The latest message latest_user_index accepts stays in the context through every pass.
BoundaryKept ==
  \A m \in 1..Len(born): /\ born[m].kind \in {"user", "marker"}
                         /\ \A n \in 1..Len(born): born[n].kind \in {"user", "marker"} /\ n \notin retired => n <= m
                         => m \in ToSet(Context) \cup retired

\* Whatever is about to be evicted has been shown to the summariser, in either shape of the request
\* and whichever window produced the split (request, prefix_count).
SummariserSaw == ToSet(pass.out) \subseteq ToSet(pass.sent)

\* Each of the results is retained, or gave way to MaxRecords newer ones.
Recallable(results) ==
  \A m \in results \ records: Cardinality({n \in (m + 1)..Len(born): born[n].kind = "result"}) >= MaxRecords

\* A result named by a message of the context can be recalled, until MaxRecords newer results have
\* taken its place (store_tool_result); no pass prunes it before.  The checkpoint of a failed history
\* pass is not held to that (prune_tool_records' roots).
ResultsRecallable == Recallable(Names(WithoutSummaries(Context), {}))

\* A segment key is never given to a second span, however many segments have expired.
KeysFresh == [][\A i \in 1..Len(segments'):
                  (segments' # segments /\ i = Len(segments')) =>
                    \A j \in 1..Len(segments): segments[j].key < segments'[i].key]_segments

\* A scope is never compacted again while it is exactly what the last automatic pass over it left.
NeverTwice == [][(pass = NoPass /\ pass'.scope \in {"history", "turn"}) =>
                   left[pass'.scope] # (IF pass'.scope = "turn" THEN turn ELSE messages)]_vars

\* A message the runtime generates itself "does not become the boundary" (DESIGN.md:566): the
\* latest message of the user's own stays in the context.
RequestKept ==
  \A m \in 1..Len(born): /\ born[m].kind = "user" /\ m \notin retired
                         /\ \A n \in (m + 1)..Len(born): born[n].kind # "user"
                         => m \in ToSet(Context)

\* Compaction prunes "by the surviving reachability set" (DESIGN.md:571): what the checkpoint in the
\* context names can be recalled too.
CheckpointRecallable == Recallable(Names(Context, summary))

\* The context stays a legal conversation with its latest request, no message is lost or kept twice,
\* what leaves it was shown to the summariser, and what it names can be recalled.
ContextKept == TypeOK /\ CapturedOnce /\ ExchangesWhole /\ BoundaryKept /\ SummariserSaw /\ ResultsRecallable

\* No segment key is given twice, and no pass is made twice over the same messages.
NeverAgain == KeysFresh /\ NeverTwice
=============================================================================
