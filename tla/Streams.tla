------------------------------- MODULE Streams -------------------------------
(***************************************************************************)
(* A streamed model response on its way to the transcript: the three wire  *)
(* readers, the early promotion of finished text once a tool call is       *)
(* known, the one-shot marker that keeps the engine's own publication from *)
(* repeating it, provider-side searches, retries of a broken stream, and   *)
(* the reassembly of Chat tool calls from deltas that may not say whose    *)
(* they are.                                                               *)
(*                                                                         *)
(* A response is a sequence of parts: text of two deltas, a local tool     *)
(* call, a provider-side search.  A delta is its text's variant, its part  *)
(* and its place; what a retry writes may be the same or another text.     *)
(***************************************************************************)
EXTENDS Integers, Sequences, SequencesExt, FiniteSets, Functions

CONSTANTS
  Shapes,       \* responses: sequences of "text", "call" and "search"
  Habits,       \* how a Chat host names the call of a delta
  Overlapping,  \* whether a part may begin before the one before it has ended
  MaxRequests,  \* bound: requests of the turn
  MaxFailures   \* bound: streams that break

VARIABLES
  wire,      \* the reader: its wire, whether it streams, its host's habit, and whether there is a TUI
  phase,     \* of the request
  parts,     \* the response under way: its shape and variant
  stage,     \* per part, how much of it has been received
  reader,    \* the reader's locals: output, text_done, handoff_seen, output_promoted
  chat,      \* the Chat reader's: calls, ids, positions, next_index, and whether it gave up
  inflight,  \* whether the request carries follow-ups that are not logged yet
  marker,    \* CommandLoop.model_stream_promoted_text
  screen,    \* the transcript of the turn
  attempt, requests, failures

vars == <<wire, phase, parts, stage, reader, chat, inflight, marker, screen, attempt, requests, failures>>

NoReader == [output |-> <<>>, text_done |-> FALSE, handoff_seen |-> FALSE, output_promoted |-> FALSE]
NoChat   == [calls |-> <<>>, ids |-> <<>>, positions |-> <<>>, next |-> 0, lost |-> FALSE]
NoIndex  == -1

Is(i, kind)  == parts.shape[i] = kind
Parts        == DOMAIN parts.shape
Steps(i)      == IF Is(i, "search") THEN 2 ELSE IF Is(i, "text") THEN 3 ELSE IF wire.name = "chat" THEN 2 ELSE 1
Ended(i)     == stage[i] = Steps(i)
Token(i, k)  == <<parts.variant, i, k>>

\* The text of the whole response, as result and message parsing joins it.
Content == FoldLeft(LAMBDA text, i : IF Is(i, "text") THEN text \o <<Token(i, 1), Token(i, 2)>> ELSE text,
                    <<>>, [i \in Parts |-> i])

Line(kind, token) == [kind |-> kind, request |-> requests, attempt |-> attempt, token |-> token]
Lines(text)       == [k \in DOMAIN text |-> Line("text", text[k])]

Init ==
  /\ wire \in [name : {"chat", "responses", "anthropic"}, streamed : BOOLEAN, habit : Habits, tui : BOOLEAN]
  /\ wire.name # "chat" \/ ~wire.streamed => wire.habit = CHOOSE h \in Habits : TRUE
  /\ phase = "idle" /\ parts = [shape |-> <<>>, variant |-> 0] /\ stage = <<>>
  /\ reader = NoReader /\ chat = NoChat
  /\ inflight = FALSE /\ marker = <<>> /\ screen = <<>>
  /\ attempt = 0 /\ requests = 0 /\ failures = 0

-----------------------------------------------------------------------------
(***************************************************************************)
(* The request and its attempts.                                           *)
(***************************************************************************)
Response(shape) ==
  \E variant \in {1, 2} :
    /\ attempt' = 1 => variant = 1
    /\ parts' = [shape |-> shape, variant |-> variant]
    /\ stage' = [i \in DOMAIN shape |-> 0]

\* Chat runs a provider's search in its own message, outside the parts of this one.
ChatRequest ==
  wire.name = "chat" /\ \E shape \in Shapes : "search" \notin Range(shape) /\ Response(shape)

ResponsesRequest ==
  wire.name = "responses" /\ \E shape \in Shapes : Response(shape)

AnthropicRequest ==
  wire.name = "anthropic" /\ \E shape \in Shapes : Response(shape)

\* ModelClient.api_request, by the provider's wire; each attempt has a reader of its own.
Begin ==
  /\ ChatRequest \/ ResponsesRequest \/ AnthropicRequest
  /\ phase' = "reading"
  /\ reader' = NoReader /\ chat' = NoChat

Request ==
  /\ phase = "idle" /\ requests < MaxRequests
  /\ requests' = requests + 1 /\ attempt' = 1
  /\ inflight' \in BOOLEAN
  /\ Begin
  /\ UNCHANGED <<wire, marker, screen, failures>>

\* The stream breaks, the answer does not come, or it is one its parser refuses.
Break ==
  /\ phase = "reading" /\ failures < MaxFailures
  /\ failures' = failures + 1
  /\ phase' = "broken"
  /\ UNCHANGED <<wire, parts, stage, reader, chat, inflight, marker, screen, attempt, requests>>

Retry ==
  /\ phase = "broken"
  /\ attempt' = attempt + 1
  /\ Begin
  /\ UNCHANGED <<wire, inflight, marker, screen, requests, failures>>

\* The locals of a request die with it.
Done ==
  /\ phase' = "idle"
  /\ parts' = [shape |-> <<>>, variant |-> 0] /\ stage' = <<>>
  /\ reader' = NoReader /\ chat' = NoChat /\ attempt' = 0

\* The turn fails or is cancelled: TurnRuntime.reset_turn.
GiveUp ==
  /\ phase \in {"reading", "broken", "lost"}
  /\ marker' = <<>> /\ screen' = <<>> /\ inflight' = FALSE
  /\ Done
  /\ UNCHANGED <<wire, requests, failures>>

-----------------------------------------------------------------------------
(***************************************************************************)
(* Promotion.                                                              *)
(***************************************************************************)
\* CommandLoop.model_stream_output("output_done", text).
Promoted(text) == IF inflight \/ ~wire.tui THEN <<>> ELSE text

\* promote_output: r is the reader after the event.  A search is reported after it.
Promote(r, after) ==
  LET due  == r.text_done /\ r.handoff_seen /\ r.output # <<>> /\ ~r.output_promoted
      text == IF due THEN Promoted(r.output) ELSE <<>>
  IN  /\ reader' = [r EXCEPT !.output_promoted = @ \/ due]
      /\ marker' = IF text = <<>> THEN marker ELSE text
      /\ screen' = screen \o Lines(text) \o after

Reading(i) ==
  /\ phase = "reading" /\ wire.streamed /\ i \in Parts /\ ~Ended(i)
  /\ stage[i] = 0 => \A j \in 1..(i - 1) : IF Overlapping THEN stage[j] > 0 ELSE Ended(j)
  /\ UNCHANGED <<wire, parts, inflight, attempt, requests, failures>>

Received(i) == stage' = [stage EXCEPT ![i] = @ + 1]

\* Anything a reader takes for preview only.
TextDelta(i) ==
  /\ Reading(i) /\ Is(i, "text") /\ stage[i] < 2
  /\ Received(i)
  /\ reader' = [reader EXCEPT !.output = Append(@, Token(i, stage[i] + 1))]
  /\ UNCHANGED <<phase, chat, marker, screen>>

\* The end of a text block; Chat has none, and a Responses host may leave it out.
TextDone(i) ==
  /\ Reading(i) /\ Is(i, "text") /\ stage[i] = 2
  /\ Received(i)
  /\ \E told \in BOOLEAN :
       /\ (wire.name = "chat" => ~told) /\ (wire.name = "anthropic" => told)
       /\ Promote([reader EXCEPT !.text_done = @ \/ told], <<>>)
  /\ UNCHANGED <<phase, chat>>

\* A local call is known: the response is text and calls from here.
CallAdded(i) ==
  /\ Reading(i) /\ Is(i, "call") /\ wire.name # "chat"
  /\ Received(i)
  /\ Promote([reader EXCEPT !.handoff_seen = TRUE], <<>>)
  /\ UNCHANGED <<phase, chat>>

\* A Responses host may leave this event out.
SearchAdded(i) ==
  /\ Reading(i) /\ Is(i, "search") /\ stage[i] = 0
  /\ Received(i)
  /\ \E told \in BOOLEAN :
       /\ wire.name = "anthropic" => told
       /\ Promote([reader EXCEPT !.handoff_seen = @ \/ told], <<>>)
  /\ UNCHANGED <<phase, chat>>

\* The search is whole and reported at once.
SearchDone(i) ==
  /\ Reading(i) /\ Is(i, "search") /\ stage[i] = 1
  /\ Received(i)
  /\ Promote([reader EXCEPT !.handoff_seen = TRUE], <<Line("search", Token(i, 0))>>)
  /\ UNCHANGED <<phase, chat>>

-----------------------------------------------------------------------------
(***************************************************************************)
(* Chat tool calls.  A delta of call i has an index or not, an id or not.  *)
(***************************************************************************)
Calls     == {i \in Parts : Is(i, "call")}
Before(i) == {j \in Calls : j < i}

Delta(i, index, id) == [call |-> i, index |-> index, id |-> id]

\* The deltas of the next chunk, by the host's habit.
Chunks ==
  LET left     == {i \in Calls : ~Ended(i)}
      started  == {i \in left : \A j \in Before(i) : stage[j] > 0}
      current  == {i \in left : \A j \in Before(i) : Ended(j)}
      first(i) == stage[i] = 0
  IN  CASE wire.habit = "indexed"    -> {<<Delta(i, Cardinality(Before(i)), first(i))>> : i \in started}
        [] wire.habit = "ids"        -> {<<Delta(i, NoIndex, TRUE)>> : i \in started}
        [] wire.habit = "first id"   -> {<<Delta(i, NoIndex, first(i))>> : i \in current}
        [] wire.habit = "together"   -> {[k \in 1..Cardinality(left) |-> Delta(SetToSortSeq(left, <)[k], NoIndex, FALSE)]}
        [] wire.habit = "bare"       -> {<<Delta(i, NoIndex, FALSE)>> : i \in current}
        [] wire.habit = "restarting" -> {<<Delta(i, 0, first(i))>> : i \in current}

allocate_tool_call(c) == CHOOSE n \in c.next..(c.next + Cardinality(DOMAIN c.calls)) :
                           n \notin DOMAIN c.calls /\ \A m \in c.next..(n - 1) : m \in DOMAIN c.calls

\* Whose delta it is, in decreasing order of reliability; NoIndex when nothing tells.
resolve_tool_call_index(c, d, position, size) ==
  IF d.index # NoIndex THEN d.index
  ELSE IF d.id /\ d.call \in DOMAIN c.ids THEN c.ids[d.call]
  ELSE IF d.id THEN allocate_tool_call(c)
  ELSE IF size = 1 /\ Cardinality(DOMAIN c.calls) = 1 THEN CHOOSE n \in DOMAIN c.calls : TRUE
  ELSE IF position \in DOMAIN c.positions /\ size = Cardinality(DOMAIN c.positions) THEN c.positions[position]
  ELSE IF position \notin DOMAIN c.positions THEN allocate_tool_call(c)
  ELSE NoIndex

Put(f, x, v) == [y \in DOMAIN f \cup {x} |-> IF y = x THEN v ELSE f[y]]
Greater(a, b) == IF a > b THEN a ELSE b

Joined(c, d, position, size) ==
  LET index == resolve_tool_call_index(c, d, position, size)
      sofar == IF index \in DOMAIN c.calls THEN c.calls[index] ELSE <<>>
  IN  IF c.lost \/ index = NoIndex THEN [c EXCEPT !.lost = TRUE]
      ELSE [c EXCEPT !.next = Greater(@, index + 1),
                     !.positions = Put(@, position, index),
                     !.ids = IF d.id THEN Put(@, d.call, index) ELSE @,
                     !.calls = Put(@, index, Append(sofar, <<d.call, stage[d.call] + 1>>))]

ChatCalls ==
  /\ phase = "reading" /\ wire.streamed /\ wire.name = "chat"
  /\ \E chunk \in Chunks :
       /\ chunk # <<>>
       /\ LET c == FoldLeft(LAMBDA acc, k : Joined(acc, chunk[k], k, Len(chunk)), chat, [k \in DOMAIN chunk |-> k])
          IN  chat' = c /\ phase' = IF c.lost THEN "lost" ELSE phase
       /\ stage' = [i \in Parts |-> IF \E k \in DOMAIN chunk : chunk[k].call = i THEN stage[i] + 1 ELSE stage[i]]
  /\ UNCHANGED <<wire, parts, reader, inflight, marker, screen, attempt, requests, failures>>

-----------------------------------------------------------------------------
(***************************************************************************)
(* The end of the response, and its publication.                           *)
(***************************************************************************)
\* A stream is over: Responses' terminal event proves the text final, Chat promotes on its finish
\* reason if it is "tool_calls".
StreamEnds ==
  /\ phase = "reading" /\ wire.streamed /\ \A i \in Parts : Ended(i)
  /\ phase' = "answered"
  /\ \E told \in BOOLEAN :
       /\ wire.name # "chat" => ~told
       /\ LET ended == wire.name = "responses" \/ (told /\ DOMAIN chat.calls # {})
          IN  Promote([reader EXCEPT !.text_done = @ \/ ended, !.handoff_seen = @ \/ (told /\ ended)], <<>>)
  /\ UNCHANGED <<wire, parts, stage, chat, inflight, attempt, requests, failures>>

\* A response that is not streamed: parsing it is what reports its searches.
Answer ==
  /\ phase = "reading" /\ ~wire.streamed
  /\ phase' = "answered"
  /\ screen' = screen \o FoldLeft(LAMBDA lines, i : IF Is(i, "search") THEN Append(lines, Line("search", Token(i, 0))) ELSE lines,
                                  <<>>, [i \in Parts |-> i])
  /\ UNCHANGED <<wire, parts, stage, reader, chat, inflight, marker, attempt, requests, failures>>

\* Mutant: a text is taken as promoted when any of it was.
unpromoted_text_AllOrNothing(text, promoted) == IF promoted = <<>> THEN text ELSE <<>>

\* What is left of the text after its promotion.
unpromoted_text(text, promoted) ==
  IF IsPrefix(promoted, text) THEN SubSeq(text, Len(promoted) + 1, Len(text)) ELSE text

\* The follow-ups are logged, then the engine publishes the text: CommandLoop.agent_output.
Publish ==
  /\ phase = "answered"
  /\ inflight' = FALSE
  /\ phase' = "published"
  /\ IF Content = <<>> THEN UNCHANGED <<marker, screen>>
     ELSE /\ marker' = <<>>
          /\ screen' = screen \o Lines(unpromoted_text(Content, marker))
  /\ UNCHANGED <<wire, parts, stage, reader, chat, attempt, requests, failures>>

\* The tool batch, behind the output barrier, and the next request; or the end of the turn.
Batch ==
  /\ phase = "published"
  /\ Done
  /\ UNCHANGED <<wire, inflight, marker, screen, requests, failures>>

Index == 1..3   \* the longest shape a configuration gives

Next ==
  \/ Request
  \/ Break
  \/ Retry
  \/ GiveUp
  \/ \E i \in Index : TextDelta(i)
  \/ \E i \in Index : TextDone(i)
  \/ \E i \in Index : CallAdded(i)
  \/ \E i \in Index : SearchAdded(i)
  \/ \E i \in Index : SearchDone(i)
  \/ ChatCalls
  \/ StreamEnds
  \/ Answer
  \/ Publish
  \/ Batch

Spec == Init /\ [][Next]_vars

-----------------------------------------------------------------------------
(***************************************************************************)
(* Properties.                                                             *)
(***************************************************************************)
Shown(kind)   == SelectSeq(screen, LAMBDA line : line.kind = kind)
Tokens(lines) == [k \in DOMAIN lines |-> lines[k].token]
Own(lines)    == SelectSeq(lines, LAMBDA line : line.request = requests)
Holds(tokens) == \E start \in 0..Len(tokens) : IsPrefix(Content, SubSeq(tokens, start + 1, Len(tokens)))

\* When the tool batch begins, the text of the response is in the transcript, whole and in
\* order; and, if no stream of the turn broke, it was written once and for this response.
TextKept ==
  phase = "published" =>
    /\ Holds(Tokens(Shown("text")))
    /\ failures = 0 => Tokens(Own(Shown("text"))) = Content

\* The same when a stream broke: what a failed attempt promoted suppresses no later response.
NeverSuppressed == phase = "published" => Holds(Tokens(Own(Shown("text"))))

\* Each provider-side search of the response is reported once, streamed or not.
SearchesReported ==
  phase = "published" =>
    LET reported == SelectSeq(Own(Shown("search")), LAMBDA line : line.attempt = attempt)
    IN  Tokens(reported) = FoldLeft(LAMBDA t, i : IF Is(i, "search") THEN Append(t, Token(i, 0)) ELSE t,
                                    <<>>, [i \in Parts |-> i])

\* While an Anthropic stream is read to a TUI with no follow-ups to log first, the text that
\* comes before every search is handed to the transcript before the searches it has reported.
FirstText(i) == \A j \in 1..i : Is(j, "text")
Above(i, j)  == \E k, m \in DOMAIN screen :
                  k < m /\ screen[k] = Line("text", Token(i, 2)) /\ screen[m] = Line("search", Token(j, 0))
SearchBelowText ==
  (phase \in {"reading", "answered"} /\ wire.name = "anthropic" /\ wire.streamed /\ wire.tui /\ ~inflight) =>
    \A i, j \in Parts : (FirstText(i) /\ Is(j, "search") /\ Ended(j)) => Above(i, j)

\* Every tool call of a Chat stream that ends is made of its own fragments, in order.
CallsWhole ==
  (phase = "answered" /\ wire.streamed /\ wire.name = "chat") =>
    LET indexes == SetToSortSeq(DOMAIN chat.calls, <)
        calls   == SetToSortSeq(Calls, <)
    IN  [n \in DOMAIN indexes |-> chat.calls[indexes[n]]]
          = [n \in DOMAIN calls |-> <<(<<calls[n], 1>>), (<<calls[n], 2>>)>>]

\* The four together.
StreamSound == TextKept /\ SearchesReported /\ SearchBelowText /\ CallsWhole
=============================================================================
