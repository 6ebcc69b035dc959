-------------------------------- MODULE Replay --------------------------------
(***************************************************************************)
(* One normalized history and the three wires it is sent over.  A reply    *)
(* keeps what its provider returned; the next request projects the whole   *)
(* history for the provider then in use, which may be another one: what    *)
(* this issuer wrote is echoed, anything else is rebuilt from its text and *)
(* its calls, and the provider's policy says which reasoning goes back.    *)
(*                                                                         *)
(* A message is what it carries, a block is its kind, its message and its  *)
(* place.  Images, arguments and the wording of results are left out.      *)
(***************************************************************************)
EXTENDS Integers, Sequences, SequencesExt, FiniteSets

CONSTANTS
  Providers,    \* records: wire, issuer, policy of reasoning_history
  ChatOpaque,   \* whether Chat hosts return encrypted reasoning_details
  Restarting,   \* whether a Responses host numbers its output items anew in each response
  MaxMessages   \* bound: messages of the history

VARIABLES
  at,        \* "user", "ready" to ask, "model", "tools"
  provider,  \* the one in use
  history,   \* the normalized messages
  sent, previous   \* the last two requests: provider and projection

vars == <<at, provider, history, sent, previous>>

NoMaker   == [wire |-> "none", issuer |-> "none", policy |-> "all"]
NoRequest == [provider |-> NoMaker, wire |-> <<>>]

\* Messages.
From(kind) == [kind |-> kind, calls |-> 0, text |-> TRUE, reasoning |-> FALSE, maker |-> NoMaker, call |-> 0]
Result(c)  == [From("tool") EXCEPT !.call = c]
Said(calls, text, reasoning) ==
  [From("assistant") EXCEPT !.calls = calls, !.text = text, !.reasoning = reasoning, !.maker = provider]

Role(m) == IF m.kind \in {"assistant", "tool"} THEN m.kind ELSE "user"

Init ==
  /\ at = "user" /\ provider \in Providers /\ history = <<>>
  /\ sent = NoRequest /\ previous = NoRequest

-----------------------------------------------------------------------------
(***************************************************************************)
(* The projection.                                                         *)
(***************************************************************************)
\* What a tool saw is not the user speaking.
latest_user_position(messages) ==
  SelectLastInSeq(messages, LAMBDA m : Role(m) = "user" /\ m.kind # "observation")

keeps_reasoning(policy, m, index, latest) ==
  \/ policy = "all"
  \/ m.calls > 0 /\ (policy = "tool_calls" \/ (policy = "current_turn" /\ index > latest))

\* Only the endpoint that issued an echo can verify it.
replayable_echo(m, p) == m.maker.wire = p.wire /\ m.maker.issuer = p.issuer

\* Chat keeps reasoning in ordinary fields of the message, whoever wrote them.
carries_reasoning(m, p) == IF p.wire = "chat" THEN m.maker.wire = "chat" ELSE replayable_echo(m, p)

Block(type, i, k) == [type |-> type, of |-> i, place |-> k]

\* anthropic_assistant_blocks, the items of responses_input, the fields of chat_messages.
assistant_blocks(m, i, p, latest) ==
  (IF m.reasoning /\ carries_reasoning(m, p) /\ keeps_reasoning(p.policy, m, i, latest)
     THEN <<Block("reasoning", i, 0)>> ELSE <<>>)
  \o (IF m.text THEN <<Block("text", i, 0)>> ELSE <<>>)
  \o [k \in 1..m.calls |-> Block("tool_use", i, k)]

\* The message that made the call of a result.
Maker(messages, i) == SelectLastInSeq(SubSeq(messages, 1, i), LAMBDA m : m.kind = "assistant")

Blocks(messages, i, p) ==
  LET m == messages[i]
  IN  IF m.kind = "assistant" THEN assistant_blocks(m, i, p, latest_user_position(messages))
      ELSE IF m.kind = "tool" THEN <<Block("tool_result", Maker(messages, i), m.call)>>
      ELSE <<Block("text", i, 0)>>

\* Mutant: a turn of the same role stays a message of its own.
append_anthropic_message_NeverMerges(converted, role, blocks) == Append(converted, [role |-> role, blocks |-> blocks])

\* Messages alternates roles: a turn of the same role as the one before is merged into it, a
\* result is the user's, and a turn of which nothing is left is dropped.
append_anthropic_message(converted, role, blocks) ==
  IF converted # <<>> /\ Last(converted).role = role
  THEN [converted EXCEPT ![Len(converted)].blocks = @ \o blocks]
  ELSE Append(converted, [role |-> role, blocks |-> blocks])

anthropic_messages(messages, p) ==
  FoldLeft(LAMBDA converted, i :
             LET blocks == Blocks(messages, i, p)
                 role   == IF messages[i].kind = "assistant" THEN "assistant" ELSE "user"
             IN  IF blocks = <<>> THEN converted ELSE append_anthropic_message(converted, role, blocks),
           <<>>, [i \in DOMAIN messages |-> i])

\* An echoed item whose id was already sent is sent once.
ItemId(m, block) ==
  IF block.type = "tool_result" \/ m.kind # "assistant" THEN <<"own", block.of, block.place>>
  ELSE IF Restarting THEN <<block.type, 0, block.place>> ELSE <<block.type, block.of, block.place>>

responses_input(messages, p) ==
  LET items == FlattenSeq([i \in DOMAIN messages |->
                 LET blocks == Blocks(messages, i, p)
                 IN  [k \in DOMAIN blocks |-> [role |-> Role(messages[i]), block |-> blocks[k], of |-> i]]])
      Repeats(n) == /\ items[n].role = "assistant" /\ replayable_echo(messages[items[n].of], p)
                    /\ \E o \in 1..(n - 1) :
                         /\ items[o].role = "assistant" /\ replayable_echo(messages[items[o].of], p)
                         /\ ItemId(messages[items[o].of], items[o].block) = ItemId(messages[items[n].of], items[n].block)
  IN  FoldLeft(LAMBDA sofar, n : IF Repeats(n) THEN sofar
                                 ELSE Append(sofar, [role |-> items[n].role, blocks |-> <<items[n].block>>]),
               <<>>, [n \in DOMAIN items |-> n])

chat_messages(messages, p) ==
  [i \in DOMAIN messages |-> [role |-> Role(messages[i]), blocks |-> Blocks(messages, i, p)]]

Projection(messages, p) ==
  CASE p.wire = "anthropic" -> anthropic_messages(messages, p)
    [] p.wire = "responses" -> responses_input(messages, p)
    [] p.wire = "chat"      -> chat_messages(messages, p)

-----------------------------------------------------------------------------
(***************************************************************************)
(* The conversation.                                                       *)
(***************************************************************************)
Room(n) == Len(history) + n <= MaxMessages

\* /provider, between turns.
Switch ==
  /\ at = "user" /\ provider' \in Providers \ {provider}
  /\ UNCHANGED <<at, history, sent, previous>>

\* A turn begins; a resume or a compaction may have left an event before it.
Speak ==
  /\ at = "user"
  /\ \E opening \in {<<From("user")>>, <<From("event"), From("user")>>} :
       Room(Len(opening)) /\ history' = history \o opening
  /\ at' = "ready"
  /\ UNCHANGED <<provider, sent, previous>>

\* A follow-up rides along.
FollowUp ==
  /\ at = "ready" /\ Room(1) /\ Last(history).kind = "tool"
  /\ history' = Append(history, From("user"))
  /\ UNCHANGED <<at, provider, sent, previous>>

Request ==
  /\ at = "ready"
  /\ previous' = sent
  /\ sent' = [provider |-> provider, wire |-> Projection(history, provider)]
  /\ at' = "model"
  /\ UNCHANGED <<provider, history>>

\* The final answer, or the end of a run the provider paused: that one is sent back unchanged.
Answer ==
  /\ at = "model" /\ Room(1)
  /\ \E text, reasoning, paused \in BOOLEAN :
       /\ text \/ (paused /\ reasoning)
       /\ paused => provider.wire = "anthropic"
       /\ history' = Append(history, Said(0, text, reasoning))
       /\ at' = IF paused THEN "ready" ELSE "user"
  /\ UNCHANGED <<provider, sent, previous>>

Call ==
  /\ at = "model"
  /\ \E calls \in 1..2, text, reasoning \in BOOLEAN :
       Room(calls + 1) /\ history' = Append(history, Said(calls, text, reasoning))
  /\ at' = "tools"
  /\ UNCHANGED <<provider, sent, previous>>

Results == [c \in 1..Last(history).calls |-> Result(c)]

\* The batch, and what its tools saw.
Tools ==
  /\ at = "tools" /\ Last(history).calls > 0
  /\ \E seen \in {<<>>, <<From("observation")>>} :
       Room(Len(Results) + Len(seen)) /\ history' = history \o Results \o seen
  /\ at' = "ready"
  /\ UNCHANGED <<provider, sent, previous>>

\* Ctrl-C: the calls are settled, and a marker says that the turn ended early.
Interrupted ==
  /\ at = "tools" /\ Room(Len(Results) + 1)
  /\ history' = history \o Results \o <<From("event")>>
  /\ at' = "user"
  /\ UNCHANGED <<provider, sent, previous>>

\* finish_with_next_hints: the message of the calls withholds the text, which follows as its own.
NextHints ==
  /\ at = "model"
  /\ \E text, reasoning \in BOOLEAN :
       LET calling == Said(1, FALSE, reasoning)
           answer  == IF text THEN <<[From("assistant") EXCEPT !.text = TRUE]>> ELSE <<>>
       IN  Room(3) /\ history' = history \o <<calling, Result(1)>> \o answer
  /\ at' = "user"
  /\ UNCHANGED <<provider, sent, previous>>

Next ==
  \/ Switch \/ Speak \/ FollowUp \/ Request
  \/ Answer \/ Call \/ Tools \/ Interrupted \/ NextHints

Spec == Init /\ [][Next]_vars

-----------------------------------------------------------------------------
(***************************************************************************)
(* Properties of each request.                                             *)
(***************************************************************************)
Flat(wire) == FlattenSeq([n \in DOMAIN wire |-> wire[n].blocks])
Uses(b)    == {k \in DOMAIN b : b[k].type = "tool_use"}

\* Every call sent is answered once, after it and before anything that is not an answer: in the
\* next message where roles alternate.
CallsAnswered ==
  LET flat == Flat(sent.wire)
  IN  /\ \A k \in Uses(flat) : Cardinality({n \in DOMAIN flat : flat[n] = [flat[k] EXCEPT !.type = "tool_result"]}) = 1
      /\ \A n \in DOMAIN flat : flat[n].type = "tool_result" =>
           /\ \E k \in 1..(n - 1) : flat[k] = [flat[n] EXCEPT !.type = "tool_use"]
           /\ flat[n - 1].type \in {"tool_use", "tool_result"} /\ flat[n - 1].of = flat[n].of

\* Messages: the user speaks first, and roles alternate.
RolesAlternate ==
  sent.provider.wire = "anthropic" =>
    \A n \in DOMAIN sent.wire : sent.wire[n].role = (IF n % 2 = 1 THEN "user" ELSE "assistant")

\* What was said is sent once, and what was withheld is not sent.
SaidOnce ==
  at = "model" => \A i \in DOMAIN history : history[i].kind # "tool" =>
    Cardinality({n \in DOMAIN Flat(sent.wire) : Flat(sent.wire)[n] = Block("text", i, 0)})
      = (IF history[i].text THEN 1 ELSE 0)

\* A request begins with the request before it, unless the policy forgets the last turn's
\* reasoning or the provider changed: what a provider has cached it can use.
PrefixStable ==
  (at = "model" /\ previous.provider = sent.provider /\ sent.provider.policy # "current_turn") =>
    IsPrefix(Flat(previous.wire), Flat(sent.wire))

\* Opaque continuation data goes only to the endpoint that issued it.
Opaque(m) == m.reasoning /\ (m.maker.wire = "chat" => ChatOpaque)
OpaqueStaysHome ==
  at = "model" => \A n \in DOMAIN Flat(sent.wire) :
    LET block == Flat(sent.wire)[n]
    IN  block.type = "reasoning" /\ Opaque(history[block.of]) =>
          history[block.of].maker.issuer = sent.provider.issuer

\* Every request is well formed, complete and cacheable, and gives nothing away.
ReplaySound == CallsAnswered /\ RolesAlternate /\ SaidOnce /\ PrefixStable /\ OpaqueStaysHome
=============================================================================
