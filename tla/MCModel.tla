------------------------------- MODULE MCModel -------------------------------
(***************************************************************************)
(* Compaction, Replay, Streams and MCWorker's Settings and Delegate for    *)
(* TLC: what is kept of the conversation, how a provider is sent it, the   *)
(* stream that answers; what a worker runs on, and what becomes of it.     *)
(* The modules share no state, so a behaviour is one of one of them, and   *)
(* the variables of the others stay as they were.                          *)
(***************************************************************************)
EXTENDS MCWorker

CONSTANTS
  Subjects,   \* which of the five
  Shapes, Habits, Overlapping, MaxRequests, MaxFailures,                     \* Streams
  Budget, Recent, MinRecent, MaxSegments, MaxRecords, Big, MaxBig, Drops, MaxMessages,   \* Compaction
  Providers, ChatOpaque, Restarting, MaxReplayed                             \* Replay

VARIABLES
  wire, phase, parts, stage, reader, chat, inflight, marker, screen, attempt, requests, failures,
  born, messages, turn, held, acted, round, pass, marks, left, overdue, segments, summary, records, retired,
  at, provider, history, sent, previous

Stream  == INSTANCE Streams
Context == INSTANCE Compaction WITH phase <- round
Wire    == INSTANCE Replay WITH MaxMessages <- MaxReplayed

streamVars  == <<wire, phase, parts, stage, reader, chat, inflight, marker, screen, attempt, requests, failures>>
contextVars == <<born, messages, turn, held, acted, round, pass, marks, left, overdue, segments, summary, records, retired>>
wireVars    == <<at, provider, history, sent, previous>>
allVars     == <<workerVars, streamVars, contextVars, wireVars>>

\* Responses of one or two parts, and those of three that say more.
MCShapes ==
  UNION {[1..n -> {"text", "call", "search"}] : n \in 1..2} \cup
  {<<"text", "search", "text">>, <<"search", "text", "search">>, <<"text", "call", "call">>}

\* Two hosts of a wire, to tell an issuer from its wire.
MCProvider(w, i, p) == [wire |-> w, issuer |-> i, policy |-> p]
MCProviders ==
  {MCProvider("chat", "a", "all"), MCProvider("chat", "b", "current_turn"),
   MCProvider("responses", "c", "tool_calls"),
   MCProvider("anthropic", "d", "all"), MCProvider("anthropic", "e", "tool_calls")}

MCModels    == {"plain", "steep", "named"}
MCOrder     == <<"low", "mid", "high">>
MCScale     == [plain |-> <<>>, steep |-> <<"low", "high">>, named |-> <<"low">>]
MCDeclared  == [plain |-> <<>>, steep |-> <<>>, named |-> <<"fast", "deep">>]
MCMandatory == {"steep"}

MCEntry(m, r) == [model |-> m, reasoning |-> r, api |-> "auto"]
\* Some of these do not load: an effort the model does not declare, a worker on no entry, or one
\* whose effort another model declares.
MCFiles ==
  {[active |-> "a",
    entries |-> [n \in {"a", "b"} |-> IF n = "a" THEN MCEntry("plain", "mid") ELSE e],
    worker |-> [provider |-> p, model |-> "", reasoning |-> r, api |-> ""]] :
     e \in {MCEntry("named", "deep"), MCEntry("steep", "off"), MCEntry("steep", "deep")},
     p \in {"", "b", "c"}, r \in {"", "deep"}}

-----------------------------------------------------------------------------
ModelInit ==
  /\ about \in Subjects
  /\ Stream!Init
  /\ about # "stream" => wire = CHOOSE w \in [name : {"chat"}, streamed : {TRUE}, habit : Habits, tui : {TRUE}] : TRUE
  /\ Wire!Init
  /\ about # "wire" => provider = CHOOSE p \in Providers : TRUE
  /\ Context!Init /\ WorkerInit

InStream  == about = "stream"  /\ UNCHANGED <<about, contextVars, wireVars, choiceVars, lifeVars>>
InContext == about = "context" /\ UNCHANGED <<about, streamVars, wireVars, choiceVars, lifeVars>>
InWire    == about = "wire"    /\ UNCHANGED <<about, streamVars, contextVars, choiceVars, lifeVars>>

StreamNext ==
  \/ InStream /\ Stream!Request
  \/ InStream /\ Stream!Break
  \/ InStream /\ Stream!Retry
  \/ InStream /\ Stream!GiveUp
  \/ InStream /\ \E i \in Stream!Index : Stream!TextDelta(i)
  \/ InStream /\ \E i \in Stream!Index : Stream!TextDone(i)
  \/ InStream /\ \E i \in Stream!Index : Stream!CallAdded(i)
  \/ InStream /\ \E i \in Stream!Index : Stream!SearchAdded(i)
  \/ InStream /\ \E i \in Stream!Index : Stream!SearchDone(i)
  \/ InStream /\ Stream!ChatCalls
  \/ InStream /\ Stream!StreamEnds
  \/ InStream /\ Stream!Answer
  \/ InStream /\ Stream!Publish
  \/ InStream /\ Stream!Batch

ContextNext ==
  \/ InContext /\ Context!BeginTurn
  \/ InContext /\ Context!Exchange
  \/ InContext /\ Context!Answer
  \/ InContext /\ Context!FollowUp
  \/ InContext /\ Context!Settle
  \/ InContext /\ Context!Measure
  \/ InContext /\ Context!HistoryPass
  \/ InContext /\ Context!TurnPass
  \/ InContext /\ Context!Dispatch
  \/ InContext /\ Context!Compact
  \/ InContext /\ Context!BadReply
  \/ InContext /\ Context!Summarised
  \/ InContext /\ Context!Trimmed
  \/ InContext /\ Context!CancelledPass
  \/ InContext /\ Context!CancelledCompact

WireNext ==
  \/ InWire /\ Wire!Switch
  \/ InWire /\ Wire!Speak
  \/ InWire /\ Wire!FollowUp
  \/ InWire /\ Wire!Request
  \/ InWire /\ Wire!Answer
  \/ InWire /\ Wire!Call
  \/ InWire /\ Wire!Tools
  \/ InWire /\ Wire!Interrupted
  \/ InWire /\ Wire!NextHints

InWorker == UNCHANGED <<streamVars, contextVars, wireVars>>

ModelNext == StreamNext \/ ContextNext \/ WireNext \/ (WorkerNext /\ InWorker)

ModelSpec == ModelInit /\ [][ModelNext]_allVars

-----------------------------------------------------------------------------
\* Their properties, by names a configuration can give, each of the behaviours it is about.
StreamSound     == about = "stream" => Stream!StreamSound
NeverSuppressed == about = "stream" => Stream!NeverSuppressed
ContextKept     == about = "context" => Context!ContextKept
NeverAgain      == Context!NeverAgain
ReplaySound     == about = "wire" => Wire!ReplaySound
OpaqueStaysHome == about = "wire" => Wire!OpaqueStaysHome
=============================================================================
