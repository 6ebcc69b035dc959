------------------------------ MODULE Settings ------------------------------
(***************************************************************************)
(* The provider settings a running session can switch: `/provider`,        *)
(* `/model`, `/reason` and `/api`, what of them a resumed session restores, *)
(* and the [worker] overrides with the live worker session they rewrite.   *)
(*                                                                         *)
(* A provider entry is its model, reasoning effort and api.  Each model    *)
(* has a scale of efforts; the catalogue's efforts are ordered, those a    *)
(* configuration declares for a model are not.  The configuration file is  *)
(* one that loads, and stays as it is.  "" is "not set": inherit, or never *)
(* switched.                                                               *)
(***************************************************************************)
EXTENDS Integers, Sequences, FiniteSets, Functions

CONSTANTS
  Providers,    \* names of the provider entries
  Models,
  Apis,         \* PROVIDER_API_CHOICES
  EffortOrder,  \* the catalogue's efforts, weakest first
  Scale,        \* per model: the efforts the catalogue gives it, weakest first; <<>> if it gives none
  Declared,     \* per model: the efforts a glob of the configuration declares; <<>> if none matches
  Mandatory,    \* models that cannot go without reasoning
  Files,        \* what the configuration file may say
  MaxSwitches   \* bound: settings changed

VARIABLES
  file,      \* the configuration file: active entry, entries, [worker]
  active,    \* Config.active_provider
  entries,   \* Config.providers
  worker,    \* Config.worker_provider, worker_model, worker_reasoning, worker_api
  overrides, \* Session.provider_overrides
  live,      \* the configuration of the live worker session, if there is one
  switches

vars == <<file, active, entries, worker, overrides, live, switches>>

NoOverrides == [active |-> "", entry |-> [n \in Providers |-> [model |-> "", reasoning |-> "", api |-> ""]]]
NoWorker    == [alive |-> FALSE, active |-> "", own |-> <<>>]

-----------------------------------------------------------------------------
(***************************************************************************)
(* The scale of efforts.                                                   *)
(***************************************************************************)
Rank(effort)  == CHOOSE i \in DOMAIN EffortOrder : EffortOrder[i] = effort
Distance(a, b) == IF Rank(a) < Rank(b) THEN Rank(b) - Rank(a) ELSE Rank(a) - Rank(b)

\* The closest supported effort, the higher one on a tie.
nearest_reasoning_effort(effort, supported) ==
  LET candidates == Range(supported) \cap Range(EffortOrder)
      Closer(a, b) == \/ Distance(a, effort) < Distance(b, effort)
                      \/ Distance(a, effort) = Distance(b, effort) /\ Rank(a) >= Rank(b)
  IN  IF effort \notin Range(EffortOrder) \/ candidates = {} THEN effort
      ELSE CHOOSE a \in candidates : \A b \in candidates : Closer(a, b)

nearest_supported_effort(effort, levels) ==
  LET nearest == nearest_reasoning_effort(effort, levels)
  IN  IF effort \in Range(levels) THEN effort
      ELSE IF nearest \in Range(levels) THEN nearest
      ELSE levels[(Len(levels) \div 2) + 1]

\* A declaration wins, then the catalogue; a model neither knows takes every effort.
supported_efforts(model) ==
  IF Declared[model] # <<>> THEN Declared[model] ELSE IF Scale[model] # <<>> THEN Scale[model] ELSE EffortOrder

declared_levels(model)   == Range(Declared[model])
reasoning_values(model)  == {"off"} \cup Range(EffortOrder) \cup declared_levels(model)
reasoning_choices(model) == Range(supported_efforts(model)) \cup (IF model \in Mandatory THEN {} ELSE {"off"})

\* A known or declared effort as it is, anything else as the middle of the catalogue's scale.
reasoning_effort_value(entry) ==
  IF entry.reasoning \in Range(EffortOrder) \cup declared_levels(entry.model) THEN entry.reasoning
  ELSE EffortOrder[(Len(EffortOrder) \div 2) + 1]

normalized_reasoning(entry) ==
  IF entry.reasoning = "off"
  THEN IF entry.model \in Mandatory THEN Head(supported_efforts(entry.model)) ELSE "off"
  ELSE nearest_supported_effort(reasoning_effort_value(entry), supported_efforts(entry.model))

\* What ProviderPolicy.resolve sends: the stored effort, moved only if the model does not take it.
SentEffort(entry) ==
  IF entry.reasoning = "off" THEN "off"
  ELSE nearest_supported_effort(reasoning_effort_value(entry), supported_efforts(entry.model))

-----------------------------------------------------------------------------
(***************************************************************************)
(* What is refused when the configuration is read.                         *)
(***************************************************************************)
Chosen(recorded, configured) == IF recorded = "" THEN configured ELSE recorded

\* A declared scale is ordered, without repetition, and has no "off" in it.
model_overrides_from == \A m \in Models : "off" \notin Range(Declared[m]) /\ IsInjective(Declared[m])

LoadsEntry(entry) == entry.api \in Apis /\ entry.reasoning \in reasoning_values(entry.model)

\* The worker's effort is held against the entry and the model it starts on.
Loads(f) ==
  /\ model_overrides_from
  /\ f.active \in Providers /\ \A n \in Providers : LoadsEntry(f.entries[n])
  /\ f.worker.provider \in Providers \cup {""}
  /\ LET base == f.entries[Chosen(f.worker.provider, f.active)]
     IN  f.worker.reasoning \in reasoning_values(Chosen(f.worker.model, base.model)) \cup {""}
  /\ f.worker.api \in Apis \cup {""}

-----------------------------------------------------------------------------
(***************************************************************************)
(* Session.apply_provider_overrides on a freshly built configuration.      *)
(***************************************************************************)

RestoredEntry(entry, recorded) ==
  LET model == Chosen(recorded.model, entry.model)
  IN  [model     |-> model,
       reasoning |-> IF recorded.reasoning \in reasoning_values(model) THEN recorded.reasoning ELSE entry.reasoning,
       api       |-> Chosen(recorded.api, entry.api)]

Restored(f, o) ==
  [active  |-> Chosen(o.active, f.active),
   entries |-> [n \in Providers |-> RestoredEntry(f.entries[n], o.entry[n])]]

Init ==
  /\ file \in Files /\ Loads(file)
  /\ active = file.active /\ entries = file.entries /\ worker = file.worker
  /\ overrides = NoOverrides /\ live = NoWorker /\ switches = 0

-----------------------------------------------------------------------------
(***************************************************************************)
(* The session's own provider.                                             *)
(***************************************************************************)
Switch == switches < MaxSwitches /\ switches' = switches + 1 /\ UNCHANGED file

\* realign_reasoning: an effort the model does not take is moved, and the move recorded.
Realigned(entry)           == [entry EXCEPT !.reasoning = normalized_reasoning(entry)]
Moved(recorded, old, new)  == IF new.reasoning = old.reasoning THEN recorded
                              ELSE [recorded EXCEPT !.reasoning = new.reasoning]

SetProvider(n) ==
  /\ Switch
  /\ active' = n
  /\ LET aligned == Realigned(entries[n])
     IN  /\ entries' = [entries EXCEPT ![n] = aligned]
         /\ overrides' = [overrides EXCEPT !.active = n, !.entry[n] = Moved(@, entries[n], aligned)]
  /\ UNCHANGED <<worker, live>>

\* An api and an effort are picked with the model.  Leaving the effort picker keeps the effort,
\* realigned; leaving the api picker without an answer keeps the api.
SetModel(m, a, r) ==
  /\ Switch
  /\ r \in reasoning_choices(m) \cup {""}
  /\ LET entry    == entries[active]
         switched == [entry EXCEPT !.model = m, !.api = Chosen(a, entry.api)]
         set      == IF r = "" THEN Realigned(switched) ELSE [switched EXCEPT !.reasoning = r]
         recorded == [overrides.entry[active] EXCEPT !.model = m, !.api = Chosen(a, @)]
     IN  /\ entries' = [entries EXCEPT ![active] = set]
         /\ overrides' = [overrides EXCEPT !.entry[active] =
              IF r = "" THEN Moved(recorded, entry, set) ELSE [recorded EXCEPT !.reasoning = r]]
  /\ UNCHANGED <<active, worker, live>>

\* Typed or picked, an effort is one the model takes.
SetReasoning(r) ==
  /\ Switch
  /\ r \in reasoning_choices(entries[active].model)
  /\ entries' = [entries EXCEPT ![active].reasoning = r]
  /\ overrides' = [overrides EXCEPT !.entry[active].reasoning = r]
  /\ UNCHANGED <<active, worker, live>>

SetApi(a) ==
  /\ Switch
  /\ entries' = [entries EXCEPT ![active].api = a]
  /\ overrides' = [overrides EXCEPT !.entry[active].api = a]
  /\ UNCHANGED <<active, worker, live>>

\* The process ends and the session is resumed: a fresh configuration, its switches applied.
Resume ==
  /\ active' = Restored(file, overrides).active
  /\ entries' = Restored(file, overrides).entries
  /\ worker' = file.worker /\ live' = NoWorker
  /\ UNCHANGED <<file, overrides, switches>>

-----------------------------------------------------------------------------
(***************************************************************************)
(* The worker.  Its dictionary of entries is its own; an entry in it is    *)
(* the parent's object until it is replaced by a detached copy.            *)
(***************************************************************************)
worker_provider_config(n, w) ==
  [model     |-> Chosen(w.model, entries[n].model),
   reasoning |-> Chosen(w.reasoning, entries[n].reasoning),
   api       |-> Chosen(w.api, entries[n].api)]

SpawnTarget     == Chosen(worker.provider, active)
LiveEntry(n)    == IF n \in DOMAIN live.own THEN live.own[n] ELSE entries[n]
Own(own, n, e)  == [k \in DOMAIN own \cup {n} |-> IF k = n THEN e ELSE own[k]]

\* Delegate is offered only to a session whose configuration named a worker at its start.
Spawn ==
  /\ ~live.alive /\ file.worker.provider # ""
  /\ live' = [alive |-> TRUE, active |-> SpawnTarget,
              own |-> Own(<<>>, SpawnTarget, worker_provider_config(SpawnTarget, worker))]
  /\ UNCHANGED <<file, active, entries, worker, overrides, switches>>

Reset ==
  /\ live.alive
  /\ live' = NoWorker
  /\ UNCHANGED <<file, active, entries, worker, overrides, switches>>

\* Mutant: the entry is rewritten in place, and the parent holds the same object.
refresh_worker_entry_InPlace(n, w) ==
  /\ worker' = w
  /\ entries' = IF live.alive THEN [entries EXCEPT ![n] = worker_provider_config(n, w)] ELSE entries
  /\ live' = IF live.alive THEN [live EXCEPT !.active = n] ELSE live
  /\ UNCHANGED <<active, overrides>>

\* The overrides become w, and entry n of a live worker is rebuilt from them.
refresh_worker_entry(n, w) ==
  /\ worker' = w
  /\ live' = IF live.alive THEN [live EXCEPT !.active = n, !.own = Own(@, n, worker_provider_config(n, w))] ELSE live
  /\ UNCHANGED <<active, entries, overrides>>

WorkerProvider(n)   == Switch /\ refresh_worker_entry(n, [worker EXCEPT !.provider = n])
WorkerModel(m)      == Switch /\ refresh_worker_entry(live.active, [worker EXCEPT !.model = m])
WorkerApi(a)        == Switch /\ refresh_worker_entry(live.active, [worker EXCEPT !.api = a])

\* The efforts offered are those of the entry the next spawn would run on.
WorkerReasoning(r) ==
  /\ Switch
  /\ r \in reasoning_choices(worker_provider_config(SpawnTarget, worker).model) \cup {""}
  /\ refresh_worker_entry(live.active, [worker EXCEPT !.reasoning = r])

\* Clears the next spawn's provider; a live worker keeps its own.
WorkerProviderOff ==
  /\ Switch
  /\ worker' = [worker EXCEPT !.provider = ""]
  /\ UNCHANGED <<active, entries, overrides, live>>

Efforts == UNION {reasoning_values(m) : m \in Models}

Next ==
  \/ \E n \in Providers : SetProvider(n)
  \/ \E m \in Models, a \in Apis \cup {""}, r \in Efforts \cup {""} : SetModel(m, a, r)
  \/ \E r \in Efforts : SetReasoning(r)
  \/ \E a \in Apis : SetApi(a)
  \/ Resume
  \/ Spawn
  \/ Reset
  \/ \E n \in Providers : WorkerProvider(n)
  \/ WorkerProviderOff
  \/ \E m \in Models \cup {""} : WorkerModel(m)
  \/ \E r \in Efforts \cup {""} : WorkerReasoning(r)
  \/ \E a \in Apis \cup {""} : WorkerApi(a)

Spec == Init /\ [][Next]_vars

-----------------------------------------------------------------------------
(***************************************************************************)
(* Properties.                                                             *)
(***************************************************************************)
\* At every moment, what a resume would restore is what the session runs on: each switch, and
\* each effort moved by a switch, is recorded, and nothing that is not a switch of this session
\* (a worker's setting above all) has reached its entries.
ResumeRestores == Restored(file, overrides) = [active |-> active, entries |-> entries]

\* An entry whose model or effort was switched, or that was switched to, holds an effort its
\* model takes, so a request sends the effort the screen shows.
Switched(n) == \/ overrides.active = n
               \/ overrides.entry[n].model # "" \/ overrides.entry[n].reasoning # ""
EffortOffered ==
  \A n \in Providers : Switched(n) =>
    entries[n].reasoning \in reasoning_choices(entries[n].model) /\ SentEffort(entries[n]) = entries[n].reasoning

\* Both: the switches of a session are the ones in use, the ones sent and the ones resumed.
SwitchesKept == ResumeRestores /\ EffortOffered

\* What the approval of a delegation shows of a live worker is what it runs on.  (Not so after
\* `/worker provider off`, `/provider` or `/model`: the worker keeps its entry.)
BriefIsTrue ==
  live.alive => /\ live.active = SpawnTarget
                /\ LiveEntry(live.active) = worker_provider_config(SpawnTarget, worker)

\* A live worker's effort is sent as it was chosen.  (Not so after `/worker model`, which moves
\* the model under the effort without realigning it.)
WorkerSentAsChosen ==
  (live.alive /\ worker.reasoning # "") => SentEffort(LiveEntry(live.active)) = worker.reasoning
=============================================================================
