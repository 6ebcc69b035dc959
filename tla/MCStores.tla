------------------------------ MODULE MCStores ------------------------------
(***************************************************************************)
(* AssetStore, Catalog and Memory for TLC: two directories that are swept, *)
(* or fetched and rewritten, beside the work that uses them, and what a    *)
(* session remembers beside its messages.  They share nothing, so a        *)
(* behaviour is about one store; the notes and the inputs offered are      *)
(* stores by themselves.                                                   *)
(***************************************************************************)
EXTENDS Catalog, TLC

CONSTANTS
  Images, Results, MaxAssets,
  MAX_HISTORY_SEGMENTS, MaxCompactions, Kinds, DEFAULT_LIMIT, Limits,
  Facts, Inputs, MAX_HINTS, MaxFacts, MaxOffered

VARIABLES
  store,   \* which of them this behaviour is about
  held, messages, turn, queued, retained, admitted, batch, results, promised, save, keep, listing,
  raced, history, made, walk, reply, notes, noted, hints, offered

ASSUME StoresAssumption == MaxAssets \in Nat /\ Images \cap Results = {}

Assets  == INSTANCE AssetStore WITH files <- held
Session == INSTANCE Memory

assetVars  == <<held, messages, turn, queued, retained, admitted, batch, results, promised, save, keep,
                listing, raced>>
memoryVars == <<history, made, walk, reply, notes, noted, hints, offered>>

StoresInit ==
  /\ store \in {"assets", "catalog", "segments", "notes", "hints"}
  /\ Init /\ Assets!Init /\ Session!Init
  /\ store # "catalog" => cache = remote /\ remote.v = 1 /\ \A p \in Procs : bundled[p] = remote

\* Bound: at most MaxAssets images and results are stored or named at a time.
Room(a) == Cardinality(held \cup Assets!Named \cup admitted \cup results \cup {a}) <= MaxAssets

InAssets   == store = "assets"  /\ UNCHANGED <<store, vars, memoryVars>>
InCatalog  == store = "catalog" /\ UNCHANGED <<store, assetVars, memoryVars>>
InSegments == store = "segments" /\ UNCHANGED <<store, vars, assetVars, notes, noted, hints, offered>>
InNotes    == store = "notes" /\ UNCHANGED <<store, vars, assetVars>>
InHints    == store = "hints" /\ UNCHANGED <<store, vars, assetVars>>

StoresNext ==
  \/ InAssets /\ \E i \in Images : Room(i) /\ Assets!Admit(i)
  \/ InAssets /\ \E i \in Images : Assets!Recall(i)
  \/ InAssets /\ \E i \in Images : Room(i) /\ Assets!ViewImage(i)
  \/ InAssets /\ \E k \in Results : Room(k) /\ Assets!StoreResult(k)
  \/ InAssets /\ \E k \in Results : Assets!MaterializeOutput(k)
  \/ InAssets /\ Assets!EnqueueAdmitted
  \/ InAssets /\ Assets!EnqueueRaises
  \/ InAssets /\ Assets!AcceptQueued
  \/ InAssets /\ Assets!EndBatch
  \/ InAssets /\ Assets!Checkpoint
  \/ InAssets /\ Assets!Compact
  \/ InAssets /\ Assets!BeginSave
  \/ InAssets /\ Assets!BeginSweep
  \/ InAssets /\ Assets!FailSave
  \/ InAssets /\ Assets!EndSweep
  \/ InAssets /\ \E a \in Images \cup Results : Assets!Visit(a)
  \/ InCatalog /\ \E p \in Procs : Start(p)
  \/ InCatalog /\ \E p \in Procs : Kill(p)
  \/ InCatalog /\ \E p \in Procs : BeginRefresh(p)
  \/ InCatalog /\ \E p \in Procs : BeginSync(p)
  \/ InCatalog /\ \E f \in Flows : Probe(f)
  \/ InCatalog /\ \E f \in Flows : Ask(f)
  \/ InCatalog /\ \E f \in Flows : Cancel(f)
  \/ InCatalog /\ \E f \in Flows : Commit(f)
  \/ InCatalog /\ \E f \in Flows : Write(f)
  \/ InCatalog /\ Publish
  \/ InCatalog /\ LoseCache
  \/ InSegments /\ \E kind \in Kinds : Session!store_history_segment(kind)
  \/ InSegments /\ \E p \in Session!Payloads : Session!RecallContext(p)
  \/ InSegments /\ \E count \in {0, 3}, start, end \in 0..4 : Session!Recall(count, start, end)
  \/ InSegments /\ Session!Answered
  \/ InNotes /\ \E u \in Session!Updates : Session!Note(u)
  \/ InNotes /\ Session!Reported
  \/ InHints /\ \E list \in Session!Offers : Session!NextHints(list)
  \/ InHints /\ Session!clear_quick_hints

StoresSpec == StoresInit /\ [][StoresNext]_<<vars, assetVars, memoryVars, store>>

\* What a query matches of a segment: its title and a line, or two lines around one.
MCKinds == {[title |-> TRUE, lines |-> <<TRUE>>], [title |-> FALSE, lines |-> <<TRUE, FALSE, TRUE>>]}

\* Images, results and processes are interchangeable.
Symmetry == Permutations(Procs) \cup Permutations(Images) \cup Permutations(Results)

-----------------------------------------------------------------------------
\* The properties of the instances, by names a configuration can give.
\* What a session keeps beside its messages: its images and results, its segments and its notes.
SessionKept ==
  /\ Assets!AssetsKept
  /\ store \in {"segments", "notes", "hints"} => Session!MemorySound
=============================================================================
