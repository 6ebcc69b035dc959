----------------------------- MODULE AssetStore -----------------------------
(***************************************************************************)
(* The assets directory of one session (image.py, context.py) and its      *)
(* collector (session/store.py).                                           *)
(*                                                                         *)
(* Images and the full text of truncated tool results are files of one     *)
(* directory.  Every save sweeps it on a worker thread: what the session   *)
(* referenced when the save was planned stays, every other entry the scan  *)
(* meets is unlinked, while the loop goes on storing new assets.  An asset *)
(* stored before the save began and referenced by nothing a plan can see,  *)
(* or stored while the save is under way, is in a race with the sweep.     *)
(* The staging files (".image-*") of the directory are left out: a sweep   *)
(* passes over every one young enough to be in use.                        *)
(***************************************************************************)
CONSTANTS
  Images,       \* content-addressed images (ImageRef.ref)
  Results       \* keys of truncated tool results ("tr.N", file "tr.N.txt")

VARIABLES
  files,      \* the assets directory
  messages,   \* images named by the committed and checkpointed messages
  turn,       \* images named by the turn the engine is building
  queued,     \* images of pending_user_inputs
  retained,   \* images.retained_refs: drafts recalled into the editor
  admitted,   \* images stored by the submission consumer, not queued yet
  batch,      \* images the running tool batch has viewed
  results,    \* session.tool_results
  promised,   \* results whose marker in the conversation names a file
  save,       \* "idle", "write" or "sweep"
  keep,       \* plan.asset_refs
  listing,    \* directory entries the sweep has yet to meet
  raced       \* history: assets a save under way was not told to keep; one it has unlinked stays
              \* here until it is stored again

vars == <<files, messages, turn, queued, retained, admitted, batch, results,
          promised, save, keep, listing, raced>>
saveVars == <<save, keep>>
dirVars == <<files, listing, raced>>
inputVars == <<queued, retained, admitted>>
turnVars == <<messages, turn, batch, results, promised>>

Init ==
  /\ files = {} /\ messages = {} /\ turn = {} /\ queued = {} /\ retained = {}
  /\ admitted = {} /\ batch = {} /\ results = {} /\ promised = {}
  /\ save = "idle" /\ keep = {} /\ listing = {} /\ raced = {}

\* A new file.  A scan already under way may or may not meet the new entry.
Store(a) ==
  /\ files' = files \cup {a}
  /\ raced' = IF save = "idle" \/ a \in keep THEN raced \ {a} ELSE raced \cup {a}
  /\ \/ UNCHANGED listing
     \/ save = "sweep" /\ listing' = listing \cup {a}

-----------------------------------------------------------------------------
(***************************************************************************)
(* Inputs.                                                                 *)
(***************************************************************************)
\* ImageInputs.admit: the submission consumer copies a draft's image into the directory.
Admit(i) ==
  /\ admitted = {} /\ Store(i)
  /\ admitted' = {i}
  /\ UNCHANGED <<queued, retained, turnVars, saveVars>>

\* Session.enqueue_user_input, back on the loop: the file is looked for again, then queued.
EnqueueAdmitted ==
  /\ admitted # {} /\ admitted \subseteq files
  /\ queued' = queued \cup admitted
  /\ retained' = retained \ admitted
  /\ admitted' = {}
  /\ UNCHANGED <<dirVars, turnVars, saveVars>>

\* A sweep was faster: the image is missing, and the input it came with is not queued.
EnqueueRaises ==
  /\ ~(admitted \subseteq files)
  /\ admitted' = {}
  /\ UNCHANGED <<dirVars, queued, retained, turnVars, saveVars>>

\* CommandLoop.recall_pending_input: back to the editor, still owned by the session.
Recall(i) ==
  /\ i \in queued
  /\ queued' = queued \ {i}
  /\ retained' = retained \cup {i}
  /\ UNCHANGED <<dirVars, admitted, turnVars, saveVars>>

\* Agent.accept_pending_inputs: the queued images become part of the turn.
AcceptQueued ==
  /\ queued # {}
  /\ turn' = turn \cup queued
  /\ queued' = {}
  /\ UNCHANGED <<dirVars, retained, admitted, messages, batch, results, promised, saveVars>>

-----------------------------------------------------------------------------
(***************************************************************************)
(* A turn.                                                                 *)
(***************************************************************************)
\* ViewImageTool.call: _store copies the image now; its message enters the turn with the batch.
ViewImage(i) ==
  /\ Store(i)
  /\ batch' = batch \cup {i}
  /\ UNCHANGED <<messages, turn, results, promised, inputVars, saveVars>>

\* ToolRunner.finish: the key is registered; the artifact, if one is needed, is still to come.
StoreResult(k) ==
  /\ k \notin results \cup promised
  /\ results' = results \cup {k}
  /\ UNCHANGED <<dirVars, messages, turn, batch, promised, inputVars, saveVars>>

\* ContextManager.materialize_output: the file lands, then the marker naming it is rendered.
MaterializeOutput(k) ==
  /\ k \in results \ promised /\ Store(k)
  /\ promised' = promised \cup {k}
  /\ UNCHANGED <<messages, turn, batch, results, inputVars, saveVars>>

\* The batch returns and its observations are appended to the turn.
EndBatch ==
  /\ batch # {}
  /\ turn' = turn \cup batch
  /\ batch' = {}
  /\ UNCHANGED <<dirVars, messages, results, promised, inputVars, saveVars>>

\* Agent.checkpoint_turn installs the turn where a save can see it.
Checkpoint ==
  /\ messages' = messages \cup turn
  /\ turn' = {}
  /\ UNCHANGED <<dirVars, batch, results, promised, inputVars, saveVars>>

\* ContextManager.apply_compaction drops messages and prunes the results they no longer name.
Compact ==
  /\ batch = {}
  /\ \E gone \in SUBSET messages, pruned \in SUBSET results :
       /\ gone \cup pruned # {}
       /\ messages' = messages \ gone
       /\ results' = results \ pruned
       /\ promised' = promised \ pruned
  /\ UNCHANGED <<dirVars, turn, batch, inputVars, saveVars>>

-----------------------------------------------------------------------------
(***************************************************************************)
(* A save.                                                                 *)
(***************************************************************************)
\* Mutant: a draft recalled into the editor is nobody's reference.
AssetRefs_NoDrafts == messages \cup queued \cup results

\* SessionSnapshotStore._asset_refs
AssetRefs == messages \cup queued \cup retained \cup results

\* Images in the directory that no plan can see yet.
Unseen == (turn \cup batch \cup admitted) \ AssetRefs

BeginSave ==
  /\ save = "idle"
  /\ save' = "write" /\ keep' = AssetRefs
  /\ raced' = raced \cup Unseen
  /\ UNCHANGED <<files, listing, turnVars, inputVars>>

\* The record is written and _collect_assets opens the directory.
BeginSweep ==
  /\ save = "write" /\ save' = "sweep"
  /\ listing' = files
  /\ UNCHANGED <<files, raced, keep, turnVars, inputVars>>

\* The save is over; what the directory still holds is in no race any more.
SaveOver ==
  /\ save' = "idle" /\ keep' = {} /\ listing' = {}
  /\ raced' = raced \ files
  /\ UNCHANGED <<files, turnVars, inputVars>>

\* The write raised: there is no sweep.
FailSave == save = "write" /\ SaveOver

\* One directory entry: unlinked unless the plan references it.
Visit(a) ==
  /\ save = "sweep" /\ a \in listing
  /\ listing' = listing \ {a}
  /\ files' = files \ ({a} \ keep)
  /\ UNCHANGED <<raced, saveVars, turnVars, inputVars>>

\* Every entry was met, or an OSError ended the scan where it was: nobody is told.
EndSweep == save = "sweep" /\ SaveOver

Next ==
  \/ \E i \in Images : Admit(i) \/ Recall(i) \/ ViewImage(i)
  \/ \E k \in Results : StoreResult(k) \/ MaterializeOutput(k)
  \/ EnqueueAdmitted \/ EnqueueRaises \/ AcceptQueued \/ EndBatch \/ Checkpoint \/ Compact
  \/ BeginSave \/ BeginSweep \/ FailSave \/ EndSweep
  \/ \E a \in Images \cup Results : Visit(a)

Spec == Init /\ [][Next]_vars

-----------------------------------------------------------------------------
(***************************************************************************)
(* Properties.                                                             *)
(***************************************************************************)
\* Every variable holds a value of its kind; a promised result is a retained one.
TypeOK ==
  /\ files \subseteq Images \cup Results /\ listing \subseteq files
  /\ messages \subseteq Images /\ turn \subseteq Images /\ batch \subseteq Images
  /\ queued \subseteq Images /\ retained \subseteq Images
  /\ admitted \subseteq Images /\ \A i, j \in admitted : i = j
  /\ results \subseteq Results /\ promised \subseteq results
  /\ save \in {"idle", "write", "sweep"}
  /\ keep \subseteq Images \cup Results /\ raced \subseteq Images \cup Results

\* Images that the conversation, the queue, the editor or the running batch still names.  (An
\* admitted one is looked for again before it is queued.)
Named == messages \cup turn \cup queued \cup retained \cup batch

\* Every image still named is in the directory: the next request will not find it missing.
ImagesStored == Named \subseteq files

\* A truncated result's marker names a file for as long as the result is retained.
PromiseKept == promised \subseteq files

\* A sweep takes away nothing that anything still names, but what was in a race with its own save:
\* an image of the turn, the batch or the admission that no plan could see when the save began, or
\* an asset stored while it was under way.  What was referenced when a save began is safe from it.
AssetsKept == TypeOK /\ (Named \cup promised) \ files \subseteq raced
=============================================================================
