------------------------------ MODULE Delegate ------------------------------
(***************************************************************************)
(* The worker session behind the Delegate tool: spawned or restored from   *)
(* its snapshot, sent one order at a time, its file changes merged into    *)
(* the parent's diffs, and reset by the model or by `/worker reset`; with  *)
(* cancellation at every await, files that cannot be deleted, jobs that    *)
(* cannot be stopped, and the process killed.                              *)
(*                                                                         *)
(* An order is its number, and what a worker remembers is a set of orders  *)
(* and answers; a diff is the number of the edit.  Delegate calls are serial with each  *)
(* other and with commands.                                                *)
(***************************************************************************)
EXTENDS Naturals, Sequences, SequencesExt, FiniteSets

CONSTANTS
  DiffCap,     \* diffs a session keeps (100)
  MaxSends,    \* bound: orders
  MaxEdits,    \* bound: edits made by workers
  MaxMishaps   \* bound: cancellations, failed steps and kills

VARIABLES
  worker,    \* Session.worker: whether there is one, what it remembers, its diffs, its last_error
  jobs,      \* number of the worker's background processes
  disk,      \* its files: what the snapshot holds, and whether the sidecars are there
  parent,    \* the parent's diffs, and those its snapshot holds
  call,      \* the Delegate call or command under way
  before,    \* _send: before_diffs
  history,   \* what the parent's model was last told of the worker's context
  forgotten, \* orders of the workers that were reset
  unmerged,  \* edits of a delegation a killed process never merged
  sends, edits, mishaps

bounds == <<sends, edits, mishaps>>
vars   == <<worker, jobs, disk, parent, call, before, history, forgotten, unmerged, bounds>>

NoWorker == [alive |-> FALSE, knows |-> {}, diffs |-> <<>>, error |-> FALSE]
NoFiles  == [log |-> FALSE, knows |-> {}, diffs |-> <<>>, extras |-> FALSE]
Fresh    == [NoWorker EXCEPT !.alive = TRUE]
Idle     == [at |-> "idle", by |-> "", cancelled |-> FALSE]

Init ==
  /\ worker = NoWorker /\ jobs = 0 /\ disk = NoFiles
  /\ parent = [diffs |-> <<>>, saved |-> <<>>]
  /\ call = Idle /\ before = 0 /\ history = "none"
  /\ forgotten = {} /\ unmerged = {}
  /\ sends = 0 /\ edits = 0 /\ mishaps = 0

Mishap == mishaps < MaxMishaps /\ mishaps' = mishaps + 1

\* Session.store_turn_diff, once or for each diff of a sequence: the oldest go when there are too many.
Newest(diffs) ==
  IF Len(diffs) <= DiffCap THEN diffs ELSE SubSeq(diffs, Len(diffs) - DiffCap + 1, Len(diffs))

store_turn_diff(diffs, d) == Newest(Append(diffs, d))

-----------------------------------------------------------------------------
(***************************************************************************)
(* One delegation.                                                         *)
(***************************************************************************)
\* The order is given to the live worker, or a worker is looked for first.
Send ==
  /\ call = Idle /\ sends < MaxSends
  /\ call' = [Idle EXCEPT !.at = IF worker.alive THEN "starting" ELSE "restoring", !.by = "model"]
  /\ UNCHANGED <<worker, jobs, disk, parent, before, history, forgotten, unmerged, bounds>>

\* _spawn_worker: the snapshot if it can be read, a new session if not.  A cancellation waits
\* for the read to end and then drops what it gave.
Restored == [Fresh EXCEPT !.knows = disk.knows, !.diffs = disk.diffs]

Restore ==
  /\ call.at = "restoring"
  /\ IF call.cancelled
     THEN call' = Idle /\ history' = "kept" /\ UNCHANGED worker
     ELSE /\ call' = [call EXCEPT !.at = "starting"] /\ UNCHANGED history
          /\ worker' = IF disk.log THEN Restored ELSE Fresh
  /\ UNCHANGED <<jobs, disk, parent, before, forgotten, unmerged, bounds>>

\* The order joins the worker's turn, which checkpoints it before the first request.
Start ==
  /\ call.at = "starting"
  /\ sends' = sends + 1
  /\ worker' = [worker EXCEPT !.knows = @ \cup {<<"order", sends + 1>>}]
  /\ disk' = [log |-> TRUE, knows |-> worker'.knows, diffs |-> worker.diffs, extras |-> TRUE]
  /\ before' = Len(worker.diffs)
  /\ call' = [call EXCEPT !.at = "running"]
  /\ UNCHANGED <<jobs, parent, history, forgotten, unmerged, edits, mishaps>>

Edit ==
  /\ call.at = "running" /\ edits < MaxEdits
  /\ edits' = edits + 1
  /\ worker' = [worker EXCEPT !.diffs = store_turn_diff(@, edits + 1)]
  /\ UNCHANGED <<jobs, disk, parent, call, before, history, forgotten, unmerged, sends, mishaps>>

\* Session.save_snapshot of the worker, after a batch.
SaveWorker == disk' = [log |-> TRUE, knows |-> worker.knows, diffs |-> worker.diffs, extras |-> TRUE]

Checkpoint ==
  /\ call.at = "running"
  /\ SaveWorker
  /\ UNCHANGED <<worker, jobs, parent, call, before, history, forgotten, unmerged, bounds>>

StartJob ==
  /\ call.at = "running" /\ jobs = 0
  /\ jobs' = 1
  /\ UNCHANGED <<worker, disk, parent, call, before, history, forgotten, unmerged, bounds>>

JobExits ==
  /\ jobs > 0
  /\ jobs' = jobs - 1
  /\ UNCHANGED <<worker, disk, parent, call, before, history, forgotten, unmerged, bounds>>

\* The diffs of this delegation join the parent's, however it ended.
_merge_diffs == Newest(parent.diffs \o SubSeq(worker.diffs, before + 1, Len(worker.diffs)))

Merge == parent' = [parent EXCEPT !.diffs = _merge_diffs]

\* Every batch was checkpointed before the request that is answered.  The answer is not: the
\* engine leaves that to the runtime, which saves the parent.
Answer ==
  /\ call.at = "running" /\ ~call.cancelled /\ disk.diffs = worker.diffs
  /\ Merge
  /\ worker' = [worker EXCEPT !.knows = @ \cup {<<"answer", sends>>}, !.error = FALSE]
  /\ call' = Idle /\ history' = "kept"
  /\ UNCHANGED <<jobs, disk, before, forgotten, unmerged, bounds>>

Fail ==
  /\ call.at = "running" /\ ~call.cancelled /\ Mishap
  /\ SaveWorker /\ Merge
  /\ worker' = [worker EXCEPT !.error = TRUE]
  /\ call' = Idle /\ history' = "kept"
  /\ UNCHANGED <<jobs, before, forgotten, unmerged, sends, edits>>

\* The worker settles its turn, or takes it back if it had said and done nothing, and saves
\* before the cancellation reaches the parent.
Settled == {worker} \cup (IF Len(worker.diffs) = before THEN {[worker EXCEPT !.knows = @ \ {<<"order", sends>>}]} ELSE {})

\* Mutant: only a delegation that returns is merged.
Cancelled_NotMerged ==
  /\ call.at = "running" /\ call.cancelled
  /\ worker' \in Settled
  /\ disk' = [log |-> TRUE, knows |-> worker'.knows, diffs |-> worker'.diffs, extras |-> TRUE]
  /\ call' = Idle /\ history' = "kept"
  /\ UNCHANGED <<jobs, parent, before, forgotten, unmerged, bounds>>

Cancelled ==
  /\ call.at = "running" /\ call.cancelled
  /\ worker' \in Settled
  /\ disk' = [log |-> TRUE, knows |-> worker'.knows, diffs |-> worker'.diffs, extras |-> TRUE]
  /\ Merge
  /\ call' = Idle /\ history' = "kept"
  /\ UNCHANGED <<jobs, before, forgotten, unmerged, bounds>>

-----------------------------------------------------------------------------
(***************************************************************************)
(* Reset: one transaction on a thread, committed on the loop.              *)
(***************************************************************************)
Reset(by) ==
  /\ call = Idle
  /\ call' = [Idle EXCEPT !.at = "reset", !.by = by]
  /\ UNCHANGED <<worker, jobs, disk, parent, before, history, forgotten, unmerged, bounds>>

\* The call is over: a cancelled one leaves the engine's line for a Delegate call, or, for a
\* command, nothing; a finished one its result, or the event the command appends.
Report(reset) ==
  /\ call' = Idle
  /\ history' = IF call.cancelled THEN (IF call.by = "model" THEN "kept" ELSE history)
                ELSE IF reset THEN "reset" ELSE history

NothingToReset == ~worker.alive /\ ~disk.log /\ ~disk.extras

ResetNothing ==
  /\ call.at = "reset" /\ NothingToReset
  /\ Report(TRUE)
  /\ UNCHANGED <<worker, jobs, disk, parent, before, forgotten, unmerged, bounds>>

\* The jobs of the worker in memory; one that cannot be stopped ends the reset.
KillJobs ==
  /\ call.at = "reset" /\ ~NothingToReset
  /\ jobs' = 0
  /\ call' = [call EXCEPT !.at = "unlink"]
  /\ UNCHANGED <<worker, disk, parent, before, history, forgotten, unmerged, bounds>>

KillFails ==
  /\ call.at = "reset" /\ jobs > 0 /\ Mishap
  /\ Report(FALSE)
  /\ UNCHANGED <<worker, jobs, disk, parent, before, forgotten, unmerged, sends, edits>>

Unlink ==
  /\ call.at = "unlink"
  /\ disk' = [NoFiles EXCEPT !.extras = disk.extras]
  /\ call' = [call EXCEPT !.at = "extras"]
  /\ UNCHANGED <<worker, jobs, parent, before, history, forgotten, unmerged, bounds>>

UnlinkFails ==
  /\ call.at = "unlink" /\ disk.log /\ Mishap
  /\ Report(FALSE)
  /\ UNCHANGED <<worker, jobs, disk, parent, before, forgotten, unmerged, sends, edits>>

\* The sidecar and the assets go if they can.
Extras ==
  /\ call.at = "extras"
  /\ disk' \in {[disk EXCEPT !.extras = FALSE], disk}
  /\ call' = [call EXCEPT !.at = "commit"]
  /\ UNCHANGED <<worker, jobs, parent, before, history, forgotten, unmerged, bounds>>

\* The parent drops its worker even when the call was cancelled meanwhile.
Commit ==
  /\ call.at = "commit"
  /\ worker' = NoWorker
  /\ forgotten' = 1..sends
  /\ Report(TRUE)
  /\ UNCHANGED <<jobs, disk, parent, before, unmerged, bounds>>

-----------------------------------------------------------------------------
(***************************************************************************)
(* The user, and the process.                                              *)
(***************************************************************************)
Interrupt ==
  /\ call # Idle /\ ~call.cancelled /\ Mishap
  /\ call' = [call EXCEPT !.cancelled = TRUE]
  /\ UNCHANGED <<worker, jobs, disk, parent, before, history, forgotten, unmerged, sends, edits>>

SaveParent ==
  /\ call.at \in {"idle", "running"}
  /\ parent' = [parent EXCEPT !.saved = parent.diffs]
  /\ UNCHANGED <<worker, jobs, disk, call, before, history, forgotten, unmerged, bounds>>

\* The process ends at any moment and the session is resumed: the parent as it was saved, the
\* worker not before the next order.  jobs counts the processes of this one.
Restart ==
  /\ Mishap
  /\ worker' = NoWorker /\ jobs' = 0 /\ call' = Idle
  /\ unmerged' = unmerged \cup (1..edits \ ToSet(parent.saved))
  /\ parent' = [parent EXCEPT !.diffs = parent.saved]
  /\ UNCHANGED <<disk, before, history, forgotten, sends, edits>>

Next ==
  \/ Send
  \/ Restore
  \/ Start
  \/ Edit
  \/ Checkpoint
  \/ StartJob
  \/ JobExits
  \/ Answer
  \/ Fail
  \/ Cancelled
  \/ \E by \in {"model", "user"} : Reset(by)
  \/ ResetNothing
  \/ KillJobs
  \/ KillFails
  \/ Unlink
  \/ UnlinkFails
  \/ Extras
  \/ Commit
  \/ Interrupt
  \/ SaveParent
  \/ Restart

Spec == Init /\ [][Next]_vars

-----------------------------------------------------------------------------
(***************************************************************************)
(* Properties.                                                             *)
(***************************************************************************)
Kept(n, d) == edits - d < n

\* Between delegations the parent shows every edit a worker made, however its delegation
\* ended, once, in order, until it is too old to be kept.
DiffsMerged ==
  /\ IsInjective(parent.diffs)
  /\ \A i, j \in DOMAIN parent.diffs : i < j => parent.diffs[i] < parent.diffs[j]
  /\ call.at \in {"idle", "reset", "unlink", "extras", "commit"} =>
       \A d \in 1..edits \ unmerged : Kept(DiffCap, d) => d \in ToSet(parent.diffs)

\* A worker that comes after a reset remembers nothing from before it, wherever it came from,
\* also when the reset was cancelled, or the process killed, on the way.
ResetForgets == \A k \in worker.knows : k[2] \notin forgotten

\* A background process has a worker that can stop it.
JobsManaged == jobs > 0 => worker.alive

\* The three together: what a delegation made is the parent's, and what is reset is gone.
DelegationSound == DiffsMerged /\ ResetForgets /\ JobsManaged

\* The parent's model is told of a reset before it gives the next order.  (Not so when the reset
\* is cancelled: the engine says that the context is kept, and a command says nothing.)
ResetIsTold ==
  (call = Idle /\ ~worker.alive /\ forgotten # {} /\ forgotten = 1..sends) => history = "reset"

\* A worker that answered has its answer on disk when nothing is under way, so that a resumed
\* session finds its worker as it was left.  (Not so: only the parent is saved at the end.)
AnswersAreSaved ==
  (call = Idle /\ worker.alive) => disk.diffs = worker.diffs /\ disk.knows = worker.knows
=============================================================================
