-------------------------------- MODULE Index --------------------------------
(***************************************************************************)
(* CodeIndex: the symbol index of the working tree, kept useful without    *)
(* making anyone wait.  Three coroutines work on it, each suspended while  *)
(* a thread runs the indexing library: /index rebuilds it, an Edit updates *)
(* the files it wrote, and a check after each turn updates a small drift.  *)
(* Their status goes to the fields of the session that the status bar and  *)
(* /status read.                                                           *)
(*                                                                         *)
(* The library is external: an index is there or not, and some files have  *)
(* changed since they were indexed.  A file written while a thread walks   *)
(* the tree is seen by that walk or is not.                                *)
(***************************************************************************)
EXTENDS Integers, FiniteSets

CONSTANTS
  Paths,               \* the source files of the tree
  AUTO_UPDATE_LIMIT,   \* files a check updates by itself
  MaxWrites,           \* bound: writes of files
  MaxCommands,         \* bound: /index and /status
  MaxCancels,          \* bound: cancellations
  MaxErrors            \* bound: failures of the library

VARIABLES
  built, changed,   \* the library's: whether there is an index, the files it is behind on
  status, error, notice, refreshing, checking,   \* code_index_* of the session
  task,             \* per coroutine: where it waits, whether it was cancelled, its paths, what was written meanwhile, what its thread read
  told,             \* files a published check named that have been neither indexed nor written since
  writes, commands, cancels, errors

fields  == <<status, error, notice, refreshing, checking>>
library == <<built, changed>>
bounds  == <<writes, commands, cancels, errors>>
vars    == <<library, fields, task, told, bounds>>

Tasks == {"sync", "edit", "check"}
NoRead == [status |-> "", unknown |-> FALSE, files |-> {}]
Idle   == [at |-> "idle", cancelled |-> FALSE, paths |-> {}, missed |-> {}, read |-> NoRead]

\* Where a coroutine waits for a thread that writes the index, and for one that reads it.
Working == {"indexing", "updating"}
Reading == {"probing", "checking", "confirming", "settling"}
At(t)   == task[t].at

Init ==
  /\ built \in BOOLEAN /\ changed \in (IF built THEN SUBSET Paths ELSE {{}})
  /\ status = (IF built THEN "synced" ELSE "missing")   \* start_session publishes an unchecked read
  /\ error = FALSE /\ notice = "" /\ refreshing = FALSE /\ checking = FALSE
  /\ task = [t \in Tasks |-> Idle] /\ told = {}
  /\ writes = 0 /\ commands = 0 /\ cancels = 0 /\ errors = 0

-----------------------------------------------------------------------------
(***************************************************************************)
(* The library, and the session's fields.                                  *)
(***************************************************************************)
\* _read_status.  An unchecked read knows nothing of changes.
Read(check) ==
  [status |-> IF ~built THEN "missing" ELSE IF check /\ changed # {} THEN "stale" ELSE "ready",
   unknown |-> ~check, files |-> IF check /\ built THEN changed ELSE {}]

Shown(s) == IF s = "ready" THEN "synced" ELSE s

set_status(s) == status' = Shown(s) /\ error' = FALSE

Keeps(read) == refreshing \/ (read.status = "ready" /\ read.unknown /\ status = "stale")
_publish_status(read) == IF Keeps(read) THEN UNCHANGED <<status, error>> ELSE set_status(read.status)

\* finish, fail, and what a coroutine that was cancelled does before it reads the real state.
finish == status' = "synced" /\ error' = FALSE /\ notice' = "" /\ refreshing' = FALSE
fail   == status' = "error" /\ error' = TRUE /\ notice' = "error" /\ refreshing' = FALSE
unmark == notice' = "" /\ refreshing' = FALSE /\ UNCHANGED <<status, error>>
mark(text) == status' = "syncing" /\ notice' = text /\ refreshing' = TRUE

Starts(t, to, paths) == task' = [task EXCEPT ![t] = [Idle EXCEPT !.at = to, !.paths = paths]]
Ends(t)  == task' = [task EXCEPT ![t] = Idle]
Alive(t) == ~task[t].cancelled

\* The thread has read: what it found may be out of date when the coroutine goes on with it.
ReadDone(t) ==
  /\ At(t) \in Reading /\ task[t].read = NoRead
  /\ task' = [task EXCEPT ![t].read = Read(At(t) # "probing")]
  /\ UNCHANGED <<library, fields, told, bounds>>

Resumes(t, at) == At(t) = at /\ task[t].read # NoRead
Told(t)        == told' = task[t].read.files \cap changed

\* A file is written; a thread that walks the tree may have passed it.
Written(p) ==
  /\ changed' = IF built THEN changed \cup {p} ELSE changed
  /\ told' = told \ {p}
  /\ UNCHANGED built

Misses(p) == [t \in Tasks |-> IF At(t) \in Working THEN [task[t] EXCEPT !.missed = @ \cup {p}] ELSE task[t]]

\* Another program, or a shell command, writes a file.
Write ==
  /\ writes < MaxWrites /\ writes' = writes + 1
  /\ \E p \in Paths : Written(p) /\ task' = Misses(p)
  /\ UNCHANGED <<fields, commands, cancels, errors>>

-----------------------------------------------------------------------------
(***************************************************************************)
(* sync: /index, and /index force.                                         *)
(***************************************************************************)
Sync ==
  /\ At("sync") = "idle" /\ commands < MaxCommands /\ commands' = commands + 1
  /\ ~refreshing
  /\ mark("syncing") /\ Starts("sync", "indexing", Paths)
  /\ \E force \in BOOLEAN : IF force THEN built' = FALSE /\ changed' = {} /\ told' = {} ELSE UNCHANGED <<library, told>>
  /\ UNCHANGED <<error, checking, writes, cancels, errors>>

\* The sync is whole, and is confirmed by a check.
SyncConfirmed ==
  /\ Resumes("sync", "confirming") /\ Ends("sync")
  /\ IF Alive("sync") THEN _publish_status(task["sync"].read) /\ Told("sync") ELSE UNCHANGED <<status, error, told>>
  /\ UNCHANGED <<library, notice, refreshing, checking, bounds>>

-----------------------------------------------------------------------------
(***************************************************************************)
(* update: the files of an Edit.                                           *)
(***************************************************************************)
Edit ==
  /\ At("edit") = "idle" /\ writes < MaxWrites /\ writes' = writes + 1
  /\ \E p \in Paths :
       /\ Written(p)
       /\ task' = IF refreshing THEN Misses(p)
                  ELSE [Misses(p) EXCEPT !["edit"] = [Idle EXCEPT !.at = "probing", !.paths = {p}]]
  /\ UNCHANGED <<fields, commands, cancels, errors>>

\* _update: no two threads write the index.
_update(t, paths) == mark("updating") /\ Starts(t, "updating", paths)

\* Mutant: the gate looked at before the read is not looked at again after it.
EditProbed_NoRecheck ==
  /\ Resumes("edit", "probing")
  /\ LET read == task["edit"].read
     IN  IF Alive("edit") /\ read.status = "ready"
         THEN _update("edit", task["edit"].paths) /\ error' = (error /\ Keeps(read))
         ELSE /\ IF Alive("edit") THEN _publish_status(read) ELSE UNCHANGED <<status, error>>
              /\ Ends("edit") /\ UNCHANGED <<notice, refreshing>>
  /\ UNCHANGED <<library, checking, told, bounds>>

\* An unchecked read says whether there is an index to update.
EditProbed ==
  /\ Resumes("edit", "probing")
  /\ LET read == task["edit"].read
     IN  IF Alive("edit") /\ read.status = "ready" /\ ~refreshing
         THEN _update("edit", task["edit"].paths) /\ error' = (error /\ Keeps(read))
         ELSE /\ IF Alive("edit") THEN _publish_status(read) ELSE UNCHANGED <<status, error>>
              /\ Ends("edit") /\ UNCHANGED <<notice, refreshing>>
  /\ UNCHANGED <<library, checking, told, bounds>>

-----------------------------------------------------------------------------
(***************************************************************************)
(* update_pending: the check after a turn, and behind /status.             *)
(***************************************************************************)
Check ==
  /\ At("check") = "idle" /\ ~checking /\ ~refreshing
  /\ checking' = TRUE /\ Starts("check", "checking", {})
  /\ UNCHANGED <<library, status, error, notice, refreshing, told, bounds>>

\* /status publishes an unchecked read on the spot, and asks for a check.
Status ==
  /\ commands < MaxCommands /\ commands' = commands + 1
  /\ _publish_status(Read(FALSE))
  /\ IF At("check") = "idle" /\ ~checking /\ ~refreshing
     THEN checking' = TRUE /\ Starts("check", "checking", {})
     ELSE UNCHANGED <<checking, task>>
  /\ UNCHANGED <<library, notice, refreshing, told, writes, cancels, errors>>

\* Its status is published whatever else is under way.
Checked ==
  /\ Resumes("check", "checking")
  /\ LET read  == task["check"].read
         small == read.files # {} /\ Cardinality(read.files) <= AUTO_UPDATE_LIMIT
     IN  IF Alive("check") /\ small /\ ~refreshing
         THEN _update("check", read.files) /\ error' = FALSE /\ UNCHANGED checking
         ELSE /\ IF Alive("check") THEN set_status(read.status) ELSE UNCHANGED <<status, error>>
              /\ Ends("check") /\ checking' = FALSE
              /\ UNCHANGED <<notice, refreshing>>
  /\ IF Alive("check") THEN Told("check") ELSE UNCHANGED told
  /\ UNCHANGED <<library, bounds>>

\* The walk failed: the check was best effort.
CheckFailed ==
  /\ Resumes("check", "checking") /\ errors < MaxErrors /\ errors' = errors + 1
  /\ Ends("check") /\ checking' = FALSE
  /\ UNCHANGED <<library, status, error, notice, refreshing, told, writes, commands, cancels>>

-----------------------------------------------------------------------------
(***************************************************************************)
(* The thread that writes the index, and cancellation.                     *)
(***************************************************************************)
\* What comes after the thread, for its coroutine: run_blocking waits for it even when cancelled.
AfterThread(t, failed) ==
  IF ~Alive(t) THEN unmark /\ Starts(t, "settling", {}) /\ UNCHANGED checking
  ELSE /\ IF failed THEN fail ELSE finish
       /\ IF t = "sync" /\ ~failed THEN Starts(t, "confirming", {}) ELSE Ends(t)
       /\ checking' = (checking /\ t # "check")

Indexed(t) ==
  /\ At(t) \in Working
  /\ \E left \in SUBSET task[t].missed :
       /\ changed' = (changed \ (task[t].paths \ task[t].missed)) \ (task[t].missed \ left)
       /\ built' = TRUE
       /\ told' = told \cap changed'
  /\ AfterThread(t, FALSE)
  /\ UNCHANGED bounds

IndexFails(t) ==
  /\ At(t) \in Working /\ errors < MaxErrors /\ errors' = errors + 1
  /\ AfterThread(t, TRUE)
  /\ UNCHANGED <<library, told, writes, commands, cancels>>

\* _settle_cancelled_operation: publish the real state.  A second cancellation leaves it unpublished.
Settled(t) ==
  /\ Resumes(t, "settling") /\ Ends(t)
  /\ IF Alive(t) THEN _publish_status(task[t].read) /\ Told(t) ELSE UNCHANGED <<status, error, told>>
  /\ checking' = (checking /\ t # "check")
  /\ UNCHANGED <<library, notice, refreshing, bounds>>

\* Ctrl-C for a command or a turn, close_background for the check.
Cancel(t) ==
  /\ At(t) # "idle" /\ Alive(t) /\ cancels < MaxCancels /\ cancels' = cancels + 1
  /\ task' = [task EXCEPT ![t].cancelled = TRUE]
  /\ UNCHANGED <<library, fields, told, writes, commands, errors>>

Next ==
  \/ Write
  \/ Sync \/ SyncConfirmed
  \/ Edit \/ EditProbed
  \/ Check \/ Status \/ Checked \/ CheckFailed
  \/ \E t \in Tasks : ReadDone(t)
  \/ \E t \in Tasks : Indexed(t)
  \/ \E t \in Tasks : IndexFails(t)
  \/ \E t \in Tasks : Settled(t)
  \/ \E t \in Tasks : Cancel(t)

Spec == Init /\ [][Next]_vars

-----------------------------------------------------------------------------
(***************************************************************************)
(* Properties.                                                             *)
(***************************************************************************)
\* No two threads write the index, and none is cleaning it while another updates it.
OneWriter == \A t, u \in Tasks : At(t) \in Working /\ At(u) \in Working => t = u

\* The gates belong to a coroutine that will open them: a cancelled or failed one leaves none shut.
GatesOwned ==
  /\ refreshing <=> \E t \in Tasks : At(t) \in Working
  /\ checking <=> At("check") # "idle"

\* A status in progress has someone in progress behind it; one cancellation does not leave it up.
NothingLeftSyncing ==
  /\ notice \in {"syncing", "updating"} => refreshing
  /\ (cancels <= 1 /\ \A t \in Tasks : At(t) = "idle") => status # "syncing"

IndexSound == OneWriter /\ GatesOwned /\ NothingLeftSyncing

\* "synced" is current: no file a check has named, and nobody has indexed since, is behind it.
SyncedIsCurrent == (status = "synced" /\ \A t \in Tasks : At(t) = "idle") => told \cap changed = {}
=============================================================================
