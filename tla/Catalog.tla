------------------------------- MODULE Catalog -------------------------------
(***************************************************************************)
(* The provider catalogue on disk, shared by every wizolt process of one   *)
(* user: start-up selection, the three steps of a fetch (probe, request,   *)
(* commit), the cross-process lock around the first and the last, the      *)
(* background refresh with its 72-hour gate, and `/catalog sync`.          *)
(*                                                                         *)
(* A document is its version and its content.  An ETag is the document it  *)
(* belongs to.  A damaged cache reads as no cache.  Each write replaces    *)
(* its file atomically; a process may die between the two of a commit.     *)
(***************************************************************************)
EXTENDS Naturals, FiniteSets

CONSTANTS
  Procs,        \* processes
  MaxVersion,   \* bound: catalogue versions
  MaxStarts,    \* bound: process starts
  MaxFetches,   \* bound: fetches begun
  MaxPublished, \* bound: changes of the remote
  MaxMishaps    \* bound: caches removed or damaged by others, processes killed, writes failed

VARIABLES
  cache,    \* catalog.json in the data directory, or None
  etag,     \* catalog-etag.txt, or None
  stamp,    \* whether sync.json tells of a check in the last 72 hours
  remote,   \* the published document
  bundled,  \* per process: the document of its installation
  active,   \* per process: CatalogRuntime.snapshot, or None when it is not running
  checked,  \* per process: whether sync_state.checked_at is less than 72 hours old
  checking, \* per process: sync_state.checking
  task,     \* per flow: where its fetch is
  answer,   \* what the last fetch to return gave, and the remote version it was told of
  starts, fetches, published, mishaps

files    == <<cache, etag, stamp>>
procVars == <<bundled, active, checked, checking>>
bounds   == <<starts, fetches, published, mishaps>>
vars     == <<files, remote, procVars, task, answer, bounds>>

None      == [v |-> 0, c |-> "none"]
Documents == [v : 1..MaxVersion, c : {"a", "b"}]
Flows     == Procs \X {"refresh", "sync"}
NoTask    == [at |-> "none", try |-> 0, probe |-> None, etag |-> None, got |-> None,
              tag |-> None, told |-> 0, cancelled |-> FALSE]
NoAnswer  == [got |-> 0, told |-> 0]

Running(p) == active[p] # None
Locked     == \E f \in Flows : task[f].at \in {"write", "last"}

\* The cached document only when its version is higher.
select(p) == IF cache.v > bundled[p].v THEN cache ELSE bundled[p]

Init ==
  /\ remote \in [v : 1..2, c : {"a"}]
  /\ cache \in {None, remote} /\ etag = cache /\ stamp = FALSE
  /\ bundled \in [Procs -> [v : 1..2, c : {"a"}]]
  /\ active = [p \in Procs |-> None]
  /\ checked = [p \in Procs |-> FALSE] /\ checking = [p \in Procs |-> FALSE]
  /\ task = [f \in Flows |-> NoTask] /\ answer = NoAnswer
  /\ starts = 0 /\ fetches = 0 /\ published = 0 /\ mishaps = 0

-----------------------------------------------------------------------------
(***************************************************************************)
(* Processes and the world around them.                                    *)
(***************************************************************************)
\* CatalogRuntime(): selection and the saved gate.
Start(p) ==
  /\ ~Running(p) /\ starts < MaxStarts
  /\ active' = [active EXCEPT ![p] = select(p)]
  /\ checked' = [checked EXCEPT ![p] = stamp]
  /\ starts' = starts + 1
  /\ UNCHANGED <<files, remote, bundled, checking, task, answer, fetches, published, mishaps>>

\* The process is killed; the system gives its lock back.
Kill(p) ==
  /\ Running(p) /\ mishaps < MaxMishaps
  /\ active' = [active EXCEPT ![p] = None]
  /\ checking' = [checking EXCEPT ![p] = FALSE]
  /\ task' = [f \in Flows |-> IF f[1] = p THEN NoTask ELSE task[f]]
  /\ mishaps' = mishaps + 1
  /\ UNCHANGED <<files, remote, bundled, checked, answer, starts, fetches, published>>

\* The maintainers publish: a new version, a rollback, or the same version with other content.
Publish ==
  /\ published < MaxPublished
  /\ \E d \in Documents \ {remote} : remote' = d
  /\ published' = published + 1
  /\ UNCHANGED <<files, procVars, task, answer, starts, fetches, mishaps>>

\* Somebody removes or damages the cached document; its ETag file stays.
LoseCache ==
  /\ cache # None /\ mishaps < MaxMishaps
  /\ cache' = None /\ mishaps' = mishaps + 1
  /\ UNCHANGED <<etag, stamp, remote, procVars, task, answer, starts, fetches, published>>

-----------------------------------------------------------------------------
(***************************************************************************)
(* A fetch.                                                                *)
(***************************************************************************)
FetchFrame == UNCHANGED <<remote, bundled, bounds>>

Begin(f) ==
  /\ fetches < MaxFetches /\ fetches' = fetches + 1
  /\ task' = [task EXCEPT ![f] = [NoTask EXCEPT !.at = "probe", !.try = 1]]
  /\ answer' = NoAnswer
  /\ UNCHANGED <<remote, bundled, starts, published, mishaps>>

\* refresh_due, then the refresh as a background task of its own.
BeginRefresh(p) ==
  /\ Running(p) /\ ~checking[p] /\ ~checked[p]
  /\ checking' = [checking EXCEPT ![p] = TRUE]
  /\ Begin(<<p, "refresh">>)
  /\ UNCHANGED <<files, active, checked>>

\* `/catalog sync`.
BeginSync(p) ==
  /\ Running(p) /\ task[<<p, "sync">>] = NoTask
  /\ Begin(<<p, "sync">>)
  /\ UNCHANGED <<files, active, checked, checking>>

\* What refresh and sync do with a fetched document: only sync activates it, when it is newer.
Deliver(f, d) ==
  LET p == f[1] IN
    /\ active'   = IF f[2] = "sync" /\ d.v > active[p].v THEN [active EXCEPT ![p] = d] ELSE active
    /\ checked'  = [checked EXCEPT ![p] = TRUE] /\ stamp' = TRUE
    /\ checking' = IF f[2] = "refresh" THEN [checking EXCEPT ![p] = FALSE] ELSE checking
    /\ answer'   = [got |-> d.v, told |-> task[f].told]

\* A failed refresh counts as a check, a failed sync does not.
Failed(f) ==
  LET p == f[1] IN
    /\ IF f[2] = "refresh"
       THEN checked' = [checked EXCEPT ![p] = TRUE] /\ stamp' = TRUE
            /\ checking' = [checking EXCEPT ![p] = FALSE]
       ELSE UNCHANGED <<checked, stamp, checking>>
    /\ UNCHANGED <<active, answer>>

\* A cancelled refresh gives its claim back and leaves the gate where it was.
Cancelled(f) ==
  /\ checking' = IF f[2] = "refresh" THEN [checking EXCEPT ![f[1]] = FALSE] ELSE checking
  /\ UNCHANGED <<active, checked, stamp, answer>>

\* The fetch is over, as a document or, when it was cancelled meanwhile, as a cancellation.
Return(f, d) ==
  /\ task' = [task EXCEPT ![f] = NoTask]
  /\ IF task[f].cancelled THEN Cancelled(f) ELSE Deliver(f, d)

Raise(f) ==
  /\ task' = [task EXCEPT ![f] = NoTask]
  /\ IF task[f].cancelled THEN Cancelled(f) ELSE Failed(f)

\* probe(), under the lock.
Probe(f) ==
  /\ task[f].at = "probe" /\ ~Locked /\ FetchFrame
  /\ IF task[f].cancelled
     THEN task' = [task EXCEPT ![f] = NoTask] /\ Cancelled(f) /\ UNCHANGED <<cache, etag>>
     ELSE /\ task' = [task EXCEPT ![f].at = "ask", ![f].probe = cache,
                                  ![f].etag = IF cache = None THEN None ELSE etag]
          /\ UNCHANGED <<files, active, checked, checking, answer>>

\* _request(), with no lock: 304, 200 with or without an ETag, or an error.
Ask(f) ==
  /\ task[f].at = "ask" /\ FetchFrame /\ UNCHANGED <<cache, etag>>
  /\ LET sent == task[f] IN
     \/ /\ sent.etag = remote
        /\ task' = [task EXCEPT ![f].at = "commit", ![f].got = None, ![f].told = remote.v]
        /\ UNCHANGED <<stamp, active, checked, checking, answer>>
     \/ /\ sent.etag # remote
        /\ \E tag \in {remote, None} :
             task' = [task EXCEPT ![f].at = "commit", ![f].got = remote, ![f].tag = tag,
                                  ![f].told = remote.v]
        /\ UNCHANGED <<stamp, active, checked, checking, answer>>
     \/ Raise(f)

\* A cancellation ends a request at once, and waits for a worker that reads or writes.
Cancel(f) ==
  /\ task[f].at # "none" /\ ~task[f].cancelled /\ FetchFrame /\ UNCHANGED <<cache, etag>>
  /\ IF task[f].at = "ask"
     THEN task' = [task EXCEPT ![f] = NoTask] /\ Cancelled(f)
     ELSE /\ task' = [task EXCEPT ![f].cancelled = TRUE]
          /\ UNCHANGED <<stamp, active, checked, checking, answer>>

\* The 304 stands for the cache it was asked about, or a newer one; else ask again, once.
NotModified(f) ==
  LET asked == task[f].probe IN
    IF cache = asked \/ cache.v > asked.v \/ task[f].try = 2
    THEN Return(f, select(f[1]))
    ELSE IF task[f].cancelled
    THEN task' = [task EXCEPT ![f] = NoTask] /\ Cancelled(f)
    ELSE /\ task' = [task EXCEPT ![f] = [NoTask EXCEPT !.at = "probe", !.try = 2]]
         /\ UNCHANGED <<stamp, active, checked, checking, answer>>

\* A download that is no newer than the best document of this moment is not stored.
Downloaded(f) ==
  LET got == task[f].got  current == select(f[1]) IN
    IF got.v < current.v \/ got = current THEN Return(f, current)
    ELSE IF got.v = current.v THEN Raise(f)
    ELSE /\ task' = [task EXCEPT ![f].at = "write"]
         /\ UNCHANGED <<stamp, active, checked, checking, answer>>

\* Mutant: the decision is made without the lock.
Commit_NoLock(f) ==
  /\ task[f].at = "commit" /\ FetchFrame /\ UNCHANGED <<cache, etag>>
  /\ IF task[f].got = None THEN NotModified(f) ELSE Downloaded(f)

\* commit() takes the lock, reads the cache anew and decides.
Commit(f) ==
  /\ task[f].at = "commit" /\ ~Locked /\ FetchFrame /\ UNCHANGED <<cache, etag>>
  /\ IF task[f].got = None THEN NotModified(f) ELSE Downloaded(f)

\* Mutant: the ETag is written before its document.
Written_EtagFirst == <<"etag", "cache">>

\* _write_cache: the document, then its ETag (or none).
Written == <<"cache", "etag">>

\* One of the two writes; a failed one ends the fetch.
Write(f) ==
  /\ task[f].at \in {"write", "last"}
  /\ UNCHANGED <<remote, bundled, starts, fetches, published>>
  /\ LET file == Written[IF task[f].at = "write" THEN 1 ELSE 2] IN
     \/ /\ IF file = "cache" THEN cache' = task[f].got /\ UNCHANGED etag
                             ELSE etag' = task[f].tag /\ UNCHANGED cache
        /\ IF task[f].at = "last" THEN Return(f, task[f].got)
           ELSE /\ task' = [task EXCEPT ![f].at = "last"]
                /\ UNCHANGED <<stamp, active, checked, checking, answer>>
        /\ UNCHANGED mishaps
     \/ Raise(f) /\ mishaps < MaxMishaps /\ mishaps' = mishaps + 1 /\ UNCHANGED <<cache, etag>>

Fetch(f) == Probe(f) \/ Ask(f) \/ Cancel(f) \/ Commit(f) \/ Write(f)

Next ==
  \/ \E p \in Procs : Start(p) \/ Kill(p) \/ BeginRefresh(p) \/ BeginSync(p)
  \/ \E f \in Flows : Fetch(f)
  \/ Publish \/ LoseCache

Spec == Init /\ [][Next]_vars

-----------------------------------------------------------------------------
(***************************************************************************)
(* Properties.                                                             *)
(***************************************************************************)
\* Every variable holds a value of its kind; the gate is claimed exactly while the refresh that
\* claimed it is on its way, whether it ends, fails or is cancelled.
TypeOK ==
  /\ cache \in Documents \cup {None} /\ etag \in Documents \cup {None} /\ stamp \in BOOLEAN
  /\ remote \in Documents /\ bundled \in [Procs -> Documents]
  /\ active \in [Procs -> Documents \cup {None}]
  /\ checked \in [Procs -> BOOLEAN] /\ checking \in [Procs -> BOOLEAN]
  /\ \A f \in Flows : task[f].at \in {"none", "probe", "ask", "commit", "write", "last"}
  /\ \A p \in Procs : checking[p] = (task[<<p, "refresh">>].at # "none")

\* The cached document is never replaced by an older one, however two processes interleave.
NeverDowngraded == [][cache' = None \/ cache'.v > cache.v \/ cache' = cache]_vars

\* A fetch that returns gives a document at least as new as the one the remote told it of: a 304
\* about a cache that is gone, or an ETag that outlived its document, does not pass for an answer.
\* A second mishap is beyond it: a cache lost again during the one retry, or a lost cache whose
\* replacement is left with the ETag of the lost one.
FetchIsCurrent == mishaps < 2 => answer.got >= answer.told

\* The policy a process works with changes by `/catalog sync` alone, and only to a newer one; a
\* bundled document is never displaced by another document that claims its version.
PolicyIsStable ==
  [][\A p \in Procs : active[p] # None /\ active'[p] \notin {None, active[p]}
       => active'[p].v > active[p].v /\ task[<<p, "sync">>] # task'[<<p, "sync">>]]_vars
BundledKept == \A p \in Procs : active[p].v = bundled[p].v => active[p] = bundled[p]

\* What a fetch answers and what a process works with is what the documents on disk and in the
\* installation say, and the gate of the background refresh is never left claimed.
CatalogSound == TypeOK /\ FetchIsCurrent /\ BundledKept

\* Neither the cache nor the policy in use goes back to an older document.
CatalogForward == NeverDowngraded /\ PolicyIsStable
=============================================================================
