----------------------------- MODULE FilesProofs -----------------------------
(***************************************************************************)
(* IndexSound for every set of files, every limit and any number of        *)
(* writes, commands, cancellations and failures.                           *)
(*                                                                         *)
(* OneWriter and GatesOwned hold together: a gate is opened only by the    *)
(* coroutine behind it because there is no other, and there is no other    *)
(* because the gate was shut.  That no status is left in progress needs    *)
(* more: who owes the session its real status (Owed), and that a debt      *)
(* forgiven was cancelled twice (Cancelled).  Below, the mentions' menu.   *)
(***************************************************************************)
EXTENDS MCFiles, TLAPS

Places   == {"idle"} \cup Working \cup Reading
Statuses == {"missing", "stale", "ready"}
Reads    == [status : Statuses \cup {""}, unknown : BOOLEAN, files : SUBSET Paths]
Records  == [at : Places, cancelled : BOOLEAN, paths : SUBSET Paths, missed : SUBSET Paths, read : Reads]

Typed ==
  /\ built \in BOOLEAN /\ changed \in SUBSET Paths
  /\ status \in Statuses \cup {"synced", "syncing", "error"} /\ error \in BOOLEAN
  /\ notice \in {"", "syncing", "updating", "error"} /\ refreshing \in BOOLEAN /\ checking \in BOOLEAN
  /\ task \in [Tasks -> Records] /\ told \in SUBSET Paths
  /\ writes \in Nat /\ commands \in Nat /\ cancels \in Nat /\ errors \in Nat

\* What a coroutine reads is the status of an index, not yet a text of the status bar.
ReadsReal == \A t \in Tasks : task[t].read # NoRead => task[t].read.status \in Statuses

Gate == refreshing <=> \E t \in Tasks : At(t) \in Working
Slot == checking <=> At("check") # "idle"
NoticeShut == notice \in {"syncing", "updating"} => refreshing

\* A coroutine that settles was cancelled once to get there, and once more if it is cancelled now.
Cancelled ==
  /\ \A t \in Tasks : task[t].cancelled \/ At(t) = "settling" => cancels >= 1
  /\ \A t \in Tasks : task[t].cancelled /\ At(t) = "settling" => cancels >= 2

\* A status in progress: a thread writes, or a coroutine will publish what is there, or neither
\* because a second cancellation took that away.
Owed == status = "syncing" => refreshing \/ (\E t \in Tasks : At(t) = "settling" /\ Alive(t)) \/ cancels >= 2

\* What is not typing: where the coroutines wait, who is cancelled, and the fields of the session.
Shape == OneWriter /\ Gate /\ Slot /\ NoticeShut /\ Cancelled /\ Owed

IInv == Typed /\ ReadsReal /\ Shape

-----------------------------------------------------------------------------
(***************************************************************************)
(* Types.                                                                  *)
(***************************************************************************)
\* The empty record of a coroutine, and one that starts, are records of the table.
LEMMA Idles ==
  /\ Idle \in Records /\ NoRead \in Reads
  /\ \A at \in Places : \A paths \in SUBSET Paths : [Idle EXCEPT !.at = at, !.paths = paths] \in Records
  /\ \A at \in Places : \A paths \in SUBSET Paths :
       LET r == [Idle EXCEPT !.at = at, !.paths = paths]
       IN  r.at = at /\ ~r.cancelled /\ r.read = NoRead /\ r.missed = {}
  /\ Idle.at = "idle" /\ ~Idle.cancelled /\ Idle.read = NoRead
BY DEF Idle, NoRead, Records, Reads, Places, Working, Reading

\* A status read is one of the library's, about files of the tree.
LEMMA ReadTyped == ASSUME Typed, NEW check \in BOOLEAN
                   PROVE  /\ Read(check) \in Reads /\ Read(check).status \in Statuses
                          /\ Read(check) # NoRead
BY DEF Typed, Read, Reads, Statuses, NoRead

\* Starting one coroutine touches no other.
LEMMA StartsTyped ==
  ASSUME Typed, NEW t \in Tasks, NEW at \in Places, NEW paths \in SUBSET Paths, Starts(t, at, paths)
  PROVE  /\ task' \in [Tasks -> Records]
         /\ task'[t].at = at /\ ~task'[t].cancelled /\ task'[t].read = NoRead
         /\ \A u \in Tasks \ {t} : task'[u] = task[u]
<1> DEFINE r == [Idle EXCEPT !.at = at, !.paths = paths]
<1>1. r \in Records /\ r.at = at /\ ~r.cancelled /\ r.read = NoRead
  BY Idles
<1>2. task' = [task EXCEPT ![t] = r]
  BY DEF Starts
<1> HIDE DEF r
<1> QED
  BY <1>1, <1>2 DEF Typed

\* Ending one coroutine touches no other.
LEMMA EndsTyped ==
  ASSUME Typed, NEW t \in Tasks, Ends(t)
  PROVE  /\ task' \in [Tasks -> Records]
         /\ task'[t].at = "idle" /\ ~task'[t].cancelled /\ task'[t].read = NoRead
         /\ \A u \in Tasks \ {t} : task'[u] = task[u]
BY Idles DEF Ends, Typed

\* A write is missed by the threads that walk the tree, and changes nothing else of a coroutine.
LEMMA MissesTyped ==
  ASSUME Typed, NEW p \in Paths
  PROVE  /\ Misses(p) \in [Tasks -> Records]
         /\ \A t \in Tasks : /\ Misses(p)[t].at = task[t].at
                             /\ Misses(p)[t].cancelled = task[t].cancelled
                             /\ Misses(p)[t].read = task[t].read
<1> SUFFICES ASSUME NEW t \in Tasks
             PROVE  /\ Misses(p)[t] \in Records
                    /\ Misses(p)[t].at = task[t].at
                    /\ Misses(p)[t].cancelled = task[t].cancelled
                    /\ Misses(p)[t].read = task[t].read
  BY DEF Misses
<1>1. task[t] \in Records
  BY DEF Typed
<1>2. Misses(p)[t] = IF At(t) \in Working THEN [task[t] EXCEPT !.missed = @ \cup {p}] ELSE task[t]
  BY DEF Misses
<1> QED
  BY <1>1, <1>2 DEF Records

\* What a thread has read goes to the record of its coroutine.
LEMMA ReadDoneTyped ==
  ASSUME Typed, NEW t \in Tasks, ReadDone(t)
  PROVE  /\ task' \in [Tasks -> Records]
         /\ \A u \in Tasks : task'[u].at = task[u].at /\ task'[u].cancelled = task[u].cancelled
         /\ \A u \in Tasks : task'[u].read = task[u].read \/ task'[u].read.status \in Statuses
<1> DEFINE r == Read(At(t) # "probing")
<1>1. r \in Reads /\ r.status \in Statuses
  BY ReadTyped
<1>2. task' = [task EXCEPT ![t] = [task[t] EXCEPT !.read = r]]
  BY DEF ReadDone, Typed
<1> HIDE DEF r
<1>3. task[t] \in Records
  BY DEF Typed
<1>4. /\ [task[t] EXCEPT !.read = r] \in Records
      /\ [task[t] EXCEPT !.read = r].at = task[t].at
      /\ [task[t] EXCEPT !.read = r].cancelled = task[t].cancelled
      /\ [task[t] EXCEPT !.read = r].read = r
  BY <1>1, <1>3 DEF Records
<1> QED
  BY <1>1, <1>2, <1>4 DEF Typed

\* A cancellation marks one record.
LEMMA CancelTyped ==
  ASSUME Typed, NEW t \in Tasks, Cancel(t)
  PROVE  /\ task' \in [Tasks -> Records]
         /\ \A u \in Tasks : task'[u].at = task[u].at /\ task'[u].read = task[u].read
         /\ task'[t].cancelled /\ \A u \in Tasks \ {t} : task'[u] = task[u]
<1>1. task' = [task EXCEPT ![t] = [task[t] EXCEPT !.cancelled = TRUE]]
  BY DEF Cancel, Typed
<1>2. task[t] \in Records
  BY DEF Typed
<1>3. /\ [task[t] EXCEPT !.cancelled = TRUE] \in Records
      /\ [task[t] EXCEPT !.cancelled = TRUE].at = task[t].at
      /\ [task[t] EXCEPT !.cancelled = TRUE].read = task[t].read
      /\ [task[t] EXCEPT !.cancelled = TRUE].cancelled
  BY <1>2 DEF Records
<1> QED
  BY <1>1, <1>3 DEF Typed

\* The library knows of files of the tree only.
LEMMA WrittenTyped == ASSUME Typed, NEW p \in Paths, Written(p)
                      PROVE  built' \in BOOLEAN /\ changed' \in SUBSET Paths /\ told' \in SUBSET Paths
<1>1. built' \in BOOLEAN
  BY DEF Typed, Written
<1>2. changed' \in SUBSET Paths
  <2>1. CASE built
    BY <2>1 DEF Typed, Written
  <2>2. CASE ~built
    BY <2>2 DEF Typed, Written
  <2> QED
    BY <2>1, <2>2
<1>3. told' \in SUBSET Paths
  BY DEF Typed, Written
<1> QED
  BY <1>1, <1>2, <1>3

\* Publishing a status read leaves a status of the session.
LEMMA Published ==
  ASSUME Typed, NEW read \in Reads, read.status \in Statuses
  PROVE  /\ _publish_status(read) =>
              /\ status' \in Statuses \cup {"synced", "syncing", "error"} /\ error' \in BOOLEAN
              /\ status' = "syncing" => refreshing /\ status = "syncing"
         /\ set_status(read.status) =>
              status' \in Statuses \cup {"synced", "syncing", "error"} /\ error' \in BOOLEAN /\ status' # "syncing"
BY DEF Typed, _publish_status, Keeps, set_status, Shown, Statuses

-----------------------------------------------------------------------------
(***************************************************************************)
(* The four ways a step can move the coroutines.                           *)
(***************************************************************************)
\* A step that moves no coroutine and leaves the fields alone keeps the shape.
LEMMA NothingMoves ==
  ASSUME Shape, UNCHANGED fields, UNCHANGED cancels,
         \A t \in Tasks : task'[t].at = task[t].at /\ task'[t].cancelled = task[t].cancelled
  PROVE  Shape'
<1>1. OneWriter' /\ Gate'
  BY DEF Shape, OneWriter, Gate, At, fields
<1>2. Slot' /\ NoticeShut'
  BY DEF Shape, Slot, NoticeShut, At, fields, Tasks
<1>3. Cancelled'
  BY DEF Shape, Cancelled, At
<1>4. Owed'
  BY DEF Shape, Owed, At, Alive, fields
<1> QED
  BY <1>1, <1>2, <1>3, <1>4 DEF Shape

\* One coroutine goes from one place to another, without a thread that writes before or after.
LEMMA Moves ==
  ASSUME Typed, Shape, NEW t \in Tasks, \A u \in Tasks \ {t} : task'[u] = task[u],
         At(t) \notin Working, task'[t].at \notin Working, task'[t].at # "settling", ~task'[t].cancelled,
         UNCHANGED <<notice, refreshing, cancels>>,
         t = "check" => (checking' <=> task'[t].at # "idle"),
         t # "check" => (checking' <=> checking),
         status' = "syncing" => status = "syncing" /\ (refreshing \/ ~(At(t) = "settling" /\ Alive(t)))
  PROVE  Shape'
<1>1. OneWriter'
  BY DEF Shape, OneWriter, At
<1>2. Gate'
  BY DEF Shape, Gate, At
<1>3. Slot'
  <2>1. CASE t = "check"
    BY <2>1 DEF Slot, At
  <2>2. CASE t # "check"
    <3>1. task'["check"] = task["check"]
      BY <2>2 DEF Tasks
    <3> QED
      BY <2>2, <3>1 DEF Shape, Slot, At
  <2> QED
    BY <2>1, <2>2
<1>4. NoticeShut'
  BY DEF Shape, NoticeShut
<1>5. Cancelled'
  BY DEF Shape, Cancelled, At
<1>6. Owed'
  <2> SUFFICES ASSUME status' = "syncing", ~refreshing, ~(cancels >= 2)
               PROVE  \E u \in Tasks : task'[u].at = "settling" /\ ~task'[u].cancelled
    BY DEF Owed, At, Alive
  <2>1. PICK u \in Tasks : At(u) = "settling" /\ Alive(u)
    BY DEF Shape, Owed
  <2>2. u # t
    BY <2>1
  <2> QED
    BY <2>1, <2>2 DEF At, Alive
<1> QED
  BY <1>1, <1>2, <1>3, <1>4, <1>5, <1>6 DEF Shape

\* A coroutine sends a thread to write the index, and shuts the gate: nobody else had.
LEMMA Shuts ==
  ASSUME Typed, Shape, NEW t \in Tasks, \A u \in Tasks \ {t} : task'[u] = task[u],
         ~refreshing, refreshing', task'[t].at \in Working, ~task'[t].cancelled,
         checking' <=> checking, t = "check" => At("check") # "idle", UNCHANGED cancels
  PROVE  Shape'
<1>1. \A u \in Tasks : At(u) \notin Working
  BY DEF Shape, Gate
<1>2. OneWriter' /\ Gate'
  BY <1>1 DEF OneWriter, Gate, At
<1>3. Slot' /\ NoticeShut' /\ Owed'
  BY DEF Shape, Slot, NoticeShut, Owed, At, Tasks, Working
<1>4. Cancelled'
  BY DEF Shape, Cancelled, At, Working
<1> QED
  BY <1>2, <1>3, <1>4 DEF Shape

\* The thread of a coroutine is done, and the gate opens; the coroutine of a cancelled one settles.
LEMMA Opens ==
  ASSUME Typed, Shape, NEW t \in Tasks, \A u \in Tasks \ {t} : task'[u] = task[u],
         At(t) \in Working, task'[t].at \notin Working, ~task'[t].cancelled,
         ~refreshing', notice' \notin {"syncing", "updating"}, UNCHANGED cancels,
         t = "check" => (checking' <=> task'[t].at # "idle"),
         t # "check" => (checking' <=> checking),
         task'[t].at = "settling" => ~Alive(t),
         status' = "syncing" => task'[t].at = "settling"
  PROVE  Shape'
<1>1. \A u \in Tasks \ {t} : At(u) \notin Working
  BY DEF Shape, OneWriter
<1>2. OneWriter' /\ Gate'
  BY <1>1 DEF OneWriter, Gate, At
<1>3. Slot'
  <2>1. CASE t = "check"
    BY <2>1 DEF Slot, At
  <2>2. CASE t # "check"
    <3>1. task'["check"] = task["check"]
      BY <2>2 DEF Tasks
    <3> QED
      BY <2>2, <3>1 DEF Shape, Slot, At
  <2> QED
    BY <2>1, <2>2
<1>5. NoticeShut'
  BY DEF NoticeShut
<1>4. Cancelled' /\ Owed'
  BY DEF Shape, Cancelled, Owed, At, Alive
<1> QED
  BY <1>2, <1>3, <1>4, <1>5 DEF Shape

-----------------------------------------------------------------------------
(***************************************************************************)
(* The actions.                                                            *)
(***************************************************************************)
\* One coroutine ends or starts, with an empty read: all reads stay real.
LEMMA ReadsStay ==
  ASSUME ReadsReal, NEW t \in Tasks, \A u \in Tasks \ {t} : task'[u] = task[u], task'[t].read = NoRead
  PROVE  ReadsReal'
BY DEF ReadsReal

\* A file is written, by an edit or another program.
LEMMA WriteStep == ASSUME IInv, Write PROVE IInv'
<1> USE DEF IInv
<1>1. PICK p \in Paths : Written(p) /\ task' = Misses(p)
  BY DEF Write
<1>2. Typed'
  <2>1. writes' \in Nat /\ commands' \in Nat /\ cancels' \in Nat /\ errors' \in Nat
    <3>1. writes' = writes + 1 /\ commands' = commands /\ cancels' = cancels /\ errors' = errors
      BY DEF Write
    <3>2. writes \in Nat /\ commands \in Nat /\ cancels \in Nat /\ errors \in Nat
      BY Zenon DEF Typed
    <3> HIDE DEF IInv
    <3> QED
      BY <3>1, <3>2
  <2>2. UNCHANGED fields
    BY DEF Write
  <2>3. task' \in [Tasks -> Records]
    BY <1>1, MissesTyped
  <2> QED
    BY <1>1, <2>1, <2>2, <2>3, WrittenTyped DEF Typed, fields
<1>3. ReadsReal' /\ (\A t \in Tasks : task'[t].at = task[t].at /\ task'[t].cancelled = task[t].cancelled)
  BY <1>1, MissesTyped DEF ReadsReal
<1>4. Shape'
  BY <1>3, NothingMoves DEF Write
<1> QED
  BY <1>2, <1>3, <1>4

\* /index: the gate was open.
LEMMA SyncStep == ASSUME IInv, Sync PROVE IInv'
<1> USE DEF IInv
<1> DEFINE t == "sync"
<1>1. t \in Tasks /\ "indexing" \in Places /\ "indexing" \in Working /\ Paths \in SUBSET Paths
  BY DEF Tasks, Places, Working
<1>2. /\ task' \in [Tasks -> Records]
      /\ task'[t].at = "indexing" /\ ~task'[t].cancelled /\ task'[t].read = NoRead
      /\ \A u \in Tasks \ {t} : task'[u] = task[u]
  BY <1>1, StartsTyped DEF Sync
<1>3. ReadsReal'
  BY <1>1, <1>2, ReadsStay
<1>4. Typed'
  <2>1. built' \in BOOLEAN /\ changed' \in SUBSET Paths /\ told' \in SUBSET Paths
    <3>1. PICK force \in BOOLEAN : IF force THEN built' = FALSE /\ changed' = {} /\ told' = {}
                                   ELSE UNCHANGED <<library, told>>
      BY DEF Sync
    <3>2. CASE force
      BY <3>1, <3>2
    <3>3. CASE ~force
      BY <3>1, <3>3 DEF Typed, library
    <3> QED
      BY <3>2, <3>3
  <2>2. writes' \in Nat /\ commands' \in Nat /\ cancels' \in Nat /\ errors' \in Nat
    <3>1. commands' = commands + 1 /\ writes' = writes /\ cancels' = cancels /\ errors' = errors
      BY DEF Sync
    <3>2. writes \in Nat /\ commands \in Nat /\ cancels \in Nat /\ errors \in Nat
      BY Zenon DEF Typed
    <3> HIDE DEF IInv
    <3> QED
      BY <3>1, <3>2
  <2> QED
    BY <1>2, <2>1, <2>2 DEF Typed, Sync, mark
<1>5. ~refreshing /\ refreshing' /\ (checking' <=> checking) /\ UNCHANGED cancels
  BY DEF Sync, mark
<1>6. Shape'
  BY <1>1, <1>2, <1>5, Shuts
<1> QED
  BY <1>3, <1>4, <1>6

\* The check behind a sync is published.
LEMMA SyncConfirmedStep == ASSUME IInv, SyncConfirmed PROVE IInv'
<1> USE DEF IInv
<1> DEFINE t == "sync"
<1>1. t \in Tasks
  BY DEF Tasks
<1>2. /\ task' \in [Tasks -> Records]
      /\ task'[t].at = "idle" /\ ~task'[t].cancelled /\ task'[t].read = NoRead
      /\ \A u \in Tasks \ {t} : task'[u] = task[u]
  BY <1>1, EndsTyped DEF SyncConfirmed
<1>3. task[t].read \in Reads /\ task[t].read.status \in Statuses
  BY <1>1 DEF Typed, Records, ReadsReal, SyncConfirmed, Resumes
<1>4. /\ status' \in Statuses \cup {"synced", "syncing", "error"} /\ error' \in BOOLEAN
      /\ status' = "syncing" => status = "syncing"
  BY <1>3, Published DEF SyncConfirmed, Typed
<1>5. told' \in SUBSET Paths
  BY <1>3 DEF SyncConfirmed, Told, Typed, Reads
<1>6. ReadsReal'
  BY <1>1, <1>2, ReadsStay
<1>7. Typed'
  BY <1>2, <1>4, <1>5 DEF Typed, SyncConfirmed, library, bounds
<1>8. At(t) \notin Working /\ At(t) # "settling" /\ task'[t].at \notin Working
  BY <1>2 DEF SyncConfirmed, Resumes, Working
<1>9. UNCHANGED <<notice, refreshing, cancels>> /\ (checking' <=> checking)
  BY DEF SyncConfirmed, bounds
<1>10. Shape'
  BY <1>1, <1>2, <1>4, <1>8, <1>9, Moves
<1> QED
  BY <1>6, <1>7, <1>10

\* An edit writes its file, and looks for an index unless a thread is at work on it.
LEMMA EditStep == ASSUME IInv, Edit PROVE IInv'
<1> USE DEF IInv
<1> DEFINE t == "edit"
<1>1. t \in Tasks
  BY DEF Tasks
<1>2. PICK p \in Paths :
        /\ Written(p)
        /\ task' = IF refreshing THEN Misses(p)
                   ELSE [Misses(p) EXCEPT !["edit"] = [Idle EXCEPT !.at = "probing", !.paths = {p}]]
  BY DEF Edit
<1>3. UNCHANGED fields /\ UNCHANGED cancels
  BY DEF Edit
<1>4. built' \in BOOLEAN /\ changed' \in SUBSET Paths /\ told' \in SUBSET Paths /\ writes' \in Nat
      /\ commands' \in Nat /\ errors' \in Nat
  <2>1. writes' \in Nat /\ commands' \in Nat /\ errors' \in Nat
    <3>1. writes' = writes + 1 /\ commands' = commands /\ errors' = errors
      BY DEF Edit
    <3>2. writes \in Nat /\ commands \in Nat /\ cancels \in Nat /\ errors \in Nat
      BY Zenon DEF Typed
    <3> HIDE DEF IInv
    <3> QED
      BY <3>1, <3>2
  <2> QED
    BY <1>2, <2>1, WrittenTyped
<1>5. CASE refreshing
  <2>1. task' = Misses(p)
    BY <1>2, <1>5
  <2>2. Typed'
    BY <1>3, <1>4, <2>1, MissesTyped DEF Typed, fields
  <2>3. ReadsReal' /\ (\A u \in Tasks : task'[u].at = task[u].at /\ task'[u].cancelled = task[u].cancelled)
    BY <2>1, MissesTyped DEF ReadsReal
  <2> QED
    BY <1>3, <2>2, <2>3, NothingMoves
<1>6. CASE ~refreshing
  <2> DEFINE r == [Idle EXCEPT !.at = "probing", !.paths = {p}]
  <2>1. r \in Records /\ r.at = "probing" /\ ~r.cancelled /\ r.read = NoRead
    <3>1. "probing" \in Places /\ {p} \in SUBSET Paths
      BY DEF Places, Reading
    <3> QED
      BY <3>1, Idles
  <2>2. task' = [Misses(p) EXCEPT ![t] = r]
    BY <1>2, <1>6
  <2> HIDE DEF r
  <2>3. Misses(p) \in [Tasks -> Records]
    BY MissesTyped
  <2>4. /\ task' \in [Tasks -> Records] /\ task'[t] = r
        /\ \A u \in Tasks \ {t} : task'[u] = Misses(p)[u]
    BY <1>1, <2>1, <2>2, <2>3
  <2>5. Typed'
    BY <1>3, <1>4, <2>4 DEF Typed, fields
  <2>6. ReadsReal'
    BY <2>1, <2>4, MissesTyped DEF ReadsReal
  <2>7. \A u \in Tasks : At(u) \notin Working
    BY <1>6 DEF Shape, Gate
  <2>8. \A u \in Tasks : Misses(p)[u] = task[u]
    BY <2>7 DEF Misses
  <2>9. /\ \A u \in Tasks \ {t} : task'[u] = task[u]
        /\ At(t) \notin Working /\ task'[t].at \notin Working /\ task'[t].at # "settling" /\ ~task'[t].cancelled
    BY <1>1, <2>1, <2>4, <2>7, <2>8 DEF Working
  <2>10. /\ UNCHANGED <<notice, refreshing, cancels>> /\ (checking' <=> checking)
         /\ status' = "syncing" => status = "syncing"
    BY <1>3 DEF fields
  <2>11. At(t) # "settling"
    BY DEF Edit
  <2>12. Shape'
    BY <1>1, <2>9, <2>10, <2>11, Moves
  <2> QED
    BY <2>5, <2>6, <2>12
<1> QED
  BY <1>5, <1>6

\* The index an edit found is updated only if the gate is still open.
LEMMA EditProbedStep == ASSUME IInv, EditProbed PROVE IInv'
<1> USE DEF IInv
<1> DEFINE t == "edit"
           read == task[t].read
<1>1. t \in Tasks /\ "updating" \in Places /\ "updating" \in Working
  BY DEF Tasks, Places, Working
<1>2. read \in Reads /\ read.status \in Statuses /\ At(t) = "probing"
  BY <1>1 DEF Typed, Records, ReadsReal, EditProbed, Resumes
<1>3. UNCHANGED <<library, checking, told, bounds>>
  BY DEF EditProbed
<1>4. CASE Alive(t) /\ read.status = "ready" /\ ~refreshing
  <2>1. _update(t, task[t].paths) /\ error' = (error /\ Keeps(read))
    BY <1>4 DEF EditProbed
  <2>2. task[t].paths \in SUBSET Paths
    BY <1>1 DEF Typed, Records
  <2>3. /\ task' \in [Tasks -> Records]
        /\ task'[t].at = "updating" /\ ~task'[t].cancelled /\ task'[t].read = NoRead
        /\ \A u \in Tasks \ {t} : task'[u] = task[u]
    BY <1>1, <2>1, <2>2, StartsTyped DEF _update
  <2>4. ReadsReal'
    BY <1>1, <2>3, ReadsStay
  <2>5. error' \in BOOLEAN
    BY <2>1 DEF Typed
  <2>6. Typed'
    BY <1>3, <2>1, <2>3, <2>5 DEF Typed, _update, mark, library, bounds
  <2>7. ~refreshing /\ refreshing' /\ (checking' <=> checking) /\ UNCHANGED cancels
    BY <1>3, <1>4, <2>1 DEF _update, mark, bounds
  <2>8. Shape'
    BY <1>1, <2>3, <2>7, Shuts
  <2> QED
    BY <2>4, <2>6, <2>8
<1>5. CASE ~(Alive(t) /\ read.status = "ready" /\ ~refreshing)
  <2>1. /\ IF Alive(t) THEN _publish_status(read) ELSE UNCHANGED <<status, error>>
        /\ Ends(t) /\ UNCHANGED <<notice, refreshing>>
    BY <1>5 DEF EditProbed
  <2>2. /\ task' \in [Tasks -> Records]
        /\ task'[t].at = "idle" /\ ~task'[t].cancelled /\ task'[t].read = NoRead
        /\ \A u \in Tasks \ {t} : task'[u] = task[u]
    BY <1>1, <2>1, EndsTyped
  <2>3. /\ status' \in Statuses \cup {"synced", "syncing", "error"} /\ error' \in BOOLEAN
        /\ status' = "syncing" => status = "syncing"
    BY <1>2, <2>1, Published DEF Typed
  <2>4. ReadsReal'
    BY <1>1, <2>2, ReadsStay
  <2>5. Typed'
    BY <1>3, <2>1, <2>2, <2>3 DEF Typed, library, bounds
  <2>6. At(t) \notin Working /\ At(t) # "settling" /\ task'[t].at \notin Working /\ task'[t].at # "settling"
    BY <1>2, <2>2 DEF Working
  <2>7. UNCHANGED <<notice, refreshing, cancels>> /\ (checking' <=> checking)
    BY <1>3, <2>1 DEF bounds
  <2>8. Shape'
    BY <1>1, <2>2, <2>3, <2>6, <2>7, Moves
  <2> QED
    BY <2>4, <2>5, <2>8
<1> QED
  BY <1>4, <1>5

\* A check starts where none is under way.
LEMMA CheckStarts ==
  ASSUME IInv, At("check") = "idle", checking' = TRUE, Starts("check", "checking", {}),
         UNCHANGED <<notice, refreshing, cancels>>, status' = "syncing" => status = "syncing"
  PROVE  task' \in [Tasks -> Records] /\ ReadsReal' /\ Shape'
<1> USE DEF IInv
<1> DEFINE t == "check"
<1>1. t \in Tasks /\ "checking" \in Places /\ {} \in SUBSET Paths
  BY DEF Tasks, Places, Reading
<1>2. /\ task' \in [Tasks -> Records]
      /\ task'[t].at = "checking" /\ ~task'[t].cancelled /\ task'[t].read = NoRead
      /\ \A u \in Tasks \ {t} : task'[u] = task[u]
  BY <1>1, StartsTyped
<1>3. ReadsReal'
  BY <1>1, <1>2, ReadsStay
<1>4. At(t) \notin Working /\ At(t) # "settling" /\ task'[t].at \notin Working /\ task'[t].at # "settling"
  BY <1>2 DEF Working
<1>5. Shape'
  BY <1>1, <1>2, <1>4, Moves
<1> QED
  BY <1>2, <1>3, <1>5

\* The check after a turn.
LEMMA CheckStep == ASSUME IInv, Check PROVE IInv'
<1>1. task' \in [Tasks -> Records] /\ ReadsReal' /\ Shape'
  BY CheckStarts DEF Check, bounds
<1>2. Typed'
  BY <1>1 DEF IInv, Typed, Check, library, bounds
<1> QED
  BY <1>1, <1>2 DEF IInv

\* /status, with the check it asks for or without.
LEMMA StatusStep == ASSUME IInv, Status PROVE IInv'
<1>1. Read(FALSE) \in Reads /\ Read(FALSE).status \in Statuses
  BY ReadTyped DEF IInv
<1>2. /\ status' \in Statuses \cup {"synced", "syncing", "error"} /\ error' \in BOOLEAN
      /\ status' = "syncing" => status = "syncing"
  BY <1>1, Published DEF IInv, Status
<1>3. UNCHANGED <<library, notice, refreshing, told>> /\ UNCHANGED <<writes, cancels, errors>>
  BY DEF Status
<1>4. commands' \in Nat
  <2>1. commands \in Nat
    BY Zenon DEF IInv, Typed
  <2> QED
    BY <2>1 DEF Status
<1>5. task' \in [Tasks -> Records] /\ checking' \in BOOLEAN /\ ReadsReal' /\ Shape'
  <2>1. CASE At("check") = "idle" /\ ~checking /\ ~refreshing
    <3>1. checking' = TRUE /\ Starts("check", "checking", {})
      BY <2>1 DEF Status
    <3> QED
      BY <1>2, <1>3, <2>1, <3>1, CheckStarts
  <2>2. CASE ~(At("check") = "idle" /\ ~checking /\ ~refreshing)
    <3>1. UNCHANGED <<checking, task>>
      BY <2>2 DEF Status
    <3>2. task' \in [Tasks -> Records] /\ checking' \in BOOLEAN
      BY <3>1 DEF IInv, Typed
    <3>3. ReadsReal'
      BY <3>1 DEF IInv, ReadsReal
    <3>4. OneWriter' /\ Gate' /\ Slot' /\ NoticeShut' /\ Cancelled'
      BY <1>3, <3>1 DEF IInv, Shape, OneWriter, Gate, Slot, NoticeShut, Cancelled, At
    <3>5. Owed'
      BY <1>2, <1>3, <3>1 DEF IInv, Shape, Owed, At, Alive
    <3> QED
      BY <3>2, <3>3, <3>4, <3>5 DEF Shape
  <2> QED
    BY <2>1, <2>2
<1>6. Typed'
  BY <1>2, <1>3, <1>4, <1>5 DEF IInv, Typed, library
<1> QED
  BY <1>5, <1>6 DEF IInv

\* What a check found is published, or a small drift is updated if the gate is open.
LEMMA CheckedStep == ASSUME IInv, Checked PROVE IInv'
<1> USE DEF IInv
<1> DEFINE t == "check"
           read == task[t].read
           small == read.files # {} /\ Cardinality(read.files) <= AUTO_UPDATE_LIMIT
<1>1. t \in Tasks /\ "updating" \in Places /\ "updating" \in Working
  BY DEF Tasks, Places, Working
<1>2. read \in Reads /\ read.status \in Statuses /\ At(t) = "checking"
  BY <1>1 DEF Typed, Records, ReadsReal, Checked, Resumes
<1>3. UNCHANGED <<library, bounds>>
  BY DEF Checked
<1>4. read.files \in SUBSET Paths
  BY <1>2 DEF Reads
<1>5. told' \in SUBSET Paths
  <2>1. CASE Alive(t)
    BY <1>4, <2>1 DEF Checked, Told, Typed
  <2>2. CASE ~Alive(t)
    BY <2>2 DEF Checked, Typed
  <2> QED
    BY <2>1, <2>2
<1>6. CASE Alive(t) /\ small /\ ~refreshing
  <2>1. _update(t, read.files) /\ error' = FALSE /\ UNCHANGED checking
    BY <1>6 DEF Checked
  <2>2. /\ task' \in [Tasks -> Records]
        /\ task'[t].at = "updating" /\ ~task'[t].cancelled /\ task'[t].read = NoRead
        /\ \A u \in Tasks \ {t} : task'[u] = task[u]
    BY <1>1, <1>4, <2>1, StartsTyped DEF _update
  <2>3. ReadsReal'
    BY <1>1, <2>2, ReadsStay
  <2>4. Typed'
    BY <1>3, <1>5, <2>1, <2>2 DEF Typed, _update, mark, library, bounds
  <2>5. ~refreshing /\ refreshing' /\ (checking' <=> checking) /\ UNCHANGED cancels
    BY <1>3, <1>6, <2>1 DEF _update, mark, bounds
  <2>6. At(t) # "idle"
    BY <1>2
  <2>7. Shape'
    BY <1>1, <2>2, <2>5, <2>6, Shuts
  <2> QED
    BY <2>3, <2>4, <2>7
<1>7. CASE ~(Alive(t) /\ small /\ ~refreshing)
  <2>1. /\ IF Alive(t) THEN set_status(read.status) ELSE UNCHANGED <<status, error>>
        /\ Ends(t) /\ checking' = FALSE
        /\ UNCHANGED <<notice, refreshing>>
    BY <1>7 DEF Checked
  <2>2. /\ task' \in [Tasks -> Records]
        /\ task'[t].at = "idle" /\ ~task'[t].cancelled /\ task'[t].read = NoRead
        /\ \A u \in Tasks \ {t} : task'[u] = task[u]
    BY <1>1, <2>1, EndsTyped
  <2>3. /\ status' \in Statuses \cup {"synced", "syncing", "error"} /\ error' \in BOOLEAN
        /\ status' = "syncing" => status = "syncing"
    BY <1>2, <2>1, Published DEF Typed
  <2>4. ReadsReal'
    BY <1>1, <2>2, ReadsStay
  <2>5. Typed'
    BY <1>3, <1>5, <2>1, <2>2, <2>3 DEF Typed, library, bounds
  <2>6. At(t) \notin Working /\ At(t) # "settling" /\ task'[t].at \notin Working /\ task'[t].at # "settling"
    BY <1>2, <2>2 DEF Working
  <2>7. UNCHANGED <<notice, refreshing, cancels>> /\ (checking' <=> task'[t].at # "idle")
    BY <1>3, <2>1, <2>2 DEF bounds
  <2>8. Shape'
    BY <1>1, <2>2, <2>3, <2>6, <2>7, Moves
  <2> QED
    BY <2>4, <2>5, <2>8
<1> QED
  BY <1>6, <1>7

\* The walk of a check failed.
LEMMA CheckFailedStep == ASSUME IInv, CheckFailed PROVE IInv'
<1> USE DEF IInv
<1> DEFINE t == "check"
<1>1. t \in Tasks /\ At(t) = "checking"
  BY DEF Tasks, CheckFailed, Resumes
<1>2. /\ task' \in [Tasks -> Records]
      /\ task'[t].at = "idle" /\ ~task'[t].cancelled /\ task'[t].read = NoRead
      /\ \A u \in Tasks \ {t} : task'[u] = task[u]
  BY <1>1, EndsTyped DEF CheckFailed
<1>3. checking' = FALSE /\ UNCHANGED <<library, status, error, notice, refreshing, told>> /\ UNCHANGED <<writes, commands, cancels>>
  BY DEF CheckFailed
<1>4. errors' \in Nat
  <2>1. errors \in Nat
    BY Zenon DEF Typed
  <2> QED
    BY <2>1 DEF CheckFailed
<1>5. ReadsReal'
  BY <1>1, <1>2, ReadsStay
<1>6. Typed'
  BY <1>2, <1>3, <1>4 DEF Typed, library
<1>7. At(t) \notin Working /\ At(t) # "settling" /\ task'[t].at \notin Working /\ task'[t].at # "settling"
  BY <1>1, <1>2 DEF Working
<1>8. checking' <=> task'[t].at # "idle"
  BY <1>2, <1>3
<1>9. Shape'
  BY <1>1, <1>2, <1>3, <1>7, <1>8, Moves
<1> QED
  BY <1>5, <1>6, <1>9

\* A thread that reads is done.
LEMMA ReadDoneStep == ASSUME IInv, NEW t \in Tasks, ReadDone(t) PROVE IInv'
<1>1. /\ task' \in [Tasks -> Records]
      /\ \A u \in Tasks : task'[u].at = task[u].at /\ task'[u].cancelled = task[u].cancelled
      /\ \A u \in Tasks : task'[u].read = task[u].read \/ task'[u].read.status \in Statuses
  BY ReadDoneTyped DEF IInv
<1>2. UNCHANGED <<library, fields, told, bounds>>
  BY DEF ReadDone
<1>3. Typed'
  BY <1>1, <1>2 DEF IInv, Typed, library, fields, bounds
<1>4. ReadsReal'
  BY <1>1 DEF IInv, ReadsReal
<1>5. Shape'
  BY <1>1, <1>2, NothingMoves DEF IInv, bounds
<1> QED
  BY <1>3, <1>4, <1>5 DEF IInv

\* The thread of a coroutine that writes the index is done, or failed.
LEMMA ThreadEnds ==
  ASSUME IInv, NEW t \in Tasks, NEW failed \in BOOLEAN, At(t) \in Working, AfterThread(t, failed), UNCHANGED cancels
  PROVE  /\ status' \in Statuses \cup {"synced", "syncing", "error"} /\ error' \in BOOLEAN
         /\ notice' \in {"", "syncing", "updating", "error"} /\ refreshing' \in BOOLEAN /\ checking' \in BOOLEAN
         /\ task' \in [Tasks -> Records] /\ ReadsReal' /\ Shape'
<1> USE DEF IInv
<1>1. {} \in SUBSET Paths /\ "settling" \in Places /\ "confirming" \in Places
      /\ "settling" \notin Working /\ "confirming" \notin Working /\ "idle" \notin Working
  BY DEF Places, Reading, Working
<1>2. CASE ~Alive(t)
  <2>1. unmark /\ Starts(t, "settling", {}) /\ UNCHANGED checking
    BY <1>2 DEF AfterThread
  <2>2. /\ task' \in [Tasks -> Records]
        /\ task'[t].at = "settling" /\ ~task'[t].cancelled /\ task'[t].read = NoRead
        /\ \A u \in Tasks \ {t} : task'[u] = task[u]
    BY <1>1, <2>1, StartsTyped
  <2>3. ReadsReal'
    BY <2>2, ReadsStay
  <2>4. notice' = "" /\ refreshing' = FALSE /\ UNCHANGED <<status, error>> /\ UNCHANGED checking
    BY <2>1 DEF unmark
  <2>5. t = "check" => (checking' <=> task'[t].at # "idle")
    BY <1>1, <2>2, <2>4 DEF Shape, Slot
  <2>6. Shape'
    BY <1>1, <1>2, <2>2, <2>4, <2>5, Opens
  <2> QED
    BY <2>2, <2>3, <2>4, <2>6 DEF Typed
<1>3. CASE Alive(t)
  <2>1. /\ IF failed THEN fail ELSE finish
        /\ IF t = "sync" /\ ~failed THEN Starts(t, "confirming", {}) ELSE Ends(t)
        /\ checking' = (checking /\ t # "check")
    BY <1>3 DEF AfterThread
  <2>2. /\ task' \in [Tasks -> Records]
        /\ task'[t].at \in {"idle", "confirming"} /\ ~task'[t].cancelled /\ task'[t].read = NoRead
        /\ \A u \in Tasks \ {t} : task'[u] = task[u]
        /\ t # "sync" => task'[t].at = "idle"
    <3>1. CASE t = "sync" /\ ~failed
      <4>1. Starts(t, "confirming", {})
        BY <2>1, <3>1
      <4> QED
        BY <1>1, <3>1, <4>1, StartsTyped
    <3>2. CASE ~(t = "sync" /\ ~failed)
      <4>1. Ends(t)
        BY <2>1, <3>2
      <4> QED
        BY <4>1, EndsTyped
    <3> QED
      BY <3>1, <3>2
  <2>3. /\ status' \in {"synced", "error"} /\ error' \in BOOLEAN /\ notice' \in {"", "error"} /\ refreshing' = FALSE
    BY <2>1 DEF fail, finish
  <2>4. checking' \in BOOLEAN /\ (t # "check" => (checking' <=> checking)) /\ (t = "check" => ~checking')
    BY <2>1 DEF Typed
  <2>5. t = "check" => (checking' <=> task'[t].at # "idle")
    BY <2>2, <2>4
  <2>6. ReadsReal'
    BY <2>2, ReadsStay
  <2>7. task'[t].at \notin Working /\ task'[t].at # "settling" /\ ~refreshing' /\ status' # "syncing"
        /\ notice' \notin {"syncing", "updating"}
    BY <1>1, <2>2, <2>3
  <2>8. Shape'
    BY <2>2, <2>4, <2>5, <2>7, Opens
  <2> QED
    BY <2>2, <2>3, <2>4, <2>6, <2>8
<1> QED
  BY <1>2, <1>3

\* The index is written.
LEMMA IndexedStep == ASSUME IInv, NEW t \in Tasks, Indexed(t) PROVE IInv'
<1>1. At(t) \in Working /\ AfterThread(t, FALSE) /\ UNCHANGED bounds
  BY DEF Indexed
<1>2. /\ status' \in Statuses \cup {"synced", "syncing", "error"} /\ error' \in BOOLEAN
      /\ notice' \in {"", "syncing", "updating", "error"} /\ refreshing' \in BOOLEAN /\ checking' \in BOOLEAN
      /\ task' \in [Tasks -> Records] /\ ReadsReal' /\ Shape'
  BY <1>1, ThreadEnds DEF bounds
<1>3. built' \in BOOLEAN /\ changed' \in SUBSET Paths /\ told' \in SUBSET Paths
  <2>1. PICK left \in SUBSET task[t].missed :
          /\ changed' = (changed \ (task[t].paths \ task[t].missed)) \ (task[t].missed \ left)
          /\ built' = TRUE
          /\ told' = told \cap changed'
    BY DEF Indexed
  <2>2. changed \in SUBSET Paths /\ told \in SUBSET Paths
    BY DEF IInv, Typed
  <2> QED
    BY <2>1, <2>2
<1>4. Typed'
  BY <1>1, <1>2, <1>3 DEF IInv, Typed, bounds
<1> QED
  BY <1>2, <1>4 DEF IInv

\* The library failed.
LEMMA IndexFailsStep == ASSUME IInv, NEW t \in Tasks, IndexFails(t) PROVE IInv'
<1>1. /\ At(t) \in Working /\ AfterThread(t, TRUE)
      /\ UNCHANGED <<library, told>> /\ UNCHANGED <<writes, commands, cancels>>
  BY DEF IndexFails
<1>2. /\ status' \in Statuses \cup {"synced", "syncing", "error"} /\ error' \in BOOLEAN
      /\ notice' \in {"", "syncing", "updating", "error"} /\ refreshing' \in BOOLEAN /\ checking' \in BOOLEAN
      /\ task' \in [Tasks -> Records] /\ ReadsReal' /\ Shape'
  BY <1>1, ThreadEnds
<1>3. errors' \in Nat
  <2>1. errors \in Nat
    BY Zenon DEF IInv, Typed
  <2> QED
    BY <2>1 DEF IndexFails
<1>4. Typed'
  BY <1>1, <1>2, <1>3 DEF IInv, Typed, library
<1> QED
  BY <1>2, <1>4 DEF IInv

\* A coroutine that was cancelled has published what is there, or was cancelled once more.
LEMMA SettledStep == ASSUME IInv, NEW t \in Tasks, Settled(t) PROVE IInv'
<1> USE DEF IInv
<1> DEFINE read == task[t].read
<1>1. read \in Reads /\ read.status \in Statuses /\ At(t) = "settling"
  BY DEF Typed, Records, ReadsReal, Settled, Resumes
<1>2. /\ task' \in [Tasks -> Records]
      /\ task'[t].at = "idle" /\ ~task'[t].cancelled /\ task'[t].read = NoRead
      /\ \A u \in Tasks \ {t} : task'[u] = task[u]
  BY EndsTyped DEF Settled
<1>3. UNCHANGED <<library, notice, refreshing>> /\ UNCHANGED bounds
  BY DEF Settled
<1>4. checking' \in BOOLEAN /\ (t # "check" => (checking' <=> checking)) /\ (t = "check" => ~checking')
  BY DEF Settled, Typed
<1>5. /\ status' \in Statuses \cup {"synced", "syncing", "error"} /\ error' \in BOOLEAN /\ told' \in SUBSET Paths
      /\ status' = "syncing" => status = "syncing" /\ (refreshing \/ ~Alive(t))
  <2>1. CASE Alive(t)
    <3>1. _publish_status(read) /\ Told(t)
      BY <2>1 DEF Settled
    <3>2. told' \in SUBSET Paths
      BY <1>1, <3>1 DEF Told, Typed, Reads
    <3> QED
      BY <1>1, <3>1, <3>2, Published
  <2>2. CASE ~Alive(t)
    BY <2>2 DEF Settled, Typed
  <2> QED
    BY <2>1, <2>2
<1>6. ReadsReal'
  BY <1>2, ReadsStay
<1>7. Typed'
  BY <1>2, <1>3, <1>4, <1>5 DEF Typed, library, bounds
<1>8. At(t) \notin Working /\ task'[t].at \notin Working /\ task'[t].at # "settling"
      /\ (t = "check" => (checking' <=> task'[t].at # "idle"))
  BY <1>1, <1>2, <1>4 DEF Working
<1>9. Shape'
  BY <1>2, <1>3, <1>4, <1>5, <1>8, Moves DEF bounds
<1> QED
  BY <1>6, <1>7, <1>9

\* A cancellation: the second one may take away the debt of the first.
LEMMA CancelStep == ASSUME IInv, NEW t \in Tasks, Cancel(t) PROVE IInv'
<1> USE DEF IInv
<1>1. /\ task' \in [Tasks -> Records]
      /\ \A u \in Tasks : task'[u].at = task[u].at /\ task'[u].read = task[u].read
      /\ task'[t].cancelled /\ \A u \in Tasks \ {t} : task'[u] = task[u]
  BY CancelTyped
<1>2. UNCHANGED <<library, fields, told>> /\ UNCHANGED <<writes, commands, errors>>
  BY DEF Cancel
<1>3. cancels \in Nat /\ cancels' = cancels + 1
  <2>1. cancels \in Nat
    BY Zenon DEF Typed
  <2> QED
    BY <2>1 DEF Cancel
<1> HIDE DEF IInv
<1>4. cancels' \in Nat /\ cancels' >= 1 /\ (cancels >= 1 => cancels' >= 2) /\ (cancels >= 2 => cancels' >= 2)
  BY <1>3
<1>5. Typed'
  BY <1>1, <1>2, <1>4 DEF IInv, Typed, library, fields
<1>6. ReadsReal'
  BY <1>1 DEF IInv, ReadsReal
<1>7. OneWriter' /\ Gate' /\ NoticeShut'
  BY <1>1, <1>2 DEF IInv, Shape, OneWriter, Gate, NoticeShut, At, fields
<1>8. Slot'
  BY <1>1, <1>2 DEF IInv, Shape, Slot, At, fields, Tasks
<1>9. Cancelled'
  <2>1. \A u \in Tasks : task'[u].cancelled \/ task'[u].at = "settling" => cancels' >= 1
    BY <1>4
  <2>2. ASSUME NEW u \in Tasks, task'[u].cancelled, task'[u].at = "settling" PROVE cancels' >= 2
    <3>1. task[u].at = "settling"
      BY <1>1, <2>2
    <3>2. cancels >= 1
      BY <3>1 DEF IInv, Shape, Cancelled, At
    <3> QED
      BY <1>4, <3>2
  <2> QED
    BY <2>1, <2>2 DEF Cancelled, At
<1>10. Owed'
  <2> SUFFICES ASSUME status' = "syncing", ~refreshing'
               PROVE  (\E u \in Tasks : task'[u].at = "settling" /\ ~task'[u].cancelled) \/ cancels' >= 2
    BY DEF Owed, At, Alive
  <2>1. (\E u \in Tasks : At(u) = "settling" /\ Alive(u)) \/ cancels >= 2
    BY <1>2 DEF IInv, Shape, Owed, fields
  <2>2. CASE cancels >= 2
    BY <1>4, <2>2
  <2>3. ASSUME NEW u \in Tasks, At(u) = "settling", Alive(u)
        PROVE  (\E v \in Tasks : task'[v].at = "settling" /\ ~task'[v].cancelled) \/ cancels' >= 2
    <3>1. CASE u = t
      <4>1. cancels >= 1
        BY <2>3 DEF IInv, Shape, Cancelled
      <4> QED
        BY <1>4, <4>1
    <3>2. CASE u # t
      BY <1>1, <2>3, <3>2 DEF At, Alive
    <3> QED
      BY <3>1, <3>2
  <2> QED
    BY <2>1, <2>2, <2>3
<1> QED
  BY <1>5, <1>6, <1>7, <1>8, <1>9, <1>10 DEF IInv, Shape

-----------------------------------------------------------------------------
(***************************************************************************)
(* The theorems.                                                           *)
(***************************************************************************)
\* A session starts with no coroutine at work and no status in progress.
LEMMA Starting == Init => IInv
<1> SUFFICES ASSUME Init PROVE IInv
  OBVIOUS
<1>1. \A t \in Tasks : task[t] = Idle
  BY DEF Init
<1>2. \A t \in Tasks : At(t) = "idle" /\ ~task[t].cancelled /\ task[t].read = NoRead
  BY <1>1, Idles DEF At
<1>3. changed \in SUBSET Paths /\ built \in BOOLEAN
  BY DEF Init
<1>4. status \in {"synced", "missing"} /\ error = FALSE /\ notice = "" /\ refreshing = FALSE /\ checking = FALSE
      /\ task = [t \in Tasks |-> Idle] /\ told = {}
      /\ writes = 0 /\ commands = 0 /\ cancels = 0 /\ errors = 0
  BY DEF Init
<1>5. task \in [Tasks -> Records]
  BY <1>4, Idles
<1>6. Typed
  BY <1>3, <1>4, <1>5 DEF Typed, Statuses
<1>7. ReadsReal
  BY <1>2 DEF ReadsReal
<1>8. OneWriter /\ Gate /\ NoticeShut /\ Cancelled /\ Owed
  BY <1>2, <1>4 DEF OneWriter, Gate, NoticeShut, Cancelled, Owed, Working
<1>9. Slot
  BY <1>2, <1>4 DEF Slot, Tasks
<1> QED
  BY <1>6, <1>7, <1>8, <1>9 DEF IInv, Shape

\* Every step keeps the invariant.
LEMMA Stepping == IInv /\ [Next]_vars => IInv'
<1> SUFFICES ASSUME IInv, [Next]_vars PROVE IInv'
  OBVIOUS
<1>1. CASE Write
  BY <1>1, WriteStep
<1>2. CASE Sync
  BY <1>2, SyncStep
<1>3. CASE SyncConfirmed
  BY <1>3, SyncConfirmedStep
<1>4. CASE Edit
  BY <1>4, EditStep
<1>5. CASE EditProbed
  BY <1>5, EditProbedStep
<1>6. CASE Check
  BY <1>6, CheckStep
<1>7. CASE Status
  BY <1>7, StatusStep
<1>8. CASE Checked
  BY <1>8, CheckedStep
<1>9. CASE CheckFailed
  BY <1>9, CheckFailedStep
<1>10. CASE \E t \in Tasks : ReadDone(t)
  BY <1>10, ReadDoneStep
<1>11. CASE \E t \in Tasks : Indexed(t)
  BY <1>11, IndexedStep
<1>12. CASE \E t \in Tasks : IndexFails(t)
  BY <1>12, IndexFailsStep
<1>13. CASE \E t \in Tasks : Settled(t)
  BY <1>13, SettledStep
<1>14. CASE \E t \in Tasks : Cancel(t)
  BY <1>14, CancelStep
<1>15. CASE UNCHANGED vars
  <2>1. Typed'
    BY <1>15 DEF vars, library, fields, bounds, IInv, Typed
  <2>2. ReadsReal'
    BY <1>15 DEF vars, IInv, ReadsReal
  <2>3. Shape'
    BY <1>15, NothingMoves DEF vars, bounds, IInv
  <2> QED
    BY <2>1, <2>2, <2>3 DEF IInv
<1> QED
  BY <1>1, <1>2, <1>3, <1>4, <1>5, <1>6, <1>7, <1>8, <1>9, <1>10, <1>11, <1>12, <1>13, <1>14, <1>15 DEF Next

\* The inductive invariant gives the property.
LEMMA Sound == IInv => IndexSound
<1> SUFFICES ASSUME IInv PROVE IndexSound
  OBVIOUS
<1>1. OneWriter /\ GatesOwned
  BY DEF IInv, Shape, Gate, Slot, GatesOwned
<1>2. NothingLeftSyncing
  <2>1. ASSUME cancels <= 1, \A t \in Tasks : At(t) = "idle", status = "syncing" PROVE FALSE
    <3>1. ~refreshing
      BY <2>1 DEF IInv, Shape, Gate, Working
    <3>2. cancels >= 2
      BY <2>1, <3>1 DEF IInv, Shape, Owed
    <3>3. cancels \in Nat
      BY Zenon DEF IInv, Typed
    <3> QED
      BY <2>1, <3>2, <3>3
  <2> QED
    BY <2>1 DEF NothingLeftSyncing, IInv, Shape, NoticeShut
<1> QED
  BY <1>1, <1>2 DEF IndexSound

\* The strengthened invariant of the index: the gates are held by whoever is at work, and a status
\* in progress is one that somebody will take down unless a second cancellation kept it from doing so.
THEOREM GatesHold == Spec => []IInv
BY Starting, Stepping, PTL DEF Spec

\* However the three coroutines of the index, their threads, other programs' writes, failures and
\* cancellations interleave: one thread writes the index, each gate has an owner, and one
\* cancellation leaves no status in progress behind.
THEOREM IndexHolds == Spec => []IndexSound
BY GatesHold, Sound, PTL

-----------------------------------------------------------------------------
(***************************************************************************)
(* MentionsSound: the menu, in the behaviours that are about it.           *)
(*                                                                         *)
(* A ranking is of the snapshot whose generation it carries, so its result *)
(* is kept only while that snapshot is still the one there is.  Who waits  *)
(* for a scan began one, or found one, and a scan that ends wakes him.     *)
(***************************************************************************)
AskedFor   == Queries \cup {"none"}
Rankings   == [at : {"none", "waiting", "ranking"}, request : Nat, query : AskedFor, paths : SUBSET Files,
               generation : Nat]
MenuScans  == [at : {"none", "running", "read"}, seen : SUBSET Files]
MenuPicks  == [at : {"none", "waiting", "shown"}, snapshot : SUBSET Files]
MenuMatch  == [generation : Nat \cup {-1}, query : AskedFor, files : SUBSET Files]

MenuTyped ==
  /\ tree \in SUBSET Files /\ open \in {"open", "closing", "closed"}
  /\ cache \in SUBSET Files \/ cache = {"none"}
  /\ generation \in Nat /\ last \in MenuMatch
  /\ request \in Nat /\ pending \in Rankings /\ ranking \in Rankings
  /\ scan \in MenuScans /\ picker \in MenuPicks

\* What was ranked last is of the snapshot there is, or of an older one.
MatchInv == last.generation <= generation /\ Menu!MatchesAreCurrent

\* A ranking under way is of the snapshot it was given, which may be older by now.
RankInv ==
  ranking.at = "ranking" =>
    ranking.generation <= generation /\ (ranking.generation = generation => ranking.paths = Menu!Snapshot)

\* A query waits behind a ranking, and nothing is left of the background when it has closed.
QuietInv == (pending # Menu!NoRank => ranking.at # "none") /\ Menu!ClosedIsQuiet

MenuInv == MenuTyped /\ MatchInv /\ RankInv /\ Menu!WaitsForAScan /\ QuietInv

LEMMA MenuEmpties ==
  /\ Menu!NoScan \in MenuScans /\ Menu!NoScan.at = "none" /\ Menu!NoPick \in MenuPicks /\ Menu!NoPick.at = "none"
  /\ Menu!NoRank \in Rankings /\ Menu!NoRank.at = "none"
  /\ Menu!NoMatch \in MenuMatch /\ Menu!NoMatch.generation = -1 /\ Menu!None = "none"
BY DEF Menu!NoScan, Menu!NoPick, Menu!NoRank, Menu!NoMatch, Menu!None, MenuScans, MenuPicks, Rankings,
       MenuMatch, AskedFor

\* The files there are to offer: none while no scan has been published.
LEMMA SnapshotIs == MenuTyped => Menu!Snapshot \in SUBSET Files
BY DEF MenuTyped, Menu!Snapshot, Menu!Warm, Menu!None

LEMMA MenuStart == Menu!Init => MenuInv
<1> SUFFICES ASSUME Menu!Init PROVE MenuInv
  OBVIOUS
<1>1. /\ tree \in SUBSET Files /\ open = "open" /\ cache = {"none"} /\ generation = 0 /\ last = Menu!NoMatch
      /\ request = 0 /\ pending = Menu!NoRank /\ ranking = Menu!NoRank /\ scan = Menu!NoScan /\ picker = Menu!NoPick
  BY DEF Menu!Init, Menu!None
<1>2. MenuTyped
  BY <1>1, MenuEmpties DEF MenuTyped
<1>3. MatchInv /\ RankInv
  BY <1>1, MenuEmpties DEF MatchInv, RankInv, Menu!MatchesAreCurrent
<1>4. Menu!WaitsForAScan /\ QuietInv
  BY <1>1, MenuEmpties DEF QuietInv, Menu!WaitsForAScan, Menu!ClosedIsQuiet
<1> QED
  BY <1>2, <1>3, <1>4 DEF MenuInv

\* Whoever asks for a scan finds one afterwards, unless there is a snapshot to do with.
LEMMA Scheduled ==
  ASSUME MenuTyped, Menu!schedule_refresh
  PROVE  /\ scan' \in MenuScans
         /\ open # "open" => scan' = scan
         /\ scan.at # "none" => scan' = scan
         /\ open = "open" /\ ~Menu!Warm => scan'.at # "none"
BY DEF Menu!schedule_refresh, MenuTyped, MenuScans, Menu!None

\* The parts that a step leaves alone which does not touch the snapshot, the matches or the ranking.
LEMMA MatchStays ==
  ASSUME MenuInv, UNCHANGED <<cache, generation, last>>
  PROVE  MatchInv' /\ (UNCHANGED ranking => RankInv')
BY DEF MenuInv, MatchInv, RankInv, Menu!MatchesAreCurrent, Menu!Snapshot, Menu!Warm

\* A query is taken up with the snapshot there is, or waits for the scan that makes one.
LEMMA TakenUp ==
  ASSUME MenuTyped, NEW item \in Rankings, Menu!Takes(item), UNCHANGED <<cache, generation>>
  PROVE  /\ ranking' \in Rankings /\ ranking'.at \in {"waiting", "ranking"} /\ RankInv'
         /\ scan' \in MenuScans /\ (open # "open" \/ scan.at # "none" => scan' = scan)
         /\ open = "open" /\ ranking'.at = "waiting" => scan'.at # "none"
<1>1. cache' = cache /\ generation' = generation /\ generation \in Nat /\ scan \in MenuScans
  BY DEF MenuTyped
<1>2. CASE Menu!Warm
  <2>1. ranking' = [item EXCEPT !.at = "ranking", !.paths = cache, !.generation = generation]
    BY <1>2 DEF Menu!Takes
  <2>2. cache \in SUBSET Files /\ Menu!Snapshot = cache /\ Menu!Snapshot' = cache
    BY <1>1, <1>2 DEF MenuTyped, Menu!Warm, Menu!Snapshot, Menu!None
  <2>3. ranking' \in Rankings /\ ranking'.at = "ranking" /\ ranking'.paths = cache /\ ranking'.generation = generation
    BY <1>1, <2>1, <2>2 DEF Rankings
  <2>4. RankInv'
    BY <1>1, <2>2, <2>3 DEF RankInv
  <2>5. Menu!schedule_refresh \/ scan' = scan
    BY <1>2 DEF Menu!Takes
  <2> QED
    BY <1>1, <2>3, <2>4, <2>5, Scheduled
<1>3. CASE ~Menu!Warm
  <2>1. ranking' = [item EXCEPT !.at = "waiting"] /\ Menu!schedule_refresh
    BY <1>3 DEF Menu!Takes
  <2>2. ranking' \in Rankings /\ ranking'.at = "waiting"
    BY <2>1 DEF Rankings
  <2> QED
    BY <1>3, <2>1, <2>2, Scheduled DEF RankInv
<1> QED
  BY <1>2, <1>3

-----------------------------------------------------------------------------
(* One lemma per step of Mentions that the invariant can notice.            *)

\* A scan that begins or reads: nobody's snapshot changes.
LEMMA ScanGoesOn ==
  ASSUME MenuInv, Menu!WarmUp \/ Menu!ScanReads PROVE MenuInv'
<1>1. UNCHANGED <<tree, open, cache, generation, last, request, pending, ranking, picker>>
  BY DEF Menu!WarmUp, Menu!ScanReads, Menu!mentions
<1>2. scan' \in MenuScans /\ scan'.at # "none" /\ open # "closed"
  <2>1. CASE Menu!WarmUp
    BY <2>1, Scheduled DEF Menu!WarmUp, MenuInv
  <2>2. CASE Menu!ScanReads
    BY <2>2 DEF Menu!ScanReads, MenuInv, MenuTyped, MenuScans, QuietInv, Menu!ClosedIsQuiet, Menu!None
  <2> QED
    BY <2>1, <2>2
<1>3. MenuTyped'
  BY <1>1, <1>2 DEF MenuInv, MenuTyped
<1>4. MatchInv' /\ RankInv'
  BY <1>1, MatchStays
<1>5. Menu!WaitsForAScan' /\ QuietInv'
  BY <1>1, <1>2, MenuEmpties DEF MenuInv, Menu!WaitsForAScan, QuietInv, Menu!ClosedIsQuiet, Menu!NoRank
<1> QED
  BY <1>3, <1>4, <1>5 DEF MenuInv

\* Whoever waited for a scan that ends goes on with what it gave.
LEMMA WokenUp ==
  ASSUME MenuInv, NEW paths \in SUBSET Files, NEW g \in Nat, Menu!Woken(paths, g),
         g = generation', generation' >= generation, paths = Menu!Snapshot',
         ranking.at = "ranking" /\ generation' = generation => Menu!Snapshot' = Menu!Snapshot
  PROVE  /\ ranking' \in Rankings /\ ranking'.at # "waiting" /\ (ranking.at # "none" => ranking'.at # "none")
         /\ RankInv'
         /\ picker' \in MenuPicks /\ picker'.at # "waiting"
<1>1. ranking \in Rankings /\ picker \in MenuPicks /\ generation \in Nat
  BY DEF MenuInv, MenuTyped
<1>2. picker' \in MenuPicks /\ picker'.at # "waiting"
  BY <1>1 DEF Menu!Woken, MenuPicks
<1>3. CASE ranking.at = "waiting"
  <2>1. ranking' = [ranking EXCEPT !.at = "ranking", !.paths = paths, !.generation = g]
    BY <1>3 DEF Menu!Woken
  <2>2. ranking' \in Rankings /\ ranking'.at = "ranking" /\ ranking'.paths = paths /\ ranking'.generation = g
    BY <1>1, <2>1 DEF Rankings
  <2>3. RankInv'
    BY <2>2 DEF RankInv
  <2> QED
    BY <1>2, <2>2, <2>3
<1>4. CASE ranking.at # "waiting"
  <2>1. ranking' = ranking
    BY <1>4 DEF Menu!Woken
  <2>2. RankInv'
    BY <1>1, <2>1 DEF MenuInv, RankInv, Rankings
  <2> QED
    BY <1>1, <1>2, <1>4, <2>1, <2>2
<1> QED
  BY <1>3, <1>4

LEMMA ScanEndsStep ==
  ASSUME MenuInv, Menu!ScanEnds PROVE MenuInv'
<1>1. /\ scan.at = "read" /\ open = "open" /\ cache' = scan.seen /\ generation' = generation + 1
      /\ last' = Menu!NoMatch /\ Menu!Woken(scan.seen, generation + 1) /\ scan' = Menu!NoScan
      /\ UNCHANGED <<tree, open, request, pending>>
  BY DEF Menu!ScanEnds
<1>2. scan.seen \in SUBSET Files /\ generation \in Nat /\ generation + 1 \in Nat
  BY DEF MenuInv, MenuTyped, MenuScans
<1>3. Menu!Snapshot' = scan.seen
  BY <1>1, <1>2, FilesAssumption DEF Menu!Snapshot, Menu!Warm, Menu!None
<1>4. /\ ranking' \in Rankings /\ ranking'.at # "waiting" /\ (ranking.at # "none" => ranking'.at # "none")
      /\ RankInv' /\ picker' \in MenuPicks /\ picker'.at # "waiting"
  BY <1>1, <1>2, <1>3, WokenUp
<1>5. MenuTyped'
  BY <1>1, <1>2, <1>4, MenuEmpties DEF MenuInv, MenuTyped
<1>6. MatchInv'
  BY <1>1, <1>2, MenuEmpties DEF MatchInv, Menu!MatchesAreCurrent
<1>7. Menu!WaitsForAScan' /\ QuietInv'
  BY <1>1, <1>4 DEF MenuInv, Menu!WaitsForAScan, QuietInv, Menu!ClosedIsQuiet, Menu!NoRank
<1> QED
  BY <1>4, <1>5, <1>6, <1>7 DEF MenuInv

LEMMA ScanFailsStep ==
  ASSUME MenuInv, Menu!ScanFails PROVE MenuInv'
<1>1. /\ open = "open" /\ Menu!Woken(Menu!Snapshot, generation) /\ scan' = Menu!NoScan
      /\ UNCHANGED <<tree, open, cache, generation, last, request, pending>>
  BY DEF Menu!ScanFails, Menu!mentions, Menu!Snapshot
<1>2. Menu!Snapshot \in SUBSET Files /\ generation \in Nat /\ Menu!Snapshot' = Menu!Snapshot
  BY <1>1, SnapshotIs DEF MenuInv, MenuTyped, Menu!Snapshot, Menu!Warm
<1>3. generation' >= generation /\ generation' = generation
  BY <1>1, <1>2
<1>4. /\ ranking' \in Rankings /\ ranking'.at # "waiting" /\ (ranking.at # "none" => ranking'.at # "none")
      /\ RankInv' /\ picker' \in MenuPicks /\ picker'.at # "waiting"
  BY <1>1, <1>2, <1>3, WokenUp
<1>5. MenuTyped'
  BY <1>1, <1>2, <1>4, MenuEmpties DEF MenuInv, MenuTyped
<1>6. MatchInv'
  BY <1>1, MatchStays
<1>7. Menu!WaitsForAScan' /\ QuietInv'
  BY <1>1, <1>4 DEF MenuInv, Menu!WaitsForAScan, QuietInv, Menu!ClosedIsQuiet, Menu!NoRank
<1> QED
  BY <1>4, <1>5, <1>6, <1>7 DEF MenuInv

LEMMA CompleteStep ==
  ASSUME MenuInv, NEW q \in Queries, Menu!Complete(q) PROVE MenuInv'
<1> DEFINE item == [Menu!NoRank EXCEPT !.request = request + 1, !.query = q]
<1>1. /\ open = "open" /\ request' = request + 1
      /\ UNCHANGED <<tree, open, cache, generation, last, picker>>
      /\ \/ ranking.at # "none" /\ pending' = item /\ UNCHANGED <<ranking, scan>>
         \/ ranking.at = "none" /\ Menu!Takes(item) /\ pending' = pending
  BY DEF Menu!Complete, Menu!mentions, Menu!None
<1>2. request \in Nat /\ generation \in Nat
  BY DEF MenuInv, MenuTyped
<1>3. item \in Rankings
  <2>1. request + 1 \in Nat /\ q \in AskedFor
    BY <1>2 DEF AskedFor
  <2> QED
    BY <2>1, MenuEmpties DEF Rankings
<1> HIDE DEF item
<1>4. MatchInv'
  BY <1>1, MatchStays
<1>5. CASE ranking.at # "none" /\ pending' = item /\ UNCHANGED <<ranking, scan>>
  <2>1. MenuTyped'
    BY <1>1, <1>2, <1>3, <1>5 DEF MenuInv, MenuTyped
  <2>2. RankInv'
    BY <1>1, <1>5, MatchStays
  <2>3. Menu!WaitsForAScan' /\ QuietInv'
    BY <1>1, <1>5 DEF MenuInv, Menu!WaitsForAScan, QuietInv, Menu!ClosedIsQuiet, Menu!None
  <2> QED
    BY <1>4, <2>1, <2>2, <2>3 DEF MenuInv
<1>6. CASE ranking.at = "none" /\ Menu!Takes(item) /\ pending' = pending
  <2>1. /\ ranking' \in Rankings /\ ranking'.at \in {"waiting", "ranking"} /\ RankInv'
        /\ scan' \in MenuScans /\ (open # "open" \/ scan.at # "none" => scan' = scan)
        /\ open = "open" /\ ranking'.at = "waiting" => scan'.at # "none"
    BY <1>1, <1>3, <1>6, TakenUp DEF MenuInv
  <2>2. MenuTyped'
    BY <1>1, <1>2, <1>6, <2>1 DEF MenuInv, MenuTyped
  <2>3. Menu!WaitsForAScan' /\ QuietInv'
    BY <1>1, <2>1 DEF MenuInv, Menu!WaitsForAScan, QuietInv, Menu!ClosedIsQuiet, Menu!None
  <2> QED
    BY <1>4, <2>1, <2>2, <2>3 DEF MenuInv
<1> QED
  BY <1>1, <1>5, <1>6

LEMMA RankedStep ==
  ASSUME MenuInv, Menu!Ranked PROVE MenuInv'
<1>1. /\ ranking.at = "ranking" /\ open = "open" /\ pending' = Menu!NoRank
      /\ UNCHANGED <<tree, open, cache, generation, request, picker>>
      /\ \/ Menu!Takes(pending) /\ last' = last
         \/ /\ ranking' = Menu!NoRank /\ scan' = scan
            /\ last' = IF ranking.generation = generation
                       THEN [generation |-> generation, query |-> ranking.query,
                             files |-> ranking.paths \cap Hits[ranking.query]]
                       ELSE last
  BY DEF Menu!Ranked, Menu!None
<1>2. pending \in Rankings /\ ranking \in Rankings /\ generation \in Nat
  BY DEF MenuInv, MenuTyped
<1>3. CASE Menu!Takes(pending) /\ last' = last
  <2>1. /\ ranking' \in Rankings /\ ranking'.at \in {"waiting", "ranking"} /\ RankInv'
        /\ scan' \in MenuScans /\ (open # "open" \/ scan.at # "none" => scan' = scan)
        /\ open = "open" /\ ranking'.at = "waiting" => scan'.at # "none"
    BY <1>1, <1>2, <1>3, TakenUp DEF MenuInv
  <2>2. MenuTyped'
    BY <1>1, <1>3, <2>1, MenuEmpties DEF MenuInv, MenuTyped
  <2>3. MatchInv'
    BY <1>1, <1>3, MatchStays
  <2>4. Menu!WaitsForAScan' /\ QuietInv'
    BY <1>1, <2>1 DEF MenuInv, Menu!WaitsForAScan, QuietInv, Menu!ClosedIsQuiet, Menu!None
  <2> QED
    BY <2>1, <2>2, <2>3, <2>4 DEF MenuInv
<1>4. CASE /\ ranking' = Menu!NoRank /\ scan' = scan
           /\ last' = IF ranking.generation = generation
                      THEN [generation |-> generation, query |-> ranking.query,
                            files |-> ranking.paths \cap Hits[ranking.query]]
                      ELSE last
  <2>1. last' \in MenuMatch
    BY <1>2, <1>4 DEF MenuInv, MenuTyped, MenuMatch, Rankings
  <2>2. MenuTyped'
    BY <1>1, <1>4, <2>1, MenuEmpties DEF MenuInv, MenuTyped
  <2>3. Menu!Snapshot' = Menu!Snapshot
    BY <1>1 DEF Menu!Snapshot, Menu!Warm
  <2>4. MatchInv'
    <3>1. CASE ranking.generation = generation
      <4>1. last' = [generation |-> generation, query |-> ranking.query,
                     files |-> ranking.paths \cap Hits[ranking.query]]
        BY <1>4, <3>1
      <4>2. ranking.paths = Menu!Snapshot
        BY <1>1, <3>1 DEF MenuInv, RankInv
      <4> QED
        BY <1>1, <1>2, <2>3, <4>1, <4>2 DEF MatchInv, Menu!MatchesAreCurrent
    <3>2. CASE ranking.generation # generation
      BY <1>1, <1>4, <3>2, MatchStays
    <3> QED
      BY <3>1, <3>2
  <2>5. RankInv' /\ QuietInv'
    BY <1>1, <1>4, MenuEmpties DEF RankInv, QuietInv, Menu!ClosedIsQuiet
  <2>6. Menu!WaitsForAScan'
    BY <1>1, <1>4, MenuEmpties DEF MenuInv, Menu!WaitsForAScan
  <2> QED
    BY <2>2, <2>4, <2>5, <2>6 DEF MenuInv
<1> QED
  BY <1>1, <1>3, <1>4

LEMMA PickerStep ==
  ASSUME MenuInv, Menu!Pick \/ Menu!Escape \/ \E f \in Files : Menu!Select(f) PROVE MenuInv'
<1>1. /\ open = "open" /\ UNCHANGED <<tree, open, cache, generation, last, request, pending, ranking>>
      /\ \/ Menu!schedule_refresh
            /\ picker' = IF Menu!Warm THEN [at |-> "shown", snapshot |-> cache] ELSE [at |-> "waiting", snapshot |-> {}]
         \/ picker' = Menu!NoPick /\ scan' = scan
  BY DEF Menu!Pick, Menu!Escape, Menu!Select, Menu!mentions
<1>2. /\ scan' \in MenuScans /\ picker' \in MenuPicks /\ (scan.at # "none" => scan' = scan)
      /\ picker'.at = "waiting" => scan'.at # "none"
  <2>1. CASE picker' = Menu!NoPick /\ scan' = scan
    BY <2>1, MenuEmpties DEF MenuInv, MenuTyped
  <2>2. CASE Menu!schedule_refresh
             /\ picker' = IF Menu!Warm THEN [at |-> "shown", snapshot |-> cache] ELSE [at |-> "waiting", snapshot |-> {}]
    <3>1. picker' \in MenuPicks
      BY <2>2 DEF MenuInv, MenuTyped, MenuPicks, Menu!Warm, Menu!None
    <3>2. picker'.at = "waiting" => ~Menu!Warm
      BY <2>2
    <3>3. /\ scan' \in MenuScans /\ (scan.at # "none" => scan' = scan)
          /\ open = "open" /\ ~Menu!Warm => scan'.at # "none"
      BY <2>2, Scheduled DEF MenuInv
    <3> QED
      BY <1>1, <3>1, <3>2, <3>3
  <2> QED
    BY <1>1, <2>1, <2>2
<1>3. MenuTyped'
  BY <1>1, <1>2 DEF MenuInv, MenuTyped
<1>4. MatchInv' /\ RankInv'
  BY <1>1, MatchStays
<1>5. Menu!WaitsForAScan' /\ QuietInv'
  BY <1>1, <1>2 DEF MenuInv, Menu!WaitsForAScan, QuietInv, Menu!ClosedIsQuiet, Menu!None
<1> QED
  BY <1>3, <1>4, <1>5 DEF MenuInv

LEMMA CloseStep ==
  ASSUME MenuInv, Menu!Close \/ Menu!ScanUnwinds \/ Menu!RankUnwinds \/ Menu!PickUnwinds \/ Menu!Closed
  PROVE  MenuInv'
<1>1. /\ UNCHANGED <<tree, cache, generation, last, request>> /\ open' \in {"closing", "closed"}
      /\ open # "closed"
      /\ scan' \in {scan, Menu!NoScan} /\ picker' \in {picker, Menu!NoPick}
      /\ \/ ranking' = ranking /\ pending' = pending
         \/ ranking' = Menu!NoRank /\ pending' = Menu!NoRank
      /\ open' = "closed" => /\ scan.at = "none" /\ ranking.at = "none" /\ picker.at = "none"
                             /\ UNCHANGED <<scan, ranking, picker, pending>>
  BY DEF Menu!Close, Menu!ScanUnwinds, Menu!RankUnwinds, Menu!PickUnwinds, Menu!Closed, Menu!mentions, Menu!None
<1>2. MenuTyped'
  BY <1>1, MenuEmpties DEF MenuInv, MenuTyped
<1>3. MatchInv' /\ RankInv'
  <2>1. CASE ranking' = ranking
    BY <1>1, <2>1, MatchStays
  <2>2. CASE ranking' = Menu!NoRank
    BY <1>1, <2>2, MatchStays, MenuEmpties DEF RankInv
  <2> QED
    BY <1>1, <2>1, <2>2
<1>4. Menu!WaitsForAScan'
  BY <1>1 DEF Menu!WaitsForAScan
<1>5. QuietInv'
  BY <1>1, MenuEmpties DEF MenuInv, QuietInv, Menu!ClosedIsQuiet, Menu!NoRank
<1> QED
  BY <1>2, <1>3, <1>4, <1>5 DEF MenuInv

\* A change of the tree, the menu itself, and a step of something else.
LEMMA MenuStays ==
  ASSUME MenuInv, UNCHANGED <<open, cache, generation, last, request, pending, ranking, scan, picker>>,
         tree' \in SUBSET Files
  PROVE  MenuInv'
<1>1. MenuTyped'
  BY DEF MenuInv, MenuTyped
<1>2. MatchInv' /\ RankInv'
  BY MatchStays
<1>3. Menu!WaitsForAScan' /\ QuietInv'
  BY DEF MenuInv, Menu!WaitsForAScan, QuietInv, Menu!ClosedIsQuiet, Menu!NoRank
<1> QED
  BY <1>1, <1>2, <1>3 DEF MenuInv

LEMMA MenuSteps == MenuInv /\ [FilesNext]_allVars => MenuInv'
<1> SUFFICES ASSUME MenuInv, [FilesNext]_allVars PROVE MenuInv'
  OBVIOUS
<1>1. CASE UNCHANGED menuVars
  BY <1>1, MenuStays DEF menuVars, MenuInv, MenuTyped
<1>2. CASE MenuNext
  <2>1. CASE Menu!WarmUp \/ Menu!ScanReads
    BY <2>1, ScanGoesOn
  <2>2. CASE Menu!ScanEnds
    BY <2>2, ScanEndsStep
  <2>3. CASE Menu!ScanFails
    BY <2>3, ScanFailsStep
  <2>4. CASE \E q \in Queries : Menu!Complete(q)
    BY <2>4, CompleteStep
  <2>5. CASE Menu!Ranked
    BY <2>5, RankedStep
  <2>6. CASE Menu!Pick \/ Menu!Escape \/ \E f \in Files : Menu!Select(f)
    BY <2>6, PickerStep
  <2>7. CASE Menu!Close \/ Menu!ScanUnwinds \/ Menu!RankUnwinds \/ Menu!PickUnwinds \/ Menu!Closed
    BY <2>7, CloseStep
  <2>8. CASE Menu!ChangeTree \/ Menu!Show
    <3>1. UNCHANGED <<open, cache, generation, last, request, pending, ranking, scan, picker>> /\ tree' \in SUBSET Files
      BY <2>8 DEF Menu!ChangeTree, Menu!Show, Menu!mentions, MenuInv, MenuTyped
    <3> QED
      BY <3>1, MenuStays
  <2> QED
    BY <1>2, <2>1, <2>2, <2>3, <2>4, <2>5, <2>6, <2>7, <2>8 DEF MenuNext
<1> QED
  BY <1>1, <1>2 DEF FilesNext, EditsNext, IndexNext, InEdits, InIndex, allVars

\* For any set of files, any queries and any number of scans, changes, keystrokes, pickers and
\* failures: what the menu may offer is the ranking of the snapshot there is, whoever waits for a
\* scan has one, and nothing is left when the owner has closed (FileMentions, the background owner).
THEOREM MenuHolds == FilesSpec => []MentionsSound
<1>1. FilesInit => MenuInv
  BY MenuStart DEF FilesInit
<1>2. MenuInv => MentionsSound
  BY DEF MenuInv, MatchInv, QuietInv, MentionsSound, Menu!MentionsSound
<1> QED
  BY <1>1, <1>2, MenuSteps, PTL DEF FilesSpec
=============================================================================
