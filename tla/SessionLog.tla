----------------------------- MODULE SessionLog -----------------------------
(***************************************************************************)
(* The session log: Session.save_snapshot, SnapshotWritePlan.execute,      *)
(* SessionSnapshotStore.plan / commit / load / read_merged.                *)
(*                                                                         *)
(* The loop mutates the live session at any time.  A save takes the        *)
(* session's gate, freezes a plan, and hands it to a worker thread; the    *)
(* worker opens the log (first save only), appends the record and then     *)
(* rewrites the `latest` pointer.  Only a worker that succeeded lets the   *)
(* loop install the captured markers; a cancelled saver still waits and    *)
(* still installs them.  Any file operation may fail, and the process may  *)
(* die at any point and be resumed from the log.                           *)
(*                                                                         *)
(* The append-only file is represented by what read_merged returns for it: *)
(* the replayed image, the set of blobs, and whether some line is torn.    *)
(***************************************************************************)
EXTENDS SnapshotCodec, FiniteSets

CONSTANTS
  Texts,        \* contents of source views; equal text is one blob
  MaxItems,     \* bound: messages, queued inputs and summaries ever created
  MaxViews,     \* bound: source view keys ever handed out
  MaxMishaps,   \* bound: crashes and failed file operations
  Faults        \* file operations that may fail in this environment

ASSUME SessionLogAssumption ==
  /\ MaxItems \in Nat /\ MaxViews \in Nat /\ MaxMishaps \in Nat
  /\ Faults \subseteq {"header", "append", "torn", "latest"}

VARIABLES
  alive,      \* the process is running
  live,       \* the live Session
  saved,      \* session._snapshot_saved: <<>> or <<marker>>
  written,    \* session._blobs_written
  worker,     \* where the write is: "idle" means the gate is free
  plan,       \* the frozen SnapshotWritePlan, or <<>>
  cancelled,  \* the awaiting saver was cancelled while its worker ran
  disk,       \* the log file
  nextItem, mishaps,  \* counters for the bounds
  durable,    \* history: images captured by the records that reached the log
  seenKeys    \* history: view keys any record on disk ever carried

vars == <<alive, live, saved, written, worker, plan, cancelled, disk,
          nextItem, mishaps, durable, seenKeys>>
sessionVars == <<live, nextItem>>
historyVars == <<durable, seenKeys>>

Resumed == 0                    \* the `resumed` session event message
EmptySession == [messages |-> <<>>, turn |-> <<>>, transcript |-> <<>>,
                 turnTranscript |-> <<>>, queue |-> <<>>, views |-> <<>>, counter |-> 0]
NoLog == [records |-> 0, image |-> EmptyImage, blobs |-> {}, torn |-> FALSE]

\* The persistable projection: the active turn is saved behind the committed messages.
Image(s) == [messages |-> s.messages \o s.turn, transcript |-> s.transcript,
             active |-> s.turnTranscript, queue |-> s.queue,
             views |-> s.views, counter |-> s.counter]

HasContent(img) ==
  \/ img.messages # <<>> \/ img.transcript # <<>> \/ img.active # <<>>
  \/ img.queue # <<>> \/ img.views # <<>>

ViewTexts(views) == {views[i].text : i \in DOMAIN views}
ViewKeys(views)  == {views[i].key : i \in DOMAIN views}
Largest(S) == IF S = {} THEN 0 ELSE CHOOSE n \in S : \A k \in S : k <= n

Init ==
  /\ alive = TRUE /\ live = EmptySession /\ saved = <<>> /\ written = {}
  /\ worker = "idle" /\ plan = <<>> /\ cancelled = FALSE /\ disk = NoLog
  /\ nextItem = 1 /\ mishaps = 0 /\ durable = <<>> /\ seenKeys = {}

-----------------------------------------------------------------------------
(***************************************************************************)
(* The live session, as the rest of the program mutates it.                *)
(***************************************************************************)
Mutates == /\ alive
           /\ UNCHANGED <<alive, saved, written, worker, plan, cancelled, disk,
                          mishaps, historyVars>>
Fresh == /\ nextItem <= MaxItems
         /\ nextItem' = nextItem + 1

\* Agent.checkpoint_turn installs a copy of the turn as it now stands: one message longer, or
\* rewritten because compaction summarised it.
Checkpoint ==
  /\ Mutates /\ Fresh
  /\ \E kept \in {live.turn, <<>>} :
       live' = [live EXCEPT !.turn = Append(kept, nextItem),
                            !.turnTranscript = Append(@, nextItem)]

\* Agent.finish_turn, and the failed or settled turn: the turn moves into the session.
CommitTurn ==
  /\ Mutates /\ live.turn # <<>>
  /\ live' = [live EXCEPT !.messages = @ \o live.turn, !.turn = <<>>,
                          !.transcript = @ \o live.turnTranscript, !.turnTranscript = <<>>]
  /\ UNCHANGED nextItem

\* Agent.settle_interrupted_turn on a turn nothing answered: it never happened.
RetractTurn ==
  /\ Mutates /\ live.turn # <<>>
  /\ live' = [live EXCEPT !.turn = <<>>, !.turnTranscript = <<>>]
  /\ UNCHANGED nextItem

\* What some elements of s leave behind when they are dropped, in the order they stood.
Subsequences(s) ==
  UNION {{[i \in 1..n |-> s[f[i]]] :
            f \in {g \in [1..n -> 1..Len(s)] : \A i, j \in 1..n : i < j => g[i] < g[j]}}
         : n \in 0..Len(s)}

\* ContextManager.apply_compaction: the head becomes one summary, unreferenced views are pruned.
Compact ==
  /\ Mutates /\ Fresh
  /\ \E n \in 1..Len(live.messages), views \in Subsequences(live.views) :
       live' = [live EXCEPT !.messages = <<nextItem>> \o From(@, n), !.views = views]

Enqueue ==
  /\ Mutates /\ Fresh
  /\ live' = [live EXCEPT !.queue = Append(@, nextItem)]

\* A claimed input acknowledged, or a queued one recalled into the editor.
Dequeue ==
  /\ Mutates
  /\ \E i \in DOMAIN live.queue :
       live' = [live EXCEPT !.queue = SubSeq(@, 1, i - 1) \o From(@, i)]
  /\ UNCHANGED nextItem

\* Session.register_source_drafts: a key is the next value of the counter.
RegisterView ==
  /\ Mutates /\ live.counter < MaxViews
  /\ \E t \in Texts :
       live' = [live EXCEPT !.counter = @ + 1,
                            !.views = Append(@, [key |-> live.counter + 1, text |-> t])]
  /\ UNCHANGED nextItem

-----------------------------------------------------------------------------
(***************************************************************************)
(* One save.  save_snapshot holds the gate from the plan to the commit.    *)
(***************************************************************************)
\* SessionSnapshotStore.plan: everything the worker needs, frozen on the loop.
PlanFor(img) ==
  LET record == IF saved = <<>> THEN Snapshot(img) ELSE Delta(img, saved[1])
      blobs  == ViewTexts(record.views.items) \ written
  IN [first |-> saved = <<>>, record |-> record, blobs |-> blobs,
      image |-> img, blobsAfter |-> written \cup blobs]

BeginSave ==
  /\ alive /\ worker = "idle"
  /\ saved # <<>> \/ HasContent(Image(live))
  /\ plan' = <<PlanFor(Image(live))>>
  /\ worker' = IF saved = <<>> THEN "header" ELSE "append"
  /\ UNCHANGED <<alive, sessionVars, saved, written, cancelled, disk, mishaps, historyVars>>

WorkerStep == UNCHANGED <<alive, sessionVars, saved, written, plan, cancelled>>

\* open(log, "w"): a first save starts the file over.
WriteHeader ==
  /\ worker = "header" /\ WorkerStep
  /\ disk' = NoLog
  /\ worker' = "append"
  /\ UNCHANGED <<mishaps, historyVars>>

\* Mutant: the worker reads the live session instead of the frozen plan.
AppendRecord_Live ==
  /\ worker = "append" /\ WorkerStep
  /\ disk' = [disk EXCEPT !.records = 1, !.image = Image(live), !.blobs = @ \cup plan[1].blobs]
  /\ worker' = "latest"
  /\ durable' = <<plan[1].image>>
  /\ seenKeys' = seenKeys \cup ViewKeys(plan[1].record.views.items)
  /\ UNCHANGED mishaps

\* The blob lines and then the record that references them.
AppendRecord ==
  /\ worker = "append" /\ WorkerStep
  /\ disk' = [disk EXCEPT
       !.records = 1,
       !.image = Merge(IF disk.records = 0 THEN EmptyImage ELSE @, plan[1].record),
       !.blobs = @ \cup plan[1].blobs]
  /\ worker' = "latest"
  /\ durable' = <<plan[1].image>>
  /\ UNCHANGED mishaps
  /\ seenKeys' = seenKeys \cup ViewKeys(plan[1].record.views.items)

\* The `latest` pointer of the project; the sidecar and the asset sweep swallow their errors.
WriteLatest ==
  /\ worker = "latest" /\ WorkerStep
  /\ worker' = "done"
  /\ UNCHANGED <<disk, mishaps, historyVars>>

\* A file operation raises.  Some of the bytes may already be in the file.
WriteFails ==
  /\ worker \in {"header", "append", "latest"} \cap Faults /\ WorkerStep
  /\ mishaps < MaxMishaps /\ mishaps' = mishaps + 1
  /\ \/ UNCHANGED disk
     \/ worker = "header" /\ disk' = NoLog
     \/ /\ worker = "append"
        /\ \E some \in SUBSET plan[1].blobs : disk' = [disk EXCEPT !.blobs = @ \cup some]
     \/ /\ worker = "append" /\ "torn" \in Faults
        /\ disk' = [disk EXCEPT !.torn = TRUE]
  /\ worker' = "failed"
  /\ UNCHANGED historyVars

\* Ctrl-C or shutdown cancels the task awaiting the worker; run_blocking keeps waiting.
CancelSave ==
  /\ alive /\ worker # "idle" /\ ~cancelled
  /\ cancelled' = TRUE
  /\ UNCHANGED <<alive, sessionVars, saved, written, worker, plan, disk, mishaps, historyVars>>

Release == /\ worker' = "idle" /\ plan' = <<>> /\ cancelled' = FALSE
           /\ UNCHANGED <<alive, sessionVars, disk, mishaps, historyVars>>

\* commit runs on the loop after a successful worker, cancelled or not, before the gate opens.
CommitSave ==
  /\ worker = "done"
  /\ saved' = <<Marker(plan[1].image)>>
  /\ written' = plan[1].blobsAfter
  /\ Release

\* Mutant: the blobs of a failed write count as written.
AbandonSave_MarksBlobs ==
  /\ worker = "failed"
  /\ written' = plan[1].blobsAfter
  /\ UNCHANGED saved
  /\ Release

\* Mutant: a cancelled saver unwinds without noticing that its worker failed.
AbandonSave_NotCancelled ==
  /\ worker = "failed" /\ ~cancelled
  /\ UNCHANGED <<saved, written>>
  /\ Release

\* The worker raised: the markers stay where they are.
AbandonSave ==
  /\ worker = "failed"
  /\ UNCHANGED <<saved, written>>
  /\ Release

-----------------------------------------------------------------------------
\* The process dies.  A write it was in the middle of leaves some of its whole lines, or, when
\* writes can tear, part of one.
Crash ==
  /\ alive /\ mishaps < MaxMishaps
  /\ \/ UNCHANGED disk
     \/ /\ worker = "append"
        /\ \E some \in SUBSET plan[1].blobs : disk' = [disk EXCEPT !.blobs = @ \cup some]
     \/ /\ worker = "append" /\ "torn" \in Faults
        /\ disk' = [disk EXCEPT !.torn = TRUE]
  /\ alive' = FALSE /\ live' = EmptySession /\ saved' = <<>> /\ written' = {}
  /\ worker' = "idle" /\ plan' = <<>> /\ cancelled' = FALSE
  /\ mishaps' = mishaps + 1
  /\ UNCHANGED <<nextItem, historyVars>>

\* SessionSnapshotStore.load: a view whose blob is missing is dropped, the active transcript is
\* folded into the committed one, and the marker keeps the on-disk boundary between the two.
\* Mutant: the next view key is derived from the views that survived.
SessionFrom_Survivors(img, views) ==
  [EmptySession EXCEPT
     !.messages = img.messages \o <<Resumed>>,
     !.transcript = img.transcript \o img.active,
     !.queue = img.queue, !.views = views,
     !.counter = Largest(ViewKeys(views))]

SessionFrom(img, views) ==
  [EmptySession EXCEPT
     !.messages = img.messages \o <<Resumed>>,
     !.transcript = img.transcript \o img.active,
     !.queue = img.queue, !.views = views,
     !.counter = Largest({img.counter} \cup ViewKeys(views))]

\* source_views drops a view whose blob is missing; when none is, the views are what the log holds.
Readable(views, blobs) ==
  IF ViewTexts(views) \subseteq blobs THEN views
  ELSE SelectSeq(views, LAMBDA v : v.text \in blobs)

Load ==
  /\ ~alive /\ disk.records > 0 /\ ~disk.torn
  /\ LET views == Readable(disk.image.views, disk.blobs)
     IN /\ live' = SessionFrom(disk.image, views)
        /\ saved' = <<Marker([disk.image EXCEPT !.views = views])>>
  /\ written' = disk.blobs
  /\ alive' = TRUE
  /\ UNCHANGED <<worker, plan, cancelled, disk, nextItem, mishaps, historyVars>>

Mutation == \/ Checkpoint \/ CommitTurn \/ RetractTurn \/ Compact
            \/ Enqueue \/ Dequeue \/ RegisterView
Worker   == WriteHeader \/ AppendRecord \/ WriteLatest \/ WriteFails
Next     == \/ Mutation \/ BeginSave \/ Worker \/ CancelSave
            \/ CommitSave \/ AbandonSave \/ Crash \/ Load

Spec == Init /\ [][Next]_vars

\* A worker thread runs to its end and the loop resumes the coroutine awaiting it.
FairSpec == Spec /\ WF_vars(Worker) /\ WF_vars(CommitSave) /\ WF_vars(AbandonSave)

-----------------------------------------------------------------------------
(***************************************************************************)
(* Properties.                                                             *)
(***************************************************************************)
Items == 0..MaxItems
Views == [key : 1..MaxViews, text : Texts]
Sessions == [messages : Seq(Items), turn : Seq(Items), transcript : Seq(Items),
             turnTranscript : Seq(Items), queue : Seq(Items), views : Seq(Views),
             counter : 0..MaxViews]
Images == [messages : Seq(Items), transcript : Seq(Items), active : Seq(Items),
           queue : Seq(Items), views : Seq(Views), counter : 0..MaxViews]
Markers == [messages : Seq(Items), transcriptLen : Nat, transcriptEnd : Seq(Items),
            active : Seq(Items), queue : Seq(Items), viewKeys : Seq(1..MaxViews)]
Field(S) == [replace : BOOLEAN, items : Seq(S)]
Records == [messages : Field(Items), transcript : Field(Items), active : Field(Items),
            queue : Field(Items), views : Field(Views), counter : 0..MaxViews]
Plans == [first : BOOLEAN, record : Records, blobs : SUBSET Texts, image : Images,
          blobsAfter : SUBSET Texts]

\* Every variable holds a value of its kind.
TypeOK ==
  /\ alive \in BOOLEAN
  /\ live \in Sessions
  /\ saved \in Seq(Markers) /\ Len(saved) <= 1
  /\ written \in SUBSET Texts
  /\ worker \in {"idle", "header", "append", "latest", "done", "failed"}
  /\ plan \in Seq(Plans) /\ Len(plan) = IF worker = "idle" THEN 0 ELSE 1
  /\ cancelled \in BOOLEAN
  /\ disk \in [records : {0, 1}, image : Images, blobs : SUBSET Texts, torn : BOOLEAN]
  /\ nextItem \in 1..(MaxItems + 1)
  /\ mishaps \in 0..MaxMishaps
  /\ durable \in Seq(Images) /\ Len(durable) <= 1
  /\ seenKeys \in SUBSET (1..MaxViews)

\* Replaying the log gives back exactly the session captured by the last record written to it:
\* whatever mixture of appends, rewrites, compactions and failed or cancelled saves came before,
\* no delta skips a change and none is applied twice (codec.py delta and merge).
ReplayIsExact == disk.records > 0 => durable = <<disk.image>>

\* While no record is between the file and the commit, the markers describe what is on disk:
\* the base the next delta is computed against is the base it will be replayed onto.
MarkerIsOnDisk ==
  saved # <<>> /\ worker \notin {"latest", "done"} =>
     disk.records > 0 /\ saved = <<Marker(disk.image)>>

\* A view on disk never references a blob the log does not hold, although blobs are written once
\* and a failed or crashed save may have written some of them without their record.
BlobsResolve == ViewTexts(disk.image.views) \subseteq disk.blobs

\* No item is in the visible transcript twice, on disk or in memory: the active turn is folded in
\* exactly once, after a crash as after completion.
Once(s) == \A i, j \in DOMAIN s : s[i] = s[j] => i = j
FoldedOnce ==
  /\ Once(disk.image.transcript \o disk.image.active)
  /\ Once(live.transcript \o live.turnTranscript)

\* A view key that ever reached the disk is never handed out again, even when compaction pruned
\* the view before the restart: an expired public id must not name different evidence.
KeysNeverReused == alive => \A k \in seenKeys : k <= live.counter

\* The promise: saves are atomic and a resumed session is the last saved one.
Promise == INSTANCE DurableSession WITH
  current <- Image(live),
  capture <- IF plan = <<>> THEN <<>> ELSE <<plan[1].image>>,
  durable <- IF disk.records = 0 THEN <<>> ELSE <<disk.image>>,
  up <- alive,
  Reopened <- LAMBDA img : Image(SessionFrom(img, img.views))
SavesAreAtomic == Promise!Spec

\* Every save gives the gate back: a failed or cancelled one cannot wedge the session's later ones.
GateReleased == worker # "idle" ~> worker = "idle"

\* Nothing that can happen to a process leaves its saved session unreadable.
AlwaysLoadable == disk.records > 0 => ~disk.torn

\* Between two saves the log, its markers and its blobs tell one story.
LogConsistent == TypeOK /\ MarkerIsOnDisk /\ BlobsResolve

\* A resume repeats no turn and gives no expired key to a second text.
ResumeFaithful == FoldedOnce /\ KeysNeverReused
=============================================================================
