# Verification of minacode (wizolt)

TLA+ models of the parts of `src/wizolt` where the order of events matters, the TLC runs that check
them on small instances, and TLAPS proofs of what matters most for every size.  Paths below are
relative to `src/wizolt` unless they start with `src/`.

* [The system](#the-system)
* [What is hard](#what-is-hard)
* [The modules](#the-modules)
* [The runs](#the-runs)
* [Fairness](#fairness)
* [What is proved](#what-is-proved)
* [Known disagreements](#known-disagreements)
* [Not modelled](#not-modelled)
* [Plan](#plan)

Everything runs from this directory: `tlc -config SessionLog.cfg SessionLog`, `tlapm SessionLogProofs.tla`.

## The system

minacode is a terminal coding agent: one process, one asyncio event loop, worker threads for blocking
work.  A user types; inputs become turns; a turn is a loop of model requests and tool batches; the
session is saved to an append-only log all along.

| part | code | state it keeps | operations |
|---|---|---|---|
| Session persistence | `session/store.py`, `session/codec.py`, `Session.save_snapshot` | the log file, its blobs and sidecar, the `latest` pointer; in memory the snapshot marker and the blobs written | plan, write, commit, load, clean expired |
| Assets | `image.py`, `session/images.py`, `tools/tooloutput.py` | `<session>.assets/`: images by content, long tool output by key | admit, view, materialise, sweep |
| Input and follow-ups | `cli/runtime.py`, `session/queue.py` | the submission FIFO, `pending`, the persisted queue with claims, flags `turn_active`, `cancel_pending`, `shutdown` | submit, recall, resend, interrupt, boundary, shut down |
| Turn engine | `engine.py`, `model/history.py` | `turn_messages`, the active-turn checkpoint, the claimed inputs, the step | prepare, request, accept, correct, run tools, commit, fail, settle, retract |
| Tool batch runner | `runner.py` | the batch, its segments, the edit plan, the refusal, the capacity, the gateway of nested calls | run, confirm, execute, publish, cancel, close |
| ToolScript | `tools/toolscript.py` | a thread, its cancellation token and budget | start, call, end |
| Model client | `model/client.py`, `model/resilience.py` and the wire formats | the attempt in flight, its lease and claim, the retry schedule | request, attempt, claim, retry, close |
| Context and compaction | `context.py`, `compaction.py` | the projection of history, source views, summaries | project, choose a split, summarise, apply |
| Edits and files | `tools/editplan.py`, `tools/files.py`, `source/` | staged file texts of one segment | plan, conflict, write |
| Shell and jobs | `tools/shell.py`, `session/jobs.py` | background processes, their buffers and readers | start, read, signal, reap |
| Delegate | `tools/delegate.py`, `cli/worker.py` | a worker process and its reports | start, report, finish, cancel |
| MCP | `mcp/` | a connection per server, tokens, tool lists | connect, refresh, call, close |
| Terminal | `tui/`, `cli/loop.py`, `cli/view.py`, `cli/modals.py`, `render.py` | the mode of the input, overlays, scrollback | accept, render, open and close a modal |
| Commands, start-up, catalogue | `cli/commands.py`, `config.py`, `providers/` | configuration, tables of models | parse, dispatch, refresh |
| Search, memory, mentions, skills | `tools/search.py`, `tools/memory.py`, `mentions.py`, `skill.py` | none across calls | read and format |

They meet in few places:

* The **session** is shared by all.  Everything on the loop may change it; only `save_snapshot` reads it
  for the disk, under the session's gate, and a worker thread gets a frozen plan.
* The **submission consumer** and the **input loop** are two coroutines.  The first admits what was
  typed and saves; the second runs one task at a time.  They share `pending`, the persisted queue and
  the flag `turn_active`; the *boundary* job is how a turn's end is ordered after what was typed in it.
* The **engine** claims queued follow-ups for a request, and acknowledges or releases them when the
  request is answered, fails or is cancelled.
* The **runner** is called by the engine and returns one message per call; a script's thread calls
  back into it through the gateway.
* Ctrl-C and shutdown are `Task.cancel`, delivered at whatever await the turn has reached.

What makes each part correct:

* persistence: replaying the log gives the session captured by the last record, whatever failed or died;
* assets: what the conversation names exists, and what nothing names goes away;
* inputs: each is answered once, or returned, or visibly cancelled; nothing is stranded; the prompt and
  the shutdown always come;
* turn: history is always one a provider accepts, and what it has seen is never rewritten;
* runner: results match calls, writes are alone, plans are fresh, nothing outlives the batch;
* client: an attempt that was claimed or cancelled publishes nothing; retries are bounded;
* compaction: what is evicted is captured once and stays recallable, exchanges stay whole, nothing is
  compacted twice for nothing;
* edits: an edit lands on the lines the model was shown, and never on a file that has changed since;
* shell: no process is left unattended, no output is lost when its reader changes, every call returns;
* MCP: one operation per server, a login one at a time, no catalogue of a server that was disconnected;
* wires: text reaches the transcript whole and once; a request is one the provider accepts and extends
  the one before;
* terminal: one owner of the row and one of the modal, no prompt or draft lost, an exit ends every task;
* catalogue, index, menu: what is shown is not older than what was known, and a gate that was shut opens.

## What is hard

`PROJECT.json` lists each hazard at its line.  They are of four kinds here.

1. *Awaits.*  State read before an await and used after it: the marker of a save, the references a
   sweep keeps, the flag a Ctrl-C left, the claim of a request, the plan of an edit.
2. *Cancellation everywhere*, and twice: a worker thread cannot be cancelled, so each await that covers
   one must keep waiting, and a second Ctrl-C interrupts the waiting.
3. *Death and failure between two file operations.*
4. *Protocol of the provider.*  A tool call without a result, or a rewritten prefix, makes a provider
   refuse the rest of the session.

## The modules

### `SnapshotCodec`, `SessionLog`, `DurableSession`: the log

`SnapshotCodec` holds the pure functions of `session/codec.py`: `Marker`, the four ways of making a
delta (`SequenceDelta` by prefix digest, `AppendOnlyDelta` by length and tail, `ValueDelta`,
`KeyedDelta`), `Snapshot`, `Delta` and `Merge`.  One field of an image stands for all the fields the
codec encodes in the same way (the header lists them); a digest is the value it was made from.

`SessionLog` puts them to work.  The program mutates `live` (`Checkpoint`, `CommitTurn`, `RetractTurn`,
`Compact`, `Enqueue`, `Dequeue`, `RegisterView`) at any time; a save is `BeginSave` (the gate, the
frozen plan), the worker's `WriteHeader`, `AppendRecord`, `WriteLatest` or `WriteFails`, and the loop's
`CommitSave` or `AbandonSave`.  `CancelSave` may come at any point and changes nothing but a flag,
which is what `run_blocking` is for.  `Crash` and `Load` are the end of a process and its resume; a
crash may leave any of the blob lines of an unfinished append.  The append-only file is represented by
what `read_merged` makes of it: the image, the blobs, whether a line is torn.

`DurableSession` is the promise, with no record or marker in sight: a save replaces the durable
session atomically by the one that was current when it began, and a resume gives it back.  `SessionLog`
implements it under a refinement mapping (`SavesAreAtomic`).

| definition | code |
|---|---|
| `live`, `Image` | `Session`, `SessionSnapshotCodec.encode` |
| `saved`, `written` | `_snapshot_saved`, `_blobs_written` |
| `plan`, `PlanFor` | `SnapshotWritePlan`, `SessionSnapshotStore.plan` |
| `worker` | the place in `SnapshotWritePlan.execute` |
| `CommitSave` | `SessionSnapshotStore.commit` |
| `Load`, `SessionFrom` | `SessionSnapshotStore.load` |
| `durable`, `seenKeys` | history variables, no code |

### `AssetStore`: the assets directory

Images reach the directory when a draft is admitted or a tool views a file, and reach a persisted
place later; tool output is written when a result is truncated.  Every save plans a set of references
and then sweeps the directory entry by entry (`BeginSweep`, `Visit`, `EndSweep`), while the loop goes
on storing and moving assets.  A sweep may end after any entry, because an `OSError` ends the scan where it is and
the save completes all the same (`session/store.py:124`); so nothing is promised of what a sweep leaves behind.
`raced` is a history variable: the assets a save was not told to keep, because they were held by something no
plan can see when it began or were stored while it was under way.  `AssetsKept` is that a sweep takes nothing
else of what is named; that it does take some of these is the race listed below.

### `FollowUps`: from the keyboard to history

The largest module.  Inputs are numbered as typed and move through `submissions`, `consumer`,
`pending`, `queue`, `current`, `turn` and `history`, or out into `editor` or `retracted`.  Its actors
are the user, the submission consumer, the input loop, the turn task, the agent and the shutdown; each
action is what runs on the loop between two awaits.  A save is the pair of its capture and its landing.
A *world* (`MCFollowUps`) chooses what may happen in it: what each of the inputs typed may be (with `"image"` an
admission can be refused, and refused again when its turn has come), how often a request may be retried or sent
again, and whether saves fail.  `Mild` has texts and commands and saves that land; `Refusing` an image between two
texts; `Rough` everything, with fewer inputs.

In every world a request is awaited in four places: while it is prepared, while its attempt is in flight, when the
attempt is done and the engine has not taken it up (`"over"`), and between two attempts.  Only in the second can a
recall or `/resend` pull it back (`Claimed`, `model/client.py:191`).  What is recalled in the other three is in the
editor and goes out as well: the history variable `late` holds it, and `DeliveredOnce` allows it and nothing else.

| definition | code |
|---|---|
| `Submit`, `Recall`, `Resend`, `Interrupt`, `Exit`, `ForceExit` | `TuiApp._accept`, `recall_pending_input`, `retry_active_request`, `cancel_turn`, `request_exit`, `force_exit` |
| `Take`, `Admitted`, `Refused`, `SaveDone`, `SaveRaises` | `_consume_submissions`, `_enqueue_submission`, `_finish_turn_boundary` |
| `NextInput` to `LoopBack` | `run_agent_loop`, `run_agent_turn` |
| `Prepare`, `Retry`, `Answer...`, `ModelFails`, `Cancelled` | `Agent._run_turn` as far as inputs go, `Session.claim/acknowledge/release` |
| `Claimed`, `Send`, `AttemptEnds`, `Backoff` | `ModelClient.retry_active_request`, `request`, `_attempt_request` |
| `BeginShutdown` to `Close` | `_shutdown`, `_close_submissions` |

### `Turn`: one turn as a transaction

`turn` is `turn_messages`, `active` the checkpoint a save can see, `messages` history.  The provider
answers with a final message, a tool batch, a pause, markup to be corrected, nothing or an error; the
batch's calls finish in any order; the user queues follow-ups and cancels at any await.  `Fail`,
`Cancelled`, `CancelledOpening` and `Finish` are the four ways out.  `Settled` is
`settle_unanswered_tool_calls`: every call without a result gets one that says why; it is written with
`Picked`, `UpTo` and `Nth`, which take and count the open places of a list, so that it can be reasoned about
without recursion.

### `ToolRunner`: one batch of calls

`calls` is every batch of at most three calls of nine kinds, chosen by what the runner does
differently for them: bounded reads, native reads, remote reads, edits, questions, commands, images,
scripts, and provider builtins.  `at` is the await the coroutine of `run` has reached; `work` the
task of each call; the script's thread and the gateway have variables of their own because they run
beside it.  A cancellation is `CancelWait`, `CancelWork`, `CancelScript` or `CancelAgain`, by what it
interrupts; the last two lead through `_NestedGateway.close`, the second cancellation of which leaves
by `executor.shutdown(wait=True)`, during which the loop itself stands still (`LoopRuns`).

### `ModelRequest`: one answer of the model

`at` is what the engine's coroutine awaits; `child` the attempt's task, which runs, closes its client
and is done before the engine looks at it.  `Resend` claims the attempt and schedules its cancellation
(`posted`), which `Delivered` brings to the task at some later time; `CancelTurn` is the other
cancellation, which `Unwind` passes on to the attempt.  What the engine does with an attempt that is
done is one action for each case of `_attempt_request`, `request` and the request loop: `Cancelled`,
`Again`, `Accept`, `Backoff`, `GiveUp`, and `Learn` for the one fallback when images are refused.
`Claim`, `Observed` and `Projected` are `prepare_request`, `Converted` the fallback's description.

| definition | code |
|---|---|
| `attempts`, `child`, `claimed` | `_attempt`, `_attempt_claimed` of `ModelClient` |
| `tries`, `count`, `manual`, `started`, `waiting` | the local `attempt` and the fields of `AgentState` the status line shows |
| `textOnly` | `ImageRoute.is_text_only` |
| `live`, `draft`, `request` | `turn_messages`, the request under preparation, `failed_request`; of each only which images are raw |
| `converted` | the inner loop after `_image_fallback_request` |
| `posted` | callbacks on the loop |
| `resent`, `accepted`, `observed` | history variables, no code |

An image of the turn stands for the opening attachment or a `ViewImage` observation, both of which are
in the live turn; a queued one only enters it when its request is accepted or fails.  Closing the
client of the whole session is, to an attempt, one more cancellation, and is not an action of its own.

### `Jobs`: Bash and background jobs

`proc` is each command's process group with its pipe and whoever reads it, `jobs` the table of the
session.  `StartBash`, `Finish`, `Promote`, `ShellTimeout`, `CancelBash` are a foreground command;
`StartJob`, `WaitJob`, `KillJob`, `ListJobs` the Job tool; `Term`, `Grace`, `KillUpdate`, `Unlink`, `Join` the
kill sequence on its worker thread; `ReadReady` and `Drain` the event loop's reader and the drainer
thread that takes the pipe over at a promotion.  A character is two bytes, so that a reader can change in the
middle of one.

### `Compaction`: what stays in the context

`Measure`, `HistoryPass` and `TurnPass` decide when a pass over history or the turn starts and where it cuts;
`BadReply`, `Summarised`, `Trimmed` and `CancelledPass` are how its summary's request ends, with the correction
and the fallback; `Apply` is what is evicted into a segment.  `/compact`,
interruptions and a request whose follow-ups are withdrawn (`Drops`) interleave with it.  A message is
its number; the text of a summary is the set of result keys it names.

### `Memory`: what a session remembers beside its messages

`store_history_segment`, `RecallContext` (list by pages, get, search), `Recall`, `Note` and `NextHints`, with
compaction storing and dropping segments between two pages.

### `Streams` and `Replay`: the three wires

`Streams` is a response on its way in: the readers of the three wires, the early promotion of finished text, the
one-shot marker that keeps the engine from printing it again, a stream that breaks and is retried, and the
reassembly of Chat tool calls from deltas that may not say whose they are (`Habits`).  `Replay` is the
history on its way out: one normalized history projected for whichever provider is in use, which may not be the
one that wrote it.

### `Settings` and `Delegate`: providers and the worker

`Settings` has the switches of a session (`/provider`, `/model`, `/reason`, `/api`, `/worker`), the overrides
a resume restores and the live worker they rewrite.  `Delegate` is the worker session: spawned or
restored, sent orders, its file changes merged into the parent's, reset in a transaction of several steps
any of which may fail, and the process killed in between.

### `EditPlan`: editing one file

`views` are the numbered snapshots Read mints, `Relocate` the bounded exact search for a target that moved;
`Snapshot`, `PlanCreate`, `PlanView` and `PlanDirect` are `EditBatchPlan.build`, which resolves a batch before any
of it writes, `Check` and `Write` the two halves of applying a call.  A line is a text and an identity; the
program sees the text only, and a property may ask for the identity.  `OtherWrites` is another program.

### `Index` and `Mentions`: the tree

`Index` has the three coroutines that work on the symbol index (`/index`, the update after an Edit, the
check after a turn), each suspended while a thread runs the library, and the five fields of the session
they publish to.  `Mentions` has the shared scan of the tree, the ranking behind a keystroke, the picker,
and the background owner that admits and settles them.

### `Catalog`: the provider catalogue between processes

`Probe`, `Ask`, `Commit`, `Write` are the steps of a fetch under the cross-process lock; `Begin` and `BeginSync`
the background refresh and `/catalog sync`; `Publish`, `LoseCache` and `Kill` the world.  A document is its
version and its content; an ETag is the document it belongs to.

### `Mcp`: the MCP manager

An operation (start-up discovery, `/mcp connect`, the modal's toggle, `/mcp disconnect`, a mention, a call)
runs one flow per server; a flow is at one of the awaits of `mcp/manager.py`.  The OAuth library is
external: what it is asked and what it may answer.

### `Terminal` and `Scrollback`: the screen

`Terminal` has the one input row, the one modal and the tasks that compete for them: a turn with its
approvals and its Ask pages, the tool-output browser, a command's viewer; the editor and fzf; the exit
keys.  A command that was dispatched is awaited inline by the input loop and is not cancelled by the shutdown; a turn,
the browser and a background command are tasks and are (`CancelTask`).  `Scrollback` has the two ways a line takes to the screen above, the writer's queue with its barriers
and the batching window with its timer.

### Hosts

A run costs a start of TLC and the number of runs is kept small, so modules that share nothing are checked in one
run: a behaviour of a host is a behaviour of one of them, chosen at `Init`, and the others stay as they
are.  The host names their properties for its configuration.  `MCWorker` has no configuration: it is what `MCModel`
and the theorems about `Settings` and `Delegate` share.

| host | extends | instances |
|---|---|---|
| `MCWorker` | - | `Settings`, `Delegate` |
| `MCModel` | `MCWorker` | `Streams`, `Compaction`, `Replay` |
| `MCStores` | `Catalog` | `AssetStore`, `Memory` |
| `MCFiles` | `Index` | `EditPlan`, `Mentions` |
| `MCTerminal` | - | `Terminal`, `Scrollback` |
| `MCFollowUps` | `FollowUps` | (the worlds of its configurations) |

### Proof modules

`SessionLogProofs` (with the codec), `FollowUpsProofs`, `ModelAndTerminalProofs`, `ToolRunnerProofs`,
`StoresProofs`, `FilesProofs`, `TurnProofs` and `McpAndWorkerProofs`; see [What is proved](#what-is-proved).

The definitions named `X_Something` and commented `Mutant:` are changed forms of `X`, each with a
plausible bug.  They are used by nothing; they are what a property is tried against.

## The runs

| run | bounds | shows |
|---|---|---|
| `session_log` | 1 text, 2 items, 2 views, 2 mishaps; the first open and the append may fail | replay is exact, the marker and the blobs are what is on disk, no message is folded twice and no key reused, saves are atomic, the gate is released |
| `stores` | 2 images and 2 results, 2 assets at a time; 2 processes, 2 versions, 2 starts, 2 fetches, 1 mishap; a window of 2 segments of 4, 2 facts, 3 inputs | a sweep takes nothing that is named but what raced with its save; the cache never goes back and the policy moves only by `/catalog sync`; a walk misses nothing that is left and a refused update changes nothing |
| `follow_ups` | 3 inputs in the mild world and in the one that refuses images, 2 in the rough one; 2 steps; in the rough one 1 retry and 1 resend | none lost, none delivered twice or after it was cancelled or recalled in time, none stranded, the prompt returns; every input settles and every shutdown ends |
| `turn` | 1 turn of 2 steps, 2 calls, 1 correction, 1 follow-up, a slow opening save | history is legal, what was sent stays sent, the turn ends |
| `model_request` | 1 retry, 2 resends, 2 cancellations, with and without images in route and `[vision]` | only a wanted attempt answers, none outlives its turn, every send is counted, a description is made once and kept, the request ends |
| `tool_runner` | every batch of 1 to 3 calls of nine kinds, 2 workers, 1 nested request, 2 cancellations | results, exclusion, fresh plans, capacity, quiescence, refusal; a cancelled batch ends |
| `jobs` | 2 commands, one of which writes 3 bytes and forks; 1 background job; a buffer of 1 character | nothing unattended, no kill half done, no output lost or torn at a hand-over, every call returns |
| `mcp` | 2 servers, one automatic and with an old login that expires; 2 operations, 2 workers | one login at a time, discovery accounted for, a catalogue or an issue and never both, a token with its client; nothing opened after a close |
| `model` | 2 requests, 1 broken stream; 7 messages of which 2 large, budget 8; 6 replayed messages, 5 providers; 3 switches; 3 delegations, 3 edits, 2 mishaps | text whole and once; exchanges whole and captured once, results recallable up to the cap; requests each wire accepts; what is in use is what a resume restores; edits merged once and a reset remembered |
| `files` | a file of 2 lines and 2 texts, 2 views, 1 foreign change, 2 edits, drift 1; 2 indexed files, 2 writes, 1 command, 1 cancellation, 1 error; 2 files, 3 keystrokes, 2 scans, 1 picker, 1 failed scan | edits land on the lines shown; one writer of the index and no gate or status left; the newest query is answered |
| `terminal` | 2 tasks at a time, 3 steps; 3 lines, 1 barrier, 1 refused write | no prompt stranded, no draft lost, one owner of the modal; a barrier holds, no line lost or twice |
| `stale_marker` | the streams of `model` | violated: `NeverSuppressed`, the first of the disagreements below |

Why the bounds are enough:

* *Session log.*  A delta is computed from one marker and one image, and is wrong, if it is, after at
  most one save that went wrong in between; with two mishaps the second save may fail or die too.  `records`
  is 0 or 1 because only "none yet" is told apart.  The proofs remove these bounds.
* *Assets.*  A reference is missed or kept by itself; the second asset is there so that a sweep has one
  entry to keep and one to remove, in either order, or one to remove and one that is stored meanwhile.
* *Follow-ups.*  One input is the task, one is claimed by the request in flight, and one is typed
  between any two steps of the other two; of three, one is refused and one waits behind it.  One resend and one retry reach the two ways a request goes out
  again; two steps reach a checkpoint between two requests.  The proofs remove these bounds for safety.
* *Turn.*  Two calls give a message of which one call is answered and one is not; two steps give a
  batch behind a batch; one correction makes the second markup answer the one too many.  A second turn
  starts from the same state as the first but for `messages`, to which turns only append.  The proof removes
  these bounds for safety.
* *Tool runner.*  Three calls are the shortest batch with something before, in and after a segment, and
  a capacity of two the smallest with which reads run together while one waits.  The second
  cancellation is the one that interrupts the unwinding of the first; a third finds no await that the
  second has not left.  The proof removes the number of calls, the capacity and the number of cancellations.
* *Model request.*  The second resend claims the attempt the first one led to, while the cancellation of
  the first may still be on its way; one retry tells the budget from its end; the second cancellation
  interrupts the unwinding.  The proofs remove these bounds for safety.
* *Jobs.*  Three bytes are a whole character and half of another, so that a hand-over can cut one; the second
  command is the one that meets the cap on jobs.
* *MCP.*  Two operations are one in flight and one that meets it; the discovery is one of them.  With one
  automatic server an abandoned discovery has no flow left that could go on beside the next operation; the proofs
  remove this bound and the others.
* *Catalogue, index.*  Two processes are a winner and a loser of a commit; one coroutine of each kind
  is all there is in the code, and two writes are one seen and one missed by a thread.  The proofs
  remove these bounds.
* *Context.*  The session retains 400 tool results; `MaxRecords` is 2 in the run, so that the third result drops the
  oldest (`store_tool_result`, `session/__init__.py:465-467`) while a message of the context may still name it.
  `ResultsRecallable` therefore says of a result the context names that it can be recalled until 400 newer ones have
  taken its place: the cap is the only thing that removes it, no pass does.
* *Streams, context, wires, settings, delegate.*  Two requests are the one that leaves a marker and the
  one that meets it; seven messages are an evicted exchange, a kept one and a turn with its call and result;
  two mishaps are a reset that stops half-way and one during its retry.
* *Files.*  Two lines and a drift of one are the least for which a target moves and for which two lines say the
  same; two edits are a plan whose second call must count the first.
* *Terminal.*  Two tasks are the owner and the one that waits; three disagree, see below.  Three lines are
  one in the window, one in the writer's queue and one being printed.  The proofs remove the bounds on steps, lines,
  barriers and refused writes.

`CHECK_DEADLOCK FALSE` is set in every configuration because every modelled thing ends: a turn, a
request, a batch or an application that returned has nothing to do, a process that died before its first record has
nothing to resume, and stores are at rest once the bounds of their work are used up.  What must not stop in
between is said by the liveness properties.  `stores` uses symmetry over processes, images and
results; its two temporal properties are action properties, for which that is sound.

## Fairness

* A worker thread ends, and the loop resumes the coroutine that awaits it (`WF_vars(Worker)`,
  `CommitSave`, `AbandonSave`): file operations return or raise.
* Each coroutine whose await is over is resumed (`Progress` in `Turn`; `Segments`, `Children`, `Gateway`'s steps in
  `ToolRunner`): asyncio runs its ready queue in order.  `FollowUps` assumes less, that the loop as a whole does
  not stop while one of its coroutines (`Consumer`, `RunLoop`, `TurnTask`, `Agent`, `Shutdown`) can go on.
* The provider and the tools answer.  Response deadlines (`model/client.py:298`) and tool timeouts bound
  them; after a cancellation the runner keeps waiting for work that cannot be interrupted, and the
  model says so: `Stopped` needs `Busy = {}`.  In `Turn` the answer is strongly fair (`Answers`): a resend
  disables it for a moment, and the user is assumed not to resend one request for ever.
* An attempt ends (`Child` in `ModelRequest`): the provider answers or the deadline of
  `model/client.py:301` does; scheduled callbacks run (`Delivered`).  With a deadline of 0 the user has
  asked for no such promise.
* A script's thread ends (`WF_vars(ScriptEnds)`): its time budget counts traced lines and the token
  stops the next of them.
* In `Jobs` the clock, the loop, the kill thread and the drainer go on; no command is obliged to write, to
  close its output or to exit.
* In `Mentions` a scan reads and ends, a ranking ends, and its callback runs.  In `Terminal` a task whose await is
  over is resumed, and so is the application's shutdown; this serves the disagreement `ExitCompletes` only.
* The user owes nothing: no fairness on `Submit`, `Recall`, `Interrupt`, a key, or on the answer to a
  confirmation.  `CancelEnds` therefore says that a batch ends although its question is never answered.

## What is proved

Each theorem holds for every value of the constants that its premise and the module's `ASSUME` admit; so the
bounds on requests, retries, crashes and the like are gone.  The runs check the properties of the second
column on small instances.

| theorem | property | of |
|---|---|---|
| `SnapshotIsWhole`, `DeltaIsExact` | | the codec, for any two images |
| `LogIsSound`, `TypesHold`, `ReplayHolds`, `MarkerHolds`, `BlobsHold`, `ConsistentHolds` | `ReplayIsExact`, `LogConsistent` | the log |
| `ResumeHolds` | `ResumeFaithful` | no message twice and no key reused |
| `AtomicHolds` | `SavesAreAtomic` | the log implements `DurableSession` |
| `InputsInvariant`, `InputsNeverLost` | | where an input can be; in any world none is lost |
| `MildInputsStay` | `MildInputsKept` | none is lost, or stranded while saves land and no image is refused |
| `DeliveriesHold` | `DeliveredOnce` | none is delivered twice, after a cancellation, or after a recall in time |
| `AnswerHolds`, `EndHolds`, `CancelHolds`, `ResendHolds`, `SendsHold`, `AccountedHolds` | `AttemptsAccounted` | the model's attempts |
| `MoreHolds`, `DescriptionsHold` | `DescriptionsKept` | the images of a request, and its types |
| `BatchRuns`, `AloneHolds`, `BatchHolds` | `WritesAlone`, `BatchSound` | a batch of tool calls |
| `TurnRuns`, `TurnHolds` | `TurnSound` | a turn, its history and its requests |
| `AnswersHold`, `ForwardHolds` | `CatalogSound`, `CatalogForward` | the catalogue between processes |
| `AssetsHold` | (`AssetsKept` is a part of `SessionKept`) | the assets and what a sweep takes |
| `GatesHold`, `IndexHolds` | `IndexSound` | the symbol index |
| `MenuHolds` | `MentionsSound` | the mentions, their menu and picker |
| `InvHolds`, `ServersHold` | `ServersSound` | MCP: the logins, the status line, the records |
| `OpensHold` | `OpensAdmitted` | MCP: what a step may open |
| `SwitchesHold` | `SwitchesKept` | the switches, the overrides and the resume |
| `DelegationHolds` | `DelegationSound` | the worker, its diffs and its reset |
| `ScrollbackHolds` | `ScrollbackSound` | the lines above the application |
| `TerminalHolds` | `TerminalSound` | the input row and the modal |

The premises, and why they are there:

* `"latest" \notin Faults` (all of `SessionLogProofs`): the `latest` pointer can be written.  Otherwise
  `ReplayIsExact` is false, see below.
* `Identified = {TRUE}` (`TurnProofs`): the provider names its calls.  Otherwise `HistoryIsLegal` is false.
* `MaxVersion >= 2` (the theorems of the catalogue): the model has a version to publish after the first.
* `~Crowded` (`TerminalHolds`): of the turn, the browser and a command at most two want the row or the modal at
  once.  Otherwise `ModalsExclusive` is false, see below; this is the world of the run too.
* `Graded` (`SwitchesHold`): the efforts on a model's scale are among those of `effort_order`.  Otherwise
  `SwitchesKept` is false, see below.  The bundled catalogue is graded, and so is the one of the run.
* `Roomy`, that is `MaxEdits <= DiffCap` (`DelegationHolds`): a session makes no more edits than its list of diffs
  holds, 100 in the code.  Otherwise `DelegationSound` is false, see below; this is the world of the run too.
* `"none" \notin Files` (`MenuHolds`): no file is called as the model calls the absence of one.

The theorems about the inputs and the assets have no premise.  `MildInputsKept` itself asks a world to be mild for the
part that nothing is stranded: behind a refused image it is false, see below.

### `SessionLogProofs`

* `SnapshotIsWhole`: the first record of a log replays to the image it was made from;
* `DeltaIsExact`: for any two images that `Agree` (transcripts that extend one another, view keys that
  name one view), merging the delta against the marker of the first into the first gives the second.
  The precondition is what the encodings rely on: `AppendOnlyDelta` looks at a length and one
  element, `KeyedDelta` at keys only.

None of the log's invariants is inductive.  A delta is right only if the image it is computed for agrees with the
one the marker describes, and that depends on everything the program may do to the session between the two
saves.  `IInv` adds:

* `Sound`: in a session or image, the keys of the views are distinct and at most the counter;
* `Extends(s, t)`: transcript, counter and views of `t` may follow those of `s`.  `MutationGrows` shows
  that all mutations of a live session preserve it, `GrownExtends` that it is transitive;
* `DiskInv`: the image on disk is sound, is the captured one, and finds its blobs;
* `LiveInv`, `BaseInv`: the live session extends the image on disk, the marker is that image's, and
  `written` holds only blobs that are on disk;
* `PlanInv`, `Landed`: the frozen plan extends what is on disk until the record has landed and *is* what is
  on disk from then on, and its record replays to its image (`RecordReplays`, by `DeltaIsExact`).

The proof has one lemma per action, and one step per conjunct the action disturbs.  On top of `IInv`:

* `ResumeHolds` adds `FoldInv`, that every item of a transcript is younger than the next one to be made,
  on disk, in memory and in the plan in flight; so what a checkpoint adds is new to it; and `KeyInv`,
  that the counter on disk covers every key a record ever carried.
* `AtomicHolds` is a step simulation: under the refinement mapping `AppendRecord` is the one step that saves,
  because the record replays to the plan's image, and every other step of a save maps to a stutter
  (`ReplayedStays`).  Crashes and resumes map to those of `DurableSession`.

### `FollowUpsProofs`

An input is in one place at a time: on its way to the consumer, in its hands, pending, queued, current, said, or
gone (`KeptInv`, `OnceInv`).  Most steps move one input from one place to another, and the lemmas about the
queue (`PickedQueue`, `QueueAppend`, `QueueRecall`, `QueueFlags`) say what each of the model's ways of changing it
keeps.  The one input that may be in two places is one that was recalled out of a request which went on without it:
it is in the editor, and said if the request is answered (`FateInv`: then it is in `late`).

Three further facts make these inductive.  What the queue marks as claimed is carried by the request (`ClaimInv`), and
what a request carries, or the turn would commit if it failed, waits in the queue or has been recalled, and has not been
said (`CarryInv`): so an answer puts into the conversation what it takes from the queue and what was recalled, each
once.  `CarryInv` also says that whoever is carried and recalled is late wherever the request may still be answered:
in flight and unclaimed a recall pulls it back, and a claim is never given up before the request is prepared again.
A consumer that is alive has at most one boundary before it, that of the turn that waits
(`BoundaryInv`): so the flush at the boundary belongs to the turn that ends.  And whoever is left in the queue at
rest has somebody before it whose end will flush again (`RestInv`); since a Ctrl-C may drop the one that took the
prompt away, there must then be two.  `ClosedInv` is needed for the one step that takes the boundary from a turn
whose consumer is gone.  That nothing is lost and nothing is delivered twice holds with every fault the model has.

### `ModelAndTerminalProofs`

The invariant of the attempts says that the engine waits exactly while there
is an attempt (`WaitInv`); that the flag `claimed` is about the newest attempt, which history knows as
claimed too, and that an attempt which is not claimed shows no leftover of an earlier one
(`ClaimInv`); that only attempts already made can have been claimed or have a cancellation on its way
(`PastInv`), so that the next one is free of both; and that a state which owes a send has counted it
(`SendInv`).  `RouteInv` is the reason why a converted request is not converted again: a route once
learnt is never forgotten.

`More` adds what the images need.  `CountInv` counts the attempts by the call they belong to: each call sends
at most `MaxRetries + 1`, and each but the converted one was ended by a resend or a refusal.  `ImageInv` says
where the one image can be while nothing is queued (`Alone`): whatever is still to be described was not
described before, and what was described is not raw in the turn any more except within the one conversion.

The host `MCTerminal` is what the other two theorems are about, so the module proves `TerminalSpec => []P` for the
behaviours the run explores.  For the lines above the application, `ScrollInv` says that every line said is in
exactly one place - on the screen, refused, in the window, with the terminal, in the writer's queue (`LinesInv`);
so none is lost or printed twice, and at the end two of these places are left.  `WindowInv` ties a line in the
window to a callback of the present generation, `PumpInv` the pump to its one write with the terminal.  The order
of what is promoted is that of three sequences, one behind the other (`PromotedInv`, `OrderInv`), and what a
barrier covers is past it or stands before it in the queue (`BarrierInv`).

For the row, `DraftInv` says where the user's draft is while a prompt has the row: in what the request put by,
and nobody but that request's end reads it; `PromptInv` which awaits have a form, and that an empty answer
came from Enter.  The modal is the hard part.  `close_modal` wakes everybody who waits, and each of them takes
the modal without looking again (`tui/app.py:998-1001`); it is right only because a woken task resumes before any
other can open a modal, and because only one can wait (`ModalInv`): with three tasks of which one wants nothing
(`RoomInv`), one has the modal and one waits.  Without that premise two may be woken at once, and the second to
resume replaces the modal of the first: the counterexample of `Crowded = TRUE`.

### `ToolRunnerProofs`

`IInv` says, for each await `run` can be at, what that await stands for: which calls may be running
(`Running`: none between two segments, one at a serial call, those of the segment in a parallel one), what is
left of the segment (`Segment`: a planned edit has a plan that is not outdated, and nothing that needs
approval starts after a refusal), which results there are (`Results`: one per call before `i`, in order),
and what the script's thread and the gateway may be doing (`Gates`: a thread lives only inside its call's
awaits, and a closed gateway owes nobody an answer).  `WritesAlone` is then a matter of
`Running` at the await where a write happens.

### `TurnProofs`

A conversation is a concatenation of parts that are legal each: what was history, what the turn has so far, a
batch with its results (`LegalJoin`, `BatchLegal`).  The one part that is not is the message whose batch is
running (`LegalInv`), and every way out of the batch settles it: `SettledClosed` says that settling a legal
conversation changes nothing, `SettledOpen` that it gives an open message one result per call, in place.  The
second needs to know that `Nth` lists the open places in order, which `Place` and `NthOfLine` show by
counting.  That what was sent stays sent (`SentIsHistory`) is carried by `StaysSent`, since all ways of
changing the turn append to it.

### `StoresProofs`

A fetch that writes holds the lock from its decision to its last write (`LockInv`), so what it decided about the
cache still stands when it writes; this is all `ForwardHolds` needs.  `FetchIsCurrent` needs to know that the
ETag on disk is never of a newer document than the cache it is sent with.  Two kinds of mishap endanger it, for
opposite reasons: a lost cache leaves its ETag behind (but commits still write the pair), and a commit that
dies between its two writes leaves the pair apart (but the cache still only grows).  After one mishap one of the
two reasons is left, hence the disjunction in `EtagInv`; after one of each none is, which is one of the
disagreements below and why the property is about fewer than two mishaps.

The assets need one fact more than the property (`AssetsInv`).  While a save is under way, whatever anything
names is in its plan or has raced with it (`KeptInv`): what the plan could not see is counted when the save begins,
what is stored later when it is stored, and what moves between messages, queue, editor and batch was counted where it
came from.  So an entry the sweep unlinks is in `raced` if it is still named, and stays there when the save is over,
until it is stored again.

### `FilesProofs`

`OneWriter` and `GatesOwned` hold together: a gate is opened only by the coroutine behind it because there is no
other, and there is no other because the gate was shut.  That no status is left in progress needs who owes
the session its real status (`Owed`), and that a debt is forgiven only by a second cancellation (`Cancelled`).

For the mentions, `MenuInv` adds what the files of each kind of record are (`MenuTyped`), that a
ranking in progress works on the snapshot of its generation, and that a scan is under way whenever
somebody waits for one.

### `McpAndWorkerProofs`

All that several operations share is told from where their flows are: a server's count is the number of operations
inside a discovery of it (`RegionInv`), the gate is held by the one flow between taking and releasing it
(`GateInv`), and a credential is erased while a login is on its way and belongs to the client that login has
registered (`CredInv`).  These are stated of a value of `op`, because most operations begin and take
their first step in one: the value in between is `Begun`, and the lemmas of the flows hold of it as of any other.
`Regular`, `Alone` and `Dropping` say which flows an operation of each kind can have; `Alone` is why nothing
fills the credential of a server that is being disconnected.  That the status line is settled exactly when
nobody discovers is arithmetic on the counts (`Enter` and `Leave`), and holds for any set of servers
although operations overlap, because each takes off what it has put on.

The theorems about the worker are about `WorkerSpec` of `MCWorker`, whose behaviours are those of `MCModel` that are about
`Settings` or `Delegate`.

Of the switches, a resume rebuilds all entries at once and a switch changes one: the invariant is therefore
of each entry (`Kept`): rebuilding it from the configured entry and what is recorded of it gives the one in
use.  A resume passes over a recorded effort that the entry's model has no value for, so `Kept` also says that there
is none recorded; an entry is realigned to an effort on its model's scale, which is where `Graded` is needed.

Of the worker, a delegation remembers how many diffs the worker had when it was sent its order and takes over those
that came after.  So during an order the parent's diffs followed by the new ones must be one ascending sequence
(`Beyond` in `BooksInv`), and every edit is in one of the two or went with a process that was killed.  `MemoryInv` says
the same of what was reset about the live worker and about the snapshot it could be restored from: the snapshot
must be gone before the worker is, for whoever is killed in between.  `StaffInv` says who can stop a job.

### What TLC checks alone

* Liveness and everything with `ENABLED`: beyond the prover.  `GateReleased`, `TurnEnds`, `RequestEnds`, `CancelEnds`,
  `CallReturns`, `EveryInputSettles`, `ShutdownCompletes`, `MildPromptReturns`, `LatestAnswered`.
* What a recursive definition computes for every input: induction over data is beyond the installed back ends.  No
  module declares a RECURSIVE operator.
* The safety properties of `Memory`, `Jobs`, `EditPlan`, `Streams`, `Compaction` and `Replay` (`SessionKept` but for
  its assets, `JobsSound`, `PlansSound`, `StreamSound`, `ContextKept`, `ReplaySound`).  What `Memory`, `Compaction`
  and `Replay` promise is about folds over sequences of any length, that is, induction over data; the others are
  not proved yet, see the plan.

## Known disagreements

Each is a counterexample of a small instance.  The first is the run `stale_marker`.  The others are
reproduced by naming the property as an INVARIANT or a PROPERTY in a copy of the run's configuration, with the
constants changed as said; properties of a module that a host instantiates need a definition in
the host (or the module's own configuration) where it has none.

| module, constants | property | what the code does | what it is said to do |
|---|---|---|---|
| `Streams` | `NeverSuppressed` | `cli/loop.py:1129`: a promoted text whose stream breaks leaves its marker, and the same text in the next response is withheld | `cli/runtime.py:429-430` |
| `SessionLog`, `"latest"` in `Faults` | `ReplayIsExact` | `session/store.py:110`: if the record is written and the pointer is not, the next save writes the same delta again | `session/store.py:99-100`, `src/DESIGN.md:101` |
| `SessionLog`, `"torn"` in `Faults` | `AlwaysLoadable` | `session/store.py:597`: half a line makes the whole log unreadable | `src/DESIGN.md:11` |
| `AssetStore` | `ImagesStored` | `session/store.py:135`: a save during a batch sweeps the image the batch has just stored | `src/DESIGN.md:519-520` |
| the same | `PromiseKept` | the same, for the artifact of a long result | `session/store.py:251-252` |
| `MCFollowUps`, `Four` | `OrderKept` | `cli/runtime.py:260`: what was typed during a command may be answered before what was typed earlier | `cli/runtime.py:149-150` |
| `MCFollowUps`, `Texts` | `QuitKeepsFollowUps` | `cli/runtime.py:252`: a follow-up moved from the persisted queue to memory at the end of a turn is lost by a quit | `src/DESIGN.md:11` |
| `MCFollowUps`, `Texts` | `FollowUpsCheckpointed` | `engine.py:229`: a follow-up is in no record while the tools of its answer run | `src/DESIGN.md:81` |
| `MCFollowUps`, `Refusing` | `InterruptIsHeard` | `cli/runtime.py:188`: a Ctrl-C just before the turn's task exists is shown and dropped, and the next ones are ignored | `src/docs/usage.md:24` |
| `MCFollowUps`, `Refusing` | `PromptReturns` | `cli/runtime.py:287`: an image refused at the idle prompt leaves the prompt in `dispatch` | `tui/app.py:565-566` |
| `MCFollowUps`, `Refusing` | `NothingStranded` | `cli/runtime.py:556-557`: an image refused when its turn has come does not flush what waits behind it, which stays in the queue until a later turn or command ends; `EveryInputSettles` counts it as left behind | `src/docs/usage.md:23` |
| `MCFollowUps`, `Texts` | `RecallTakesBack` | `cli/runtime.py:203`: a claimed follow-up recalled while its request is prepared, between two attempts, or after the answer and before the engine wakes is in the editor and goes out as well | `src/CHANGELOG.md:1899` |
| `Turn` | `RetractLeavesNoTrace` | `engine.py:175`: a Ctrl-C in the opening checkpoint leaves the message in the session | `src/docs/usage.md:30-31` |
| `Turn`, `Identified = {FALSE}` | `HistoryIsLegal` | `engine.py:529`: a call whose id is empty is never settled | `engine.py:516` |
| `Turn` | `FollowUpsKept` | `engine.py:495`: a follow-up acknowledged by a correction vanishes if the turn is then retracted | `src/DESIGN.md:517-518` |
| `Turn` | `NoFalseCancel` | `engine.py:503`: a call that had finished is recorded as cancelled | the text written at `engine.py:503` |
| `Turn` | `FailedRequestRequeues` | `engine.py:321`: the follow-ups of a failed request are committed to history | `src/docs/usage.md:18-19` |
| `ModelRequest` | `ObservedOnce` | `engine.py:563-576`: on a text-only route, a request prepared again after a resend with queued input describes its images again | `src/docs/configuration.md:204`, `image.py:348-349` |
| `ToolRunner` | `RefusalStops` | `runner.py:424`: after a refusal the other calls of the same serial segment still run | `runner.py:695`, the class's docstring |
| `Jobs` | `DoneIsFinal` | a job reported done may show less than it wrote: the drainer lags behind the poll | `tools/shell.py:635` |
| `Jobs`, `Escapes = TRUE` | `CallReturns` | a descendant that left the group keeps the pipe, and the call, open | `src/docs/configuration.md:218` |
| `Compaction` | `RequestKept` | `engine.py:507`: the marker of an interruption is a user message not marked as a session event, so it becomes the boundary and the request before it may be evicted | `src/DESIGN.md:565-567` |
| `Compaction` | `CheckpointRecallable` | `context.py:407`: after a trim, the checkpoint that stays in the context is left out of the reachability set | `src/DESIGN.md:571` |
| `Compaction`, `Drops = TRUE` | `CapturedOnce` | a pass over the copy of a turn that carries a follow-up captures messages that come back when its request is interrupted | `src/DESIGN.md:569` |
| `EditPlan` | `NeverByPosition` | `tools/files.py:926-929`: lines at a planned place that read the same are taken, though those shown sit elsewhere with their neighbours | `tools/files.py:923-924` |
| `EditPlan`, `DirectFirst = TRUE` | `HitsWhatWasSeen` | in a batch that a direct call opened, a view call may take out other lines than it showed | `tools/editplan.py:20-23`, the class's docstring |
| `EditPlan`, `Races = TRUE` | `WriteKeepsTheRest` | a change between the check and the write is overwritten | `tools/editplan.py:26-28`: "rejected instead of clobbering it" |
| `Terminal` | `ExitCompletes` | `cli/runtime.py:685-689`, `tui/app.py:994-1002`: a dispatched command that waits for the modal when the application exits is woken, opens its own on a finished application and is cancelled by nobody, so `_shutdown` never begins | `src/DESIGN.md:277` |
| `Terminal`, `Crowded = TRUE` | `ModalsExclusive` | `tui/app.py:998-1001`: one closing releases two waiters, and the second replaces the first's modal | `src/DESIGN.md:541-542` |
| `Terminal` | `AnsweredWithAReply` | `tui/app.py:570-579`, `1562-1581`: a refused submission, or what an editor returns, is written into the row of the prompt that has taken it meanwhile | `src/docs/usage.md:11-12` |
| `Scrollback` | `AllInOrder` | `cli/loop.py:1144`, `render.py:497-545`: a line through the window and one through the writer may swap | the docstring at `cli/runtime.py:55-60` |
| `Index` | `SyncedIsCurrent` | an update of the files of one Edit announces "synced" although a check has named others | `src/docs/tools.md:243`, `tools/search.py:444-456` |
| `Replay`, `ChatOpaque = TRUE` | `OpaqueStaysHome` | `model/chat.py:40-55`, `model/protocol.py:237`, `327`: opaque reasoning of one Chat host goes to another | `src/tests/test_model_chat.py:417`, `src/DESIGN.md:332-333` |
| `Replay`, `Restarting = TRUE` | `ReplaySound` | `model/responses.py:71-75`: an output item whose id an earlier response used is dropped, its call with it | a result is sent with its call |
| `Streams`, `Habits = {"bare"}` or `{"restarting"}` | `CallsWhole` | `model/chat.py:130-175`: two calls of a host that names neither, or numbers them anew, are put together as one | `model/chat.py:110-113`, `model/protocol.py:150-154`: "raises instead of guessing" |
| `Settings` | `BriefIsTrue` | `tools/delegate.py:254-265`: after `/worker provider off`, `/provider` or `/model`, the approval shows the configuration and a live worker keeps its entry | `src/docs/commands.md:102` |
| `Settings` | `WorkerSentAsChosen` | `/worker model` moves the model under the effort of a live worker without realigning it | `providers/compat.py:590-593` |
| `Delegate` | `ResetIsTold` | `engine.py:498-502`: a reset that is cancelled is recorded as a worker's turn that was interrupted | the text written there: "its context is kept" |
| `Delegate` | `AnswersAreSaved` | `cli/runtime.py:250`, `cli/worker.py:63`: only the parent is saved at the end of a turn; the worker's answer is in none of its own records yet | `src/docs/index.md:67` |
| `Delegate`, `DiffCap = 2` | `DelegationSound` | a list of diffs at its cap hides that there are new ones | `tools/delegate.py:373`: "or the user never sees what the worker did" |

`DescribedOnce` and `ObservationKept` hold as long as nothing is queued, which is how the code reads:
with queued input the turn is prepared in a copy, and a description made in it is lost with the copy
when the request is resent or cancelled.

More that was met while modelling, with no property of its own:

* `max_parallel_tools`, documented at `src/docs/configuration.md:220` as the maximum of read-only calls executed
  concurrently, does not apply to Search and read-only MCP calls, which `execute_readonly` runs outside the
  capacity; `WorkersWithinCapacity` is about the bounded workers;
* a part that begins before the one before it has ended (`Overlapping = TRUE` in `Streams`) promotes a
  partial text, and a retry after a promotion leaves the old text on the screen;
* a ranking overtaken by a new snapshot of the tree calls back without publishing its matches, and the menu shows
  none until the next keystroke (`mentions.py:205-212`; `MenuAnswered` of `Mentions`);
* a second cancellation during the settling of an index operation leaves "syncing" in the status bar, and
  the refresh at start-up that `src/docs/tools.md:236` describes is a read of what is there (`cli/loop.py:665`);
* merged diffs keep the worker's `tr.N` keys, and `/yolo` during a delegation does not reach the worker;
* a catalogue whose `reasoning.levels` name an effort that `effort_order` does not have is accepted
  (`providers/catalog.py:345-353`; the budgets are checked, at line 305), and a provider whose effort was realigned
  to such a level is not rebuilt by a resume: `SwitchesKept` is false of it, and the bundled catalogue is not of the kind;
* `/mcp disconnect` during the start-up discovery is undone when that discovery ends;
* a lost catalogue and a commit stopped between its two writes, together, leave the lost document's ETag beside
  another document, and a later 304 stands for an older one (`providers/sync.py:212-219`).

## Not modelled

* Wire formats, prompts, rendering, layout, key bindings: data and presentation.
* The tools' own work, other than Bash, Edit, MCP calls and Delegate: a call ends well or badly.
* Digest collisions, clock and disk-full arithmetic, permissions of files.
* `/clear`, import of old snapshots, migration, the `latest` lookup and expiry of sessions.
* The lease of streamed callbacks, usage accounting, citations, the length of retry delays.
* Assets: the staging files (`.image-*`) the sweep passes over or removes as residue, the removal of an empty directory.
* Terminal: what a turn or a queued command does between the exit key and its cancellation.
* The deadline of Ctrl-backslash: the forced exit is modelled as an orderly one that starts at any moment.
* Scrollback: prompt_toolkit's own queue of prints is external, first in first out; a refused write drops the
  whole window, as in the code; a line said while the application is suspended (`render.py:539`) is printed at once and
  is left out.  `Terminal` leaves an editor's or picker's own screen out.
* MCP: transport, schemas and results; `/mcp connect` of one name is the modal's toggle.
* EditPlan: targets that are parts of a line, newline styles, recovery and expired views, directories.
* Catalogue: the 72 hours elapsing while a process runs, a lock that cannot be had; an ETag is its document.
* Settings: loading and validating a configuration; the overrides of compaction and vision.
* Memory: the table of results is constant; the view of notes and all rendering are left out.
* Replay: images, arguments, sessions written before replies were marked with their issuer.
* Mentions: the display of the menu, a missing picker.

## Plan

Modelled so far is every part of the table at the top, most of them in part.  What is left, most important first:

1. Proofs: `JobsSound` (who owns a process, what a reader has taken), `PlansSound`.
2. Compositions: `FollowUps` with `Turn` (the same agent seen from two sides) through an abstract turn that
   both implement; `ToolRunner` as an implementation of the batch in `Turn`.
3. The `latest` pointer's lookup and `clean_expired` (`session/store.py:365-448`), and `/clear`.
