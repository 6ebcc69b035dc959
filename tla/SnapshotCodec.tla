--------------------------- MODULE SnapshotCodec ---------------------------
(***************************************************************************)
(* session/codec.py: what one save writes and how the loader replays it.   *)
(*                                                                         *)
(* An image is the persistable projection of a session, one field for each *)
(* way the codec encodes a field of the session:                           *)
(*                                                                         *)
(*   messages    prefix digest: model context, rewritten by compaction     *)
(*               (tool_records and tool_errors are encoded the same way)   *)
(*   transcript  length and tail sentinel: append-only visible history     *)
(*               (transcript_turn_diffs is encoded the same way)           *)
(*   active      whole-value digest: the bounded active-turn transcript    *)
(*   queue       whole-value digest: pending user inputs                   *)
(*               (provider_overrides is encoded the same way)              *)
(*   views       digest of the keys only, text kept as blobs: source views *)
(*               (turn_diffs and history are encoded the same way)         *)
(*   counter     written by every record: source_view_counter              *)
(*               (usage, state and tool_counter are written the same way)  *)
(*                                                                         *)
(* A sha256 digest is modelled as the value it was computed from, so two   *)
(* digests are equal exactly when the values are.                          *)
(***************************************************************************)
EXTENDS Naturals, Sequences

EmptyImage == [messages |-> <<>>, transcript |-> <<>>, active |-> <<>>,
               queue |-> <<>>, views |-> <<>>, counter |-> 0]

\* Python slices: current[:n] clips at the end, current[n:] is empty past it.
Before(s, n) == IF n <= Len(s) THEN SubSeq(s, 1, n) ELSE s
From(s, n)   == SubSeq(s, n + 1, Len(s))

\* The tail sentinel: digest(values[-1] if values else None).
Tails(s) == IF s = <<>> THEN <<>> ELSE <<s[Len(s)]>>

Keys(views) == [i \in DOMAIN views |-> views[i].key]

(***************************************************************************)
(* The marker: what the session remembers of its last successful save.     *)
(***************************************************************************)
Marker(img) ==
  [messages      |-> img.messages,
   transcriptLen |-> Len(img.transcript),
   transcriptEnd |-> Tails(img.transcript),
   active        |-> img.active,
   queue         |-> img.queue,
   viewKeys      |-> Keys(img.views)]

(***************************************************************************)
(* One field of a delta record: absent, `key` (items to append) or         *)
(* `key_replace` (the whole new value).                                    *)
(***************************************************************************)
Absent          == [replace |-> FALSE, items |-> <<>>]
Appending(s)    == [replace |-> FALSE, items |-> s]
ReplacingBy(s)  == [replace |-> TRUE,  items |-> s]

\* Mutant: trusts the length of the saved prefix and never compares its digest.
SequenceDelta_ByLength(current, saved) ==
  IF Len(current) >= Len(saved) THEN Appending(From(current, Len(saved))) ELSE ReplacingBy(current)

SequenceDelta(current, saved) ==
  IF Before(current, Len(saved)) = saved
  THEN IF Len(current) > Len(saved) THEN Appending(From(current, Len(saved))) ELSE Absent
  ELSE IF current # saved THEN ReplacingBy(current) ELSE Absent

AppendOnlyDelta(current, len, end) ==
  IF Len(current) >= len /\ (len = 0 \/ <<current[len]>> = end)
  THEN IF Len(current) > len THEN Appending(From(current, len)) ELSE Absent
  ELSE ReplacingBy(current)

ValueDelta(current, saved) ==
  IF current # saved THEN ReplacingBy(current) ELSE Absent

KeyedDelta(current, savedKeys) ==
  IF Keys(Before(current, Len(savedKeys))) = savedKeys
  THEN IF Len(current) > Len(savedKeys) THEN Appending(From(current, Len(savedKeys))) ELSE Absent
  ELSE IF Keys(current) # savedKeys THEN ReplacingBy(current) ELSE Absent

\* The first record of a log carries every field whole.
Snapshot(img) ==
  [messages   |-> ReplacingBy(img.messages),
   transcript |-> ReplacingBy(img.transcript),
   active     |-> ReplacingBy(img.active),
   queue      |-> ReplacingBy(img.queue),
   views      |-> ReplacingBy(img.views),
   counter    |-> img.counter]

Delta(img, m) ==
  [messages   |-> SequenceDelta(img.messages, m.messages),
   transcript |-> AppendOnlyDelta(img.transcript, m.transcriptLen, m.transcriptEnd),
   active     |-> ValueDelta(img.active, m.active),
   queue      |-> ValueDelta(img.queue, m.queue),
   views      |-> KeyedDelta(img.views, m.viewKeys),
   counter    |-> img.counter]

MergeSequence(data, field) ==
  IF field.replace THEN field.items ELSE data \o field.items

(***************************************************************************)
(* Replaying one record onto what the records before it add up to.         *)
(* read_merged is the left fold of Merge over the record lines of a log.   *)
(***************************************************************************)
Merge(data, record) ==
  [messages   |-> MergeSequence(data.messages, record.messages),
   transcript |-> MergeSequence(data.transcript, record.transcript),
   active     |-> MergeSequence(data.active, record.active),
   queue      |-> MergeSequence(data.queue, record.queue),
   views      |-> MergeSequence(data.views, record.views),
   counter    |-> record.counter]

=============================================================================
