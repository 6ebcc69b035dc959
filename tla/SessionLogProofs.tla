-------------------------- MODULE SessionLogProofs --------------------------
(***************************************************************************)
(* The session log, proved for any number of items, views, texts, crashes  *)
(* and failed writes, in an environment where the `latest` pointer can be  *)
(* written once the record was (SessionLogLatest shows what happens where  *)
(* it cannot).                                                             *)
(*                                                                         *)
(* The argument: what is on disk, what the plan froze and what lives are   *)
(* three stages of one history.  Between two stages the transcript only    *)
(* grows, the key counter only grows and a view key keeps its meaning, and *)
(* that is all the encodings need: the marker being on disk, the delta the *)
(* plan froze replays to the image it froze.                               *)
(***************************************************************************)
EXTENDS SessionLog, SequenceTheorems, TLAPS

-----------------------------------------------------------------------------
(***************************************************************************)
(* What the codec's encodings are worth: replaying a delta onto the image  *)
(* its marker was taken from gives back the image it was computed for.     *)
(* The digest of a prefix decides this alone; the append-only and the      *)
(* keyed encodings look at less, and need to be told that the transcript   *)
(* only grew and that a view's key names its text.                         *)
(***************************************************************************)
Prefix(s, t) == /\ Len(s) <= Len(t)
                /\ \A i \in 1..Len(s) : s[i] = t[i]

\* A key means the same view on both sides.
Agree(v, w) == \A i \in 1..Len(v), j \in 1..Len(w) : v[i].key = w[j].key => v[i] = w[j]

ImagesOver(S, V) == [messages : Seq(S), transcript : Seq(S), active : Seq(S),
                     queue : Seq(S), views : Seq(V), counter : Nat]

\* Slices of a sequence are sequences, and cutting it in two loses nothing.
LEMMA SliceType ==
  ASSUME NEW S, NEW s \in Seq(S), NEW n \in Nat
  PROVE  /\ Before(s, n) \in Seq(S) /\ From(s, n) \in Seq(S)
         /\ n <= Len(s) => Len(Before(s, n)) = n /\ Len(From(s, n)) = Len(s) - n
         /\ n <= Len(s) => \A i \in 1..n : Before(s, n)[i] = s[i]
         /\ Before(s, n) \o From(s, n) = s
  <1>1. CASE n <= Len(s)
    <2>1. /\ Before(s, n) = SubSeq(s, 1, n) /\ From(s, n) = SubSeq(s, n + 1, Len(s))
          /\ Len(s) \in Nat
      BY <1>1 DEF Before, From
    <2>2. /\ SubSeq(s, 1, n) \in Seq(S) /\ Len(SubSeq(s, 1, n)) = n
          /\ \A i \in 1..n : SubSeq(s, 1, n)[i] = s[i]
      BY <1>1
    <2>3. SubSeq(s, n + 1, Len(s)) \in Seq(S) /\ Len(SubSeq(s, n + 1, Len(s))) = Len(s) - n
      BY <1>1, <2>1
    <2>4. SubSeq(s, 1, n) \o SubSeq(s, n + 1, Len(s)) = s
      <3>. DEFINE a == SubSeq(s, 1, n)
                  b == SubSeq(s, n + 1, Len(s))
      <3>0. \A i \in 1..(Len(s) - n) : b[i] = s[n + i]
        BY <1>1, <2>1
      <3>1. /\ a \in Seq(S) /\ Len(a) = n /\ \A i \in 1..n : a[i] = s[i]
            /\ b \in Seq(S) /\ Len(b) = Len(s) - n
        BY <2>2, <2>3
      <3>. HIDE DEF a, b
      <3>2. /\ a \o b \in Seq(S) /\ Len(a \o b) = Len(s)
            /\ \A i \in 1..Len(s) : (a \o b)[i] = IF i <= n THEN a[i] ELSE b[i - n]
        BY <1>1, <2>1, <3>1, ConcatProperties
      <3>3. ASSUME NEW i \in 1..Len(s) PROVE (a \o b)[i] = s[i]
        <4>1. CASE i <= n
          BY <3>1, <3>2, <4>1
        <4>2. CASE ~(i <= n)
          <5>1. i - n \in 1..(Len(s) - n) /\ n + (i - n) = i
            BY <1>1, <2>1, <4>2
          <5>2. b[i - n] = s[n + (i - n)]
            BY <3>0, <5>1
          <5>. QED
            BY <3>2, <4>2, <5>1, <5>2
        <4>. QED
          BY <4>1, <4>2
      <3>4. a \o b = s
        <4>1. a \o b \in Seq(S) /\ s \in Seq(S)
          BY <3>2
        <4>2. \A i \in 1..Len(a \o b) : (a \o b)[i] = s[i]
          BY <3>2, <3>3
        <4>. QED
          BY <3>2, <4>1, <4>2, SeqEqual, Zenon
      <3>. QED
        BY <3>4 DEF a, b
    <2>. QED
      BY <2>1, <2>2, <2>3, <2>4
  <1>2. CASE ~(n <= Len(s))
    <2>1. From(s, n) = <<>>
      BY <1>2, SubSeqEmpty DEF From
    <2>. QED
      BY <1>2, <2>1 DEF Before
  <1>. QED
    BY <1>1, <1>2

\* A prefix that fills what is cut off in front is that part.
LEMMA PrefixIsBefore ==
  ASSUME NEW S, NEW o \in Seq(S), NEW c \in Seq(S), Prefix(o, c)
  PROVE  Before(c, Len(o)) = o
  <1>1. Len(o) \in Nat /\ Len(o) <= Len(c) /\ \A i \in 1..Len(o) : o[i] = c[i]
    BY DEF Prefix
  <1>2. /\ Before(c, Len(o)) \in Seq(S) /\ Len(Before(c, Len(o))) = Len(o)
        /\ \A i \in 1..Len(o) : Before(c, Len(o))[i] = c[i]
    BY <1>1, SliceType
  <1>. QED
    BY <1>1, <1>2, SeqEqual

\* Nothing in the field when the prefix is the whole: the data stays; else the rest is appended.
LEMMA AppendRest ==
  ASSUME NEW S, NEW o \in Seq(S), NEW c \in Seq(S), Before(c, Len(o)) = o
  PROVE  MergeSequence(o, IF Len(c) > Len(o) THEN Appending(From(c, Len(o))) ELSE Absent) = c
  <1>1. CASE Len(c) > Len(o)
    <2>1. Before(c, Len(o)) \o From(c, Len(o)) = c
      BY SliceType, LenProperties
    <2>. QED
      BY <1>1, <2>1 DEF MergeSequence, Appending
  <1>2. CASE ~(Len(c) > Len(o))
    <2>1. c = o
      BY <1>2, SubSeqFull DEF Before
    <2>. QED
      BY <1>2, <2>1 DEF MergeSequence, Absent
  <1>. QED
    BY <1>1, <1>2

\* The prefix digest: messages.
LEMMA SequenceDeltaExact ==
  ASSUME NEW S, NEW o \in Seq(S), NEW c \in Seq(S)
  PROVE  MergeSequence(o, SequenceDelta(c, o)) = c
  <1>1. CASE Before(c, Len(o)) = o
    BY <1>1, AppendRest DEF SequenceDelta
  <1>2. CASE Before(c, Len(o)) # o
    BY <1>2 DEF SequenceDelta, MergeSequence, ReplacingBy, Absent
  <1>. QED
    BY <1>1, <1>2

\* The length and the tail sentinel are enough for a sequence that only grew: the transcript.
LEMMA AppendOnlyDeltaExact ==
  ASSUME NEW S, NEW o \in Seq(S), NEW c \in Seq(S), Prefix(o, c)
  PROVE  MergeSequence(o, AppendOnlyDelta(c, Len(o), Tails(o))) = c
  <1>1. Len(o) = 0 \/ <<c[Len(o)]>> = Tails(o)
    BY DEF Prefix, Tails
  <1>2. AppendOnlyDelta(c, Len(o), Tails(o))
          = IF Len(c) > Len(o) THEN Appending(From(c, Len(o))) ELSE Absent
    BY <1>1 DEF AppendOnlyDelta, Prefix
  <1>. QED
    BY <1>2, AppendRest, PrefixIsBefore

\* The whole-value digest: the active turn and the queue.
LEMMA ValueDeltaExact ==
  ASSUME NEW S, NEW o \in Seq(S), NEW c \in Seq(S)
  PROVE  MergeSequence(o, ValueDelta(c, o)) = c
  BY DEF ValueDelta, MergeSequence, ReplacingBy, Absent

\* The digest of the keys is enough as long as a key never changes its meaning: the views.
LEMMA KeyedDeltaExact ==
  ASSUME NEW V, NEW o \in Seq(V), NEW c \in Seq(V), Agree(c, o)
  PROVE  MergeSequence(o, KeyedDelta(c, Keys(o))) = c
  <1>1. Len(Keys(o)) = Len(o) /\ \A i \in 1..Len(o) : Keys(o)[i] = o[i].key
    BY DEF Keys
  <1>2. CASE Keys(Before(c, Len(o))) = Keys(o)
    <2>1. Before(c, Len(o)) \in Seq(V)
      BY SliceType
    <2>2. Len(Before(c, Len(o))) = Len(o)
      BY <1>2, <2>1 DEF Keys
    <2>3. \A i \in 1..Len(o) : Before(c, Len(o))[i].key = o[i].key
      BY <1>2, <2>1, <2>2 DEF Keys
    <2>4. Len(o) <= Len(c) /\ \A i \in 1..Len(o) : Before(c, Len(o))[i] = c[i]
      BY <2>2, SliceType DEF Before
    <2>5. \A i \in 1..Len(o) : Before(c, Len(o))[i] = o[i]
      BY <2>3, <2>4 DEF Agree
    <2>6. Before(c, Len(o)) = o
      BY <2>1, <2>2, <2>5, SeqEqual
    <2>. QED
      BY <1>1, <1>2, <2>6, AppendRest DEF KeyedDelta
  <1>3. CASE Keys(Before(c, Len(o))) # Keys(o)
    <2>1. CASE Keys(c) # Keys(o)
      BY <1>1, <1>3, <2>1 DEF KeyedDelta, MergeSequence, ReplacingBy
    <2>2. CASE Keys(c) = Keys(o)
      <3>1. Len(c) = Len(o)
        BY <2>2 DEF Keys
      <3>2. Before(c, Len(o)) = c
        BY <3>1, SubSeqFull DEF Before
      <3>. QED
        BY <1>3, <2>2, <3>2
    <2>. QED
      BY <2>1, <2>2
  <1>. QED
    BY <1>2, <1>3

\* SnapshotIsWhole: a full record replays to its image whatever was read before it.
THEOREM SnapshotIsWhole ==
  ASSUME NEW S, NEW V, NEW img \in ImagesOver(S, V), NEW data
  PROVE  Merge(data, Snapshot(img)) = img
  BY DEF Merge, Snapshot, MergeSequence, ReplacingBy, ImagesOver

\* DeltaIsExact: a delta replayed onto the image its marker describes gives back its image, when the
\* transcript only grew and the keys still agree.
THEOREM DeltaIsExact ==
  ASSUME NEW S, NEW V, NEW old \in ImagesOver(S, V), NEW img \in ImagesOver(S, V),
         Prefix(old.transcript, img.transcript), Agree(img.views, old.views)
  PROVE  Merge(old, Delta(img, Marker(old))) = img
  <1>. DEFINE D == Delta(img, Marker(old))
  <1>0. /\ old.messages \in Seq(S) /\ old.transcript \in Seq(S) /\ old.active \in Seq(S)
        /\ old.queue \in Seq(S) /\ old.views \in Seq(V)
        /\ img.messages \in Seq(S) /\ img.transcript \in Seq(S) /\ img.active \in Seq(S)
        /\ img.queue \in Seq(S) /\ img.views \in Seq(V)
    BY DEF ImagesOver
  <1>1. /\ D.messages = SequenceDelta(img.messages, old.messages)
        /\ D.transcript = AppendOnlyDelta(img.transcript, Len(old.transcript), Tails(old.transcript))
        /\ D.active = ValueDelta(img.active, old.active)
        /\ D.queue = ValueDelta(img.queue, old.queue)
        /\ D.views = KeyedDelta(img.views, Keys(old.views))
        /\ D.counter = img.counter
    BY DEF Delta, Marker
  <1>2. MergeSequence(old.messages, D.messages) = img.messages
    BY <1>0, <1>1, SequenceDeltaExact
  <1>3. MergeSequence(old.transcript, D.transcript) = img.transcript
    BY <1>0, <1>1, AppendOnlyDeltaExact
  <1>4. MergeSequence(old.active, D.active) = img.active
    BY <1>0, <1>1, ValueDeltaExact
  <1>5. MergeSequence(old.queue, D.queue) = img.queue
    BY <1>0, <1>1, ValueDeltaExact
  <1>6. MergeSequence(old.views, D.views) = img.views
    BY <1>0, <1>1, KeyedDeltaExact
  <1>. HIDE DEF D
  <1>7. Merge(old, D) = [messages |-> img.messages, transcript |-> img.transcript,
                         active |-> img.active, queue |-> img.queue, views |-> img.views,
                         counter |-> img.counter]
    BY <1>1, <1>2, <1>3, <1>4, <1>5, <1>6 DEF Merge
  <1>8. Merge(old, D) = img
    BY <1>7 DEF ImagesOver
  <1>. QED
    BY <1>8 DEF D

-----------------------------------------------------------------------------
(***************************************************************************)
(* The log.                                                                *)
(***************************************************************************)

\* A session or an image whose view keys are distinct names handed out by its counter.
Sound(s) == /\ Agree(s.views, s.views)
            /\ \A i \in 1..Len(s.views) : s.views[i].key <= s.counter

\* Of two sessions or images, b may come after a.
Extends(a, b) == /\ Prefix(a.transcript, b.transcript)
                 /\ a.counter <= b.counter
                 /\ Agree(b.views, a.views)

Landed == worker \in {"latest", "done"}

DiskInv == /\ disk.records = 0 => disk.image = EmptyImage
           /\ Sound(disk.image)
           /\ BlobsResolve
           /\ ReplayIsExact

LiveInv == /\ alive => Sound(live) /\ Extends(disk.image, live)
           /\ ~alive => saved = <<>>
           /\ saved = <<>> => written = {}
           /\ written \subseteq disk.blobs

BaseInv == alive /\ ~Landed =>
             IF saved = <<>> THEN disk.records = 0
             ELSE disk.records > 0 /\ saved = <<Marker(disk.image)>>

PlanInv ==
  worker # "idle" =>
    /\ alive
    /\ Sound(plan[1].image) /\ Extends(plan[1].image, live)
    /\ worker = "header" => saved = <<>>
    /\ plan[1].record = IF saved = <<>> THEN Snapshot(plan[1].image)
                                        ELSE Delta(plan[1].image, saved[1])
    /\ plan[1].blobs = ViewTexts(plan[1].record.views.items) \ written
    /\ plan[1].blobsAfter = written \cup plan[1].blobs
    /\ ~Landed => Extends(disk.image, plan[1].image)
    /\ Landed => /\ disk.records > 0 /\ disk.image = plan[1].image
                 /\ plan[1].blobs \subseteq disk.blobs

IInv == TypeOK /\ DiskInv /\ LiveInv /\ BaseInv /\ PlanInv

-----------------------------------------------------------------------------
(***************************************************************************)
(* Types of what the codec makes.                                          *)
(***************************************************************************)
LEMMA ImageType ==
  ASSUME NEW s \in Sessions
  PROVE  Image(s) \in Images
  BY DEF Sessions, Images, Image

LEMMA ImagesAreOver == Images \subseteq ImagesOver(Items, Views)
  BY SessionLogAssumption DEF Images, ImagesOver

LEMMA FieldType ==
  ASSUME NEW S, NEW s \in Seq(S), NEW n \in Nat
  PROVE  /\ Absent \in Field(S) /\ ReplacingBy(s) \in Field(S) /\ Appending(s) \in Field(S)
         /\ Appending(From(s, n)) \in Field(S)
  <1>1. From(s, n) \in Seq(S)
    BY SliceType
  <1>2. <<>> \in Seq(S)
    OBVIOUS
  <1>. QED
    BY <1>1, <1>2 DEF Field, Absent, ReplacingBy, Appending

LEMMA ViewType ==
  ASSUME NEW v \in Seq(Views), NEW i \in 1..Len(v)
  PROVE  v[i] \in Views /\ v[i].key \in 1..MaxViews /\ v[i].key \in Nat /\ v[i].text \in Texts
  <1>1. v[i] \in Views
    BY ElementOfSeq
  <1>. QED
    BY <1>1, SessionLogAssumption DEF Views

LEMMA KeysType ==
  ASSUME NEW v \in Seq(Views)
  PROVE  Keys(v) \in Seq(1..MaxViews)
  <1>1. DOMAIN v = 1..Len(v) /\ Len(v) \in Nat
    OBVIOUS
  <1>2. \A i \in 1..Len(v) : v[i].key \in 1..MaxViews
    BY ViewType
  <1>. QED
    BY <1>1, <1>2 DEF Keys

LEMMA MarkerType ==
  ASSUME NEW img \in Images
  PROVE  Marker(img) \in Markers
  <1>1. Tails(img.transcript) \in Seq(Items)
    BY DEF Images, Tails
  <1>2. Keys(img.views) \in Seq(1..MaxViews)
    BY KeysType DEF Images
  <1>. QED
    BY <1>1, <1>2 DEF Marker, Markers, Images

LEMMA SnapshotType ==
  ASSUME NEW img \in Images
  PROVE  Snapshot(img) \in Records
  BY DEF Snapshot, Images, Records, Field, ReplacingBy

LEMMA DeltaType ==
  ASSUME NEW img \in Images, NEW m \in Markers
  PROVE  Delta(img, m) \in Records
  <1>1. SequenceDelta(img.messages, m.messages) \in Field(Items)
    BY FieldType DEF Images, Markers, SequenceDelta
  <1>2. AppendOnlyDelta(img.transcript, m.transcriptLen, m.transcriptEnd) \in Field(Items)
    BY FieldType DEF Images, Markers, AppendOnlyDelta
  <1>3. ValueDelta(img.active, m.active) \in Field(Items)
    BY FieldType DEF Images, Markers, ValueDelta
  <1>4. ValueDelta(img.queue, m.queue) \in Field(Items)
    BY FieldType DEF Images, Markers, ValueDelta
  <1>5. KeyedDelta(img.views, m.viewKeys) \in Field(Views)
    BY FieldType DEF Images, Markers, KeyedDelta
  <1>6. img.counter \in 0..MaxViews
    BY DEF Images
  <1>. QED
    BY <1>1, <1>2, <1>3, <1>4, <1>5, <1>6 DEF Delta, Records

\* The texts a replay brings in are those that were there and those the record carries.
LEMMA MergedTexts ==
  ASSUME NEW o \in Seq(Views), NEW f \in Field(Views)
  PROVE  ViewTexts(MergeSequence(o, f)) \subseteq ViewTexts(o) \cup ViewTexts(f.items)
  BY DEF MergeSequence, ViewTexts, Field

-----------------------------------------------------------------------------
(***************************************************************************)
(* How the live session moves on.                                          *)
(***************************************************************************)
\* One step of a session: nothing is taken from the transcript, and every view is either an old one
\* or has a key beyond every old one.
Grown(s, t) ==
  /\ Prefix(s.transcript, t.transcript)
  /\ s.counter <= t.counter
  /\ \A i \in 1..Len(t.views) : \/ \E j \in 1..Len(s.views) : t.views[i] = s.views[j]
                                \/ t.views[i].key > s.counter

LEMMA PrefixTransitive ==
  ASSUME NEW S, NEW a \in Seq(S), NEW b \in Seq(S), NEW c \in Seq(S), Prefix(a, b), Prefix(b, c)
  PROVE  Prefix(a, c)
  BY DEF Prefix

LEMMA PrefixOfConcat ==
  ASSUME NEW S, NEW a \in Seq(S), NEW b \in Seq(S)
  PROVE  Prefix(a, a \o b) /\ Prefix(a, a)
  BY DEF Prefix

\* What a session may follow, its successors may follow too.
LEMMA GrownExtends ==
  ASSUME NEW a, a.transcript \in Seq(Items), a.views \in Seq(Views), a.counter \in Nat,
         NEW s \in Sessions, NEW t \in Sessions,
         Sound(a), Extends(a, s), Grown(s, t)
  PROVE  Extends(a, t)
  <1>1. Prefix(a.transcript, t.transcript)
    BY PrefixTransitive DEF Extends, Grown, Sessions
  <1>2. a.counter <= t.counter
    BY DEF Extends, Grown, Sessions
  <1>3. ASSUME NEW i \in 1..Len(t.views), NEW j \in 1..Len(a.views),
               t.views[i].key = a.views[j].key
        PROVE  t.views[i] = a.views[j]
    <2>0. a.views[j].key \in Nat
      BY ViewType
    <2>1. s.counter \in Nat
      BY SessionLogAssumption DEF Sessions
    <2>2. a.views[j].key <= a.counter /\ a.counter <= s.counter
      BY DEF Sound, Extends
    <2>3. ~(t.views[i].key > s.counter)
      BY <1>3, <2>0, <2>1, <2>2
    <2>4. PICK k \in 1..Len(s.views) : t.views[i] = s.views[k]
      BY <2>3 DEF Grown
    <2>. QED
      BY <1>3, <2>4 DEF Extends, Agree
  <1>. QED
    BY <1>1, <1>2, <1>3 DEF Extends, Agree

LEMMA SubsequenceType ==
  ASSUME NEW S, NEW s \in Seq(S), NEW w \in Subsequences(s)
  PROVE  /\ w \in Seq(S)
         /\ \A i \in 1..Len(w) : \E j \in 1..Len(s) : w[i] = s[j]
  <1>1. \E n \in 0..Len(s) : \E f \in [1..n -> 1..Len(s)] : w = [i \in 1..n |-> s[f[i]]]
    BY DEF Subsequences
  <1>2. PICK n \in 0..Len(s) : \E f \in [1..n -> 1..Len(s)] : w = [i \in 1..n |-> s[f[i]]]
    BY <1>1
  <1>3. PICK f \in [1..n -> 1..Len(s)] : w = [i \in 1..n |-> s[f[i]]]
    BY <1>2
  <1>. QED
    BY <1>3

\* The views and the counter did not change, the transcript is the same or longer.
LEMMA SameViews ==
  ASSUME NEW s \in Sessions, NEW t \in Sessions, Sound(s),
         t.views = s.views, t.counter = s.counter, Prefix(s.transcript, t.transcript)
  PROVE  Grown(s, t) /\ Sound(t)
  <1>1. s.counter \in Nat
    BY SessionLogAssumption DEF Sessions
  <1>. QED
    BY <1>1 DEF Grown, Sound

\* What the program does to a live session keeps it well formed, and only moves it on.
LEMMA MutationGrows ==
  ASSUME live \in Sessions, nextItem \in 1..(MaxItems + 1), Sound(live), Mutation
  PROVE  /\ live' \in Sessions /\ nextItem' \in 1..(MaxItems + 1)
         /\ Grown(live, live') /\ Sound(live')
  <1>0. /\ live.messages \in Seq(Items) /\ live.turn \in Seq(Items) /\ live.transcript \in Seq(Items)
        /\ live.turnTranscript \in Seq(Items) /\ live.queue \in Seq(Items)
        /\ live.views \in Seq(Views) /\ live.counter \in 0..MaxViews
        /\ MaxItems \in Nat /\ MaxViews \in Nat
    BY SessionLogAssumption DEF Sessions
  <1>a. Prefix(live.transcript, live.transcript)
    BY <1>0, PrefixOfConcat
  <1>b. ASSUME Fresh PROVE nextItem \in Items /\ nextItem' \in 1..(MaxItems + 1)
    BY <1>b, <1>0 DEF Fresh, Items
  <1>1. CASE Checkpoint
    <2>1. PICK kept \in {live.turn, <<>>} :
            live' = [live EXCEPT !.turn = Append(kept, nextItem),
                                 !.turnTranscript = Append(@, nextItem)]
      BY <1>1 DEF Checkpoint
    <2>0. /\ Append(kept, nextItem) \in Seq(Items)
          /\ Append(live.turnTranscript, nextItem) \in Seq(Items)
      <3>1. nextItem \in Items
        BY <1>1, <1>b DEF Checkpoint
      <3>2. kept \in Seq(Items) /\ live.turnTranscript \in Seq(Items)
        BY <1>0, EmptySeq
      <3>. QED
        BY <3>1, <3>2, AppendProperties
    <2>2. live' \in Sessions
      BY <2>0, <2>1 DEF Sessions
    <2>3. /\ live'.views = live.views /\ live'.counter = live.counter
          /\ live'.transcript = live.transcript
      BY <2>1 DEF Sessions
    <2>. QED
      BY <1>1, <1>a, <1>b, <2>2, <2>3, SameViews DEF Checkpoint
  <1>2. CASE CommitTurn
    <2>1. live' = [live EXCEPT !.messages = @ \o live.turn, !.turn = <<>>,
                     !.transcript = @ \o live.turnTranscript, !.turnTranscript = <<>>]
      BY <1>2 DEF CommitTurn
    <2>0. /\ live.messages \o live.turn \in Seq(Items) /\ <<>> \in Seq(Items)
          /\ live.transcript \o live.turnTranscript \in Seq(Items)
      BY <1>0, ConcatProperties
    <2>2. live' \in Sessions
      BY <2>0, <2>1 DEF Sessions
    <2>3. /\ live'.views = live.views /\ live'.counter = live.counter
          /\ live'.transcript = live.transcript \o live.turnTranscript
      BY <2>1 DEF Sessions
    <2>4. Prefix(live.transcript, live'.transcript)
      BY <1>0, <2>3, PrefixOfConcat
    <2>. QED
      BY <1>2, <2>2, <2>3, <2>4, SameViews DEF CommitTurn
  <1>3. CASE RetractTurn
    <2>1. live' = [live EXCEPT !.turn = <<>>, !.turnTranscript = <<>>]
      BY <1>3 DEF RetractTurn
    <2>2. live' \in Sessions
      BY <2>1, EmptySeq DEF Sessions
    <2>3. /\ live'.views = live.views /\ live'.counter = live.counter
          /\ live'.transcript = live.transcript
      BY <2>1 DEF Sessions
    <2>. QED
      BY <1>3, <1>a, <2>2, <2>3, SameViews DEF RetractTurn
  <1>4. CASE Compact
    <2>1. PICK n \in 1..Len(live.messages), w \in Subsequences(live.views) :
            live' = [live EXCEPT !.messages = <<nextItem>> \o From(@, n), !.views = w]
      BY <1>4 DEF Compact
    <2>2. /\ w \in Seq(Views)
          /\ \A i \in 1..Len(w) : \E j \in 1..Len(live.views) : w[i] = live.views[j]
      <3>1. live.views \in Seq(Views)
        BY <1>0
      <3>. QED
        BY <3>1, SubsequenceType
    <2>3. /\ From(live.messages, n) \in Seq(Items)
          /\ <<nextItem>> \o From(live.messages, n) \in Seq(Items)
      <3>1. live.messages \in Seq(Items) /\ n \in Nat
        BY <1>0
      <3>2. From(live.messages, n) \in Seq(Items)
        BY <3>1, SliceType
      <3>. QED
        BY <1>4, <1>b, <3>2 DEF Compact
    <2>4. live' \in Sessions
      BY <2>1, <2>2, <2>3 DEF Sessions
    <2>5. /\ live'.views = w /\ live'.counter = live.counter
          /\ live'.transcript = live.transcript
      BY <2>1 DEF Sessions
    <2>6. Grown(live, live')
      BY <1>0, <1>a, <2>2, <2>5 DEF Grown
    <2>7. Agree(w, w)
      <3>1. \A i, j \in 1..Len(live.views) :
               live.views[i].key = live.views[j].key => live.views[i] = live.views[j]
        BY DEF Sound, Agree
      <3>2. ASSUME NEW i \in 1..Len(w), NEW j \in 1..Len(w), w[i].key = w[j].key
            PROVE  w[i] = w[j]
        <4>1. PICK k \in 1..Len(live.views) : w[i] = live.views[k]
          BY <2>2
        <4>2. PICK l \in 1..Len(live.views) : w[j] = live.views[l]
          BY <2>2
        <4>. QED
          BY <3>1, <3>2, <4>1, <4>2
      <3>. QED
        BY <3>2 DEF Agree
    <2>8. \A i \in 1..Len(w) : w[i].key <= live.counter
      BY <2>2 DEF Sound
    <2>. QED
      BY <1>4, <1>b, <2>4, <2>5, <2>6, <2>7, <2>8 DEF Compact, Sound
  <1>5. CASE Enqueue
    <2>1. live' = [live EXCEPT !.queue = Append(@, nextItem)]
      BY <1>5 DEF Enqueue
    <2>2. live' \in Sessions
      <3>1. Append(live.queue, nextItem) \in Seq(Items)
        BY <1>0, <1>5, <1>b, AppendProperties DEF Enqueue
      <3>. QED
        BY <2>1, <3>1 DEF Sessions
    <2>3. /\ live'.views = live.views /\ live'.counter = live.counter
          /\ live'.transcript = live.transcript
      BY <2>1 DEF Sessions
    <2>. QED
      BY <1>5, <1>a, <1>b, <2>2, <2>3, SameViews DEF Enqueue
  <1>6. CASE Dequeue
    <2>1. PICK i \in DOMAIN live.queue :
            live' = [live EXCEPT !.queue = SubSeq(@, 1, i - 1) \o From(@, i)]
      BY <1>6 DEF Dequeue
    <2>2. i \in 1..Len(live.queue)
      BY <1>0
    <2>3. SubSeq(live.queue, 1, i - 1) \o From(live.queue, i) \in Seq(Items)
      <3>1. live.queue \in Seq(Items) /\ i \in Nat
        BY <1>0, <2>2
      <3>2. From(live.queue, i) \in Seq(Items)
        BY <3>1, SliceType
      <3>3. SubSeq(live.queue, 1, i - 1) \in Seq(Items)
        BY <2>2, <3>1
      <3>. QED
        BY <3>2, <3>3
    <2>4. live' \in Sessions
      BY <2>1, <2>3 DEF Sessions
    <2>5. /\ live'.views = live.views /\ live'.counter = live.counter
          /\ live'.transcript = live.transcript
      BY <2>1 DEF Sessions
    <2>. QED
      BY <1>6, <1>a, <2>4, <2>5, SameViews DEF Dequeue
  <1>7. CASE RegisterView
    <2>1. PICK t \in Texts :
            live' = [live EXCEPT !.counter = @ + 1,
                                 !.views = Append(@, [key |-> live.counter + 1, text |-> t])]
      BY <1>7 DEF RegisterView
    <2>. DEFINE new == [key |-> live.counter + 1, text |-> t]
    <2>2. new \in Views /\ live.counter + 1 \in 0..MaxViews /\ live.counter \in Nat
      BY <1>0, <1>7 DEF RegisterView, Views
    <2>3. /\ live'.views = Append(live.views, new) /\ live'.counter = live.counter + 1
          /\ live'.transcript = live.transcript
      BY <2>1 DEF Sessions
    <2>4. live' \in Sessions
      <3>1. Append(live.views, new) \in Seq(Views)
        BY <1>0, <2>2, AppendProperties
      <3>. QED
        BY <2>1, <2>2, <3>1 DEF Sessions
    <2>5. new.key = live.counter + 1
      OBVIOUS
    <2>. HIDE DEF new
    <2>6. /\ Len(live'.views) = Len(live.views) + 1
          /\ \A i \in 1..Len(live.views) : live'.views[i] = live.views[i]
          /\ live'.views[Len(live.views) + 1] = new
      BY <1>0, <2>2, <2>3, AppendProperties
    <2>7. \A i \in 1..Len(live'.views) :
             \/ i \in 1..Len(live.views) /\ live'.views[i] = live.views[i]
             \/ i = Len(live.views) + 1 /\ live'.views[i] = new
      BY <1>0, <2>6
    <2>8. Grown(live, live')
      BY <1>a, <2>2, <2>3, <2>5, <2>7 DEF Grown
    <2>9. \A i \in 1..Len(live.views) :
             /\ live.views[i].key \in Nat /\ live.views[i].key <= live.counter
             /\ live.views[i].key # new.key /\ live.views[i].key <= live.counter + 1
      BY <1>0, <2>2, <2>5, ViewType DEF Sound
    <2>10. Agree(live'.views, live'.views)
      BY <2>7, <2>9 DEF Sound, Agree
    <2>11. \A i \in 1..Len(live'.views) : live'.views[i].key <= live'.counter
      BY <2>2, <2>3, <2>5, <2>7, <2>9
    <2>. QED
      BY <1>7, <2>4, <2>8, <2>10, <2>11 DEF RegisterView, Sound
  <1>. QED
    BY <1>1, <1>2, <1>3, <1>4, <1>5, <1>6, <1>7 DEF Mutation

-----------------------------------------------------------------------------
(***************************************************************************)
(* The invariant, action by action.                                        *)
(***************************************************************************)
LEMMA EmptyTypes == EmptySession \in Sessions /\ EmptyImage \in Images
  <1>1. <<>> \in Seq(Items) /\ <<>> \in Seq(Views) /\ 0 \in 0..MaxViews
    BY SessionLogAssumption
  <1>. QED
    BY <1>1 DEF EmptySession, EmptyImage, Sessions, Images

LEMMA EmptyComesFirst ==
  ASSUME NEW s, s.transcript \in Seq(Items), s.views \in Seq(Views), s.counter \in 0..MaxViews
  PROVE  Extends(EmptyImage, s) /\ Sound(EmptyImage)
  <1>1. /\ EmptyImage.transcript = <<>> /\ EmptyImage.views = <<>> /\ EmptyImage.counter = 0
        /\ Len(<<>>) = 0 /\ Len(s.transcript) \in Nat /\ 0 <= s.counter
    BY SessionLogAssumption DEF EmptyImage
  <1>. QED
    BY <1>1 DEF Extends, Sound, Prefix, Agree

LEMMA ExtendsItself ==
  ASSUME NEW s, s.transcript \in Seq(Items), s.counter \in 0..MaxViews, Sound(s)
  PROVE  Extends(s, s)
  BY PrefixOfConcat, SessionLogAssumption DEF Extends, Sound

LEMMA InitInv == Init => IInv
  <1>. SUFFICES ASSUME Init PROVE IInv
    OBVIOUS
  <1>1. TypeOK
    <2>1. /\ <<>> \in Seq(Markers) /\ <<>> \in Seq(Plans) /\ <<>> \in Seq(Images) /\ Len(<<>>) = 0
          /\ 1 \in 1..(MaxItems + 1) /\ 0 \in 0..MaxMishaps
      BY SessionLogAssumption
    <2>2. NoLog \in [records : {0, 1}, image : Images, blobs : SUBSET Texts, torn : BOOLEAN]
      BY EmptyTypes DEF NoLog
    <2>3. /\ alive \in BOOLEAN /\ cancelled \in BOOLEAN /\ live \in Sessions
          /\ written \in SUBSET Texts /\ seenKeys \in SUBSET (1..MaxViews)
          /\ worker = "idle"
      BY EmptyTypes DEF Init
    <2>4. saved = <<>> /\ plan = <<>> /\ durable = <<>> /\ disk = NoLog /\ nextItem = 1 /\ mishaps = 0
      BY DEF Init
    <2>. QED
      BY <2>1, <2>2, <2>3, <2>4 DEF TypeOK
  <1>2. Extends(EmptyImage, EmptySession) /\ Sound(EmptyImage)
    BY EmptyTypes, EmptyComesFirst DEF Sessions
  <1>3. Sound(EmptySession)
    BY DEF Sound, Agree, EmptySession
  <1>4. DiskInv
    BY <1>2 DEF Init, DiskInv, NoLog, BlobsResolve, ReplayIsExact, ViewTexts, EmptyImage
  <1>5. LiveInv /\ BaseInv /\ PlanInv
    BY <1>2, <1>3 DEF Init, LiveInv, BaseInv, PlanInv, NoLog
  <1>. QED
    BY <1>1, <1>4, <1>5 DEF IInv

\* The frozen plan, once there is one.
LEMMA ThePlan ==
  ASSUME TypeOK, worker # "idle"
  PROVE  /\ Len(plan) = 1 /\ plan[1] \in Plans /\ plan[1].image \in Images
         /\ plan[1].record \in Records /\ plan[1].blobs \subseteq Texts
         /\ plan[1].blobsAfter \subseteq Texts
  <1>1. plan \in Seq(Plans) /\ Len(plan) = 1
    BY DEF TypeOK
  <1>2. plan[1] \in Plans
    BY <1>1, ElementOfSeq
  <1>. QED
    BY <1>1, <1>2 DEF Plans

LEMMA MutationInv == IInv /\ Mutation => IInv'
  <1>. SUFFICES ASSUME IInv, Mutation PROVE IInv'
    OBVIOUS
  <1>1. /\ alive
        /\ UNCHANGED <<alive, saved, written, worker, plan, cancelled, disk, mishaps, durable, seenKeys>>
    BY DEF Mutation, Checkpoint, CommitTurn, RetractTurn, Compact, Enqueue, Dequeue, RegisterView,
           Mutates, historyVars
  <1>2. /\ live \in Sessions /\ live' \in Sessions /\ nextItem' \in 1..(MaxItems + 1)
        /\ Grown(live, live') /\ Sound(live')
    BY <1>1, MutationGrows DEF IInv, TypeOK, LiveInv
  <1>3. TypeOK'
    BY <1>1, <1>2 DEF IInv, TypeOK
  <1>4. disk.image \in Images
    BY DEF IInv, TypeOK
  <1>5. /\ disk.image.transcript \in Seq(Items) /\ disk.image.views \in Seq(Views)
        /\ disk.image.counter \in Nat
    BY <1>4, SessionLogAssumption DEF Images
  <1>6. Extends(disk.image, live')
    BY <1>1, <1>2, <1>5, GrownExtends DEF IInv, DiskInv, LiveInv
  <1>7. ASSUME worker # "idle" PROVE Extends(plan[1].image, live')
    <2>1. plan[1].image \in Images
      BY <1>7, ThePlan DEF IInv
    <2>2. /\ plan[1].image.transcript \in Seq(Items) /\ plan[1].image.views \in Seq(Views)
          /\ plan[1].image.counter \in Nat
      BY <2>1, SessionLogAssumption DEF Images
    <2>. QED
      BY <1>2, <1>7, <2>2, GrownExtends DEF IInv, PlanInv
  <1>8. DiskInv' /\ BaseInv'
    BY <1>1 DEF IInv, DiskInv, BaseInv, BlobsResolve, ReplayIsExact, Landed
  <1>9. LiveInv'
    BY <1>1, <1>2, <1>6 DEF IInv, LiveInv
  <1>10. PlanInv'
    BY <1>1, <1>7 DEF IInv, PlanInv, Landed
  <1>. QED
    BY <1>3, <1>8, <1>9, <1>10 DEF IInv

\* What a plan is made of, whatever the session it captures.
LEMMA PlanType ==
  ASSUME TypeOK, NEW img \in Images
  PROVE  PlanFor(img) \in Plans
  <1>. DEFINE r == IF saved = <<>> THEN Snapshot(img) ELSE Delta(img, saved[1])
  <1>1. r \in Records
    <2>1. CASE saved = <<>>
      BY <2>1, SnapshotType
    <2>2. CASE saved # <<>>
      <3>1. saved[1] \in Markers
        BY <2>2 DEF TypeOK
      <3>. QED
        BY <2>2, <3>1, DeltaType
    <2>. QED
      BY <2>1, <2>2
  <1>. HIDE DEF r
  <1>2. r.views.items \in Seq(Views)
    BY <1>1 DEF Records, Field
  <1>3. ViewTexts(r.views.items) \subseteq Texts
    <2>. SUFFICES ASSUME NEW i \in DOMAIN r.views.items PROVE r.views.items[i].text \in Texts
      BY DEF ViewTexts
    <2>1. i \in 1..Len(r.views.items)
      BY <1>2
    <2>. QED
      BY <1>2, <2>1, ViewType
  <1>4. written \subseteq Texts
    BY DEF TypeOK
  <1>5. PlanFor(img) = [first |-> saved = <<>>, record |-> r,
                        blobs |-> ViewTexts(r.views.items) \ written, image |-> img,
                        blobsAfter |-> written \cup (ViewTexts(r.views.items) \ written)]
    BY DEF PlanFor, r
  <1>. QED
    BY <1>1, <1>3, <1>4, <1>5 DEF Plans

LEMMA BeginSaveInv == IInv /\ BeginSave => IInv'
  <1>. SUFFICES ASSUME IInv, BeginSave PROVE IInv'
    OBVIOUS
  <1>. DEFINE img == Image(live)
              P   == PlanFor(img)
  <1>1. /\ alive /\ worker = "idle" /\ plan' = <<P>> /\ worker' \in {"header", "append"}
        /\ worker' = "header" => saved = <<>>
        /\ UNCHANGED <<alive, live, nextItem, saved, written, cancelled, disk, mishaps, durable, seenKeys>>
    BY DEF BeginSave, sessionVars, historyVars
  <1>2. img \in Images /\ P \in Plans
    BY ImageType, PlanType DEF IInv, TypeOK
  <1>3. /\ img.transcript = live.transcript /\ img.views = live.views /\ img.counter = live.counter
        /\ live.transcript \in Seq(Items) /\ live.counter \in 0..MaxViews
    BY DEF Image, IInv, TypeOK, Sessions
  <1>4. /\ P.image = img
        /\ P.record = IF saved = <<>> THEN Snapshot(img) ELSE Delta(img, saved[1])
        /\ P.blobs = ViewTexts(P.record.views.items) \ written
        /\ P.blobsAfter = written \cup P.blobs
    BY DEF PlanFor
  <1>. HIDE DEF img, P
  <1>5. plan'[1] = P
    BY <1>1
  <1>6. TypeOK'
    <2>1. plan' \in Seq(Plans) /\ Len(plan') = 1
      BY <1>1, <1>2
    <2>2. worker' # "idle" /\ worker' \in {"header", "append"}
      BY <1>1
    <2>. QED
      BY <1>1, <2>1, <2>2 DEF IInv, TypeOK
  <1>7. DiskInv' /\ LiveInv' /\ BaseInv'
    BY <1>1 DEF IInv, DiskInv, LiveInv, BaseInv, BlobsResolve, ReplayIsExact, Landed
  <1>8. Sound(img) /\ Extends(img, live) /\ Extends(disk.image, img)
    BY <1>1, <1>3, PrefixOfConcat, SessionLogAssumption DEF IInv, LiveInv, Sound, Extends
  <1>9. PlanInv'
    BY <1>1, <1>4, <1>5, <1>8 DEF PlanInv, Landed
  <1>. QED
    BY <1>6, <1>7, <1>9 DEF IInv

LEMMA WriteHeaderInv == IInv /\ WriteHeader => IInv'
  <1>. SUFFICES ASSUME IInv, WriteHeader PROVE IInv'
    OBVIOUS
  <1>1. /\ worker = "header" /\ worker' = "append" /\ disk' = NoLog
        /\ UNCHANGED <<alive, live, nextItem, saved, written, plan, cancelled, mishaps, durable, seenKeys>>
    BY DEF WriteHeader, WorkerStep, sessionVars, historyVars
  <1>2. alive /\ saved = <<>> /\ written = {}
    BY <1>1 DEF IInv, PlanInv, LiveInv
  <1>3. /\ NoLog.image = EmptyImage /\ NoLog.records = 0 /\ NoLog.blobs = {}
        /\ NoLog \in [records : {0, 1}, image : Images, blobs : SUBSET Texts, torn : BOOLEAN]
    BY EmptyTypes DEF NoLog
  <1>4. Extends(EmptyImage, live) /\ Sound(EmptyImage)
    BY EmptyComesFirst DEF IInv, TypeOK, Sessions
  <1>5. Extends(EmptyImage, plan[1].image)
    BY <1>1, ThePlan, EmptyComesFirst DEF IInv, Images
  <1>6. TypeOK'
    BY <1>1, <1>3 DEF IInv, TypeOK
  <1>7. DiskInv'
    BY <1>1, <1>3, <1>4 DEF DiskInv, BlobsResolve, ReplayIsExact, ViewTexts, EmptyImage
  <1>8. LiveInv' /\ BaseInv'
    BY <1>1, <1>2, <1>3, <1>4 DEF IInv, LiveInv, BaseInv
  <1>9. PlanInv'
    BY <1>1, <1>2, <1>3, <1>5 DEF IInv, PlanInv, Landed
  <1>. QED
    BY <1>6, <1>7, <1>8, <1>9 DEF IInv

\* The heart: the record the plan froze replays to the image the plan captured, and the blobs it
\* needs are those already there and those it brings.
LEMMA RecordReplays ==
  ASSUME IInv, worker = "append"
  PROVE  /\ Merge(IF disk.records = 0 THEN EmptyImage ELSE disk.image, plan[1].record) = plan[1].image
         /\ ViewTexts(plan[1].image.views) \subseteq disk.blobs \cup plan[1].blobs
  <1>. DEFINE img == plan[1].image
              r   == plan[1].record
  <1>1. /\ img \in Images /\ r \in Records /\ disk.image \in Images /\ alive /\ ~Landed
        /\ r.views \in Field(Views) /\ disk.image.views \in Seq(Views)
    BY ThePlan DEF IInv, TypeOK, PlanInv, Landed, Records, Images
  <1>2. img \in ImagesOver(Items, Views) /\ disk.image \in ImagesOver(Items, Views)
    BY <1>1, ImagesAreOver
  <1>3. /\ r = IF saved = <<>> THEN Snapshot(img) ELSE Delta(img, saved[1])
        /\ plan[1].blobs = ViewTexts(r.views.items) \ written
        /\ Extends(disk.image, img)
    BY <1>1 DEF IInv, PlanInv
  <1>4. written \subseteq disk.blobs /\ BlobsResolve
    BY DEF IInv, LiveInv, DiskInv
  <1>. HIDE DEF img, r
  <1>5. CASE saved = <<>>
    <2>1. r = Snapshot(img)
      BY <1>3, <1>5
    <2>2. Merge(IF disk.records = 0 THEN EmptyImage ELSE disk.image, r) = img
      BY <1>2, <2>1, SnapshotIsWhole
    <2>3. r.views.items = img.views
      BY <2>1 DEF Snapshot, ReplacingBy
    <2>4. ViewTexts(img.views) \subseteq disk.blobs \cup plan[1].blobs
      BY <1>3, <1>4, <2>3
    <2>. QED
      BY <2>2, <2>4 DEF img, r
  <1>6. CASE saved # <<>>
    <2>1. disk.records > 0 /\ saved = <<Marker(disk.image)>>
      BY <1>1, <1>6 DEF IInv, BaseInv
    <2>2. saved[1] = Marker(disk.image) /\ disk.records # 0
      BY <2>1
    <2>3. Merge(disk.image, r) = img
      BY <1>2, <1>3, <1>6, <2>2, DeltaIsExact DEF Extends
    <2>4. img.views = MergeSequence(disk.image.views, r.views)
      BY <2>3 DEF Merge
    <2>5. ViewTexts(img.views) \subseteq ViewTexts(disk.image.views) \cup ViewTexts(r.views.items)
      BY <1>1, <2>4, MergedTexts
    <2>6. ViewTexts(img.views) \subseteq disk.blobs \cup plan[1].blobs
      BY <1>3, <1>4, <2>5 DEF BlobsResolve
    <2>. QED
      BY <2>2, <2>3, <2>6 DEF img, r
  <1>. QED
    BY <1>5, <1>6

LEMMA AppendRecordInv == IInv /\ AppendRecord => IInv'
  <1>. SUFFICES ASSUME IInv, AppendRecord PROVE IInv'
    OBVIOUS
  <1>. DEFINE img == plan[1].image
  <1>1. /\ worker = "append" /\ worker' = "latest"
        /\ disk' = [disk EXCEPT
             !.records = 1,
             !.image = Merge(IF disk.records = 0 THEN EmptyImage ELSE @, plan[1].record),
             !.blobs = @ \cup plan[1].blobs]
        /\ durable' = <<plan[1].image>>
        /\ seenKeys' = seenKeys \cup ViewKeys(plan[1].record.views.items)
        /\ UNCHANGED <<alive, live, nextItem, saved, written, plan, cancelled, mishaps>>
    BY DEF AppendRecord, WorkerStep, sessionVars
  <1>2. /\ img \in Images /\ plan[1].record \in Records /\ plan[1].blobs \subseteq Texts
        /\ disk \in [records : {0, 1}, image : Images, blobs : SUBSET Texts, torn : BOOLEAN]
    BY <1>1, ThePlan DEF IInv, TypeOK
  <1>3. /\ disk'.records = 1 /\ disk'.image = img
        /\ disk'.blobs = disk.blobs \cup plan[1].blobs
        /\ disk' \in [records : {0, 1}, image : Images, blobs : SUBSET Texts, torn : BOOLEAN]
    BY <1>1, <1>2, RecordReplays
  <1>4. ViewTexts(img.views) \subseteq disk'.blobs
    BY <1>1, <1>3, RecordReplays
  <1>5. /\ alive /\ Sound(img) /\ Extends(img, live)
    BY <1>1 DEF IInv, PlanInv
  <1>6. ViewKeys(plan[1].record.views.items) \subseteq 1..MaxViews
    <2>1. plan[1].record.views.items \in Seq(Views)
      BY <1>2 DEF Records, Field
    <2>. SUFFICES ASSUME NEW i \in DOMAIN plan[1].record.views.items
                  PROVE  plan[1].record.views.items[i].key \in 1..MaxViews
      BY DEF ViewKeys
    <2>2. i \in 1..Len(plan[1].record.views.items)
      BY <2>1
    <2>. QED
      BY <2>1, <2>2, ViewType
  <1>7. TypeOK'
    <2>1. durable' \in Seq(Images) /\ Len(durable') = 1
      BY <1>1, <1>2
    <2>2. seenKeys' \in SUBSET (1..MaxViews)
      BY <1>1, <1>6 DEF IInv, TypeOK
    <2>. QED
      BY <1>1, <1>3, <2>1, <2>2 DEF IInv, TypeOK
  <1>. HIDE DEF img
  <1>8. DiskInv'
    BY <1>1, <1>3, <1>4, <1>5 DEF DiskInv, BlobsResolve, ReplayIsExact, img
  <1>9. LiveInv'
    BY <1>1, <1>3, <1>5 DEF IInv, LiveInv
  <1>10. BaseInv'
    BY <1>1 DEF BaseInv, Landed
  <1>11. PlanInv'
    BY <1>1, <1>3 DEF IInv, PlanInv, Landed, img
  <1>. QED
    BY <1>7, <1>8, <1>9, <1>10, <1>11 DEF IInv

LEMMA WriteLatestInv == IInv /\ WriteLatest => IInv'
  <1>. SUFFICES ASSUME IInv, WriteLatest PROVE IInv'
    OBVIOUS
  <1>1. /\ worker = "latest" /\ worker' = "done"
        /\ UNCHANGED <<alive, live, nextItem, saved, written, plan, cancelled, disk, mishaps, durable, seenKeys>>
    BY DEF WriteLatest, WorkerStep, sessionVars, historyVars
  <1>2. TypeOK'
    BY <1>1 DEF IInv, TypeOK
  <1>3. DiskInv' /\ LiveInv' /\ BaseInv' /\ PlanInv'
    BY <1>1 DEF IInv, DiskInv, LiveInv, BaseInv, PlanInv, BlobsResolve, ReplayIsExact, Landed
  <1>. QED
    BY <1>2, <1>3 DEF IInv

\* What a failed or interrupted write can leave in the file: more blobs, a torn line, or a log that
\* was being started.
LEMMA PartialWrite ==
  ASSUME IInv, worker = "append" \/ disk' = disk,
         \/ disk' = disk
         \/ \E some \in SUBSET plan[1].blobs : disk' = [disk EXCEPT !.blobs = @ \cup some]
         \/ disk' = [disk EXCEPT !.torn = TRUE]
  PROVE  /\ disk' \in [records : {0, 1}, image : Images, blobs : SUBSET Texts, torn : BOOLEAN]
         /\ disk'.image = disk.image /\ disk'.records = disk.records
         /\ disk.blobs \subseteq disk'.blobs
  <1>1. disk \in [records : {0, 1}, image : Images, blobs : SUBSET Texts, torn : BOOLEAN]
    BY DEF IInv, TypeOK
  <1>2. CASE disk' = disk
    BY <1>1, <1>2
  <1>3. ASSUME NEW some \in SUBSET plan[1].blobs, disk' = [disk EXCEPT !.blobs = @ \cup some],
               worker = "append"
        PROVE  /\ disk' \in [records : {0, 1}, image : Images, blobs : SUBSET Texts, torn : BOOLEAN]
               /\ disk'.image = disk.image /\ disk'.records = disk.records
               /\ disk.blobs \subseteq disk'.blobs
    <2>1. some \subseteq Texts
      BY <1>3, ThePlan DEF IInv
    <2>. QED
      BY <1>1, <1>3, <2>1
  <1>4. CASE disk' = [disk EXCEPT !.torn = TRUE]
    BY <1>1, <1>4
  <1>. QED
    BY <1>2, <1>3, <1>4

LEMMA WriteFailsInv == IInv /\ "latest" \notin Faults /\ WriteFails => IInv'
  <1>. SUFFICES ASSUME IInv, "latest" \notin Faults, WriteFails PROVE IInv'
    OBVIOUS
  <1>1. /\ worker \in {"header", "append"} /\ worker' = "failed"
        /\ mishaps' \in 0..MaxMishaps
        /\ UNCHANGED <<alive, live, nextItem, saved, written, plan, cancelled, durable, seenKeys>>
    BY SessionLogAssumption DEF WriteFails, WorkerStep, sessionVars, historyVars, IInv, TypeOK
  <1>2. CASE worker = "header" /\ disk' = NoLog
    <2>1. saved = <<>> /\ written = {} /\ disk.records = 0 /\ disk.image = EmptyImage /\ alive
      BY <1>2 DEF IInv, PlanInv, LiveInv, BaseInv, DiskInv, Landed
    <2>2. /\ NoLog.image = EmptyImage /\ NoLog.records = 0 /\ NoLog.blobs = {}
          /\ NoLog \in [records : {0, 1}, image : Images, blobs : SUBSET Texts, torn : BOOLEAN]
      BY EmptyTypes DEF NoLog
    <2>3. TypeOK'
      BY <1>1, <1>2, <2>2 DEF IInv, TypeOK
    <2>4. DiskInv'
      BY <1>2, <2>1, <2>2 DEF IInv, DiskInv, BlobsResolve, ReplayIsExact, ViewTexts, EmptyImage
    <2>5. LiveInv' /\ BaseInv' /\ PlanInv'
      BY <1>1, <1>2, <2>1, <2>2 DEF IInv, LiveInv, BaseInv, PlanInv, Landed
    <2>. QED
      BY <2>3, <2>4, <2>5 DEF IInv
  <1>3. CASE ~(worker = "header" /\ disk' = NoLog)
    <2>1. /\ disk' \in [records : {0, 1}, image : Images, blobs : SUBSET Texts, torn : BOOLEAN]
          /\ disk'.image = disk.image /\ disk'.records = disk.records
          /\ disk.blobs \subseteq disk'.blobs
      BY <1>3, PartialWrite DEF WriteFails
    <2>2. TypeOK'
      BY <1>1, <2>1 DEF IInv, TypeOK
    <2>3. DiskInv'
      BY <1>1, <2>1 DEF IInv, DiskInv, BlobsResolve, ReplayIsExact
    <2>4. LiveInv' /\ BaseInv' /\ PlanInv'
      BY <1>1, <2>1 DEF IInv, LiveInv, BaseInv, PlanInv, Landed
    <2>. QED
      BY <2>2, <2>3, <2>4 DEF IInv
  <1>. QED
    BY <1>2, <1>3

LEMMA CancelSaveInv == IInv /\ CancelSave => IInv'
  <1>. SUFFICES ASSUME IInv, CancelSave PROVE IInv'
    OBVIOUS
  <1>1. /\ cancelled' = TRUE
        /\ UNCHANGED <<alive, live, nextItem, saved, written, worker, plan, disk, mishaps, durable, seenKeys>>
    BY DEF CancelSave, sessionVars, historyVars
  <1>2. TypeOK'
    BY <1>1 DEF IInv, TypeOK
  <1>3. DiskInv' /\ LiveInv' /\ BaseInv' /\ PlanInv'
    BY <1>1 DEF IInv, DiskInv, LiveInv, BaseInv, PlanInv, BlobsResolve, ReplayIsExact, Landed
  <1>. QED
    BY <1>2, <1>3 DEF IInv

LEMMA CommitSaveInv == IInv /\ CommitSave => IInv'
  <1>. SUFFICES ASSUME IInv, CommitSave PROVE IInv'
    OBVIOUS
  <1>1. /\ worker = "done" /\ worker' = "idle" /\ plan' = <<>> /\ cancelled' = FALSE
        /\ saved' = <<Marker(plan[1].image)>> /\ written' = plan[1].blobsAfter
        /\ UNCHANGED <<alive, live, nextItem, disk, mishaps, durable, seenKeys>>
    BY DEF CommitSave, Release, sessionVars, historyVars
  <1>2. /\ disk.records > 0 /\ disk.image = plan[1].image /\ plan[1].blobs \subseteq disk.blobs
        /\ plan[1].blobsAfter = written \cup plan[1].blobs
    BY <1>1 DEF IInv, PlanInv, Landed
  <1>3. Marker(plan[1].image) \in Markers /\ plan[1].blobsAfter \subseteq Texts
    BY <1>1, ThePlan, MarkerType DEF IInv
  <1>4. TypeOK'
    <2>1. saved' \in Seq(Markers) /\ Len(saved') = 1
      BY <1>1, <1>3
    <2>2. plan' \in Seq(Plans) /\ Len(plan') = 0
      <3>1. plan' = <<>>
        BY <1>1
      <3>. QED
        BY <3>1, EmptySeq
    <2>a. worker' = "idle" /\ cancelled' \in BOOLEAN
      BY <1>1
    <2>3. written' \in SUBSET Texts
      BY <1>1, <1>3
    <2>4. UNCHANGED <<alive, live, nextItem, disk, mishaps, durable, seenKeys>>
      BY <1>1
    <2>. QED
      BY <2>1, <2>2, <2>a, <2>3, <2>4 DEF IInv, TypeOK
  <1>5. saved' # <<>>
    BY <1>1
  <1>6. DiskInv' /\ LiveInv' /\ BaseInv' /\ PlanInv'
    BY <1>1, <1>2, <1>5 DEF IInv, DiskInv, LiveInv, BaseInv, PlanInv, BlobsResolve, ReplayIsExact, Landed
  <1>. QED
    BY <1>4, <1>6 DEF IInv

LEMMA AbandonSaveInv == IInv /\ AbandonSave => IInv'
  <1>. SUFFICES ASSUME IInv, AbandonSave PROVE IInv'
    OBVIOUS
  <1>1. /\ worker = "failed" /\ worker' = "idle" /\ plan' = <<>> /\ cancelled' = FALSE
        /\ UNCHANGED <<alive, live, nextItem, saved, written, disk, mishaps, durable, seenKeys>>
    BY DEF AbandonSave, Release, sessionVars, historyVars
  <1>2. TypeOK'
    <2>1. plan' \in Seq(Plans) /\ Len(plan') = 0
      <3>1. plan' = <<>>
        BY <1>1
      <3>. QED
        BY <3>1, EmptySeq
    <2>a. worker' = "idle" /\ cancelled' \in BOOLEAN
      BY <1>1
    <2>2. UNCHANGED <<alive, live, nextItem, saved, written, disk, mishaps, durable, seenKeys>>
      BY <1>1
    <2>. QED
      BY <2>1, <2>a, <2>2 DEF IInv, TypeOK
  <1>3. DiskInv' /\ LiveInv' /\ BaseInv' /\ PlanInv'
    BY <1>1 DEF IInv, DiskInv, LiveInv, BaseInv, PlanInv, BlobsResolve, ReplayIsExact, Landed
  <1>. QED
    BY <1>2, <1>3 DEF IInv

LEMMA CrashInv == IInv /\ Crash => IInv'
  <1>. SUFFICES ASSUME IInv, Crash PROVE IInv'
    OBVIOUS
  <1>1. /\ alive' = FALSE /\ live' = EmptySession /\ saved' = <<>> /\ written' = {}
        /\ worker' = "idle" /\ plan' = <<>> /\ cancelled' = FALSE
        /\ mishaps' \in 0..MaxMishaps
        /\ UNCHANGED <<nextItem, durable, seenKeys>>
    BY SessionLogAssumption DEF Crash, historyVars, IInv, TypeOK
  <1>2. /\ disk' \in [records : {0, 1}, image : Images, blobs : SUBSET Texts, torn : BOOLEAN]
        /\ disk'.image = disk.image /\ disk'.records = disk.records
        /\ disk.blobs \subseteq disk'.blobs
    BY PartialWrite DEF Crash
  <1>3. TypeOK'
    <2>1. /\ plan' \in Seq(Plans) /\ Len(plan') = 0
          /\ saved' \in Seq(Markers) /\ Len(saved') <= 1
      BY <1>1
    <2>2. /\ worker' = "idle" /\ alive' \in BOOLEAN /\ cancelled' \in BOOLEAN
          /\ live' \in Sessions /\ written' \in SUBSET Texts
      BY <1>1, EmptyTypes
    <2>3. mishaps' \in 0..MaxMishaps /\ UNCHANGED <<nextItem, durable, seenKeys>>
      BY <1>1
    <2>. QED
      BY <1>2, <2>1, <2>2, <2>3 DEF IInv, TypeOK
  <1>4. DiskInv'
    BY <1>1, <1>2 DEF IInv, DiskInv, BlobsResolve, ReplayIsExact
  <1>5. LiveInv' /\ BaseInv' /\ PlanInv'
    BY <1>1 DEF LiveInv, BaseInv, PlanInv
  <1>. QED
    BY <1>3, <1>4, <1>5 DEF IInv

\* The counter on disk is already past every key on disk.
LEMMA CounterIsLargest ==
  ASSUME NEW v \in Seq(Views), NEW n \in Nat, \A i \in 1..Len(v) : v[i].key <= n
  PROVE  Largest({n} \cup ViewKeys(v)) = n
  <1>. DEFINE S == {n} \cup ViewKeys(v)
  <1>1. \A k \in S : k \in Nat /\ k <= n
    <2>. SUFFICES ASSUME NEW i \in DOMAIN v PROVE v[i].key \in Nat /\ v[i].key <= n
      BY DEF ViewKeys
    <2>1. i \in 1..Len(v)
      OBVIOUS
    <2>. QED
      BY <2>1, ViewType
  <1>2. n \in S
    OBVIOUS
  <1>. HIDE DEF S
  <1>3. \E m \in S : \A k \in S : k <= m
    BY <1>1, <1>2
  <1>. DEFINE c == CHOOSE m \in S : \A k \in S : k <= m
  <1>4. c \in S /\ \A k \in S : k <= c
    BY <1>3
  <1>. HIDE DEF c
  <1>5. c = n
    BY <1>1, <1>2, <1>4
  <1>6. Largest(S) = c
    BY <1>2 DEF Largest, c
  <1>. QED
    BY <1>5, <1>6 DEF S

LEMMA LoadInv == IInv /\ Load => IInv'
  <1>. SUFFICES ASSUME IInv, Load PROVE IInv'
    OBVIOUS
  <1>. DEFINE img   == disk.image
              views == Readable(img.views, disk.blobs)
  <1>1. /\ ~alive /\ disk.records > 0 /\ alive' = TRUE
        /\ live' = SessionFrom(img, views)
        /\ saved' = <<Marker([img EXCEPT !.views = views])>>
        /\ written' = disk.blobs
        /\ UNCHANGED <<worker, plan, cancelled, disk, nextItem, mishaps, durable, seenKeys>>
    BY DEF Load, historyVars
  <1>2. worker = "idle"
    BY <1>1 DEF IInv, PlanInv
  <1>3. /\ img \in Images /\ disk.blobs \subseteq Texts
        /\ img.messages \in Seq(Items) /\ img.transcript \in Seq(Items) /\ img.active \in Seq(Items)
        /\ img.queue \in Seq(Items) /\ img.views \in Seq(Views) /\ img.counter \in 0..MaxViews
        /\ img.counter \in Nat
    BY SessionLogAssumption DEF IInv, TypeOK, Images
  <1>4. views = img.views
    BY DEF IInv, DiskInv, BlobsResolve, Readable
  <1>5. Sound(img)
    BY DEF IInv, DiskInv
  <1>6. Largest({img.counter} \cup ViewKeys(views)) = img.counter
    BY <1>3, <1>4, <1>5, CounterIsLargest DEF Sound
  <1>7. [img EXCEPT !.views = views] = img
    BY <1>3, <1>4 DEF Images
  <1>8. saved' = <<Marker(img)>> /\ Marker(img) \in Markers
    BY <1>1, <1>3, <1>7, MarkerType
  <1>9. live' = [messages |-> img.messages \o <<Resumed>>, turn |-> <<>>,
                 transcript |-> img.transcript \o img.active, turnTranscript |-> <<>>,
                 queue |-> img.queue, views |-> img.views, counter |-> img.counter]
    BY <1>1, <1>4, <1>6 DEF SessionFrom, EmptySession
  <1>. HIDE DEF img, views
  <1>10. live' \in Sessions
    <2>1. /\ <<>> \in Seq(Items) /\ img.transcript \o img.active \in Seq(Items)
          /\ <<Resumed>> \in Seq(Items)
      BY <1>3, SessionLogAssumption DEF Resumed, Items
    <2>2. img.messages \o <<Resumed>> \in Seq(Items)
      BY <1>3, <2>1
    <2>. QED
      BY <1>3, <1>9, <2>1, <2>2 DEF Sessions
  <1>11. /\ live'.transcript = img.transcript \o img.active
         /\ live'.views = img.views /\ live'.counter = img.counter
    BY <1>9
  <1>12. Sound(live') /\ Extends(img, live')
    BY <1>3, <1>5, <1>11, PrefixOfConcat DEF Sound, Extends
  <1>13. TypeOK'
    <2>1. saved' \in Seq(Markers) /\ Len(saved') = 1
      BY <1>8
    <2>. QED
      BY <1>1, <1>3, <1>10, <2>1 DEF IInv, TypeOK
  <1>14. DiskInv'
    BY <1>1 DEF IInv, DiskInv, BlobsResolve, ReplayIsExact
  <1>15. LiveInv' /\ BaseInv' /\ PlanInv'
    BY <1>1, <1>2, <1>8, <1>12 DEF LiveInv, BaseInv, PlanInv, img
  <1>. QED
    BY <1>13, <1>14, <1>15 DEF IInv

-----------------------------------------------------------------------------
(***************************************************************************)
(* The theorems.                                                           *)
(***************************************************************************)
LEMMA StutterInv == IInv /\ UNCHANGED vars => IInv'
  BY DEF vars, IInv, TypeOK, DiskInv, LiveInv, BaseInv, PlanInv, BlobsResolve, ReplayIsExact, Landed

\* LogIsSound: as long as the latest pointer can be written, the disk, the plan and the live session
\* stay three stages of one history, at every moment of every save, crash and resume.
THEOREM LogIsSound ==
  ASSUME "latest" \notin Faults
  PROVE  Spec => []IInv
  <1>1. Init => IInv
    BY InitInv
  <1>2. IInv /\ [Next]_vars => IInv'
    <2>. SUFFICES ASSUME IInv, [Next]_vars PROVE IInv'
      OBVIOUS
    <2>1. CASE Mutation
      BY <2>1, MutationInv
    <2>2. CASE BeginSave
      BY <2>2, BeginSaveInv
    <2>3. CASE Worker
      BY <2>3, WriteHeaderInv, AppendRecordInv, WriteLatestInv, WriteFailsInv DEF Worker
    <2>4. CASE CancelSave
      BY <2>4, CancelSaveInv
    <2>5. CASE CommitSave
      BY <2>5, CommitSaveInv
    <2>6. CASE AbandonSave
      BY <2>6, AbandonSaveInv
    <2>7. CASE Crash
      BY <2>7, CrashInv
    <2>8. CASE Load
      BY <2>8, LoadInv
    <2>9. CASE UNCHANGED vars
      BY <2>9, StutterInv
    <2>. QED
      BY <2>1, <2>2, <2>3, <2>4, <2>5, <2>6, <2>7, <2>8, <2>9 DEF Next
  <1>. QED
    BY <1>1, <1>2, PTL DEF Spec

\* TypesHold: every variable of the log keeps its type (the key counter included, which a resume
\* derives from the counter and the keys on disk).
THEOREM TypesHold ==
  ASSUME "latest" \notin Faults
  PROVE  Spec => []TypeOK
  <1>1. IInv => TypeOK
    BY DEF IInv
  <1>. QED
    BY <1>1, LogIsSound, PTL

\* ReplayHolds: what read_merged rebuilds from the log is the session the last written record
\* captured, for logs of any length.
THEOREM ReplayHolds ==
  ASSUME "latest" \notin Faults
  PROVE  Spec => []ReplayIsExact
  <1>1. IInv => ReplayIsExact
    BY DEF IInv, DiskInv
  <1>. QED
    BY <1>1, LogIsSound, PTL

\* MarkerHolds: between saves the markers describe the disk, so the next delta starts from what the
\* loader will have rebuilt when it meets it.
THEOREM MarkerHolds ==
  ASSUME "latest" \notin Faults
  PROVE  Spec => []MarkerIsOnDisk
  <1>1. IInv => MarkerIsOnDisk
    <2>. SUFFICES ASSUME IInv, saved # <<>>, ~Landed
                  PROVE  disk.records > 0 /\ saved = <<Marker(disk.image)>>
      BY DEF MarkerIsOnDisk, Landed
    <2>1. CASE alive
      BY <2>1 DEF IInv, BaseInv
    <2>2. CASE ~alive
      BY <2>2 DEF IInv, LiveInv
    <2>. QED
      BY <2>1, <2>2
  <1>. QED
    BY <1>1, LogIsSound, PTL

\* BlobsHold: no view on disk is without its text, although a blob is written once and a write can
\* stop between the blobs and the record.
THEOREM BlobsHold ==
  ASSUME "latest" \notin Faults
  PROVE  Spec => []BlobsResolve
  <1>1. IInv => BlobsResolve
    BY DEF IInv, DiskInv
  <1>. QED
    BY <1>1, LogIsSound, PTL
\* ConsistentHolds: types, markers and blobs together, for logs of any length.
THEOREM ConsistentHolds ==
  ASSUME "latest" \notin Faults
  PROVE  Spec => []LogConsistent
  <1>1. TypeOK /\ MarkerIsOnDisk /\ BlobsResolve => LogConsistent
    BY DEF LogConsistent
  <1>. QED
    BY <1>1, TypesHold, MarkerHolds, BlobsHold, PTL
-----------------------------------------------------------------------------
(***************************************************************************)
(* A resume repeats no turn and reuses no key.  Every item is younger than *)
(* the next one, so what a checkpoint adds to a transcript is new to it;   *)
(* every key a record carried is covered by the counter on disk.           *)
(***************************************************************************)
\* A transcript, its open turn included, that holds no item twice and none from the future.
Folded(s, n) == Once(s) /\ \A i \in DOMAIN s : s[i] < n

FoldInv ==
  /\ Folded(live.transcript \o live.turnTranscript, nextItem)
  /\ Folded(disk.image.transcript \o disk.image.active, nextItem)
  /\ worker # "idle" => Folded(plan[1].image.transcript \o plan[1].image.active, nextItem)

KeyInv == \A k \in seenKeys : k <= disk.image.counter

LEMMA FoldedLater ==
  ASSUME NEW s \in Seq(Items), NEW n \in Nat, Folded(s, n)
  PROVE  Folded(s, n + 1)
  <1>. SUFFICES ASSUME NEW i \in DOMAIN s PROVE s[i] < n + 1
    BY DEF Folded
  <1>1. s[i] < n /\ s[i] \in Nat
    BY SessionLogAssumption DEF Folded, Items
  <1>. QED
    BY <1>1

LEMMA FoldedAppend ==
  ASSUME NEW s \in Seq(Items), NEW t \in Seq(Items), NEW n \in Items, Folded(s \o t, n)
  PROVE  Folded(s \o Append(t, n), n + 1)
  <1>. DEFINE u == s \o t
              v == s \o Append(t, n)
  <1>1. u \in Seq(Items) /\ n \in Nat /\ Items \subseteq Nat
    BY SessionLogAssumption DEF Items
  <1>2. v = Append(u, n)
    OBVIOUS
  <1>3. /\ DOMAIN v = 1..(Len(u) + 1) /\ v[Len(u) + 1] = n
        /\ \A i \in 1..Len(u) : v[i] = u[i]
        /\ DOMAIN u = 1..Len(u) /\ Len(u) \in Nat
    BY <1>1, <1>2
  <1>a. Folded(u, n)
    OBVIOUS
  <1>. HIDE DEF u, v
  <1>4. \A i \in 1..Len(u) : u[i] \in Nat /\ u[i] < n
    <2>. SUFFICES ASSUME NEW i \in 1..Len(u) PROVE u[i] \in Nat /\ u[i] < n
      OBVIOUS
    <2>1. u[i] \in Items
      BY <1>1, ElementOfSeq
    <2>. QED
      BY <1>1, <1>3, <1>a, <2>1 DEF Folded
  <1>5. \A i, j \in 1..Len(u) : u[i] = u[j] => i = j
    BY <1>3, <1>a DEF Folded, Once
  <1>6. \A i \in DOMAIN v : v[i] < n + 1
    BY <1>1, <1>3, <1>4
  <1>7. \A i, j \in DOMAIN v : v[i] = v[j] => i = j
    BY <1>1, <1>3, <1>4, <1>5
  <1>. QED
    BY <1>6, <1>7 DEF Folded, Once, v

LEMMA FoldedAlone ==
  ASSUME NEW s \in Seq(Items), NEW t \in Seq(Items), NEW n, Folded(s \o t, n)
  PROVE  Folded(s \o <<>>, n) /\ Folded((s \o t) \o <<>>, n)
  <1>1. s \o <<>> = s /\ (s \o t) \o <<>> = s \o t
    OBVIOUS
  <1>2. \A i \in DOMAIN s : i \in DOMAIN (s \o t) /\ (s \o t)[i] = s[i]
    OBVIOUS
  <1>. QED
    BY <1>1, <1>2 DEF Folded, Once

LEMMA FoldMutation == IInv /\ FoldInv /\ Mutation => FoldInv'
  <1>. SUFFICES ASSUME IInv, FoldInv, Mutation PROVE FoldInv'
    OBVIOUS
  <1>1. UNCHANGED <<worker, plan, disk>>
    BY DEF Mutation, Checkpoint, CommitTurn, RetractTurn, Compact, Enqueue, Dequeue, RegisterView,
           Mutates
  <1>2. /\ live.transcript \in Seq(Items) /\ live.turnTranscript \in Seq(Items)
        /\ live \in Sessions /\ nextItem \in Nat /\ nextItem \in 1..(MaxItems + 1)
        /\ disk.image.transcript \o disk.image.active \in Seq(Items)
    BY SessionLogAssumption DEF IInv, TypeOK, Sessions, Images
  <1>3. worker # "idle" => plan[1].image.transcript \o plan[1].image.active \in Seq(Items)
    BY ThePlan DEF IInv, Images
  <1>4. \/ nextItem' = nextItem
        \/ nextItem' = nextItem + 1 /\ nextItem \in Items
    <2>1. Fresh \/ nextItem' = nextItem
      BY DEF Mutation, Checkpoint, CommitTurn, RetractTurn, Compact, Enqueue, Dequeue, RegisterView
    <2>2. Fresh => nextItem' = nextItem + 1 /\ nextItem \in Items
      BY <1>2, SessionLogAssumption DEF Fresh, Items
    <2>. QED
      BY <2>1, <2>2
  <1>5. /\ Folded(disk.image.transcript \o disk.image.active, nextItem')
        /\ worker # "idle" => Folded(plan[1].image.transcript \o plan[1].image.active, nextItem')
        /\ Folded(live.transcript \o live.turnTranscript, nextItem')
    <2>1. live.transcript \o live.turnTranscript \in Seq(Items)
      BY <1>2
    <2>. QED
      BY <1>2, <1>3, <1>4, <2>1, FoldedLater DEF FoldInv
  <1>6. Folded(live'.transcript \o live'.turnTranscript, nextItem')
    <2>1. CASE Checkpoint
      <3>1. /\ live'.transcript = live.transcript
            /\ live'.turnTranscript = Append(live.turnTranscript, nextItem)
            /\ nextItem' = nextItem + 1 /\ nextItem \in Items
        BY <1>2, <2>1, SessionLogAssumption DEF Checkpoint, Fresh, Sessions, Items
      <3>. QED
        BY <1>2, <3>1, FoldedAppend DEF FoldInv
    <2>2. CASE CommitTurn
      <3>1. /\ live'.transcript = live.transcript \o live.turnTranscript
            /\ live'.turnTranscript = <<>>
        BY <1>2, <2>2 DEF CommitTurn, Sessions
      <3>. QED
        BY <1>2, <1>5, <3>1, FoldedAlone
    <2>3. CASE RetractTurn
      <3>1. live'.transcript = live.transcript /\ live'.turnTranscript = <<>>
        BY <1>2, <2>3 DEF RetractTurn, Sessions
      <3>. QED
        BY <1>2, <1>5, <3>1, FoldedAlone
    <2>4. CASE Compact \/ Enqueue \/ Dequeue \/ RegisterView
      <3>1. live'.transcript = live.transcript /\ live'.turnTranscript = live.turnTranscript
        BY <1>2, <2>4 DEF Compact, Enqueue, Dequeue, RegisterView, Sessions
      <3>. QED
        BY <1>5, <3>1
    <2>. QED
      BY <2>1, <2>2, <2>3, <2>4 DEF Mutation
  <1>. QED
    BY <1>1, <1>5, <1>6 DEF FoldInv

\* Only the record of a save changes what the log replays to: an opened or an interrupted log still
\* replays to what it did.
LEMMA ImageStays ==
  ASSUME IInv, [Next]_vars, ~AppendRecord
  PROVE  disk'.image = disk.image /\ disk'.records = disk.records
  <1>1. CASE WriteHeader \/ (WriteFails /\ worker = "header" /\ disk' = NoLog)
    <2>1. worker = "header" /\ disk' = NoLog
      BY <1>1 DEF WriteHeader
    <2>2. alive /\ saved = <<>> /\ ~Landed
      BY <2>1 DEF IInv, PlanInv, Landed
    <2>3. disk.records = 0 /\ disk.image = EmptyImage
      BY <2>2 DEF IInv, BaseInv, DiskInv
    <2>. QED
      BY <2>1, <2>3 DEF NoLog
  <1>2. CASE Crash \/ (WriteFails /\ ~(worker = "header" /\ disk' = NoLog))
    BY <1>2, PartialWrite DEF Crash, WriteFails
  <1>3. CASE ~(WriteHeader \/ WriteFails \/ Crash)
    <2>1. disk' = disk
      BY <1>3 DEF Next, Mutation, Checkpoint, CommitTurn, RetractTurn, Compact, Enqueue, Dequeue,
             RegisterView, Mutates, BeginSave, Worker, WriteLatest, CancelSave, CommitSave, AbandonSave,
             Release, Load, vars
    <2>. QED
      BY <2>1
  <1>. QED
    BY <1>1, <1>2, <1>3

\* What a record carries of the views is part of what the plan captured.
LEMMA RecordKeys ==
  ASSUME IInv, worker # "idle"
  PROVE  \A k \in ViewKeys(plan[1].record.views.items) : k <= plan[1].image.counter
  <1>. DEFINE img == plan[1].image
              items == plan[1].record.views.items
  <1>1. /\ img.views \in Seq(Views) /\ \A i \in 1..Len(img.views) : img.views[i].key <= img.counter
    BY ThePlan DEF IInv, PlanInv, Sound, Images
  <1>2. \A i \in DOMAIN items : \E j \in 1..Len(img.views) : items[i] = img.views[j]
    <2>1. CASE saved = <<>>
      <3>1. items = img.views
        BY <2>1 DEF IInv, PlanInv, Snapshot, ReplacingBy
      <3>. QED
        BY <1>1, <3>1
    <2>2. CASE saved # <<>>
      <3>1. plan[1].record.views = KeyedDelta(img.views, saved[1].viewKeys)
        BY <2>2 DEF IInv, PlanInv, Delta
      <3>2. Len(saved[1].viewKeys) \in Nat
        <4>1. saved[1] \in Markers
          BY <2>2 DEF IInv, TypeOK
        <4>. QED
          BY <4>1 DEF Markers
      <3>. DEFINE n == Len(saved[1].viewKeys)
      <3>3. items = <<>> \/ items = img.views \/ items = From(img.views, n)
        BY <3>1 DEF KeyedDelta, Appending, Absent, ReplacingBy
      <3>. HIDE DEF n
      <3>4. CASE items = From(img.views, n)
        <4>1. n \in Nat
          BY <3>2 DEF n
        <4>2. \A i \in DOMAIN From(img.views, n) :
                 i + n \in 1..Len(img.views) /\ From(img.views, n)[i] = img.views[i + n]
          BY <1>1, <4>1 DEF From
        <4>. QED
          BY <3>4, <4>2
      <3>. QED
        BY <1>1, <3>3, <3>4
    <2>. QED
      BY <2>1, <2>2
  <1>. QED
    BY <1>1, <1>2 DEF ViewKeys

LEMMA KeyStep == IInv /\ IInv' /\ KeyInv /\ [Next]_vars => KeyInv'
  <1>. SUFFICES ASSUME IInv, IInv', KeyInv, [Next]_vars PROVE KeyInv'
    OBVIOUS
  <1>1. CASE AppendRecord
    <2>1. /\ worker = "append" /\ worker' = "latest"
          /\ plan' = plan /\ seenKeys' = seenKeys \cup ViewKeys(plan[1].record.views.items)
      BY <1>1 DEF AppendRecord, WorkerStep
    <2>2. disk'.image = plan[1].image
      BY <2>1 DEF IInv, PlanInv, Landed
    <2>a. plan[1].image \in Images /\ disk.image \in Images /\ seenKeys \subseteq 1..MaxViews
      BY <2>1, ThePlan DEF IInv, TypeOK
    <2>b. disk.image.counter <= plan[1].image.counter
      BY <2>1 DEF IInv, PlanInv, Landed, Extends
    <2>3. /\ disk.image.counter <= plan[1].image.counter
          /\ disk.image.counter \in Nat /\ plan[1].image.counter \in Nat /\ seenKeys \subseteq Nat
      BY <2>a, <2>b, SessionLogAssumption DEF Images
    <2>4. \A k \in seenKeys : k <= plan[1].image.counter
      BY <2>3 DEF KeyInv
    <2>. QED
      BY <2>1, <2>2, <2>4, RecordKeys DEF KeyInv
  <1>2. CASE ~AppendRecord
    <2>1. seenKeys' = seenKeys
      BY <1>2 DEF Next, Mutation, Checkpoint, CommitTurn, RetractTurn, Compact, Enqueue, Dequeue,
             RegisterView, Mutates, BeginSave, Worker, WriteHeader, WriteLatest, WriteFails, CancelSave,
             CommitSave, AbandonSave, Release, Crash, Load, vars, historyVars
    <2>2. disk'.image = disk.image
      BY <1>2, ImageStays
    <2>. QED
      BY <2>1, <2>2 DEF KeyInv
  <1>. QED
    BY <1>1, <1>2

LEMMA FoldStep == IInv /\ IInv' /\ FoldInv /\ [Next]_vars => FoldInv'
  <1>. SUFFICES ASSUME IInv, IInv', FoldInv, [Next]_vars PROVE FoldInv'
    OBVIOUS
  <1>1. CASE Mutation
    BY <1>1, FoldMutation
  <1>2. CASE BeginSave
    <2>1. /\ plan'[1].image = Image(live) /\ UNCHANGED <<live, nextItem, disk>>
      BY <1>2 DEF BeginSave, PlanFor, sessionVars
    <2>. QED
      BY <2>1 DEF FoldInv, Image
  <1>3. CASE AppendRecord
    <2>1. worker = "append" /\ worker' = "latest" /\ UNCHANGED <<live, nextItem, plan>>
      BY <1>3 DEF AppendRecord, WorkerStep, sessionVars
    <2>2. disk'.image = plan[1].image
      BY <2>1 DEF IInv, PlanInv, Landed
    <2>. QED
      BY <2>1, <2>2 DEF FoldInv
  <1>4. CASE Load
    <2>1. /\ UNCHANGED <<worker, plan, disk, nextItem>> /\ worker = "idle"
          /\ live'.transcript = disk.image.transcript \o disk.image.active
          /\ live'.turnTranscript = <<>>
      BY <1>4 DEF Load, SessionFrom, EmptySession, IInv, PlanInv
    <2>2. disk.image.transcript \in Seq(Items) /\ disk.image.active \in Seq(Items)
      BY DEF IInv, TypeOK, Images
    <2>. QED
      BY <2>1, <2>2, FoldedAlone DEF FoldInv
  <1>5. CASE Crash
    <2>1. worker' = "idle" /\ live' = EmptySession /\ nextItem' = nextItem /\ ~AppendRecord
      BY <1>5 DEF Crash, AppendRecord
    <2>2. disk'.image = disk.image
      BY <1>5, <2>1, ImageStays
    <2>3. <<>> \o <<>> = <<>> /\ DOMAIN <<>> = {}
      OBVIOUS
    <2>4. live'.transcript = <<>> /\ live'.turnTranscript = <<>>
      BY <2>1 DEF EmptySession
    <2>. QED
      BY <2>1, <2>2, <2>3, <2>4 DEF FoldInv, Folded, Once
  <1>6. CASE ~AppendRecord /\ (Worker \/ CancelSave \/ CommitSave \/ AbandonSave \/ UNCHANGED vars)
    <2>1. /\ UNCHANGED <<live, nextItem>>
          /\ worker' # "idle" => worker # "idle" /\ plan' = plan
      BY <1>6 DEF Worker, WriteHeader, WriteLatest, WriteFails, WorkerStep, CancelSave, CommitSave,
             AbandonSave, Release, sessionVars, vars
    <2>2. disk'.image = disk.image
      BY <1>6, ImageStays DEF Next
    <2>. QED
      BY <2>1, <2>2 DEF FoldInv
  <1>. QED
    BY <1>1, <1>2, <1>3, <1>4, <1>5, <1>6 DEF Next

\* ResumeHolds: however saves, crashes and resumes are interleaved, the turn in progress is folded
\* into the transcript once and an expired view key never names another text.
THEOREM ResumeHolds ==
  ASSUME "latest" \notin Faults
  PROVE  Spec => []ResumeFaithful
  <1>1. Init => FoldInv /\ KeyInv
    <2>1. <<>> \o <<>> = <<>> /\ DOMAIN <<>> = {}
      OBVIOUS
    <2>. QED
      BY <2>1 DEF Init, FoldInv, KeyInv, Folded, Once, EmptySession, NoLog, EmptyImage
  <1>2. IInv /\ IInv' /\ FoldInv /\ KeyInv /\ [Next]_vars => FoldInv' /\ KeyInv'
    BY FoldStep, KeyStep
  <1>3. IInv /\ FoldInv /\ KeyInv => ResumeFaithful
    <2>. SUFFICES ASSUME IInv, FoldInv, KeyInv PROVE FoldedOnce /\ KeysNeverReused
      BY DEF ResumeFaithful
    <2>1. FoldedOnce
      BY DEF FoldInv, Folded, FoldedOnce
    <2>2. ASSUME alive, NEW k \in seenKeys PROVE k <= live.counter
      <3>1. k <= disk.image.counter /\ disk.image.counter <= live.counter
        BY <2>2 DEF KeyInv, IInv, LiveInv, Extends
      <3>2. k \in Nat /\ disk.image.counter \in Nat /\ live.counter \in Nat
        BY SessionLogAssumption DEF IInv, TypeOK, Images, Sessions
      <3>. QED
        BY <3>1, <3>2
    <2>. QED
      BY <2>1, <2>2 DEF KeysNeverReused
  <1>. QED
    BY <1>1, <1>2, <1>3, LogIsSound, PTL DEF Spec

-----------------------------------------------------------------------------
(***************************************************************************)
(* The log implements the promise: a save under way is its frozen plan,    *)
(* and what is durable is what the log replays to.  Opening the log, the   *)
(* latest pointer, a failed write and a cancelled saver are invisible.     *)
(***************************************************************************)
Replayed == IF disk.records = 0 THEN <<>> ELSE <<disk.image>>

LEMMA PromiseInit == Init => Promise!Init
  BY DEF Init, Promise!Init, NoLog

LEMMA ThereIsAPlan == IInv => (plan = <<>> <=> worker = "idle")
  <1>. SUFFICES ASSUME IInv PROVE plan = <<>> <=> worker = "idle"
    OBVIOUS
  <1>1. plan \in Seq(Plans) /\ Len(plan) = IF worker = "idle" THEN 0 ELSE 1
    BY DEF IInv, TypeOK
  <1>2. plan = <<>> <=> Len(plan) = 0
    <2>. HIDE DEF Plans
    <2>. QED
      BY <1>1
  <1>. QED
    BY <1>1, <1>2

\* Between records the durable session does not move.
LEMMA ReplayedStays ==
  ASSUME IInv, [Next]_vars, ~AppendRecord
  PROVE  Replayed' = Replayed
  BY ImageStays DEF Replayed

LEMMA PromiseStep == IInv /\ IInv' /\ [Next]_vars => [Promise!Next]_(Promise!vars)
  <1>. SUFFICES ASSUME IInv, IInv', [Next]_vars PROVE [Promise!Next]_(Promise!vars)
    OBVIOUS
  <1>1. CASE Mutation
    <2>1. alive /\ UNCHANGED <<alive, plan, disk>>
      BY <1>1 DEF Mutation, Checkpoint, CommitTurn, RetractTurn, Compact, Enqueue, Dequeue,
             RegisterView, Mutates
    <2>2. Promise!Work
      BY <2>1 DEF Promise!Work
    <2>. QED
      BY <2>2 DEF Promise!Next
  <1>2. CASE BeginSave
    <2>1. /\ alive /\ alive' = alive /\ worker = "idle" /\ live' = live /\ disk' = disk
          /\ plan' = <<PlanFor(Image(live))>>
      BY <1>2 DEF BeginSave, sessionVars
    <2>2. /\ plan = <<>> /\ plan' # <<>> /\ plan'[1].image = Image(live)
      BY <2>1, ThereIsAPlan DEF PlanFor
    <2>3. Promise!Begin
      BY <2>1, <2>2 DEF Promise!Begin
    <2>. QED
      BY <2>3 DEF Promise!Next
  <1>3. CASE AppendRecord
    <2>1. /\ worker = "append" /\ worker' = "latest" /\ plan # <<>>
          /\ UNCHANGED <<alive, live, plan>>
      BY <1>3, ThereIsAPlan DEF AppendRecord, WorkerStep, sessionVars
    <2>2. disk'.image = plan[1].image /\ disk'.records # 0
      BY <2>1 DEF IInv, PlanInv, Landed
    <2>3. Promise!Land
      BY <2>1, <2>2 DEF Promise!Land
    <2>. QED
      BY <2>3 DEF Promise!Next
  <1>4. CASE ~AppendRecord /\ (WriteHeader \/ WriteLatest \/ WriteFails \/ CancelSave \/ UNCHANGED vars)
    <2>1. UNCHANGED <<alive, live, plan>>
      BY <1>4 DEF WriteHeader, WriteLatest, WriteFails, WorkerStep, CancelSave, sessionVars, vars
    <2>2. Replayed' = Replayed
      BY <1>4, ReplayedStays
    <2>. QED
      BY <2>1, <2>2 DEF Promise!vars, Replayed
  <1>5. CASE CommitSave \/ AbandonSave
    <2>1. plan' = <<>> /\ UNCHANGED <<alive, live, disk>>
      BY <1>5 DEF CommitSave, AbandonSave, Release, sessionVars
    <2>2. Promise!Settle
      BY <2>1 DEF Promise!Settle
    <2>. QED
      BY <2>2 DEF Promise!Next
  <1>6. CASE Crash
    <2>1. alive /\ ~alive' /\ plan' = <<>> /\ ~AppendRecord
      BY <1>6 DEF Crash, AppendRecord
    <2>2. Replayed' = Replayed
      BY <2>1, ReplayedStays
    <2>3. Promise!Crash
      BY <1>6, <2>1, <2>2 DEF Promise!Crash, Replayed, Crash
    <2>. QED
      BY <2>3 DEF Promise!Next
  <1>7. CASE Load
    <2>1. /\ ~alive /\ alive' /\ alive' = TRUE /\ disk.records # 0 /\ UNCHANGED <<plan, disk>>
          /\ live' = SessionFrom(disk.image, Readable(disk.image.views, disk.blobs))
      BY <1>7 DEF Load
    <2>2. Readable(disk.image.views, disk.blobs) = disk.image.views
      BY DEF IInv, DiskInv, BlobsResolve, Readable
    <2>3. Image(live)' = Image(SessionFrom(disk.image, disk.image.views))
      BY <2>1, <2>2
    <2>4. Promise!Resume
      BY <2>1, <2>3 DEF Promise!Resume
    <2>. QED
      BY <2>4 DEF Promise!Next
  <1>. QED
    BY <1>1, <1>2, <1>3, <1>4, <1>5, <1>6, <1>7 DEF Next, Worker

\* AtomicHolds: the log, with its deltas, markers, blobs, failed writes and cancelled savers, does
\* what the abstract session does in one step: a save replaces the durable session by the one
\* captured when it began, or changes nothing, and a resume gives back the durable one.
THEOREM AtomicHolds ==
  ASSUME "latest" \notin Faults
  PROVE  Spec => SavesAreAtomic
  <1>. QED
    BY PromiseInit, PromiseStep, LogIsSound, PTL DEF Spec, SavesAreAtomic, Promise!Spec
=============================================================================
