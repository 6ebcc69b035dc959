------------------------------ MODULE EditPlan ------------------------------
(***************************************************************************)
(* Editing one file: the source views Read mints (source/view.py), the     *)
(* bounded exact relocation of a target (source/relocate.py), the edit     *)
(* resolution and splice (EditTool in tools/files.py) and the batch plan   *)
(* that resolves several Edit calls before any of them writes              *)
(* (EditBatchPlan in tools/editplan.py).                                   *)
(*                                                                         *)
(* A line is a text and an identity.  The program sees the text alone; the *)
(* identity is carried so that "the line the model was shown" and "a line  *)
(* that reads the same" can be told apart.  The target of a direct call is *)
(* a run of whole lines: the text either side of a partial-line target is  *)
(* copied verbatim and plays no part in what is matched.                   *)
(***************************************************************************)
EXTENDS Integers, Sequences, FiniteSets, SequencesExt, FiniteSetsExt

CONSTANTS
  Texts,        \* what a line can say
  Text,         \* bound: what the lines say that edits and others write
  MaxLen,       \* bound: lines of a file that is neither absent nor empty at first
  MaxViews,     \* bound: Reads
  MaxChanges,   \* bound: changes by another program
  MaxEdits,     \* bound: edits over all the Edit calls
  MaxDrift,     \* MAX_VIEW_DRIFT
  Context,      \* the unchanged lines a fresh view shows on either side
  DirectFirst,  \* may view calls follow a direct first call of a batch?
  Races         \* may another program write between the check and the write?

VARIABLES
  file,      \* [exists, lines]: the file on disk
  views,     \* the source views of the session; view.N is views[N]
  phase,     \* "idle", "planning" (build) or "running" (the approved calls)
  snap,      \* FileSnapshot, taken as the plan is built
  state,     \* EditBatchPlan.files[path], NoState until a call needs it
  todo,      \* the planned edits not yet applied, in call order
  checked,   \* the head of todo has passed its stale check, not yet written
  edits,     \* edits issued so far
  changes,   \* changes made by another program
  disturbed  \* since build: another program wrote, or a call was not applied

vars == <<file, views, phase, snap, state, todo, checked, edits, changes, disturbed>>

Absent  == [exists |-> FALSE, lines |-> <<>>]
Holding(lines) == [exists |-> TRUE, lines |-> lines]
NoState == [none |-> TRUE]
NoView  == 0

Said(lines) == [i \in DOMAIN lines |-> lines[i].t]
Ids(lines)  == {lines[i].id : i \in DOMAIN lines}

Line(t, a, b) == [t |-> t, id |-> <<a, b>>]
BySession(n)  == n                 \* identities: edit n of the session,
ByOther(n)    == 0 - n             \* change n of another program,
Original      == 0                 \* the file as it was first

-----------------------------------------------------------------------------
(* Source views                                                            *)

\* SourceView: the length of the file and the lines shown; contiguous shown
\* lines are one span (SourceSpan.build merges ranges that touch).
View(lines, shown) == [total |-> Len(lines), shown |-> [n \in shown |-> lines[n]]]

\* range_lines refuses a range that no single span contains.
InOneSpan(v, s, e) == 1 <= s /\ s <= e /\ s..e \subseteq DOMAIN v.shown
Target(v, s, e)    == [k \in 1..(e - s + 1) |-> v.shown[s + k - 1].t]

\* neighbors: up to two shown lines on each side, inside the span.
Before(v, s) == LET n == Cardinality({k \in {s - 2, s - 1} : k..s \subseteq DOMAIN v.shown})
                IN  Target(v, s - n, s - 1)
After(v, e)  == LET n == Cardinality({k \in {e + 1, e + 2} : e..k \subseteq DOMAIN v.shown})
                IN  Target(v, e + 1, e + n)

-----------------------------------------------------------------------------
(* Matching and relocation                                                 *)

Same(lines, i, want) ==
  \A k \in DOMAIN want : i + k - 1 \in DOMAIN lines /\ lines[i + k - 1].t = want[k]

ContextMatches(lines, i, want, before, after) ==
  /\ i > Len(before)
  /\ Same(lines, i - Len(before), before)
  /\ Same(lines, i + Len(want), after)

\* relocate_target's candidates: neighbours only break ties.
Near(lines, from, want) ==
  {i \in (from - MaxDrift)..(from + MaxDrift) : i \in DOMAIN lines /\ Same(lines, i, want)}

Relocations(lines, from, want, before, after) ==
  LET near == Near(lines, from, want)
  IN  IF Cardinality(near) > 1 /\ Len(before) + Len(after) > 0
      THEN {i \in near : ContextMatches(lines, i, want, before, after)}
      ELSE near

Relocate(lines, from, want, before, after) ==
  LET found == Relocations(lines, from, want, before, after)
  IN  IF Cardinality(found) = 1 THEN CHOOSE i \in found : TRUE ELSE 0

\* locate_range: where the view's lines s..e are now, 0 for a refusal.
\* planned is the index the batch vouches for, or 0.
Locate(lines, v, s, e, planned) ==
  LET want  == Target(v, s, e)
      index == IF planned = 0 THEN s ELSE planned
      b     == Before(v, s)
      a     == After(v, e)
  IN  IF Same(lines, index, want) /\ (planned # 0 \/ ContextMatches(lines, index, want, b, a))
      THEN index
      ELSE Relocate(lines, index, want, b, a)

\* resolve_direct: the places a text occurs, overlapping ones included.
Occurrences(lines, old) == {i \in DOMAIN lines : Same(lines, i, old)}

-----------------------------------------------------------------------------
(* The batch plan                                                          *)

\* FileState for a file that exists: every line is labelled with the view of
\* the call that came first, NoView when that call was direct.
FromSnapshot(key) ==
  [lines    |-> [i \in DOMAIN snap.lines |-> [t |-> snap.lines[i].t, id |-> snap.lines[i].id, from |-> <<key, i>>]],
   exists   |-> TRUE, base |-> key, consumed |-> {}, edited |-> FALSE, evidence |-> "none"]

\* FileState for a file that is to be created (absent, or present and empty).
ToCreate ==
  [lines |-> <<>>, exists |-> FALSE, base |-> NoView, consumed |-> {}, edited |-> FALSE,
   evidence |-> "none"]

\* file_state, for a call through view key (NoView: direct) or a create;
\* NoState when it refuses.
FileState(creating, key) ==
  IF state # NoState
  THEN CASE ~state.exists /\ ~creating                    -> NoState
         [] state.exists /\ creating /\ state.lines # <<>> -> NoState
         [] OTHER                                          -> state
  ELSE CASE creating /\ snap.lines = <<>>  -> ToCreate
         [] ~creating /\ snap.exists         -> FromSnapshot(key)
         [] OTHER                             -> NoState

\* origin_key: another view's line is the base view's when it still reads as
\* the original file does there.
OriginKey_Own(st, key, n) == <<key, n>>
OriginKey(st, key, n) ==
  IF /\ st.base \notin {NoView, key}
     /\ n \in DOMAIN snap.lines
     /\ views[key].shown[n].t = snap.lines[n].t
  THEN <<st.base, n>>
  ELSE <<key, n>>

CurrentIndex(st, o) ==
  LET at == {i \in DOMAIN st.lines : st.lines[i].from = o} IN IF at = {} THEN 0 ELSE Min(at)

\* planned_start refuses a line an earlier edit replaced or deleted ...
Consumed(st, key, s, e) == \E n \in s..e : OriginKey(st, key, n) \in st.consumed

PlannedIndices(st, key, s, e) == [n \in s..e |-> CurrentIndex(st, OriginKey(st, key, n))]
Tracked(st, key, s, e) ==
  st.edited /\ \A n \in s..e : PlannedIndices(st, key, s, e)[n] # 0

\* ... and lines an earlier edit split; otherwise it answers their index once
\* the batch has edited the file, and nothing before.
Split(st, key, s, e) ==
  LET at == PlannedIndices(st, key, s, e)
  IN  Tracked(st, key, s, e) /\ \E n \in s..e : at[n] # at[s] + n - s
PlannedStart(st, key, s, e) ==
  IF Tracked(st, key, s, e) THEN PlannedIndices(st, key, s, e)[s] ELSE 0

\* One edit of a call resolved: the set of its possible places, empty when the
\* call is refused, never more than one.
ViewPlaces(st, key, e) ==
  LET v == views[key]
      at == IF InOneSpan(v, e.first, e.last)
            THEN Locate(st.lines, v, e.first, e.last, PlannedStart(st, key, e.first, e.last))
            ELSE 0
  IN  IF ~InOneSpan(v, e.first, e.last) \/ Consumed(st, key, e.first, e.last)
         \/ Split(st, key, e.first, e.last) \/ at = 0
      THEN {} ELSE {[first |-> at, len |-> e.last - e.first + 1, new |-> e.new]}

DirectPlaces(st, e) ==
  LET at == Occurrences(st.lines, e.old)
  IN  IF Cardinality(at) = 1
      THEN {[first |-> Min(at), len |-> Len(e.old), new |-> e.new]} ELSE {}

\* splice_lines refuses edits that overlap.
Overlap(a, b) == a.first < b.first + b.len /\ b.first < a.first + a.len
Apart(reps)   == \A i, j \in DOMAIN reps : i # j => ~Overlap(reps[i], reps[j])

\* The splices run from the end of the file to its start.
Splice(lines, r) == SubSeq(lines, 1, r.first - 1) \o r.new
                    \o SubSeq(lines, r.first + r.len, Len(lines))
Spliced(lines, reps) ==
  FoldLeft(Splice, lines, SetToSortSeq(ToSet(reps), LAMBDA a, b : a.first > b.first))

\* changes: where each edit's lines are in the file that now exists.
Shift(reps, r) ==
  MapThenSumSet(LAMBDA q : Len(q.new) - q.len, {q \in ToSet(reps) : q.first < r.first})
Hunks(reps) == {[first |-> r.first + Shift(reps, r),
                 last  |-> r.first + Shift(reps, r) + Len(r.new) - 1] : r \in ToSet(reps)}

\* fresh_block: the changed hunks and the lines around them.
FreshView(lines, hunks) ==
  View(lines, UNION {(h.first - Context)..(Max({h.last, h.first - 1}) + Context) : h \in hunks}
                \cap DOMAIN lines)

Relabel(new) == [i \in DOMAIN new |-> [t |-> new[i].t, id |-> new[i].id, from |-> <<>>]]
Unlabel(lines) == [i \in DOMAIN lines |-> [t |-> lines[i].t, id |-> lines[i].id]]
Labelled(reps) == [i \in DOMAIN reps |-> [reps[i] EXCEPT !.new = Relabel(@)]]
Taken(lines, reps) == UNION {Range(SubSeq(lines, r.first, r.first + r.len - 1)) : r \in ToSet(reps)}

\* plan_call once the state, the evidence and the edits are settled: the next
\* FileState, with the origins its edits consumed ...
StateAfter(st, reps, mode) ==
  [st EXCEPT !.lines    = Spliced(st.lines, Labelled(reps)),
             !.exists   = TRUE,
             !.edited   = TRUE,
             !.evidence = IF mode = "create" THEN @ ELSE mode,
             !.consumed = @ \cup ({l.from : l \in Taken(st.lines, reps)} \ {<<>>})]

\* ... and the planned edit.  hit and seen are observations: the identities
\* the edit takes out, and what its view had shown (Seen).
PlannedEdit(st, reps, seen) ==
  [before |-> Said(st.lines), after |-> Unlabel(Spliced(st.lines, Labelled(reps))),
   created |-> ~st.exists, reps |-> reps, seen |-> seen,
   hit |-> {l.id : l \in Taken(st.lines, reps)}]
-----------------------------------------------------------------------------
Init ==
  /\ file \in {Absent} \cup UNION {{Holding([i \in 1..n |-> Line(s[i], Original, i)]) : s \in [1..n -> Texts]} :
                                    n \in {0, MaxLen}}
  /\ views = <<>> /\ phase = "idle" /\ snap = Absent /\ state = NoState
  /\ todo = <<>> /\ checked = FALSE /\ edits = 0 /\ changes = 0 /\ disturbed = FALSE

\* ReadTool.read_one: one contiguous range is shown and becomes a view.
Read(s, e) ==
  /\ phase = "idle" /\ Len(views) < MaxViews /\ edits < MaxEdits /\ file.exists
  /\ s..e \subseteq DOMAIN file.lines
  /\ views' = Append(views, View(file.lines, s..e))
  /\ UNCHANGED <<file, phase, snap, state, todo, checked, edits, changes, disturbed>>

\* Another program inserts or removes a line, or removes the file.  (Before the
\* first view a change is another file to start from; while calls run it is
\* only compared, and a line on top stands for any other content.)
OtherWrites ==
  /\ phase # "planning" /\ changes < MaxChanges /\ file.exists /\ views # <<>>
  /\ edits < MaxEdits \/ todo # <<>>
  /\ Races \/ ~checked
  /\ changes' = changes + 1
  /\ file' \in {Absent} \cup {Holding(lines) : lines \in
       {InsertAt(file.lines, i, Line(Text, ByOther(changes'), 1)) :
          i \in IF phase = "idle" THEN 1..(Len(file.lines) + 1) ELSE {1}}
       \cup {RemoveAt(file.lines, i) : i \in IF phase = "idle" THEN DOMAIN file.lines ELSE {}}}
  /\ disturbed' = (disturbed \/ phase = "running")
  /\ UNCHANGED <<views, phase, snap, state, todo, checked, edits>>

\* build: the file is read once for the whole batch.
Snapshot ==
  /\ phase = "idle" /\ edits < MaxEdits
  /\ phase' = "planning" /\ snap' = file /\ state' = NoState /\ disturbed' = FALSE
  /\ UNCHANGED <<file, views, todo, checked, edits, changes>>

\* The edits one call may carry, listed in file order: the lines of each range
\* (or the text quoted) and the lines to write.
NewLines == {<<>>, <<Text>>, <<Text, Text>>}
Written(e, k) == [i \in DOMAIN e |-> Line(e[i], BySession(edits + k), i)]
Ranges == {r \in (1..MaxLen) \X (1..MaxLen) : r[1] <= r[2]}
InOrder(n) == {call \in [1..n -> Ranges \X NewLines] :
                 \A i, j \in 1..n : i < j => call[i][1][1] <= call[j][1][1]}
Olds   == UNION {[1..n -> Texts] : n \in 1..2}

\* The calls of each size, and the sizes a call may have now.
ViewCalls   == [n \in 1..MaxEdits |-> InOrder(n)]
DirectCalls == [n \in 1..MaxEdits |-> [1..n -> Olds \X NewLines]]
Sizes == {n \in 1..MaxEdits : phase = "planning" /\ edits + n <= MaxEdits}

\* plan_call: one call is resolved against the planned file, or refused.  A
\* refused call leaves the FileState it needed behind.
Resolve(st, mode, reps, seen) ==
  IF Apart(reps) /\ (~st.exists \/ Said(Spliced(st.lines, reps)) # Said(st.lines))
  THEN /\ state' = StateAfter(st, reps, mode)
       /\ todo'  = Append(todo, PlannedEdit(st, reps, seen))
  ELSE /\ state' = st
       /\ UNCHANGED todo

\* What the view of a call had shown: the identities of its targets; whether
\* it showed the file as it was when the plan was built; whether every
\* place is one where the neighbours shown are found too, if any is in reach.
NothingSeen == [ids |-> {}, faithful |-> FALSE, vouched |-> TRUE]
VouchedPlaces(st, v, e) ==
  {i \in Near(st.lines, e.first, Target(v, e.first, e.last)) :
     ContextMatches(st.lines, i, Target(v, e.first, e.last), Before(v, e.first), After(v, e.last))}
Seen(st, v, ask, at) ==
  [ids      |-> UNION {{v.shown[n].id : n \in ask[k].first..ask[k].last} : k \in DOMAIN ask},
   faithful |-> \A n \in DOMAIN v.shown : n \in DOMAIN snap.lines /\ snap.lines[n] = v.shown[n],
   vouched  |-> \A k \in DOMAIN ask : VouchedPlaces(st, v, ask[k]) = {} \/ at[k].first \in VouchedPlaces(st, v, ask[k])]

\* A call that creates the file.
PlanCreate(new) ==
  /\ phase = "planning" /\ edits < MaxEdits
  /\ edits' = edits + 1
  /\ LET st == FileState(TRUE, NoView)
     IN  IF st = NoState THEN UNCHANGED <<state, todo>>
         ELSE Resolve(st, "create", <<[first |-> 1, len |-> 0, new |-> Written(new, 1)]>>, NothingSeen)
  /\ UNCHANGED <<file, views, phase, snap, checked, changes, disturbed>>

\* A call through a view: ranges of it, each with the lines to write there.
PlanView(key, call) ==
  /\ phase = "planning"
  /\ edits' = edits + Len(call)
  /\ ~DirectFirst /\ state # NoState /\ snap.exists => state.base # NoView
  /\ LET st   == FileState(FALSE, key)
         ask  == [k \in DOMAIN call |-> [first |-> call[k][1][1], last |-> call[k][1][2],
                                         new |-> Written(call[k][2], k)]]
         at   == [k \in DOMAIN call |-> ViewPlaces(st, key, ask[k])]
     IN  IF st = NoState THEN UNCHANGED <<state, todo>>
         ELSE IF st.evidence = "direct" \/ \E k \in DOMAIN call : at[k] = {}
         THEN state' = st /\ UNCHANGED todo
         ELSE Resolve(st, "view", [k \in DOMAIN call |-> CHOOSE r \in at[k] : TRUE],
                      Seen(st, views[key], ask, [k \in DOMAIN call |-> CHOOSE r \in at[k] : TRUE]))
  /\ UNCHANGED <<file, views, phase, snap, checked, changes, disturbed>>

\* A call that quotes the text it replaces.
PlanDirect(call) ==
  /\ phase = "planning"
  /\ edits' = edits + Len(call)
  /\ LET st == FileState(FALSE, NoView)
         at == [k \in DOMAIN call |->
                  DirectPlaces(st, [old |-> call[k][1], new |-> Written(call[k][2], k)])]
     IN  IF st = NoState THEN UNCHANGED <<state, todo>>
         ELSE IF st.evidence = "view" \/ \E k \in DOMAIN call : at[k] = {}
         THEN state' = st /\ UNCHANGED todo
         ELSE Resolve(st, "direct", [k \in DOMAIN call |-> CHOOSE r \in at[k] : TRUE], NothingSeen)
  /\ UNCHANGED <<file, views, phase, snap, checked, changes, disturbed>>

\* build returns and the runner takes the calls up; what they were planned
\* from is not looked at again.
Planned ==
  /\ phase = "planning"
  /\ phase' = "running" /\ snap' = Absent /\ state' = NoState
  /\ UNCHANGED <<file, views, todo, checked, edits, changes, disturbed>>

\* The first half of transact: is the file still what the edit expects?
Current_Any(edit) == TRUE
Current(edit) ==
  IF file.exists THEN Said(file.lines) = edit.before ELSE edit.created /\ edit.before = <<>>
Check ==
  /\ phase = "running" /\ todo # <<>> /\ ~checked
  /\ IF Current(Head(todo)) THEN checked' = TRUE /\ UNCHANGED <<todo, disturbed>>
     ELSE todo' = Tail(todo) /\ disturbed' = TRUE /\ UNCHANGED checked
  /\ UNCHANGED <<file, views, phase, snap, state, edits, changes>>

\* The second half, and result: the file is written and a fresh view minted.
Write ==
  /\ checked
  /\ file'  = Holding(Head(todo).after)
  /\ views' = Append(views, FreshView(Head(todo).after, Hunks(Head(todo).reps)))
  /\ todo'  = Tail(todo)
  /\ checked' = FALSE
  /\ UNCHANGED <<phase, snap, state, edits, changes, disturbed>>

\* The user refuses a call, or an earlier failure skips it.
NotApplied ==
  /\ phase = "running" /\ todo # <<>> /\ ~checked
  /\ todo' = Tail(todo) /\ disturbed' = TRUE
  /\ UNCHANGED <<file, views, phase, snap, state, checked, edits, changes>>

BatchEnds ==
  /\ phase = "running" /\ todo = <<>>
  /\ phase' = "idle" /\ disturbed' = FALSE
  /\ UNCHANGED <<file, views, snap, state, todo, checked, edits, changes>>

Next ==
  \/ \E r \in Ranges : Read(r[1], r[2])
  \/ OtherWrites
  \/ Snapshot
  \/ \E new \in NewLines : PlanCreate(new)
  \/ \E key \in DOMAIN views, n \in Sizes : \E call \in ViewCalls[n] : PlanView(key, call)
  \/ \E n \in Sizes : \E call \in DirectCalls[n] : PlanDirect(call)
  \/ Planned
  \/ Check
  \/ Write
  \/ NotApplied
  \/ BatchEnds

Spec == Init /\ [][Next]_vars
-----------------------------------------------------------------------------
Lines == [t : Texts, id : Int \X Nat]
TypeOK ==
  /\ \A i \in DOMAIN file.lines : file.lines[i] \in Lines
  /\ ~file.exists => file = Absent
  /\ \A k \in DOMAIN views : DOMAIN views[k].shown \subseteq 1..views[k].total
  /\ phase \in {"idle", "planning", "running"}
  /\ checked => phase = "running" /\ todo # <<>>

\* A view that shows the file as the batch found it is obeyed to the line: an
\* edit planned through it takes out exactly the lines it showed, whatever the
\* calls before it in the batch inserted, removed or duplicated, and through
\* whichever view they were made (EditBatchPlan.planned_start, origin_key).
HitsWhatWasSeen ==
  \A i \in DOMAIN todo : todo[i].seen.faithful => todo[i].hit = todo[i].seen.ids

\* Undisturbed, a batch never refuses its own edits as stale: each planned edit
\* finds the file its predecessors left (plan_call's before, transact's check).
PlanHolds ==
  phase = "running" /\ todo # <<>> /\ ~disturbed
     => Said(file.lines) = Head(todo).before

\* A write changes the lines the edit resolved to and nothing else that is in
\* the file at that time: an edit computed against a file that changed
\* underneath is rejected (PlannedEdit.transact).
WriteKeepsTheRest ==
  [][Len(views') > Len(views) /\ phase = "running"
       => Said(file'.lines) = Said(Spliced(file.lines, Head(todo).reps))]_vars

\* The fresh view of a write shows every line the edit wrote, so the next
\* edit can be made from it (splice_lines' running delta, fresh_block).
FreshShowsChange ==
  [][Len(views') > Len(views) /\ phase = "running"
       => UNION {Ids(r.new) : r \in ToSet(Head(todo).reps)}
            \subseteq {views'[Len(views')].shown[n].id : n \in DOMAIN views'[Len(views')].shown}]_vars

\* An edit through a view is never resolved by position alone: when the lines
\* shown sit in reach between the neighbours shown beside them, no other lines
\* that merely read the same are taken out instead (the promise of locate_range).
NeverByPosition ==
  \A i \in DOMAIN todo : todo[i].seen.vouched \/ todo[i].hit = todo[i].seen.ids

\* A batch takes out what its calls were shown, and never refuses its own edits.
PlansSound == TypeOK /\ HitsWhatWasSeen /\ PlanHolds

\* A write changes what it resolved to, and shows it.
WritesSound == WriteKeepsTheRest /\ FreshShowsChange
=============================================================================
