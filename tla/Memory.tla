-------------------------------- MODULE Memory --------------------------------
(***************************************************************************)
(* What a session remembers beside its messages: the retained segments of  *)
(* compacted history, that RecallContext lists page by page, gets and      *)
(* searches while compaction appends and drops them; the slices of Recall; *)
(* the notes, which an update changes as a whole or not at all; and the    *)
(* inputs NextHints offers for the next turn.                              *)
(*                                                                         *)
(* A segment is its key, the compaction it was made by, and what of it the *)
(* query in use matches: its title, and which of its lines.  The plan and  *)
(* the goal stand for the check too, which Note treats as the goal.        *)
(***************************************************************************)
EXTENDS Naturals, Sequences, FiniteSets, SequencesExt

CONSTANTS
  MAX_HISTORY_SEGMENTS, \* segments retained
  MaxCompactions,       \* bound: segments stored
  Kinds,                \* what a query may match of a segment: [title, lines]
  DEFAULT_LIMIT,        \* the limit of a request that names none
  Limits,               \* limits that are named
  Facts,                \* what may be known
  Inputs,               \* inputs that may be offered
  MAX_HINTS,            \* inputs offered at most
  MaxFacts,             \* bound: facts known
  MaxOffered            \* bound: inputs offered in one batch

VARIABLES
  history,  \* session.history, oldest first
  made,     \* compactions that stored a segment
  walk,     \* the listing under way: the keys shown, the cursor, what was retained when it began
  reply,    \* the request being answered and its answer, or NoReply
  notes,    \* goal, plan and known of AgentState
  noted,    \* the last update: what it asked, what was before, what it reported; or Nothing
  hints,    \* session.quick_hints
  offered   \* inputs offered by the calls of the batch, in order

segmentVars == <<history, made, walk, reply>>
noteVars    == <<notes, noted>>
hintVars    == <<hints, offered>>
vars        == <<segmentVars, noteVars, hintVars>>

None    == "none"
NoWalk  == [shown |-> <<>>, next |-> 0, began |-> {}]
NoNotes == [goal |-> None, plan |-> None, known |-> <<>>]
Nothing == [ok |-> TRUE]
NoReply == [action |-> None]

Keys(list) == {list[i].key : i \in DOMAIN list}
Bounded(list, n) == SubSeq(list, 1, IF Len(list) < n THEN Len(list) ELSE n)
\* list(dict.fromkeys(list)): first occurrences, in order.
Distinct(list) ==
  FoldLeft(LAMBDA kept, x : IF x \in ToSet(kept) THEN kept ELSE Append(kept, x), <<>>, list)

Init ==
  /\ history = <<>> /\ made = 0 /\ walk = NoWalk /\ reply = NoReply
  /\ notes = NoNotes /\ noted = Nothing
  /\ hints = <<>> /\ offered = <<>>

-----------------------------------------------------------------------------
(***************************************************************************)
(* Segments.                                                               *)
(***************************************************************************)
\* Mutant: the key counts the segments that are left.
next_segment_key_Length == Len(history) + 1
\* One more than the highest key ever issued.
next_segment_key ==
  IF history = <<>> THEN 1 ELSE CHOOSE k \in 1..(MaxCompactions + 1) :
    k - 1 \in Keys(history) /\ \A j \in Keys(history) : j < k

\* A compaction keeps what it evicted; the newest segments are retained.
store_history_segment(kind) ==
  /\ made < MaxCompactions /\ reply = NoReply
  /\ LET all == Append(history, [key |-> next_segment_key, of |-> made + 1, text |-> kind])
     IN  history' = IF Len(all) > MAX_HISTORY_SEGMENTS THEN Tail(all) ELSE all
  /\ made' = made + 1
  /\ UNCHANGED <<walk, reply>>

\* The arguments of a call; 0, <<>> and None are those left out.
Payloads ==
  [action : {None, "list", "get", "search"}, query : BOOLEAN, case : {None, "exact", "folded"},
   keys : {<<>>, <<2>>, <<MaxCompactions, 1, 1>>},
   limit : {0, DEFAULT_LIMIT} \cup Limits, before : 0..MaxCompactions]

\* The action a payload means, "refused" when a field does not go with it.
request(p) ==
  LET action == CASE p.action # None -> p.action
                  [] p.query         -> "search"
                  [] p.keys # <<>>   -> "get"
                  [] OTHER           -> "list"
      case   == IF action # "search" /\ p.case = "folded" THEN None ELSE p.case
      limit  == IF action = "get" /\ p.limit = DEFAULT_LIMIT THEN 0 ELSE p.limit
      agrees == CASE action = "list"   -> p.keys = <<>> /\ ~p.query /\ case = None
                  [] action = "get"    -> p.keys # <<>> /\ ~p.query /\ case = None /\ limit = 0 /\ p.before = 0
                  [] action = "search" -> p.query /\ p.before = 0
  IN  IF agrees THEN action ELSE "refused"

LimitOf(p) == IF p.limit = 0 THEN DEFAULT_LIMIT ELSE p.limit

\* Mutant: the cursor is the last key of a page, and the next page begins with it.
older_Inclusive(before) == SelectSeq(Reverse(history), LAMBDA s : before = 0 \/ s.key <= before)
\* Newest first, and only those older than the cursor.
older(before) == SelectSeq(Reverse(history), LAMBDA s : before = 0 \/ s.key < before)
list_segments(before, limit) ==
  LET segments == older(before)
      selected == Bounded(segments, limit)
  IN  [keys |-> [i \in DOMAIN selected |-> selected[i].key],
       next |-> IF Len(segments) > Len(selected) /\ selected # <<>> THEN Last(selected).key ELSE 0]

missing_reason(key) == IF history # <<>> /\ key < Head(history).key THEN "dropped" ELSE "missing"
Named(key) == CHOOSE s \in ToSet(history) : s.key = key

\* Each key of a get, with the compaction it gives the excerpt of or why it gives none.
get(keys) ==
  [i \in DOMAIN Distinct(keys) |->
    LET key == Distinct(keys)[i]
    IN  IF key \in Keys(history) THEN [key |-> key, of |-> Named(key).of, why |-> None]
        ELSE [key |-> key, of |-> 0, why |-> missing_reason(key)]]

\* The segments a search reads: those named that are retained, or all, oldest first.
Searched(keys) ==
  IF keys = <<>> THEN history
  ELSE LET named == SelectSeq(Distinct(keys), LAMBDA k : k \in Keys(history))
       IN  [i \in DOMAIN named |-> Named(named[i])]

\* The rows one segment adds: the title, then its lines until the limit is reached.
match_rows(rows, s, limit) ==
  FoldLeft(LAMBDA acc, n :
             LET more == IF s.text.lines[n] THEN Append(acc.rows, <<s.key, n>>) ELSE acc.rows
             IN  IF acc.full THEN acc ELSE [rows |-> more, full |-> Len(more) >= limit],
           [rows |-> IF s.text.title THEN Append(rows, <<s.key, 0>>) ELSE rows, full |-> FALSE],
           [n \in DOMAIN s.text.lines |-> n]).rows

\* Mutant: the title of a segment is not counted against the limit.
search_NotCut(keys, limit) ==
  FoldLeft(LAMBDA rows, s : IF Len(rows) >= limit THEN rows ELSE match_rows(rows, s, limit), <<>>, Searched(keys))
search(keys, limit) ==
  Bounded(FoldLeft(LAMBDA rows, s : IF Len(rows) >= limit THEN rows ELSE match_rows(rows, s, limit),
                   <<>>, Searched(keys)), limit)

\* Mutant: the end of a range is taken as exclusive.
slice_HalfOpen(lines, start, end) ==
  LET first == IF start > 1 THEN start ELSE 1
  IN  IF end >= first THEN SubSeq(lines, first, IF end <= Len(lines) THEN end - 1 ELSE Len(lines)) ELSE <<>>
\* The lines of an inclusive range that may reach past either end.
slice(lines, start, end) ==
  LET first == IF start > 1 THEN start ELSE 1
  IN  IF end >= first THEN SubSeq(lines, first, IF end < Len(lines) THEN end ELSE Len(lines)) ELSE <<>>

\* A listing from the top begins a walk; one from its cursor goes on with it.
Walked(p, page) ==
  IF p.before = 0 THEN [shown |-> page.keys, next |-> page.next, began |-> Keys(history)]
  ELSE IF p.before = walk.next THEN [walk EXCEPT !.shown = @ \o page.keys, !.next = page.next]
  ELSE walk

RecallContext(p) ==
  /\ reply = NoReply
  /\ LET action == request(p)
         page   == list_segments(p.before, LimitOf(p))
     IN  /\ reply' = IF action = "refused" THEN [action |-> action]
                     ELSE [ask |-> p, action |-> action,
                           answer |-> CASE action = "list"   -> page.keys
                                        [] action = "get"    -> get(p.keys)
                                        [] action = "search" -> search(p.keys, LimitOf(p))]
         /\ walk' = IF action = "list" THEN Walked(p, page) ELSE walk
  /\ UNCHANGED <<history, made>>

\* A Recall of one result, of so many lines, by one range that line_range lets pass.
Recall(count, start, end) ==
  LET lines == [i \in 1..count |-> i]
  IN  /\ reply = NoReply
      /\ reply' = [action |-> "slice", of |-> lines, range |-> <<start, end>>, answer |-> slice(lines, start, end)]
      /\ UNCHANGED <<history, made, walk>>

\* The answer reaches the model; a compaction may come before its next request.
Answered == reply # NoReply /\ reply' = NoReply /\ UNCHANGED <<history, made, walk>>

-----------------------------------------------------------------------------
(***************************************************************************)
(* Notes.  Absent is a field the update does not name, Bad one that is not *)
(* what the schema says.                                                   *)
(***************************************************************************)
Absent  == "absent"
Bad     == "bad"
NoList  == <<Absent>>
BadList == <<Bad>>
Lists   == {<<f>> : f \in Facts} \cup {<<f, g>> : f, g \in Facts}
Updates ==
  [goal : {Absent, None, "g"}, plan : {Absent, Bad, "p"},
   append : {NoList, BadList} \cup Lists, replace : {NoList, BadList, <<>>} \cup Lists]

Refused(u) == u.plan = Bad \/ BadList \in {u.append, u.replace}
Known(u) ==
  IF u.replace # NoList THEN u.replace
  ELSE IF u.append # NoList THEN Distinct(notes.known \o u.append)
  ELSE notes.known
Updated(u) ==
  [goal  |-> IF u.goal = Absent THEN notes.goal ELSE u.goal,
   plan  |-> IF u.plan = Absent THEN notes.plan ELSE u.plan,
   known |-> Known(u)]

\* Mutant: each field is assigned as it is read, before the next is checked.
Note_FieldByField(u) ==
  /\ noted = Nothing
  /\ notes' = IF Refused(u) THEN [notes EXCEPT !.goal = IF u.goal = Absent THEN @ ELSE u.goal] ELSE Updated(u)
  /\ noted' = [ok |-> ~Refused(u), asked |-> u, was |-> notes, added |-> 0]
  /\ UNCHANGED <<segmentVars, hintVars>>
Note(u) ==
  /\ noted = Nothing
  /\ u.goal # Absent \/ u.plan # Absent \/ u.append # NoList \/ u.replace # NoList
  /\ ~Refused(u) => Len(Known(u)) <= MaxFacts
  /\ notes' = IF Refused(u) THEN notes ELSE Updated(u)
  /\ noted' = [ok |-> ~Refused(u), asked |-> u, was |-> notes,
               added |-> IF Refused(u) THEN 0
                         ELSE Cardinality(ToSet(Known(u)) \ ToSet(notes.known))]
  /\ UNCHANGED <<segmentVars, hintVars>>

\* The report reaches the model.
Reported == noted # Nothing /\ noted' = Nothing /\ UNCHANGED <<notes, segmentVars, hintVars>>

-----------------------------------------------------------------------------
(***************************************************************************)
(* Inputs offered for the next turn.                                       *)
(***************************************************************************)
\* Mutant: the last call of a batch wins.
add_quick_hints_Last(new) == Bounded(new, MAX_HINTS)
add_quick_hints(new) == Bounded(hints \o SelectSeq(new, LAMBDA h : h \notin ToSet(hints)), MAX_HINTS)

\* One call of a batch; blank inputs are gone.
NextHints(list) ==
  LET new == Bounded(Distinct(list), MAX_HINTS)
  IN  /\ new # <<>> /\ Len(offered) + Len(list) <= MaxOffered
      /\ hints' = add_quick_hints(new) /\ offered' = offered \o list
      /\ UNCHANGED <<segmentVars, noteVars>>

\* A step of the turn, a turn or a submission of the user takes them away.
clear_quick_hints ==
  /\ hints' = <<>> /\ offered' = <<>> /\ UNCHANGED <<segmentVars, noteVars>>

-----------------------------------------------------------------------------
Segments ==
  \/ \E kind \in Kinds : store_history_segment(kind)
  \/ \E p \in Payloads : RecallContext(p)
  \/ \E count \in {0, 3}, start, end \in 0..4 : Recall(count, start, end)
  \/ Answered

\* What one call may offer.
Offers == {<<a>> : a \in Inputs} \cup {<<a, b>> : a, b \in Inputs}

Next ==
  \/ Segments /\ UNCHANGED <<noteVars, hintVars>>
  \/ \E u \in Updates : Note(u)
  \/ Reported
  \/ \E list \in Offers : NextHints(list)
  \/ clear_quick_hints

Spec == Init /\ [][Next]_vars

-----------------------------------------------------------------------------
(***************************************************************************)
(* Properties.                                                             *)
(***************************************************************************)
TypeOK ==
  /\ made \in 0..MaxCompactions /\ Len(history) <= MAX_HISTORY_SEGMENTS
  /\ \A i \in DOMAIN history : history[i] \in [key : 1..MaxCompactions, of : 1..MaxCompactions, text : Kinds]
  /\ notes.known \in Seq(Facts) /\ hints \in Seq(Inputs)

\* A key names one excerpt for ever: a get gives the segment the model was shown under that key, or
\* says that it was dropped, and never that it was dropped when it was never issued.
GetIsHonest ==
  reply.action = "get" =>
    \A i \in DOMAIN reply.answer :
      LET a == reply.answer[i]
      IN  IF a.key \in Keys(history) THEN a.of = a.key
          ELSE a.of = 0 /\ a.why = IF a.key > made THEN "missing" ELSE "dropped"

\* Paging by the cursor shows every segment that is still there, newest first, none twice, though
\* compaction stores and drops segments between two pages.
WalkIsWhole ==
  /\ \A i, j \in DOMAIN walk.shown : i < j => walk.shown[j] < walk.shown[i]
  /\ walk.next = 0 => walk.began \cap Keys(history) \subseteq ToSet(walk.shown)

\* A search gives the first rows, in the order of segments, titles and lines, of all there are.
AllRows(keys) ==
  FoldLeft(LAMBDA rows, s :
             rows \o (IF s.text.title THEN <<<<s.key, 0>>>> ELSE <<>>)
                  \o SelectSeq([n \in DOMAIN s.text.lines |-> <<s.key, n>>], LAMBDA row : s.text.lines[row[2]]),
           <<>>, Searched(keys))
SearchIsPrefix ==
  reply.action = "search" =>
    reply.answer = Bounded(AllRows(reply.ask.keys), LimitOf(reply.ask))

\* No field that says something is passed over: an answer is the one every field asked for.
NothingIgnored ==
  reply.action \in {"list", "get", "search"} =>
    /\ reply.ask.query => reply.action = "search"
    /\ reply.ask.before # 0 => reply.action = "list"
    /\ reply.ask.keys # <<>> => reply.action \in {"get", "search"}
    /\ reply.ask.case = "exact" => reply.action = "search"
    /\ reply.action = "get" => reply.ask.limit \in {0, DEFAULT_LIMIT}

\* A slice has the lines whose numbers its range includes.
SliceIsExact ==
  reply.action = "slice" =>
    reply.answer = SelectSeq(reply.of, LAMBDA i : reply.range[1] <= i /\ i <= reply.range[2])

\* A refused update changed nothing; one that was taken kept every fact it did not replace, and
\* reported the facts that are new.
NotesAreWhole ==
  noted # Nothing =>
    /\ ~noted.ok => notes = noted.was
    /\ noted.ok /\ noted.asked.replace = NoList => ToSet(noted.was.known) \subseteq ToSet(notes.known)
    /\ noted.ok => noted.added = Cardinality(ToSet(notes.known) \ ToSet(noted.was.known))

\* The calls of one batch add up: what is offered is the first of all they named, each once.
HintsAddUp == hints = Bounded(Distinct(offered), MAX_HINTS)

MemorySound ==
  /\ TypeOK /\ GetIsHonest /\ WalkIsWhole /\ SearchIsPrefix /\ NothingIgnored /\ SliceIsExact
  /\ NotesAreWhole /\ HintsAddUp
=============================================================================
