------------------------------- MODULE Mentions -------------------------------
(***************************************************************************)
(* File mentions: one scan of the working tree shared by everyone who      *)
(* wants its candidates, the ranking behind a keystroke, the fzf picker,   *)
(* and the owner of the session's background work, which admits all three  *)
(* and settles them when the session closes.                               *)
(*                                                                         *)
(* A scan reads the tree at some moment and publishes it later.  Discovery *)
(* (git, rg, or a walk) is the set of files there is; ranking keeps the    *)
(* files a query hits.                                                     *)
(***************************************************************************)
EXTENDS Integers, FiniteSets

CONSTANTS
  Files, Queries,
  Hits,        \* the files a query matches: a function from Queries to sets of files
  MaxEdits,    \* bound: changes of the tree
  MaxTyped,    \* bound: keystrokes in a mention
  MaxScans,    \* bound: scans begun when there is a snapshot already
  MaxPicks,    \* bound: pickers opened
  MaxFails     \* bound: scans that fail

VARIABLES
  tree,
  open,        \* of the background owner: "open", "closing" or "closed"
  cache, generation, last,          \* FileMentions: _paths_cache, _generation, _last_match
  request, pending, ranking,        \* _match_request, _pending_match, and the coroutine that drains it
  scan,        \* the coalesced scan: where it is and what it read
  typed, due, menu, answered,       \* the prompt: its query, the callback to run, the menu, the last request called back
  picker,      \* the picker: where it is, what it displays
  mention,     \* the file the picker put into the prompt
  edits, scans, picks, fails

mentions == <<cache, generation, last>>
prompt   == <<typed, due, menu>>
bounds   == <<edits, scans, picks, fails>>
vars     == <<tree, open, mentions, request, pending, ranking, scan, prompt, answered, picker, mention, bounds>>

None     == "none"
NoScan   == [at |-> None, seen |-> {}]
NoPick   == [at |-> None, snapshot |-> {}]
NoMatch  == [generation |-> -1, query |-> None, files |-> {}]
NoRank   == [at |-> None, request |-> 0, query |-> None, paths |-> {}, generation |-> 0]

Warm == cache # {None}

Init ==
  /\ tree \in SUBSET Files /\ open = "open"
  /\ cache = {None} /\ generation = 0 /\ last = NoMatch
  /\ request = 0 /\ pending = NoRank /\ ranking = NoRank
  /\ scan = NoScan
  /\ typed = None /\ due = None /\ menu = {} /\ answered = 0
  /\ picker = NoPick /\ mention = None
  /\ edits = 0 /\ scans = 0 /\ picks = 0 /\ fails = 0

ChangeTree ==
  /\ edits < MaxEdits /\ edits' = edits + 1
  /\ tree' \in (SUBSET Files) \ {tree}
  /\ UNCHANGED <<open, mentions, request, pending, ranking, scan, prompt, answered, picker, mention, scans, picks, fails>>

-----------------------------------------------------------------------------
(***************************************************************************)
(* The scan: refresh_mentions and FileMentions.refresh.                    *)
(***************************************************************************)
\* refresh_mentions: join the scan under way, or begin it; nothing once admission is closed.
schedule_refresh ==
  IF open = "open" /\ scan.at = None /\ (Warm => scans < MaxScans)
  THEN scan' = [at |-> "running", seen |-> {}] /\ scans' = scans + 1
  ELSE UNCHANGED <<scan, scans>>

\* At start-up, before anyone asks.
WarmUp ==
  /\ open = "open" /\ ~Warm /\ scan.at = None /\ scans = 0
  /\ schedule_refresh
  /\ UNCHANGED <<tree, open, mentions, request, pending, ranking, prompt, answered, picker, mention, edits, picks, fails>>

ScanReads ==
  /\ scan.at = "running"
  /\ scan' = [at |-> "read", seen |-> tree]
  /\ UNCHANGED <<tree, open, mentions, request, pending, ranking, prompt, answered, picker, mention, bounds>>

\* Whoever waited for the scan goes on with its result.
Woken(paths, g) ==
  /\ ranking' = IF ranking.at = "waiting" THEN [ranking EXCEPT !.at = "ranking", !.paths = paths, !.generation = g] ELSE ranking
  /\ picker' = IF picker.at = "waiting" THEN [at |-> "shown", snapshot |-> paths] ELSE picker

ScanEnds ==
  /\ scan.at = "read" /\ open = "open"
  /\ cache' = scan.seen /\ generation' = generation + 1 /\ last' = NoMatch
  /\ Woken(scan.seen, generation + 1)
  /\ scan' = NoScan
  /\ UNCHANGED <<tree, open, request, pending, prompt, answered, mention, bounds>>

\* A failure keeps the snapshot there was.
ScanFails ==
  /\ scan.at # None /\ open = "open" /\ fails < MaxFails /\ fails' = fails + 1
  /\ Woken(IF Warm THEN cache ELSE {}, generation)
  /\ scan' = NoScan
  /\ UNCHANGED <<tree, open, mentions, request, pending, prompt, answered, mention, edits, scans, picks>>

-----------------------------------------------------------------------------
(***************************************************************************)
(* FileMentions.complete: the latest query, ranked.                        *)
(***************************************************************************)
\* candidates: a snapshot at once, refreshed behind its reader when it is old; a cold cache waits.
Takes(item) ==
  IF Warm
  THEN /\ ranking' = [item EXCEPT !.at = "ranking", !.paths = cache, !.generation = generation]
       /\ \E old \in BOOLEAN : IF old THEN schedule_refresh ELSE UNCHANGED <<scan, scans>>
  ELSE /\ ranking' = [item EXCEPT !.at = "waiting"]
       /\ schedule_refresh

Complete(q) ==
  /\ open = "open" /\ request < MaxTyped
  /\ typed' = q /\ request' = request + 1
  /\ LET item == [NoRank EXCEPT !.request = request + 1, !.query = q]
     IN  IF ranking.at # None THEN pending' = item /\ UNCHANGED <<ranking, scan, scans>>
         ELSE Takes(item) /\ UNCHANGED pending
  /\ UNCHANGED <<tree, open, mentions, due, menu, answered, picker, mention, edits, picks, fails>>

\* Mutant: the ranking of an older snapshot is kept as if it were of this one.
Ranked_KeepsOlder ==
  /\ ranking.at = "ranking" /\ open = "open"
  /\ IF pending # NoRank \/ ranking.request # request
     THEN Takes(pending) /\ pending' = NoRank /\ UNCHANGED <<last, due, answered>>
     ELSE /\ last' = [generation |-> generation, query |-> ranking.query,
                      files |-> ranking.paths \cap Hits[ranking.query]]
          /\ due' = ranking.query /\ answered' = ranking.request
          /\ ranking' = NoRank /\ UNCHANGED <<pending, scan, scans>>
  /\ UNCHANGED <<tree, open, cache, generation, request, typed, menu, picker, mention, edits, picks, fails>>

\* Mutant: a superseded ranking ends without taking up the query that superseded it.
Ranked_Ends ==
  /\ ranking.at = "ranking" /\ open = "open"
  /\ IF pending # NoRank \/ ranking.request # request
     THEN ranking' = NoRank /\ pending' = NoRank /\ UNCHANGED <<last, due, answered, scan, scans>>
     ELSE /\ last' = IF ranking.generation = generation
                     THEN [generation |-> generation, query |-> ranking.query,
                           files |-> ranking.paths \cap Hits[ranking.query]]
                     ELSE last
          /\ due' = ranking.query /\ answered' = ranking.request
          /\ ranking' = NoRank /\ UNCHANGED <<pending, scan, scans>>
  /\ UNCHANGED <<tree, open, cache, generation, request, typed, menu, picker, mention, edits, picks, fails>>

\* The worker has ranked.  A newer query supersedes this one; a newer snapshot leaves its result uncached.
Ranked ==
  /\ ranking.at = "ranking" /\ open = "open"
  /\ IF pending # NoRank \/ ranking.request # request
     THEN Takes(pending) /\ pending' = NoRank /\ UNCHANGED <<last, due, answered>>
     ELSE /\ last' = IF ranking.generation = generation
                     THEN [generation |-> generation, query |-> ranking.query,
                           files |-> ranking.paths \cap Hits[ranking.query]]
                     ELSE last
          /\ due' = ranking.query /\ answered' = ranking.request
          /\ ranking' = NoRank /\ UNCHANGED <<pending, scan, scans>>
  /\ UNCHANGED <<tree, open, cache, generation, request, typed, menu, picker, mention, edits, picks, fails>>

cached_matches(q) == IF last.generation = generation /\ last.query = q THEN last.files ELSE {}

\* The callback, scheduled on the application: nothing if the text has changed.
Show ==
  /\ due # None
  /\ menu' = IF due = typed THEN cached_matches(typed) ELSE menu
  /\ due' = None
  /\ UNCHANGED <<tree, open, mentions, request, pending, ranking, scan, typed, answered, picker, mention, bounds>>

-----------------------------------------------------------------------------
(***************************************************************************)
(* The picker.                                                             *)
(***************************************************************************)
Pick ==
  /\ open = "open" /\ picker.at = None /\ picks < MaxPicks /\ picks' = picks + 1
  /\ picker' = IF Warm THEN [at |-> "shown", snapshot |-> cache] ELSE [at |-> "waiting", snapshot |-> {}]
  /\ schedule_refresh
  /\ UNCHANGED <<tree, open, mentions, request, pending, ranking, prompt, answered, mention, edits, fails>>

\* A choice is checked against the list that was displayed, and against the disk.
Select(f) ==
  /\ open = "open" /\ picker.at = "shown" /\ f \in picker.snapshot
  /\ mention' = IF f \in tree THEN f ELSE mention
  /\ picker' = NoPick
  /\ UNCHANGED <<tree, open, mentions, request, pending, ranking, scan, prompt, answered, bounds>>

\* Esc, also before the list is there: the scan goes on for whoever else waits for it.
Escape ==
  /\ open = "open" /\ picker.at # None
  /\ picker' = NoPick
  /\ UNCHANGED <<tree, open, mentions, request, pending, ranking, scan, prompt, answered, mention, bounds>>

-----------------------------------------------------------------------------
(***************************************************************************)
(* close_background: no more is admitted, and what was accepted is         *)
(* cancelled and waited for; a thread is never left behind.                *)
(***************************************************************************)
Close ==
  /\ open = "open"
  /\ open' = "closing"
  /\ UNCHANGED <<tree, mentions, request, pending, ranking, scan, prompt, answered, picker, mention, bounds>>

\* Each cancelled task unwinds when its own thread or child process has ended.
ScanUnwinds ==
  /\ open = "closing" /\ scan.at # None /\ scan' = NoScan
  /\ UNCHANGED <<tree, open, mentions, request, pending, ranking, prompt, answered, picker, mention, bounds>>

RankUnwinds ==
  /\ open = "closing" /\ ranking.at # None /\ ranking' = NoRank /\ pending' = NoRank
  /\ UNCHANGED <<tree, open, mentions, request, scan, prompt, answered, picker, mention, bounds>>

PickUnwinds ==
  /\ open = "closing" /\ picker.at # None /\ picker' = NoPick
  /\ UNCHANGED <<tree, open, mentions, request, pending, ranking, scan, prompt, answered, mention, bounds>>

Closed ==
  /\ open = "closing" /\ scan.at = None /\ ranking.at = None /\ picker.at = None
  /\ open' = "closed"
  /\ UNCHANGED <<tree, mentions, request, pending, ranking, scan, prompt, answered, picker, mention, bounds>>

Next ==
  \/ ChangeTree
  \/ WarmUp \/ ScanReads \/ ScanEnds \/ ScanFails
  \/ \E q \in Queries : Complete(q)
  \/ Ranked \/ Show
  \/ Pick \/ Escape
  \/ \E f \in Files : Select(f)
  \/ Close \/ ScanUnwinds \/ RankUnwinds \/ PickUnwinds \/ Closed

\* The loop runs what is ready, and a scan and a ranking end.
Fairness == WF_vars(ScanReads) /\ WF_vars(ScanEnds) /\ WF_vars(Ranked) /\ WF_vars(Show)
Spec     == Init /\ [][Next]_vars /\ Fairness

-----------------------------------------------------------------------------
(***************************************************************************)
(* Properties.                                                             *)
(***************************************************************************)
\* What the menu will offer for a query is the ranking of the snapshot there is, never of an older one.
Snapshot == IF Warm THEN cache ELSE {}
MatchesAreCurrent ==
  last.generation = generation => last.files = Snapshot \cap Hits[last.query]

\* Only the picker and the newest query wait for a scan, and only for one that runs.
WaitsForAScan == (ranking.at = "waiting" \/ picker.at = "waiting") /\ open = "open" => scan.at # None

\* Nothing of the session's background work is left when its owner has closed.
ClosedIsQuiet == open = "closed" => scan.at = None /\ ranking.at = None /\ picker.at = None /\ pending = NoRank

MentionsSound == MatchesAreCurrent /\ WaitsForAScan /\ ClosedIsQuiet

\* While the owner is open, the newest query of the prompt gets its callback.
LatestAnswered == [](request > 0 => <>(answered = request \/ open # "open"))

\* And the menu then shows what the snapshot holds.
MenuAnswered == (answered = request /\ request > 0 /\ due = None /\ Warm) => menu = cache \cap Hits[typed]
=============================================================================
