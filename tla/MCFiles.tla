------------------------------- MODULE MCFiles -------------------------------
(***************************************************************************)
(* EditPlan, Index and Mentions for TLC: the files of the tree as they are *)
(* edited, indexed and offered in a menu.  The modules share no state, so  *)
(* a behaviour is one of one of them.                                      *)
(***************************************************************************)
EXTENDS Index

CONSTANTS
  Texts, Text, MaxLen, MaxViews, MaxChanges, MaxEdits, MaxDrift, Context, DirectFirst, Races,  \* EditPlan
  Files, Queries, Hits, MaxScanned, MaxTyped, MaxScans, MaxPicks, MaxFails  \* Mentions

VARIABLES
  about,   \* which of the three this behaviour is about
  file, views, phase, snap, state, todo, checked, edits, changes, disturbed,
  tree, open, cache, generation, last, request, pending, ranking, scan, typed, due, menu, answered,
  picker, mention, scanned, scans, picks, fails

ASSUME FilesAssumption ==
  /\ Text \in Texts
  /\ {MaxLen, MaxViews, MaxChanges, MaxEdits, MaxDrift, Context} \subseteq Nat
  /\ DirectFirst \in BOOLEAN /\ Races \in BOOLEAN
  /\ "none" \notin Files   \* {"none"} stands for a snapshot that is not there yet

Edits == INSTANCE EditPlan
Menu  == INSTANCE Mentions WITH MaxEdits <- MaxScanned, edits <- scanned

editVars  == <<file, views, phase, snap, state, todo, checked, edits, changes, disturbed>>
menuVars  == <<tree, open, cache, generation, last, request, pending, ranking, scan, typed, due, menu,
               answered, picker, mention, scanned, scans, picks, fails>>
allVars   == <<about, vars, editVars, menuVars>>

MCHits == [q1 |-> {"a"}, q2 |-> {"a", "b"}]

-----------------------------------------------------------------------------
FilesInit ==
  /\ about \in {"edits", "index", "menu"}
  /\ Init /\ Edits!Init /\ Menu!Init
  /\ about # "edits" => file = Edits!Absent
  /\ about # "index" => ~built
  /\ about # "menu"  => tree = {}

InEdits == about = "edits" /\ UNCHANGED <<about, vars, menuVars>>
InIndex == about = "index" /\ UNCHANGED <<about, editVars, menuVars>>
InMenu  == about = "menu"  /\ UNCHANGED <<about, vars, editVars>>

EditsNext ==
  \/ InEdits /\ \E r \in Edits!Ranges : Edits!Read(r[1], r[2])
  \/ InEdits /\ Edits!OtherWrites
  \/ InEdits /\ Edits!Snapshot
  \/ InEdits /\ \E new \in Edits!NewLines : Edits!PlanCreate(new)
  \/ InEdits /\ \E key \in DOMAIN views, n \in Edits!Sizes : \E call \in Edits!ViewCalls[n] : Edits!PlanView(key, call)
  \/ InEdits /\ \E n \in Edits!Sizes : \E call \in Edits!DirectCalls[n] : Edits!PlanDirect(call)
  \/ InEdits /\ Edits!Planned
  \/ InEdits /\ Edits!Check
  \/ InEdits /\ Edits!Write
  \/ InEdits /\ Edits!NotApplied
  \/ InEdits /\ Edits!BatchEnds

IndexNext ==
  \/ InIndex /\ Write
  \/ InIndex /\ Sync
  \/ InIndex /\ SyncConfirmed
  \/ InIndex /\ Edit
  \/ InIndex /\ EditProbed
  \/ InIndex /\ Check
  \/ InIndex /\ Status
  \/ InIndex /\ Checked
  \/ InIndex /\ CheckFailed
  \/ InIndex /\ \E t \in Tasks : ReadDone(t)
  \/ InIndex /\ \E t \in Tasks : Indexed(t)
  \/ InIndex /\ \E t \in Tasks : IndexFails(t)
  \/ InIndex /\ \E t \in Tasks : Settled(t)
  \/ InIndex /\ \E t \in Tasks : Cancel(t)

MenuNext ==
  \/ InMenu /\ Menu!ChangeTree
  \/ InMenu /\ Menu!WarmUp
  \/ InMenu /\ Menu!ScanReads
  \/ InMenu /\ Menu!ScanEnds
  \/ InMenu /\ Menu!ScanFails
  \/ InMenu /\ \E q \in Queries : Menu!Complete(q)
  \/ InMenu /\ Menu!Ranked
  \/ InMenu /\ Menu!Show
  \/ InMenu /\ Menu!Pick
  \/ InMenu /\ Menu!Escape
  \/ InMenu /\ \E f \in Files : Menu!Select(f)
  \/ InMenu /\ Menu!Close
  \/ InMenu /\ Menu!ScanUnwinds
  \/ InMenu /\ Menu!RankUnwinds
  \/ InMenu /\ Menu!PickUnwinds
  \/ InMenu /\ Menu!Closed

FilesNext == EditsNext \/ IndexNext \/ MenuNext

\* The fairness of Mentions, in the behaviours it is about.
FilesSpec ==
  /\ FilesInit /\ [][FilesNext]_allVars
  /\ WF_allVars(InMenu /\ Menu!ScanReads) /\ WF_allVars(InMenu /\ Menu!ScanEnds)
  /\ WF_allVars(InMenu /\ Menu!Ranked) /\ WF_allVars(InMenu /\ Menu!Show)

-----------------------------------------------------------------------------
\* Their properties, by names a configuration can give.
PlansSound      == about = "edits" => Edits!PlansSound
WritesSound     == Edits!WritesSound
MentionsSound   == about = "menu" => Menu!MentionsSound
LatestAnswered  == Menu!LatestAnswered
MenuAnswered    == about = "menu" => Menu!MenuAnswered
=============================================================================
