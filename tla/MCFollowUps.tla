---------------------------- MODULE MCFollowUps ----------------------------
(***************************************************************************)
(* FollowUps for TLC: the worlds its configurations name, and what is      *)
(* promised of the mild ones.                                              *)
(***************************************************************************)
EXTENDS FollowUps

World(kindsTyped, again, failing) ==
  [kinds |-> kindsTyped, retries |-> again, resends |-> again, savesFail |-> failing]
Lines == {"text", "command"}

\* Saves land, and nothing admitted is refused later.
Mild     == {World(<<Lines, Lines, Lines>>, 0, FALSE)}
\* An image between two texts may be refused, when it is submitted or when its turn has come.
Refusing == {World(<<{"text"}, {"image"}, {"text"}>>, 0, FALSE)}
\* Everything that may happen to an input.
Rough    == {World(<<Kinds, Kinds>>, 1, TRUE)}
All      == Mild \cup Refusing \cup Rough

\* Worlds of the counterexamples the README lists.
Texts == {World(<<{"text"}, {"text"}, {"text"}>>, 1, FALSE)}
Four  == {World(<<Lines, Lines, Lines, Lines>>, 0, FALSE)}

IsMild == ~world.savesFail /\ \A i \in DOMAIN world.kinds : "image" \notin world.kinds[i]

-----------------------------------------------------------------------------
\* No input disappears; and while saves land and no image is refused, none is stranded in the queue.
MildInputsKept == TypeOK /\ NoneLost /\ (IsMild => NothingStranded)

\* A prompt taken away by a submission that is accepted comes back.
MildPromptReturns == IsMild => PromptReturns
=============================================================================
