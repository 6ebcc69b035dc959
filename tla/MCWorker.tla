------------------------------- MODULE MCWorker -------------------------------
(***************************************************************************)
(* Settings and Delegate, for the host MCModel and for the proofs: what a  *)
(* worker runs on, and what becomes of it.  The two share no state, so a   *)
(* behaviour is one of one of them.                                        *)
(***************************************************************************)
EXTENDS Integers, Sequences

CONSTANTS
  ProviderNames, Models, Apis, EffortOrder, Scale, Declared, Mandatory, Files, MaxSwitches,   \* Settings
  DiffCap, MaxSends, MaxEdits, MaxMishaps                                    \* Delegate

VARIABLES
  about,   \* the one this behaviour is about
  file, active, entries, worker, overrides, live, switches,
  session, jobs, disk, parent, call, before, heard, forgotten, unmerged, sends, edits, mishaps

Choice == INSTANCE Settings WITH Providers <- ProviderNames
Life   == INSTANCE Delegate WITH worker <- session, history <- heard

\* "" stands for what is not set, and every model takes some effort.
ASSUME WorkerAssumption ==
  /\ "" \notin ProviderNames \cup Models \cup Apis
  /\ EffortOrder \in Seq(STRING) /\ EffortOrder # <<>> /\ "" \notin Choice!Range(EffortOrder)
  /\ Scale \in [Models -> Seq(STRING)] /\ Declared \in [Models -> Seq(STRING)]
  /\ \A m \in Models : "" \notin Choice!Range(Scale[m]) \cup Choice!Range(Declared[m])
  /\ \A f \in Files : f.entries \in [ProviderNames -> [model : Models, reasoning : STRING, api : STRING]]
  /\ {DiffCap, MaxSends, MaxEdits, MaxMishaps} \subseteq Nat

choiceVars == <<file, active, entries, worker, overrides, live, switches>>
lifeVars   == <<session, jobs, disk, parent, call, before, heard, forgotten, unmerged, sends, edits, mishaps>>
workerVars == <<about, choiceVars, lifeVars>>

-----------------------------------------------------------------------------
WorkerInit ==
  /\ Choice!Init
  /\ about # "choice" => file = CHOOSE f \in Files : Choice!Loads(f)
  /\ Life!Init

InChoice == about = "choice" /\ UNCHANGED <<about, lifeVars>>
InLife   == about = "worker" /\ UNCHANGED <<about, choiceVars>>

ChoiceNext ==
  \/ InChoice /\ \E n \in ProviderNames : Choice!SetProvider(n)
  \/ InChoice /\ \E m \in Models, a \in Apis \cup {""}, r \in Choice!Efforts \cup {""} : Choice!SetModel(m, a, r)
  \/ InChoice /\ \E r \in Choice!Efforts : Choice!SetReasoning(r)
  \/ InChoice /\ \E a \in Apis : Choice!SetApi(a)
  \/ InChoice /\ Choice!Resume
  \/ InChoice /\ Choice!Spawn
  \/ InChoice /\ Choice!Reset
  \/ InChoice /\ \E n \in ProviderNames : Choice!WorkerProvider(n)
  \/ InChoice /\ Choice!WorkerProviderOff
  \/ InChoice /\ \E m \in Models \cup {""} : Choice!WorkerModel(m)
  \/ InChoice /\ \E r \in Choice!Efforts \cup {""} : Choice!WorkerReasoning(r)
  \/ InChoice /\ \E a \in Apis \cup {""} : Choice!WorkerApi(a)

LifeNext ==
  \/ InLife /\ Life!Send
  \/ InLife /\ Life!Restore
  \/ InLife /\ Life!Start
  \/ InLife /\ Life!Edit
  \/ InLife /\ Life!Checkpoint
  \/ InLife /\ Life!StartJob
  \/ InLife /\ Life!JobExits
  \/ InLife /\ Life!Answer
  \/ InLife /\ Life!Fail
  \/ InLife /\ Life!Cancelled
  \/ InLife /\ \E by \in {"model", "user"} : Life!Reset(by)
  \/ InLife /\ Life!ResetNothing
  \/ InLife /\ Life!KillJobs
  \/ InLife /\ Life!KillFails
  \/ InLife /\ Life!Unlink
  \/ InLife /\ Life!UnlinkFails
  \/ InLife /\ Life!Extras
  \/ InLife /\ Life!Commit
  \/ InLife /\ Life!Interrupt
  \/ InLife /\ Life!SaveParent
  \/ InLife /\ Life!Restart

WorkerNext == ChoiceNext \/ LifeNext

WorkerSpec == WorkerInit /\ [][WorkerNext]_workerVars

-----------------------------------------------------------------------------
\* Their properties, by names a configuration can give, each of the behaviours it is about.
SwitchesKept    == about = "choice" => Choice!SwitchesKept
BriefIsTrue     == about = "choice" => Choice!BriefIsTrue
DelegationSound == about = "worker" => Life!DelegationSound
ResetIsTold     == Life!ResetIsTold
AnswersAreSaved == Life!AnswersAreSaved
=============================================================================
