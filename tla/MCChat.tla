------------------------------- MODULE MCChat -------------------------------
(***************************************************************************)
(* Two families.  In "scheduler" two passes of the timer and two requests   *)
(* work on the scheduled messages of one author; once something has failed  *)
(* requests come one at a time.  In "page" the Viewer's page follows a room *)
(* that other people write in.                                              *)
(***************************************************************************)
EXTENDS ChatProperties, TLC

CONSTANTS ann, bob, hr, c1, MaxClock

VARIABLE mode

MCSymmetry == Permutations(Messages) \cup Permutations(Passes)

MCInit ==
  /\ Init /\ PageInit
  /\ mode \in {"scheduler", "page"}
  /\ members = IF mode = "scheduler" THEN {ann, hr} ELSE Users

SchedulerStep ==
  /\ Server
  /\ \A p \in Calls : job[p] = Idle /\ job'[p] # Idle =>
       job'[p].at \in {"schedule", "add", "remove", "archive"} /\ job'[p].user \in {ann, NoOne}
  /\ {bob, hr} \subseteq active'
  /\ faults' > 0 => Cardinality({p \in Calls : job'[p] # Idle}) <= 1

PageFamily ==
  /\ PageNext /\ CalmStep
  /\ UNCHANGED <<room, slot, faults>>
  /\ \A p \in Calls : p # c1 => job'[p] = Idle
  /\ \A p \in Calls : job'[p].at = "mark" /\ job[p] = Idle => job'[p].user = Viewer
  /\ \A p \in Passes : job'[p] = Idle
  /\ job'[c1].at \notin {"schedule", "add", "remove", "archive"} /\ job'[c1].user # hr

MCNext ==
  /\ UNCHANGED mode
  /\ \/ mode = "scheduler" /\ SchedulerStep
     \/ mode = "page" /\ PageFamily
  /\ clock' <= MaxClock
MCSpec == MCInit /\ [][MCNext]_<<vars, pageVars, mode>>

PageMatchesServer == mode = "page" => PageMatches
ReadWasSeen == mode = "page" => ReadIsSeen
=============================================================================
