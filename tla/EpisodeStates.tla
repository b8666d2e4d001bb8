---------------------------- MODULE EpisodeStates ----------------------------
(***************************************************************************)
(* The statuses of an Episode and the edges between them: the contract     *)
(* package's rdh_contract/state_machine.py, which every other part of the  *)
(* system takes its view of the lifecycle from.                            *)
(***************************************************************************)
EXTENDS Naturals, Sequences

Absent == "absent"    \* not a status of the code: the row does not exist yet

InitialState == "recording"

TerminalStates == {"published", "rejected", "failed"}

Transitions ==
    [recording             |-> {"uploading", "failed"},
     uploading             |-> {"uploaded", "failed"},
     uploaded              |-> {"processing", "failed"},
     processing            |-> {"verification_pending", "failed"},
     verification_pending  |-> {"annotation_processing", "rejected"},
     annotation_processing |-> {"annotation_pending", "failed"},
     annotation_pending    |-> {"annotation_review", "rejected"},
     annotation_review     |-> {"published", "annotation_pending", "rejected"},
     published             |-> {},
     rejected              |-> {},
     failed                |-> {}]

Status == DOMAIN Transitions

CanTransition(source, target) == target \in Transitions[source]

\* A transition record: where it came from, where it went.
Edge == [from : Status, to : Status]

------------------------------------------------------------------------------
\* A trail is a walk through the machine: every record is an edge of it, the
\* first starts in the initial state and each starts where the one before ended.
IsWalk(walk) ==
    \A i \in DOMAIN walk :
        /\ CanTransition(walk[i].from, walk[i].to)
        /\ walk[i].from = IF i = 1 THEN InitialState ELSE walk[i - 1].to

\* Where a walk has led.
WalkEnd(walk) == IF walk = <<>> THEN InitialState ELSE walk[Len(walk)].to
==============================================================================
