------------------------- MODULE EpisodeStateMachine -------------------------
(***************************************************************************)
(* The abstract promise the Platform makes about Episodes: a status only   *)
(* ever follows edges of the contract's state machine, and the audit trail *)
(* is exactly the path that was followed.                                  *)
(*                                                                         *)
(* A step of this specification is what an observer of the committed       *)
(* database sees.  One commit may follow two edges, because the            *)
(* upload-complete callback takes uploading -> uploaded -> processing in   *)
(* one transaction.                                                        *)
(***************************************************************************)
EXTENDS EpisodeStates

CONSTANT Episode      \* episode identifiers

VARIABLES status,     \* status[e]: the committed status of e, Absent before creation
          trail       \* trail[e]: the committed transition records of e, oldest first

Init ==
    /\ status = [e \in Episode |-> Absent]
    /\ trail = [e \in Episode |-> <<>>]

Create(e) ==
    /\ status[e] = Absent
    /\ status' = [status EXCEPT ![e] = InitialState]
    /\ UNCHANGED trail

\* One edge.
Move(e, target) ==
    /\ status[e] \in Status
    /\ CanTransition(status[e], target)
    /\ status' = [status EXCEPT ![e] = target]
    /\ trail' = [trail EXCEPT ![e] = Append(@, [from |-> status[e], to |-> target])]

\* The upload-complete callback takes two edges in one commit.
Ingest(e) ==
    /\ status[e] = "uploading"
    /\ status' = [status EXCEPT ![e] = "processing"]
    /\ trail' = [trail EXCEPT ![e] = @ \o << [from |-> "uploading", to |-> "uploaded"],
                                             [from |-> "uploaded", to |-> "processing"] >>]

Next ==
    \E e \in Episode :
        \/ Create(e)
        \/ \E target \in Status : Move(e, target)
        \/ Ingest(e)

vars == <<status, trail>>

Spec == Init /\ [][Next]_vars

------------------------------------------------------------------------------
\* Consequences, proved in EpisodeStateMachineProofs.

TypeOK ==
    /\ status \in [Episode -> Status \cup {Absent}]
    /\ trail \in [Episode -> Seq(Edge)]

\* The audit trail of an existing Episode is a walk from recording to its
\* current status (transition_repository.get_history shows it to users).
TrailIsWalkToStatus ==
    \A e \in Episode :
        IF status[e] = Absent
        THEN trail[e] = <<>>
        ELSE IsWalk(trail[e]) /\ WalkEnd(trail[e]) = status[e]
==============================================================================
