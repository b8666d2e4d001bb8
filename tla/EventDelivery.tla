---------------------------- MODULE EventDelivery ----------------------------
(***************************************************************************)
(* What a queue between the Platform and a Scheduler worker promises of    *)
(* each event, whatever the transport: it is handled at least once or      *)
(* given up after its retries, it stays queued until then, and it does not *)
(* stay queued for ever.                                                   *)
(***************************************************************************)
CONSTANT Event

VARIABLES place,      \* where an event's message is
          verdict     \* what became of its handling, last

vars == <<place, verdict>>

Place == {"unsent", "queued", "processed", "dlq"}
Verdict == {"none", "handled", "given_up"}

Init ==
    /\ place = [e \in Event |-> "unsent"]
    /\ verdict = [e \in Event |-> "none"]

Publish(e) ==
    /\ place[e] = "unsent"
    /\ place' = [place EXCEPT ![e] = "queued"]
    /\ UNCHANGED verdict

\* The worker has handled e, or gives it up; the message leaves with that or later.
\* After a restart the worker may come to another verdict.
Decide(e) ==
    /\ place[e] = "queued"
    /\ \/ /\ verdict' = [verdict EXCEPT ![e] = "handled"]
          /\ place' \in {place, [place EXCEPT ![e] = "processed"]}
       \/ /\ verdict' = [verdict EXCEPT ![e] = "given_up"]
          /\ place' \in {place, [place EXCEPT ![e] = "dlq"]}

\* Messages leave the queue: those with a verdict, or into the dead letters.
Clear(archived, buried) ==
    /\ \A e \in archived : place[e] = "queued" /\ verdict[e] # "none"
    /\ \A e \in buried : place[e] = "queued"
    /\ archived \cap buried = {}
    /\ place' = [e \in Event |-> IF e \in archived THEN "processed"
                                 ELSE IF e \in buried THEN "dlq"
                                 ELSE place[e]]
    /\ UNCHANGED verdict

Next ==
    \/ \E e \in Event : Publish(e) \/ Decide(e)
    \/ \E archived, buried \in SUBSET Event : Clear(archived, buried)

\* An event that is queued does not stay there.
Leaves(e) == place[e] = "queued" ~> place[e] \in {"processed", "dlq"}

Spec == Init /\ [][Next]_vars /\ \A e \in Event : Leaves(e)
=============================================================================
