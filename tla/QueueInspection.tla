--------------------------- MODULE QueueInspection ---------------------------
(***************************************************************************)
(* The look at the queues for the operations page: how many events wait in *)
(* each worker's queue, and how many are dead letters.  The queues are     *)
(* looked at one after another and the dead letters last, while events are *)
(* published, taken, returned, given up and done with.                     *)
(*                                                                         *)
(* With files an event stays in its queue while it is handled, and a       *)
(* rename takes it to the dead letters.  With RabbitMQ one that is         *)
(* delivered and not acknowledged is counted nowhere; a queue exists once  *)
(* a Scheduler has declared it; the connection may break.                  *)
(***************************************************************************)
CONSTANTS Queue,        \* JobType
          Message       \* events

VARIABLES backend,      \* RDH_QUEUE_BACKEND
          home,         \* each event's queue
          declared,     \* the queues that the broker has
          place,        \* of each event
          look,         \* the request: where it is, and what it has found
          steady,       \* events in a queue or the dead letters all the while (history)
          cut        \* the connection has broken during the request (history)

inspectionVars == <<backend, home, declared, place, look, steady, cut>>
queueVars == <<backend, home, declared>>

------------------------------------------------------------------------------
Place == {"unsent", "waiting", "held", "dead", "gone"}

LookStep == {"none", "queues", "dead letters", "answered", "unreachable"}

\* waiting: the events that make up each count; unreachable: the queues reported so.
NoLook == [step |-> "none", left |-> {}, waiting |-> [q \in Queue |-> {}],
           unreachable |-> {}, dead |-> {}]

Rests(m) == place[m] \in {"waiting", "dead"}

InspectionInit ==
    /\ backend \in {"file", "rabbit"}
    /\ home \in [Message -> Queue]
    /\ declared = {}
    /\ place = [m \in Message |-> "unsent"]
    /\ look = NoLook
    /\ steady = {}
    /\ cut = FALSE

------------------------------------------------------------------------------
\* What goes on meanwhile.

Put(m, where) ==
    /\ place' = [place EXCEPT ![m] = where]
    /\ steady' = IF where \in {"waiting", "dead"} THEN steady ELSE steady \ {m}
    /\ UNCHANGED <<queueVars, look, cut>>

\* A Scheduler worker starts: its queue, and the queue of the dead letters.
DeclareQueue(q) ==
    /\ backend = "rabbit"
    /\ q \notin declared
    /\ declared' = declared \cup {q}
    /\ UNCHANGED <<backend, home, place, look, steady, cut>>

\* The broker drops what no queue is bound for; publish makes a missing directory.
PublishEvent(m) ==
    /\ place[m] = "unsent"
    /\ Put(m, IF backend = "file" \/ home[m] \in declared THEN "waiting" ELSE "gone")

TakeEvent(m) ==
    /\ backend = "rabbit"
    /\ place[m] = "waiting"
    /\ Put(m, "held")

\* reject, or the worker's connection ends.
ReturnEvent(m) ==
    /\ place[m] = "held"
    /\ Put(m, "waiting")

\* ack and dead_letter, of a file or of a message held.
InHand(m) == place[m] = IF backend = "file" THEN "waiting" ELSE "held"

EndEvent(m) ==
    /\ InHand(m)
    /\ \E where \in {"gone", "dead"} : Put(m, where)

------------------------------------------------------------------------------
\* The request.

\* With RabbitMQ the request connects first.
Look ==
    /\ look.step = "none"
    /\ look' = [NoLook EXCEPT !.step = "queues", !.left = Queue]
    /\ steady' = {m \in Message : Rests(m)}
    /\ cut' = FALSE
    /\ UNCHANGED <<queueVars, place>>

\* All queues are reported as unreachable, and the error with them.
CannotConnect ==
    /\ look.step = "none"
    /\ backend = "rabbit"
    /\ look' = [NoLook EXCEPT !.step = "unreachable", !.unreachable = Queue]
    /\ cut' = TRUE
    /\ UNCHANGED <<queueVars, place, steady>>

Waiting(q) == {m \in Message : home[m] = q /\ place[m] = "waiting"}

HasQueue(q) == backend = "file" \/ q \in declared

NextStep(left) == IF left = {} THEN "dead letters" ELSE "queues"

\* The passive declaration makes no queue: it raises for one that is not there.
CountQueue(q) ==
    /\ look.step = "queues"
    /\ q \in look.left
    /\ LET left == look.left \ {q}
       IN look' = IF HasQueue(q)
                  THEN [look EXCEPT !.left = left, !.step = NextStep(left), !.waiting[q] = Waiting(q)]
                  ELSE [look EXCEPT !.left = left, !.step = NextStep(left), !.unreachable = @ \cup {q}]
    /\ UNCHANGED <<queueVars, place, steady, cut>>

\* The dead letters' count, too, is just 0 after an exception.
CountFails(q) ==
    /\ backend = "rabbit"
    /\ \/ /\ look.step = "queues" /\ q \in look.left
          /\ LET left == look.left \ {q}
             IN look' = [look EXCEPT !.left = left, !.step = NextStep(left), !.unreachable = @ \cup {q}]
       \/ look.step = "dead letters" /\ look' = [look EXCEPT !.step = "answered"]
    /\ cut' = TRUE
    /\ UNCHANGED <<queueVars, place, steady>>

\* Mutant: the dead letters of one queue only.
CountDeadOfOne(dead) ==
    look' = [look EXCEPT !.step = "answered", !.dead = {m \in dead : home[m] = CHOOSE q \in Queue : TRUE}]

\* Those of all queues together.
CountDead(dead) == look' = [look EXCEPT !.step = "answered", !.dead = dead]

CountDeadLetters ==
    /\ look.step = "dead letters"
    /\ CountDead({m \in Message : place[m] = "dead"})
    /\ UNCHANGED <<queueVars, place, steady, cut>>

ShowLook ==
    /\ look.step \in {"answered", "unreachable"}
    /\ look' = NoLook
    /\ steady' = {}
    /\ cut' = FALSE
    /\ UNCHANGED <<queueVars, place>>

------------------------------------------------------------------------------
InspectionNext ==
    \/ \E m \in Message : PublishEvent(m) \/ TakeEvent(m) \/ ReturnEvent(m) \/ EndEvent(m)
    \/ \E q \in Queue : DeclareQueue(q) \/ CountQueue(q) \/ CountFails(q)
    \/ Look \/ CannotConnect \/ CountDeadLetters \/ ShowLook

InspectionSpec == InspectionInit /\ [][InspectionNext]_inspectionVars

------------------------------------------------------------------------------
\* The types of the queues and of the request.
InspectionTypeOK ==
    /\ backend \in {"file", "rabbit"}
    /\ home \in [Message -> Queue]
    /\ declared \subseteq Queue
    /\ place \in [Message -> Place]
    /\ look \in [step : LookStep, left : SUBSET Queue, waiting : [Queue -> SUBSET Message],
                 unreachable : SUBSET Queue, dead : SUBSET Message]
    /\ steady \subseteq Message
    /\ cut \in BOOLEAN

\* Unless the connection broke, no event that lay in a queue or with the dead letters all
\* the while is missing from the counts, even if it went from the one to the other; and a
\* queue called unreachable has no event that lay in it all the while.
InspectionOverlooksNothing ==
    look.step = "answered" /\ ~cut =>
        /\ steady \subseteq (UNION {look.waiting[q] : q \in Queue}) \cup look.dead
        /\ \A m \in steady : place[m] = "waiting" => home[m] \notin look.unreachable
=============================================================================
