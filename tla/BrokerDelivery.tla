--------------------------- MODULE BrokerDelivery ---------------------------
(***************************************************************************)
(* Events from the Platform to the Scheduler through RabbitMQ and Celery.  *)
(* RabbitPublisher sends to the exchange; a RabbitWorker takes one message *)
(* at a time, sends a Celery task for it and acknowledges it; a Celery     *)
(* worker runs the task, again after a failure until its retries are used  *)
(* up.  The two hops lose and repeat things in different ways.             *)
(***************************************************************************)
EXTENDS Integers, FiniteSets

CONSTANTS Event,        \* of one queue
          Copy,         \* Celery tasks of one event: more than MaxMishaps, or it blocks
          MaxRetries,   \* EventSpec.max_retries
          MaxMishaps    \* bound: deaths, failures and timeouts

ASSUME BrokerAssumption ==
    /\ IsFiniteSet(Event)
    /\ Copy \subseteq Nat \ {0} /\ IsFiniteSet(Copy)
    /\ MaxRetries \in Nat /\ MaxMishaps \in Nat

VARIABLES declared,     \* the Scheduler has declared its queue
          message,      \* where the event's message is
          attempts,     \* RabbitConsumer._attempts
          hand,         \* the event the RabbitWorker is at
          sent,         \* it has sent the task for it
          task,         \* the Celery tasks of each event
          cause,        \* why a task or message of e was given up (history)
          mishaps

dispatcher == <<attempts, hand, sent>>
brokerVars == <<declared, message, attempts, hand, sent, task, cause, mishaps>>

------------------------------------------------------------------------------
\* "unrouted": no queue was bound to the exchange.  "held": delivered to the
\* RabbitWorker and not acknowledged.
MessagePlace == {"unsent", "unrouted", "queued", "held", "acked", "dlq"}

TaskState == {"none", "waiting", "running", "ended"}

Cause == {"unrouted", "undispatched", "undecodable", "refused", "exhausted", "child lost"}

NoEvent == "none"
ASSUME NoEventAssumption == NoEvent \notin Event

NoTask == [state |-> "none", retries |-> 0]

Mishap == mishaps < MaxMishaps /\ mishaps' = mishaps + 1

BrokerInit ==
    /\ declared = FALSE
    /\ message = [e \in Event |-> "unsent"]
    /\ attempts = [e \in Event |-> 0]
    /\ hand = NoEvent
    /\ sent = FALSE
    /\ task = [e \in Event |-> [c \in Copy |-> NoTask]]
    /\ cause = [e \in Event |-> {}]
    /\ mishaps = 0

PutMessage(e, place) == message' = [message EXCEPT ![e] = place]

Blame(e, why) == cause' = [cause EXCEPT ![e] = @ \cup {why}]

------------------------------------------------------------------------------
\* RabbitPublisher.publish declares the exchange only: what no queue is bound for is
\* dropped by the broker.
Publish(e) ==
    /\ message[e] = "unsent"
    /\ IF declared THEN PutMessage(e, "queued") /\ UNCHANGED cause
                   ELSE PutMessage(e, "unrouted") /\ Blame(e, "unrouted")
    /\ UNCHANGED <<declared, dispatcher, task, mishaps>>

\* The Scheduler's first start.  Queues are durable.
Declare ==
    /\ ~declared
    /\ declared' = TRUE
    /\ UNCHANGED <<message, dispatcher, task, cause, mishaps>>

Fetch(e) ==
    /\ hand = NoEvent
    /\ message[e] = "queued"
    /\ PutMessage(e, "held")
    /\ hand' = e
    /\ UNCHANGED <<declared, attempts, sent, task, cause, mishaps>>

\* A message of another version of the contract.
FetchUndecodable(e) ==
    /\ hand = NoEvent
    /\ message[e] = "queued"
    /\ Mishap
    /\ PutMessage(e, "dlq")
    /\ Blame(e, "undecodable")
    /\ UNCHANGED <<declared, dispatcher, task>>

\* RabbitWorker.dispatch.
Dispatch(e) ==
    /\ hand = e /\ ~sent
    /\ \E c \in Copy :
         /\ task[e][c] = NoTask
         /\ \A d \in Copy : d < c => task[e][d] # NoTask
         /\ task' = [task EXCEPT ![e][c].state = "waiting"]
    /\ sent' = TRUE
    /\ UNCHANGED <<declared, message, attempts, hand, cause, mishaps>>

\* Mutant: an event whose dispatch raised is acknowledged like any other.
AckUndispatched(e) ==
    /\ hand = e /\ ~sent
    /\ Mishap
    /\ PutMessage(e, "acked")
    /\ hand' = NoEvent
    /\ UNCHANGED <<declared, attempts, sent, task, cause>>

\* dispatch raises, and the RabbitConsumer rejects.
Reject(e) ==
    /\ hand = e /\ ~sent
    /\ Mishap
    /\ attempts' = [attempts EXCEPT ![e] = @ + 1]
    /\ IF attempts'[e] > MaxRetries THEN PutMessage(e, "dlq") /\ Blame(e, "undispatched")
                                    ELSE PutMessage(e, "queued") /\ UNCHANGED cause
    /\ hand' = NoEvent
    /\ UNCHANGED <<declared, sent, task>>

Ack(e) ==
    /\ hand = e /\ sent
    /\ PutMessage(e, "acked")
    /\ attempts' = [attempts EXCEPT ![e] = 0]
    /\ hand' = NoEvent
    /\ sent' = FALSE
    /\ UNCHANGED <<declared, task, cause, mishaps>>

\* The RabbitWorker's process or its connection dies: the broker takes back what it held.
DispatcherDies ==
    /\ hand # NoEvent
    /\ Mishap
    /\ PutMessage(hand, "queued")
    /\ attempts' = [e \in Event |-> 0]
    /\ hand' = NoEvent
    /\ sent' = FALSE
    /\ UNCHANGED <<declared, task, cause>>

------------------------------------------------------------------------------
\* Celery.

Running(e, c) == task[e][c].state = "running"

SetTask(e, c, state) == task' = [task EXCEPT ![e][c].state = state]

RunTask(e, c) ==
    /\ task[e][c].state = "waiting"
    /\ SetTask(e, c, "running")
    /\ UNCHANGED <<declared, message, dispatcher, cause, mishaps>>

\* The task returns.
TaskEnds(e, c) == SetTask(e, c, "ended") /\ UNCHANGED cause

\* It returns, too, when the Platform answers 422.
TaskRefused(e, c) == SetTask(e, c, "ended") /\ Blame(e, "refused")

\* Mutant: one retry more.
RetriesOneMore(e, c) ==
    IF task[e][c].retries <= MaxRetries
    THEN /\ task' = [task EXCEPT ![e][c] = [state |-> "waiting", retries |-> @.retries + 1]]
         /\ UNCHANGED cause
    ELSE SetTask(e, c, "ended") /\ Blame(e, "exhausted")

\* self.retry: the task is sent again, or fails and is gone.
TaskRetries(e, c) ==
    IF task[e][c].retries < MaxRetries
    THEN /\ task' = [task EXCEPT ![e][c] = [state |-> "waiting", retries |-> @.retries + 1]]
         /\ UNCHANGED cause
    ELSE SetTask(e, c, "ended") /\ Blame(e, "exhausted")

\* Mutant: without task_acks_late.
WorkerDiesWithTask(e, c) ==
    /\ Running(e, c)
    /\ Mishap
    /\ SetTask(e, c, "ended")
    /\ UNCHANGED <<declared, message, dispatcher, cause>>

\* The Celery worker dies: task_acks_late leaves the task to the next one.
WorkerDies(e, c) ==
    /\ Running(e, c)
    /\ Mishap
    /\ SetTask(e, c, "waiting")
    /\ UNCHANGED <<declared, message, dispatcher, cause>>

\* Only the child process that runs the task dies: Celery acknowledges the task, as
\* task_reject_on_worker_lost is not set.
ChildDies(e, c) ==
    /\ Running(e, c)
    /\ Mishap
    /\ SetTask(e, c, "ended")
    /\ Blame(e, "child lost")
    /\ UNCHANGED <<declared, message, dispatcher>>

------------------------------------------------------------------------------
DispatcherStep == \E e \in Event : Fetch(e) \/ Dispatch(e) \/ Ack(e)

BrokerNext ==
    \/ Declare \/ DispatcherStep \/ DispatcherDies
    \/ \E e \in Event : FetchUndecodable(e) \/ Reject(e)
    \/ \E e \in Event, c \in Copy : RunTask(e, c)

------------------------------------------------------------------------------
\* The types of the two hops.
BrokerTypeOK ==
    /\ declared \in BOOLEAN
    /\ message \in [Event -> MessagePlace]
    /\ attempts \in [Event -> 0 .. MaxRetries + 1]
    /\ hand \in Event \cup {NoEvent}
    /\ hand # NoEvent => message[hand] = "held"
    /\ sent \in BOOLEAN /\ (sent => hand # NoEvent)
    /\ task \in [Event -> [Copy -> [state : TaskState, retries : 0 .. MaxRetries]]]
    /\ cause \in [Event -> SUBSET Cause]
    /\ mishaps \in 0 .. MaxMishaps

\* An event handed to Celery counts as handled.  One that no queue was bound for might as
\* well not have been published.
DeliveryOf ==
    INSTANCE EventDelivery WITH
        place <- [e \in Event |->
                    CASE message[e] \in {"unsent", "unrouted"} -> "unsent"
                      [] message[e] \in {"queued", "held"}     -> "queued"
                      [] message[e] = "acked"                  -> "processed"
                      [] OTHER                                 -> "dlq"],
        verdict <- [e \in Event |->
                      IF \E c \in Copy : task[e][c] # NoTask THEN "handled" ELSE "none"]

\* The broker's hop keeps the promise of the queue directory: no message leaves it that
\* was not dispatched or dead-lettered, and none stays.
BrokerImplementsDelivery == DeliveryOf!Spec
=============================================================================
