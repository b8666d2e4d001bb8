---------------------------- MODULE FileDelivery ----------------------------
(***************************************************************************)
(* Events from the Platform to a worker of the Scheduler through a         *)
(* directory of files, and the callbacks that answer them.                 *)
(*                                                                         *)
(* A worker takes the first file of its queue, handles the event and moves *)
(* the file to processed/ or, its retries used up, to dlq/.  What it knows *)
(* of events handled and attempts made is in memory and goes with the      *)
(* process.  The callback at the end of a handler is an HTTP request that  *)
(* may fail, be answered 409, or be handled after the worker has stopped   *)
(* waiting for it; and it may come before the Platform has committed the   *)
(* transaction that published the event.                                   *)
(*                                                                         *)
(* The module is about one queue and its worker: queues share nothing but  *)
(* the process that serves them, and with it their restarts.               *)
(***************************************************************************)
EXTENDS Naturals, Sequences, FiniteSets

CONSTANTS Uploaded,     \* events episode.uploaded, queue ingest
          Requested,    \* events annotation.processing_requested, queue tool
          Notices,      \* events annotation.approved, queue tool: only logged
          MaxRetries,   \* EventSpec.max_retries
          MaxCrashes,   \* bound: restarts of the Scheduler
          MaxFaults     \* bound: files that could not be read or moved

Event == Uploaded \cup Requested \cup Notices

ASSUME EventsAssumption ==
    /\ Uploaded \cap Requested = {}
    /\ Uploaded \cap Notices = {}
    /\ Requested \cap Notices = {}
    /\ IsFiniteSet(Event)
ASSUME LimitsAssumption == MaxRetries \in Nat /\ MaxCrashes \in Nat /\ MaxFaults \in Nat

VARIABLES queue,        \* the worker's queue, one of Queue for good
          published,    \* all events in the order their files were named
          place,        \* where an event's file is
          seen,         \* FileQueueConsumer._seen
          attempts,     \* FileQueueConsumer._attempts
          worker,       \* what the worker is doing
          stage,        \* what the Platform's database says of the event's subject
          late,         \* callbacks the worker no longer waits for
          verdict,      \* why the worker stopped handling e (history)
          runs,         \* how often e was handed to a handler (history)
          crashes, faults

scheduler == <<seen, attempts, worker>>
history == <<verdict, runs>>
vars == <<queue, published, place, seen, attempts, worker, stage, late, verdict, runs,
          crashes, faults>>

------------------------------------------------------------------------------
Queue == {"ingest", "tool"}

ConsumerQueue(e) == IF e \in Uploaded THEN "ingest" ELSE "tool"

CallsBack(e) == e \notin Notices

Place == {"unsent", "queued", "processed", "dlq"}

\* "open": published, and the transaction not committed.  "awaiting": committed, and
\* the Episode waits for the callback.  "void": rolled back.
Stage == {"unsent", "open", "awaiting", "advanced", "void"}

\* A conflict is a handling whose callback was answered 409.
Verdict == {"none", "handled", "conflict", "exhausted"}

\* "waiting": for the answer to a callback; the last three are how handling ended.
Phase == {"idle", "running", "waiting", "handled", "conflict", "failed"}

NoEvent == "none"
IdleWorker == [phase |-> "idle", event |-> NoEvent, attempt |-> 0]

Pending == {e \in Event : place[e] = "queued"}

\* Mutant: the newest file first.
SortsAfter(d, e) ==
    \E i, j \in DOMAIN published : i > j /\ published[i] = d /\ published[j] = e

\* The name of d's file sorts before that of e's: a time stamp comes first.
SortsBefore(d, e) ==
    \E i, j \in DOMAIN published : i < j /\ published[i] = d /\ published[j] = e

Init ==
    /\ queue \in Queue
    /\ published = <<>>
    /\ place = [e \in Event |-> "unsent"]
    /\ seen = {}
    /\ attempts = [e \in Event |-> 0]
    /\ worker = IdleWorker
    /\ stage = [e \in Event |-> "unsent"]
    /\ late = [e \in Event |-> 0]
    /\ verdict = [e \in Event |-> "none"]
    /\ runs = [e \in Event |-> 0]
    /\ crashes = 0
    /\ faults = 0

------------------------------------------------------------------------------
\* The Platform's transactions.

\* publish, inside a transaction that locks the Episode's row.
Publish(e) ==
    /\ ConsumerQueue(e) = queue
    /\ stage[e] = "unsent"
    /\ published' = Append(published, e)
    /\ place' = [place EXCEPT ![e] = "queued"]
    /\ stage' = [stage EXCEPT ![e] = "open"]
    /\ UNCHANGED <<queue, scheduler, late, history, crashes, faults>>

\* The route commits.  Nobody waits for an answer to a notice.
Commit(e) ==
    /\ stage[e] = "open"
    /\ stage' = [stage EXCEPT ![e] = IF CallsBack(e) THEN "awaiting" ELSE "advanced"]
    /\ UNCHANGED <<queue, published, place, scheduler, late, history, crashes, faults>>

\* It fails instead.  The event is out all the same.
Rollback(e) ==
    /\ stage[e] = "open"
    /\ stage' = [stage EXCEPT ![e] = "void"]
    /\ UNCHANGED <<queue, published, place, scheduler, late, history, crashes, faults>>

\* Mutant: algo results do not wait for the row of the Episode.
AnswersUnlocked(e) ==
    CASE stage[e] = "awaiting"                 -> {"handled"}
      [] stage[e] = "advanced"                 -> {"handled", "conflict"}
      [] stage[e] = "void" /\ e \in Uploaded   -> {"handled", "conflict"}
      [] OTHER                                 -> {"conflict"}

\* How the Platform can answer a callback for e.  Those for algo results write the
\* Episode's row and wait for the lock of the open transaction; the guard of the
\* others reads the committed status, which has no edge to their target.  A status
\* that has moved on is the target itself, a replay, or a 409.
Answers(e) ==
    CASE stage[e] = "awaiting"                    -> {"handled"}
      [] stage[e] = "advanced"                    -> {"handled", "conflict"}
      [] stage[e] = "void" /\ e \in Uploaded      -> {"handled", "conflict"}
      [] stage[e] = "void" /\ e \in Requested     -> {"conflict"}
      [] stage[e] = "open" /\ e \in Requested     -> {"conflict"}
      [] OTHER                                    -> {}

Answered(e, answer) ==
    stage' = IF answer = "handled" /\ stage[e] = "awaiting"
             THEN [stage EXCEPT ![e] = "advanced"] ELSE stage

------------------------------------------------------------------------------
\* The worker.

At == worker.event

Turn(phase) == worker' = [worker EXCEPT !.phase = phase]

\* Hand e to its handler.
Take(e) ==
    /\ worker' = [phase |-> "running", event |-> e, attempt |-> attempts[e] + 1]
    /\ runs' = [runs EXCEPT ![e] = @ + 1]

\* Mutant: a seen event is skipped where it lies.
FetchLeavesSeen ==
    /\ worker.phase = "idle"
    /\ \E e \in Pending \ seen :
           /\ \A d \in Pending \ seen : ~SortsBefore(d, e)
           /\ Take(e)
    /\ UNCHANGED <<queue, published, place, seen, attempts, stage, late, verdict,
                   crashes, faults>>

\* fetch: pass over the files before the first new event, moving events seen to
\* processed/ and files that cannot be read to dlq/, and take that event.  Some moves
\* may fail.
Fetch ==
    /\ worker.phase = "idle"
    /\ Pending # {}
    /\ \E unread \in SUBSET Pending :
       LET new    == Pending \ (seen \cup unread)
           passed == {e \in Pending \ new : \A d \in new : ~SortsBefore(d, e)}
       IN  /\ unread \subseteq passed
           /\ \E stuck \in SUBSET passed :
                 /\ faults' = faults + Cardinality(unread) + Cardinality(stuck)
                 /\ faults' <= MaxFaults
                 /\ place' = [e \in Event |->
                        IF e \in unread \ stuck THEN "dlq"
                          ELSE IF e \in (passed \ unread) \ stuck THEN "processed"
                          ELSE place[e]]
           /\ \/ new = {} /\ UNCHANGED <<worker, runs>>
              \/ \E e \in new :
                    /\ \A d \in new : ~SortsBefore(d, e)
                    /\ Take(e)
    /\ UNCHANGED <<queue, published, seen, attempts, stage, late, verdict, crashes>>

\* handle of a notice: a line in the log.
Log ==
    /\ worker.phase = "running"
    /\ ~CallsBack(At)
    /\ Turn("handled")
    /\ UNCHANGED <<queue, published, place, seen, attempts, stage, late, history, crashes, faults>>

\* The operators have run; POST the callback.
CallBack ==
    /\ worker.phase = "running"
    /\ CallsBack(At)
    /\ Turn("waiting")
    /\ UNCHANGED <<queue, published, place, seen, attempts, stage, late, history, crashes, faults>>

\* The handler raises, or the Platform cannot be reached.
HandlerFails ==
    /\ worker.phase = "running"
    /\ CallsBack(At)
    /\ Turn("failed")
    /\ UNCHANGED <<queue, published, place, seen, attempts, stage, late, history, crashes, faults>>

\* Mutant: only a 5xx is an error.
ServeSwallowsErrors ==
    /\ worker.phase = "waiting"
    /\ \E answer \in Answers(At) \cup {"failed"} :
           /\ Answered(At, answer)
           /\ Turn(IF answer = "failed" THEN "handled" ELSE answer)
    /\ UNCHANGED <<queue, published, place, seen, attempts, late, history, crashes, faults>>

\* The Platform handles the callback and its answer arrives.  Failed is any other
\* status: the Platform has rolled back.
Serve ==
    /\ worker.phase = "waiting"
    /\ \E answer \in Answers(At) \cup {"failed"} :
           /\ Answered(At, answer)
           /\ Turn(answer)
    /\ UNCHANGED <<queue, published, place, seen, attempts, late, history, crashes, faults>>

\* callback_timeout_seconds pass.  The Platform may handle the request yet.
TimeOut ==
    /\ worker.phase = "waiting"
    /\ Turn("failed")
    /\ late' = [late EXCEPT ![At] = @ + 1]
    /\ UNCHANGED <<queue, published, place, seen, attempts, stage, history, crashes, faults>>

\* The answer is lost on its way back.
LoseAnswer ==
    /\ worker.phase \in {"handled", "conflict"}
    /\ CallsBack(At)
    /\ Turn("failed")
    /\ UNCHANGED <<queue, published, place, seen, attempts, stage, late, history, crashes, faults>>

\* The Platform handles the request, and nobody waits for the answer.
ServeLate(e) ==
    /\ late[e] > 0
    /\ late' = [late EXCEPT ![e] = @ - 1]
    /\ \E answer \in Answers(e) \cup {"failed"} : Answered(e, answer)
    /\ UNCHANGED <<queue, published, place, scheduler, history, crashes, faults>>

\* _move: the file goes to its place, or the error is logged and it stays.
Move(e, target) ==
    \/ /\ place' = [place EXCEPT ![e] = target]
       /\ UNCHANGED faults
    \/ /\ faults < MaxFaults
       /\ faults' = faults + 1
       /\ UNCHANGED place

\* ack, for a 409 too.
Ack ==
    LET e == At
    IN  /\ worker.phase \in {"handled", "conflict"}
        /\ seen' = seen \cup {e}
        /\ attempts' = [attempts EXCEPT ![e] = 0]
        /\ verdict' = [verdict EXCEPT ![e] = worker.phase]
        /\ Move(e, "processed")
        /\ worker' = IdleWorker
        /\ UNCHANGED <<queue, published, stage, late, runs, crashes>>

\* Mutant: max_retries counts the first attempt too.
RejectTooEarly ==
    LET e == At
    IN  /\ worker.phase = "failed"
        /\ attempts' = [attempts EXCEPT ![e] = worker.attempt]
        /\ IF worker.attempt >= MaxRetries
           THEN /\ seen' = seen \cup {e}
                /\ verdict' = [verdict EXCEPT ![e] = "exhausted"]
                /\ Move(e, "dlq")
           ELSE UNCHANGED <<seen, verdict, place, faults>>
        /\ worker' = IdleWorker
        /\ UNCHANGED <<queue, published, stage, late, runs, crashes>>

\* Mutant: an attempt too many.
RejectTooLate ==
    LET e == At
    IN  /\ worker.phase = "failed"
        /\ attempts' = [attempts EXCEPT ![e] = worker.attempt]
        /\ IF worker.attempt > MaxRetries + 1
           THEN /\ seen' = seen \cup {e}
                /\ verdict' = [verdict EXCEPT ![e] = "exhausted"]
                /\ Move(e, "dlq")
           ELSE UNCHANGED <<seen, verdict, place, faults>>
        /\ worker' = IdleWorker
        /\ UNCHANGED <<queue, published, stage, late, runs, crashes>>

\* reject: the file stays for another attempt until the retries are used up.
Reject ==
    LET e == At
    IN  /\ worker.phase = "failed"
        /\ attempts' = [attempts EXCEPT ![e] = worker.attempt]
        /\ IF worker.attempt > MaxRetries
           THEN /\ seen' = seen \cup {e}
                /\ verdict' = [verdict EXCEPT ![e] = "exhausted"]
                /\ Move(e, "dlq")
           ELSE UNCHANGED <<seen, verdict, place, faults>>
        /\ worker' = IdleWorker
        /\ UNCHANGED <<queue, published, stage, late, runs, crashes>>

\* The Scheduler dies and is started again: what was in memory is gone.
Restart ==
    /\ crashes < MaxCrashes
    /\ crashes' = crashes + 1
    /\ seen' = {}
    /\ attempts' = [e \in Event |-> 0]
    /\ worker' = IdleWorker
    /\ late' = IF worker.phase = "waiting" THEN [late EXCEPT ![At] = @ + 1] ELSE late
    /\ UNCHANGED <<queue, published, place, stage, history, faults>>

WorkerStep ==
    \/ Fetch
    \/ Log
    \/ CallBack
    \/ HandlerFails
    \/ TimeOut
    \/ LoseAnswer
    \/ Ack
    \/ Reject

Next ==
    \/ \E e \in Event : Publish(e) \/ Commit(e) \/ Rollback(e) \/ ServeLate(e)
    \/ WorkerStep
    \/ Serve
    \/ Restart

\* run_forever polls for ever, operators and callbacks have timeouts.  Nothing is assumed
\* of the Platform, which may neither commit nor answer.
Spec == Init /\ [][Next]_vars /\ WF_vars(WorkerStep)

------------------------------------------------------------------------------
WorkerType == [phase : Phase, event : Event \cup {NoEvent}, attempt : Nat]

\* Types, and: a worker that is not idle has an event that is still in its queue.
TypeOK ==
    /\ queue \in Queue
    /\ published \in Seq(Event)
    /\ place \in [Event -> Place]
    /\ seen \subseteq Event
    /\ attempts \in [Event -> 0..MaxRetries + 1]
    /\ worker \in WorkerType
    /\ stage \in [Event -> Stage]
    /\ late \in [Event -> Nat]
    /\ verdict \in [Event -> Verdict]
    /\ runs \in [Event -> Nat]
    /\ crashes \in 0..MaxCrashes
    /\ faults \in 0..MaxFaults
    /\ worker.phase # "idle" => At \in Event /\ place[At] = "queued"

\* Whatever fails, repeats or restarts, an Episode that waits for a callback has its
\* event in the queue or in the dead letters, or the worker used up the retries, or was
\* told 409: Worker.drain never archives an event whose callback only failed.  And a 409
\* that strands an Episode answers an annotation request: the row lock protects the
\* upload's callback where the guard does not protect the other.
NoneForgotten ==
    \A e \in Event :
        stage[e] = "awaiting" /\ place[e] # "queued" =>
            \/ place[e] = "dlq" \/ verdict[e] = "exhausted"
            \/ verdict[e] = "conflict" /\ e \in Requested

\* Of which this is the reason: a 409 to handle_episode_uploaded never comes from a
\* transaction not yet committed, so taking it for a replay (PlatformClient._post) is right.
UploadConflictIsReplay ==
    \A e \in Uploaded : verdict[e] = "conflict" => stage[e] \in {"advanced", "void"}

\* An event is not handled before the ones published earlier are done with,
\* retries included, unless the directory misbehaved twice (a file unreadable, and its move
\* failed): FileQueueConsumer.fetch in the order of the names.
HandledInOrder ==
    \A i, j \in DOMAIN published :
        LET d == published[i]
            e == published[j]
        IN  /\ i < j
            /\ runs[e] > 0
            /\ faults < 2
            => verdict[d] # "none" \/ place[d] = "dlq"

\* reject gives up after max_retries repetitions and not before, and nothing but a restart
\* grants new ones, not even a file that cannot be moved away.
RetryBudget ==
    \A e \in Event :
        /\ runs[e] <= (MaxRetries + 1) * (crashes + 1)
        /\ verdict[e] = "exhausted" => runs[e] > MaxRetries

\* The queue directories keep the promise of EventDelivery.
Promise == INSTANCE EventDelivery WITH
    verdict <- [e \in Event |-> CASE verdict[e] = "none"      -> "none"
                                  [] verdict[e] = "exhausted" -> "given_up"
                                  [] OTHER                    -> "handled"]

ImplementsEventDelivery == Promise!Spec

\* Claimed by PlatformClient._post: a 409 says that the Platform has moved on.
ConflictMeansAdvanced ==
    \A e \in Event : verdict[e] = "conflict" => stage[e] # "awaiting"
=============================================================================
