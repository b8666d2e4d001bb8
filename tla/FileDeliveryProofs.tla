-------------------------- MODULE FileDeliveryProofs --------------------------
(***************************************************************************)
(* Theorems about FileDelivery: for any events, any number of retries,     *)
(* restarts and faults, the safety properties its runs check, and the      *)
(* safety half of the implementation of EventDelivery.                     *)
(***************************************************************************)
EXTENDS FileDelivery, FiniteSetTheorems, SequenceTheorems, TLAPS

\* The files in the queue and the events on the way have been published.
Naming ==
    /\ \A i \in DOMAIN published : place[published[i]] # "unsent"
    /\ \A e \in Event : place[e] = "unsent" => runs[e] = 0

\* What the worker remembers.
Memory ==
    /\ \A e \in seen : verdict[e] # "none"
    /\ \A e \in Event \ seen : attempts[e] <= MaxRetries
    /\ worker.phase # "idle" => At \notin seen /\ worker.attempt = attempts[At] + 1

\* Nothing is archived without a verdict.
Filing == \A e \in Event : place[e] = "processed" => verdict[e] # "none"

Underway(e) == IF worker.phase # "idle" /\ At = e THEN 1 ELSE 0

\* The runs of e since the last restart: at least what is counted, at most what is counted
\* until e is seen, and then at most the whole budget.
Counting ==
    \A e \in Event :
        /\ runs[e] >= attempts[e] + Underway(e)
        /\ runs[e] <= (MaxRetries + 1) * crashes
                        + (IF e \in seen THEN MaxRetries + 1 ELSE attempts[e] + Underway(e))
        /\ verdict[e] = "exhausted" => runs[e] > MaxRetries

\* A callback answered with success is one the Platform has applied, or whose transaction
\* was rolled back; and for uploads, so is one answered 409.
Answering ==
    /\ \A e \in Event \ Notices :
           verdict[e] = "handled" \/ (worker.phase = "handled" /\ At = e) =>
               stage[e] \in {"advanced", "void"}
    /\ \A e \in Uploaded :
           verdict[e] = "conflict" \/ (worker.phase = "conflict" /\ At = e) =>
               stage[e] \in {"advanced", "void"}
    /\ \A e \in Notices : stage[e] # "awaiting"

\* An event has a file once its transaction is under way, and not before.
Unsent == \A e \in Event : stage[e] = "unsent" <=> place[e] = "unsent"

IInv ==
    /\ TypeOK
    /\ Naming
    /\ Memory
    /\ Filing
    /\ Counting
    /\ Answering
    /\ Unsent
    /\ HandledInOrder

------------------------------------------------------------------------------
LEMMA InitIInv == Init => IInv
<1> SUFFICES ASSUME Init PROVE IInv
  OBVIOUS
<1> USE EventsAssumption, LimitsAssumption DEF Init
<1>1. TypeOK
  BY DEF TypeOK, WorkerType, IdleWorker, Phase, NoEvent, Place, Stage, Verdict
<1>2. Naming /\ Memory /\ Filing
  BY DEF Naming, Memory, Filing, IdleWorker
<1>3. Counting
  BY DEF Counting, Underway, IdleWorker
<1>4. Answering /\ Unsent /\ HandledInOrder
  BY DEF Answering, Unsent, HandledInOrder, IdleWorker, Event
<1>5. QED
  BY <1>1, <1>2, <1>3, <1>4 DEF IInv

\* What fetch does to the files, in terms of what it passed over.
Sweep(passed, unread, stuck) ==
    /\ unread \subseteq passed /\ stuck \subseteq passed /\ passed \subseteq Pending
    /\ faults' \in 0..MaxFaults
    /\ faults' >= faults
    /\ unread \cap stuck # {} => faults' >= 2
    /\ \A e \in Event :
           /\ e \in unread \ stuck => place'[e] = "dlq"
           /\ e \in (passed \ unread) \ stuck => place'[e] = "processed"
           /\ e \notin passed \ stuck => place'[e] = place[e]

\* How fetch ends: with nothing, or with an event in the worker's hands.
TakesNothing == worker' = worker /\ runs' = runs

Takes(e) ==
    /\ place[e] = "queued" /\ e \in Event \ seen
    /\ worker' = [phase |-> "running", event |-> e, attempt |-> attempts[e] + 1]
    /\ runs' = [runs EXCEPT ![e] = @ + 1]

\* fetch passes over events seen or unreadable only, and never over the event it takes.
LEMMA FetchEffect ==
    ASSUME TypeOK, Fetch
    PROVE  \E passed, unread, stuck \in SUBSET Event :
               /\ Sweep(passed, unread, stuck)
               /\ passed \subseteq seen \cup unread
               /\ place' \in [Event -> Place]
               /\ \/ TakesNothing
                  \/ \E e \in Event :
                        /\ Takes(e)
                        /\ e \notin passed
                        /\ \A d \in Pending : SortsBefore(d, e) => d \in seen \cup unread
<1>1. PICK unread \in SUBSET Pending :
         LET new    == Pending \ (seen \cup unread)
             passed == {e \in Pending \ new : \A d \in new : ~SortsBefore(d, e)}
         IN  /\ unread \subseteq passed
             /\ \E stuck \in SUBSET passed :
                   /\ faults' = faults + Cardinality(unread) + Cardinality(stuck)
                   /\ faults' <= MaxFaults
                   /\ place' = [e \in Event |->
                          IF e \in unread \ stuck THEN "dlq"
                            ELSE IF e \in (passed \ unread) \ stuck THEN "processed"
                            ELSE place[e]]
             /\ \/ new = {} /\ UNCHANGED <<worker, runs>>
                \/ \E e \in new :
                      /\ \A d \in new : ~SortsBefore(d, e)
                      /\ Take(e)
  BY DEF Fetch
<1> DEFINE new    == Pending \ (seen \cup unread)
           passed == {e \in Pending \ new : \A d \in new : ~SortsBefore(d, e)}
<1>2. PICK stuck \in SUBSET passed :
         /\ faults' = faults + Cardinality(unread) + Cardinality(stuck)
         /\ faults' <= MaxFaults
         /\ place' = [e \in Event |->
                IF e \in unread \ stuck THEN "dlq"
                  ELSE IF e \in (passed \ unread) \ stuck THEN "processed"
                  ELSE place[e]]
  BY <1>1
<1>3. /\ unread \subseteq passed
      /\ passed \subseteq Pending
      /\ passed \subseteq seen \cup unread
      /\ Pending \subseteq Event
  BY <1>1 DEF Pending
<1>4. IsFiniteSet(unread) /\ IsFiniteSet(stuck)
  BY <1>3, EventsAssumption, FS_Subset
<1>5. /\ Cardinality(unread) \in Nat /\ Cardinality(stuck) \in Nat
      /\ unread # {} => Cardinality(unread) >= 1
      /\ stuck # {} => Cardinality(stuck) >= 1
  <2>1. Cardinality(unread) \in Nat /\ Cardinality(stuck) \in Nat
    BY <1>4, FS_CardinalityType
  <2>2. /\ unread # {} => Cardinality(unread) # 0
        /\ stuck # {} => Cardinality(stuck) # 0
    BY <1>4, FS_EmptySet
  <2>3. QED
    BY <2>1, <2>2
<1>6. faults \in Nat /\ MaxFaults \in Nat
  BY LimitsAssumption DEF TypeOK
<1>7. /\ faults' \in 0..MaxFaults /\ faults' >= faults
      /\ unread \cap stuck # {} => faults' >= 2
  <2>1. unread \cap stuck # {} => unread # {} /\ stuck # {}
    OBVIOUS
  <2>2. QED
    BY <2>1, <1>2, <1>5, <1>6
<1>8. /\ place' \in [Event -> Place]
      /\ \A e \in Event :
           /\ e \in unread \ stuck => place'[e] = "dlq"
           /\ e \in (passed \ unread) \ stuck => place'[e] = "processed"
           /\ e \notin passed \ stuck => place'[e] = place[e]
  <2> HIDE DEF passed, new
  <2>1. place' = [e \in Event |->
                IF e \in unread \ stuck THEN "dlq"
                  ELSE IF e \in (passed \ unread) \ stuck THEN "processed"
                  ELSE place[e]]
    BY <1>2
  <2>2. place \in [Event -> Place]
    BY DEF TypeOK
  <2>3. QED
    BY <2>1, <2>2, <1>3 DEF Place
<1>9. Sweep(passed, unread, stuck)
  <2> HIDE DEF passed, new
  <2>1. QED
    BY <1>2, <1>3, <1>7, <1>8 DEF Sweep
<1>10. \/ TakesNothing
       \/ \E e \in Event :
             /\ Takes(e)
             /\ e \notin passed
             /\ \A d \in Pending : SortsBefore(d, e) => d \in seen \cup unread
  <2>1. CASE new = {} /\ UNCHANGED <<worker, runs>>
    BY <2>1 DEF TakesNothing
  <2>2. CASE \E e \in new : (\A d \in new : ~SortsBefore(d, e)) /\ Take(e)
    BY <2>2 DEF Takes, Take, Pending
  <2>3. QED
    BY <1>1, <2>1, <2>2
<1>11. QED
  <2> HIDE DEF passed, new
  <2>1. passed \in SUBSET Event /\ unread \in SUBSET Event /\ stuck \in SUBSET Event
    BY <1>3
  <2>2. QED
    BY <2>1, <1>3, <1>8, <1>9, <1>10

------------------------------------------------------------------------------
\* Steps that leave files and memory alone: the worker's phase may change, not its event.
Quiet ==
    /\ UNCHANGED <<queue, published, place, seen, attempts, history, crashes, faults>>
    /\ \/ UNCHANGED worker
       \/ /\ worker.phase # "idle"
          /\ \E p \in Phase \ {"idle"} : worker' = [worker EXCEPT !.phase = p]

LEMMA Kinds ==
    ASSUME [Next]_vars
    PROVE  (\E e \in Event : Publish(e)) \/ Fetch \/ Ack \/ Reject \/ Restart \/ Quiet
<1>1. ASSUME NEW e \in Event, Commit(e) \/ Rollback(e) \/ ServeLate(e)
      PROVE  Quiet
  BY <1>1 DEF Commit, Rollback, ServeLate, Quiet, scheduler
<1>2. CASE Log \/ CallBack \/ HandlerFails \/ TimeOut \/ LoseAnswer
  BY <1>2 DEF Log, CallBack, HandlerFails, TimeOut, LoseAnswer, Turn, Quiet, Phase
<1>3. CASE Serve
  <2>1. PICK answer \in Answers(At) \cup {"failed"} : Turn(answer)
    BY <1>3 DEF Serve
  <2>2. answer \in Phase \ {"idle"}
    BY <2>1 DEF Answers, Phase
  <2>3. QED
    BY <1>3, <2>1, <2>2 DEF Serve, Turn, Quiet
<1>4. CASE UNCHANGED vars
  BY <1>4 DEF vars, Quiet, history
<1>5. QED
  BY <1>1, <1>2, <1>3, <1>4 DEF Next, WorkerStep

LEMMA TypeStep ==
    ASSUME TypeOK, Memory, [Next]_vars
    PROVE  TypeOK'
<1> USE LimitsAssumption DEF TypeOK
<1>1. ASSUME NEW e \in Event, Publish(e)
      PROVE  TypeOK'
  BY <1>1 DEF Publish, scheduler, history, Place, Stage, At
<1>2. ASSUME NEW e \in Event, Commit(e) \/ Rollback(e)
      PROVE  TypeOK'
  BY <1>2 DEF Commit, Rollback, scheduler, history, Stage, At
<1>3. ASSUME NEW e \in Event, ServeLate(e)
      PROVE  TypeOK'
  BY <1>3 DEF ServeLate, Answered, scheduler, history, Stage, At
<1>4. CASE Fetch
  <2>1. PICK passed, unread, stuck \in SUBSET Event :
           /\ Sweep(passed, unread, stuck)
           /\ place' \in [Event -> Place]
           /\ \/ TakesNothing
              \/ \E e \in Event : Takes(e) /\ e \notin passed
    BY <1>4, FetchEffect
  <2>2. CASE TakesNothing
    BY <1>4, <2>1, <2>2 DEF Fetch, Sweep, TakesNothing
  <2>3. CASE \E e \in Event : Takes(e) /\ e \notin passed
    BY <1>4, <2>1, <2>3 DEF Fetch, Sweep, Takes, WorkerType, Phase, At
  <2>4. QED
    BY <2>1, <2>2, <2>3
<1>5. CASE Log \/ CallBack \/ HandlerFails \/ LoseAnswer
  BY <1>5 DEF Log, CallBack, HandlerFails, LoseAnswer, Turn, WorkerType, Phase, At, history
<1>6. CASE TimeOut
  <2>1. At \in Event
    BY <1>6 DEF TimeOut
  <2>2. late' \in [Event -> Nat]
    BY <1>6, <2>1 DEF TimeOut
  <2>3. worker' \in WorkerType /\ worker'.event = worker.event
    BY <1>6 DEF TimeOut, Turn, WorkerType, Phase
  <2>4. QED
    BY <1>6, <2>1, <2>2, <2>3 DEF TimeOut, At, history
<1>7. CASE Serve
  <2>1. PICK answer \in Answers(At) \cup {"failed"} : Answered(At, answer) /\ Turn(answer)
    BY <1>7 DEF Serve
  <2>2. answer \in Phase \ {"idle"}
    BY <2>1 DEF Answers, Phase
  <2>3. stage' \in [Event -> Stage]
    BY <2>1 DEF Answered, Stage
  <2>4. QED
    BY <1>7, <2>1, <2>2, <2>3 DEF Serve, Turn, WorkerType, At, history
<1>8. CASE Ack
  <2>1. At \in Event /\ worker.phase \in Verdict
    BY <1>8 DEF Ack, Verdict
  <2>2. worker' \in WorkerType /\ worker'.phase = "idle"
    BY <1>8 DEF Ack, IdleWorker, WorkerType, Phase
  <2>3. place' \in [Event -> Place] /\ faults' \in 0..MaxFaults
    <3>1. Move(At, "processed") \/ UNCHANGED <<place, faults>>
      BY <1>8 DEF Ack
    <3>2. place' \in [Event -> Place]
      BY <2>1, <3>1 DEF Move, Place
    <3>3. faults' \in 0..MaxFaults
      BY <3>1 DEF Move
    <3>4. QED
      BY <3>2, <3>3
  <2>4. seen' \subseteq Event /\ verdict' \in [Event -> Verdict]
    BY <1>8, <2>1 DEF Ack
  <2>5. attempts' \in [Event -> 0..MaxRetries + 1]
    BY <1>8, <2>1 DEF Ack
  <2>6. QED
    BY <1>8, <2>2, <2>3, <2>4, <2>5 DEF Ack
<1>9. CASE Reject
  <2>1. At \in Event /\ worker.attempt \in 0..MaxRetries + 1
    BY <1>9 DEF Reject, Memory, WorkerType
  <2>2. worker' \in WorkerType /\ worker'.phase = "idle"
    BY <1>9 DEF Reject, IdleWorker, WorkerType, Phase
  <2>3. place' \in [Event -> Place] /\ faults' \in 0..MaxFaults
    <3>1. Move(At, "dlq") \/ UNCHANGED <<place, faults>>
      BY <1>9 DEF Reject
    <3>2. place' \in [Event -> Place]
      BY <2>1, <3>1 DEF Move, Place
    <3>3. faults' \in 0..MaxFaults
      BY <3>1 DEF Move
    <3>4. QED
      BY <3>2, <3>3
  <2>4. seen' \subseteq Event /\ verdict' \in [Event -> Verdict]
    BY <1>9, <2>1 DEF Reject, Verdict
  <2>5. QED
    BY <1>9, <2>1, <2>2, <2>3, <2>4 DEF Reject
<1>10. CASE Restart
  BY <1>10 DEF Restart, IdleWorker, WorkerType, Phase, At, history
<1>11. CASE UNCHANGED vars
  BY <1>11 DEF vars, At
<1>12. QED
  BY <1>1, <1>2, <1>3, <1>4, <1>5, <1>6, <1>7, <1>8, <1>9, <1>10, <1>11 DEF Next, WorkerStep

LEMMA MemoryStep ==
    ASSUME TypeOK, Naming, Memory, Filing, [Next]_vars
    PROVE  (Naming /\ Memory /\ Filing)'
<1> USE LimitsAssumption DEF TypeOK, Naming, Memory, Filing
<1>1. ASSUME NEW e \in Event, Publish(e)
      PROVE  (Naming /\ Memory /\ Filing)'
  BY <1>1 DEF Publish, scheduler, history, At
<1>2. CASE Fetch
  <2>1. PICK passed, unread, stuck \in SUBSET Event :
           /\ Sweep(passed, unread, stuck)
           /\ passed \subseteq seen \cup unread
           /\ place' \in [Event -> Place]
           /\ \/ TakesNothing
              \/ \E e \in Event : Takes(e) /\ e \notin passed
    BY <1>2, FetchEffect
  <2>2. UNCHANGED <<published, seen, attempts, verdict>>
    BY <1>2 DEF Fetch
  <2>3. Filing'
    BY <2>1, <2>2 DEF Sweep
  <2>4. \A e \in Event : place'[e] = "unsent" => place[e] = "unsent"
    BY <2>1 DEF Sweep
  <2>5. \A e \in Event : place[e] # "unsent" => place'[e] # "unsent"
    BY <2>1 DEF Sweep, Pending
  <2>6. Naming'
    BY <2>1, <2>2, <2>4, <2>5 DEF TakesNothing, Takes
  <2>7. Memory'
    BY <2>1, <2>2 DEF TakesNothing, Takes, At
  <2>8. QED
    BY <2>3, <2>6, <2>7
<1>3. ASSUME Ack \/ Reject
      PROVE  /\ At \in Event \ seen
             /\ worker' = IdleWorker
             /\ UNCHANGED <<published, runs>>
             /\ seen' = seen \/ (seen' = seen \cup {At} /\ verdict'[At] # "none")
             /\ \A e \in Event : verdict'[e] # verdict[e] => verdict'[e] # "none"
             /\ place' = place \/ (place'[At] # "unsent" /\ verdict'[At] # "none")
             /\ \A e \in Event \ {At} : place'[e] = place[e] /\ attempts'[e] = attempts[e]
             /\ seen' = seen => attempts'[At] <= MaxRetries
  <2>1. At \in Event \ seen
    BY <1>3 DEF Ack, Reject
  <2>2. CASE Ack
    BY <2>1, <2>2 DEF Ack, Move
  <2>3. CASE Reject
    BY <2>1, <2>3 DEF Reject, Move, WorkerType
  <2>4. QED
    BY <1>3, <2>2, <2>3
<1>4. CASE Ack \/ Reject
  BY <1>3, <1>4 DEF IdleWorker
<1>5. CASE Restart
  BY <1>5 DEF Restart, IdleWorker, history
<1>6. CASE Quiet
  BY <1>6 DEF Quiet, history, At, WorkerType
<1>7. QED
  BY <1>1, <1>2, <1>4, <1>5, <1>6, Kinds

\* A restart adds one budget.
LEMMA OneMoreBudget ==
    ASSUME NEW m \in Nat, NEW c \in Nat
    PROVE  m * c \in Nat /\ m * (c + 1) = m * c + m
  OBVIOUS

LEMMA CountingStep ==
    ASSUME TypeOK, Memory, Counting, [Next]_vars
    PROVE  Counting'
<1> DEFINE spent == (MaxRetries + 1) * crashes
<1>0. /\ spent \in Nat /\ MaxRetries \in Nat
      /\ UNCHANGED crashes => spent' = spent
      /\ crashes' = crashes + 1 => spent' = spent + (MaxRetries + 1)
  <2>1. crashes \in Nat /\ MaxRetries + 1 \in Nat
    BY LimitsAssumption DEF TypeOK
  <2>2. spent \in Nat /\ (MaxRetries + 1) * (crashes + 1) = spent + (MaxRetries + 1)
    BY <2>1, OneMoreBudget
  <2>3. QED
    BY <2>2, LimitsAssumption
<1>1. \A e \in Event :
         /\ runs[e] >= attempts[e] + Underway(e)
         /\ runs[e] <= spent + (IF e \in seen THEN MaxRetries + 1 ELSE attempts[e] + Underway(e))
         /\ verdict[e] = "exhausted" => runs[e] > MaxRetries
  BY DEF Counting
<1>2. SUFFICES
      \A e \in Event :
         /\ runs'[e] >= attempts'[e] + Underway(e)'
         /\ runs'[e] <= spent' + (IF e \in seen' THEN MaxRetries + 1
                                  ELSE attempts'[e] + Underway(e)')
         /\ verdict'[e] = "exhausted" => runs'[e] > MaxRetries
  BY DEF Counting
<1> HIDE DEF spent
<1> SUFFICES ASSUME NEW e \in Event
    PROVE  /\ runs'[e] >= attempts'[e] + Underway(e)'
           /\ runs'[e] <= spent' + (IF e \in seen' THEN MaxRetries + 1
                                    ELSE attempts'[e] + Underway(e)')
           /\ verdict'[e] = "exhausted" => runs'[e] > MaxRetries
  BY <1>2
<1>3. /\ runs[e] \in Nat /\ attempts[e] \in 0..MaxRetries + 1
      /\ Underway(e) \in {0, 1}
  BY DEF TypeOK, Underway
<1>4. \A d \in Event : Publish(d) \/ Quiet => UNCHANGED <<seen, attempts, runs, crashes, verdict, Underway(e)>>
  BY DEF Publish, Quiet, scheduler, history, Underway, At, TypeOK, WorkerType
<1>5. CASE (\E d \in Event : Publish(d)) \/ Quiet
  BY <1>0, <1>1, <1>4, <1>5
<1>6. CASE Fetch
  <2>1. UNCHANGED <<seen, attempts, verdict, crashes>> /\ Underway(e) = 0
    BY <1>6 DEF Fetch, Underway
  <2>2. TakesNothing \/ \E d \in Event : Takes(d)
    BY <1>6, FetchEffect
  <2>3. \/ runs'[e] = runs[e] /\ Underway(e)' = 0
        \/ runs'[e] = runs[e] + 1 /\ Underway(e)' = 1 /\ e \notin seen
    BY <1>6, <2>2 DEF TakesNothing, Takes, Fetch, Underway, At, TypeOK
  <2>4. QED
    BY <1>0, <1>1, <1>3, <2>1, <2>3
<1>7. ASSUME Ack \/ Reject
      PROVE  /\ UNCHANGED <<runs, crashes>> /\ Underway(e)' = 0
             /\ At # e => /\ Underway(e) = 0
                          /\ attempts'[e] = attempts[e] /\ verdict'[e] = verdict[e]
                          /\ e \in seen' <=> e \in seen
             /\ At = e => /\ Underway(e) = 1 /\ e \notin seen /\ attempts[e] <= MaxRetries
                          /\ worker.attempt = attempts[e] + 1
  BY <1>7 DEF Ack, Reject, Underway, IdleWorker, TypeOK, Memory
<1>8. CASE Ack
  <2>1. At = e => e \in seen' /\ attempts'[e] = 0 /\ verdict'[e] # "exhausted"
    BY <1>8 DEF Ack, TypeOK
  <2>2. QED
    BY <1>0, <1>1, <1>3, <1>7, <1>8, <2>1
<1>9. CASE Reject
  <2>1. At = e => /\ attempts'[e] = worker.attempt
                  /\ worker.attempt > MaxRetries \/ verdict'[e] = verdict[e]
    BY <1>9 DEF Reject, TypeOK
  <2>2. QED
    BY <1>0, <1>1, <1>3, <1>7, <1>9, <2>1
<1>10. CASE Restart
  <2>1. /\ crashes' = crashes + 1 /\ seen' = {} /\ attempts'[e] = 0 /\ Underway(e)' = 0
        /\ UNCHANGED <<runs, verdict>>
    BY <1>10 DEF Restart, history, Underway, IdleWorker
  <2>2. e \notin seen => attempts[e] + Underway(e) <= MaxRetries + 1
    <3>1. e \notin seen => attempts[e] <= MaxRetries
      BY DEF Memory
    <3>2. QED
      BY <1>0, <1>3, <3>1
  <2>3. QED
    BY <1>0, <1>1, <1>3, <2>1, <2>2
<1>11. QED
  BY <1>5, <1>6, <1>8, <1>9, <1>10, Kinds

LEMMA AnsweringStep ==
    ASSUME TypeOK, Answering, [Next]_vars
    PROVE  Answering'
<1> USE EventsAssumption DEF TypeOK, Answering
<1>1. ASSUME NEW e \in Event, Publish(e)
      PROVE  Answering'
  BY <1>1 DEF Publish, scheduler, history, At, Event
<1>2. ASSUME NEW e \in Event, Commit(e) \/ Rollback(e)
      PROVE  Answering'
  BY <1>2 DEF Commit, Rollback, scheduler, history, At, Event, CallsBack
<1>3. ASSUME NEW e \in Event, NEW answer, Answered(e, answer)
      PROVE  /\ \A d \in Event : stage[d] \in {"advanced", "void"} => stage'[d] = stage[d]
             /\ \A d \in Notices : stage'[d] # "awaiting"
  BY <1>3 DEF Answered, Event
<1>4. ASSUME NEW e \in Event, ServeLate(e)
      PROVE  Answering'
  BY <1>3, <1>4 DEF ServeLate, scheduler, history, At, Event
<1>5. CASE Fetch
  <2>1. TakesNothing \/ \E e \in Event : Takes(e)
    BY <1>5, FetchEffect
  <2>2. QED
    BY <1>5, <2>1 DEF Fetch, TakesNothing, Takes, At
<1>6. CASE Log
  BY <1>6 DEF Log, Turn, history, At, CallsBack, Event
<1>7. CASE CallBack \/ HandlerFails \/ TimeOut \/ LoseAnswer
  <2>1. UNCHANGED <<stage, verdict>>
    BY <1>7 DEF CallBack, HandlerFails, TimeOut, LoseAnswer, history
  <2>2. worker'.phase \in {"waiting", "failed"}
    BY <1>7 DEF CallBack, HandlerFails, TimeOut, LoseAnswer, Turn, WorkerType
  <2>3. QED
    BY <2>1, <2>2
<1>8. CASE Serve
  <2>1. PICK answer \in Answers(At) \cup {"failed"} : Answered(At, answer) /\ Turn(answer)
    BY <1>8 DEF Serve
  <2>2. At \in Event
    BY <1>8 DEF Serve
  <2>3. /\ answer = "handled" => stage'[At] \in {"advanced", "void"}
        /\ answer = "conflict" /\ At \in Uploaded => stage'[At] \in {"advanced", "void"}
    BY <2>1, <2>2 DEF Answers, Answered, Stage
  <2>4. /\ worker'.phase = answer /\ At' = At
        /\ UNCHANGED verdict
    BY <1>8, <2>1 DEF Serve, Turn, At, history, WorkerType
  <2>5. QED
    BY <1>3, <2>1, <2>2, <2>3, <2>4 DEF Event
<1>9. CASE Ack
  BY <1>9 DEF Ack, IdleWorker, At, Event
<1>10. CASE Reject
  BY <1>10 DEF Reject, IdleWorker, At, Event
<1>11. CASE Restart
  BY <1>11 DEF Restart, IdleWorker, At, history
<1>12. CASE UNCHANGED vars
  BY <1>12 DEF vars, At
<1>13. QED
  BY <1>1, <1>2, <1>4, <1>5, <1>6, <1>7, <1>8, <1>9, <1>10, <1>11, <1>12 DEF Next, WorkerStep

LEMMA UnsentStep ==
    ASSUME TypeOK, Unsent, [Next]_vars
    PROVE  Unsent'
<1> USE DEF TypeOK, Unsent
<1>1. ASSUME NEW e \in Event, Publish(e)
      PROVE  Unsent'
  BY <1>1 DEF Publish
<1>2. ASSUME NEW e \in Event, Commit(e) \/ Rollback(e)
      PROVE  Unsent'
  BY <1>2 DEF Commit, Rollback
<1>3. ASSUME NEW e \in Event, ServeLate(e)
      PROVE  Unsent'
  BY <1>3 DEF ServeLate, Answered
<1>4. CASE Serve
  BY <1>4 DEF Serve, Answered
<1>5. CASE Fetch
  <2>1. PICK passed, unread, stuck \in SUBSET Event : Sweep(passed, unread, stuck)
    BY <1>5, FetchEffect
  <2>2. QED
    BY <1>5, <2>1 DEF Fetch, Sweep, Pending
<1>6. CASE Ack \/ Reject
  <2>1. UNCHANGED stage /\ place[At] = "queued" /\ At \in Event
    BY <1>6 DEF Ack, Reject
  <2>2. QED
    BY <1>6, <2>1 DEF Ack, Reject, Move
<1>7. CASE Log \/ CallBack \/ HandlerFails \/ TimeOut \/ LoseAnswer \/ Restart
  BY <1>7 DEF Log, CallBack, HandlerFails, TimeOut, LoseAnswer, Restart
<1>8. CASE UNCHANGED vars
  BY <1>8 DEF vars
<1>9. QED
  BY <1>1, <1>2, <1>3, <1>4, <1>5, <1>6, <1>7, <1>8 DEF Next, WorkerStep

LEMMA OrderStep ==
    ASSUME TypeOK, Naming, Memory, Filing, Unsent, HandledInOrder, [Next]_vars
    PROVE  HandledInOrder'
<1>0. SUFFICES ASSUME NEW i \in DOMAIN published', NEW j \in DOMAIN published',
                      i < j, runs'[published'[j]] > 0, faults' < 2
      PROVE  verdict'[published'[i]] # "none" \/ place'[published'[i]] = "dlq"
  BY DEF HandledInOrder
<1>1. /\ \A k \in DOMAIN published : published[k] \in Event
      /\ DOMAIN published = 1..Len(published) /\ Len(published) \in Nat
  BY DEF TypeOK
<1>2. ASSUME i \in DOMAIN published, j \in DOMAIN published, UNCHANGED published,
             runs[published[j]] > 0, faults' >= faults, faults \in Nat, faults' \in Nat,
             \A e \in Event : verdict[e] # "none" => verdict'[e] # "none",
             \A e \in Event : place[e] = "dlq" => place'[e] = "dlq"
      PROVE  verdict'[published'[i]] # "none" \/ place'[published'[i]] = "dlq"
  BY <1>0, <1>1, <1>2 DEF HandledInOrder
<1>3. ASSUME NEW e \in Event, Publish(e)
      PROVE  verdict'[published'[i]] # "none" \/ place'[published'[i]] = "dlq"
  <2>1. /\ published' = Append(published, e)
        /\ UNCHANGED <<runs, verdict, faults>>
        /\ place' = [place EXCEPT ![e] = "queued"]
    BY <1>3 DEF Publish, history
  <2>2. runs[e] = 0 /\ place[e] = "unsent"
    BY <1>3 DEF Publish, Naming, Unsent
  <2>3. i \in 1..Len(published) /\ j \in 1..Len(published)
    <3>1. DOMAIN published' = 1..Len(published) + 1 /\ published'[Len(published) + 1] = e
      BY <1>1, <2>1, AppendProperties DEF TypeOK
    <3>2. j # Len(published) + 1
      BY <1>0, <2>1, <2>2, <3>1
    <3>3. QED
      BY <1>0, <1>1, <3>1, <3>2
  <2>4. published'[i] = published[i] /\ published'[j] = published[j]
    BY <2>1, <2>3, <1>1, AppendProperties DEF TypeOK
  <2>5. published[i] \in Event /\ place[published[i]] # "unsent"
    BY <1>1, <2>3 DEF Naming
  <2>6. QED
    BY <1>0, <1>1, <2>1, <2>2, <2>3, <2>4, <2>5 DEF HandledInOrder, TypeOK
<1>4. CASE Fetch
  <2>1. UNCHANGED <<published, verdict, seen>>
    BY <1>4 DEF Fetch
  <2>2. PICK passed, unread, stuck \in SUBSET Event :
           /\ Sweep(passed, unread, stuck)
           /\ \/ TakesNothing
              \/ \E e \in Event :
                    /\ Takes(e)
                    /\ \A d \in Pending : SortsBefore(d, e) => d \in seen \cup unread
    BY <1>4, FetchEffect
  <2>3. CASE runs[published[j]] > 0
    <3>1. \A e \in Event : place[e] = "dlq" => place'[e] = "dlq"
      BY <2>2 DEF Sweep, Pending
    <3>2. QED
      BY <1>0, <1>2, <2>1, <2>2, <2>3, <3>1 DEF Sweep, TypeOK
  <2>4. CASE ~(runs[published[j]] > 0)
    <3> DEFINE d == published[i]
    <3>1. d \in Event /\ published[j] \in Event
      BY <1>0, <1>1, <2>1
    <3>2. \A c \in Pending : SortsBefore(c, published[j]) => c \in seen \cup unread
      BY <1>0, <2>1, <2>2, <2>4, <3>1 DEF TakesNothing, Takes, TypeOK
    <3>3. SortsBefore(d, published[j])
      BY <1>0, <2>1 DEF SortsBefore
    <3>4. CASE d \notin Pending
      BY <1>0, <2>1, <2>2, <3>1, <3>4 DEF Pending, Naming, Filing, Sweep, TypeOK, Place
    <3>5. CASE d \in seen
      BY <2>1, <3>5 DEF Memory
    <3>6. CASE d \in unread
      BY <1>0, <2>1, <2>2, <3>1, <3>6 DEF Sweep
    <3>7. QED
      BY <3>2, <3>3, <3>4, <3>5, <3>6
  <2>5. QED
    BY <2>3, <2>4
<1>5. CASE Ack \/ Reject
  <2>1. At \in Event /\ place[At] = "queued"
    BY <1>5 DEF Ack, Reject, TypeOK
  <2>2. UNCHANGED <<published, runs>>
    BY <1>5 DEF Ack, Reject
  <2>3. \A e \in Event : verdict[e] # "none" => verdict'[e] # "none"
    BY <1>5, <2>1 DEF Ack, Reject, TypeOK
  <2>4. \A e \in Event : place[e] = "dlq" => place'[e] = "dlq"
    BY <1>5, <2>1 DEF Ack, Reject, Move, TypeOK
  <2>5. faults \in Nat /\ faults' \in Nat /\ faults' >= faults
    <3>1. faults' = faults \/ faults' = faults + 1
      BY <1>5 DEF Ack, Reject, Move
    <3>2. QED
      BY <3>1 DEF TypeOK
  <2>6. QED
    BY <1>0, <1>2, <2>2, <2>3, <2>4, <2>5
<1>6. CASE Restart \/ Quiet
  <2>1. UNCHANGED <<published, runs, verdict, place, faults>>
    BY <1>6 DEF Restart, Quiet, history
  <2>2. faults \in Nat
    BY DEF TypeOK
  <2>3. QED
    BY <1>0, <1>2, <2>1, <2>2
<1>7. QED
  BY <1>3, <1>4, <1>5, <1>6, Kinds

------------------------------------------------------------------------------
LEMMA Inductive == IInv /\ [Next]_vars => IInv'
  BY TypeStep, MemoryStep, CountingStep, AnsweringStep, UnsentStep, OrderStep DEF IInv

LEMMA Invariance == Spec => []IInv
  BY InitIInv, Inductive, PTL DEF Spec

\* Types, for any events and limits; and a busy worker's file is where it found it, so that
\* ack and reject move the file of the event they are about (FileQueueConsumer._path_of).
THEOREM TypeCorrect == Spec => []TypeOK
  BY Invariance, PTL DEF IInv

\* No Episode that waits for a callback loses its event without a trace: Worker.drain
\* archives what was handled, answered 409 or given up, and nothing else.
THEOREM NoneIsForgotten == Spec => []NoneForgotten
<1>1. IInv => NoneForgotten
  <2> SUFFICES ASSUME IInv, NEW e \in Event, stage[e] = "awaiting", place[e] # "queued"
               PROVE  \/ place[e] = "dlq" \/ verdict[e] = "exhausted"
                      \/ verdict[e] = "conflict" /\ e \in Requested
    BY DEF NoneForgotten
  <2>1. /\ e \notin Notices /\ verdict[e] # "handled"
        /\ verdict[e] = "conflict" => e \in Requested
    BY DEF IInv, Answering, Event
  <2>2. place[e] # "unsent"
    BY DEF IInv, Unsent
  <2>3. place[e] = "processed" => verdict[e] # "none"
    BY DEF IInv, Filing
  <2>4. QED
    BY <2>1, <2>2, <2>3 DEF IInv, TypeOK, Place, Verdict
<1>2. QED
  BY <1>1, Invariance, PTL

\* A 409 to an algo result is never the echo of a transaction still open.
THEOREM UploadConflictsAreReplays == Spec => []UploadConflictIsReplay
<1>1. IInv => UploadConflictIsReplay
  BY DEF IInv, Answering, UploadConflictIsReplay
<1>2. QED
  BY <1>1, Invariance, PTL

\* Events are handled in the order they were published, whatever is retried.
THEOREM OrderKept == Spec => []HandledInOrder
  BY Invariance, PTL DEF IInv

\* Retries are bounded by max_retries and the restarts, and are used up before giving up.
THEOREM RetriesBounded == Spec => []RetryBudget
<1>1. IInv => RetryBudget
  <2> SUFFICES ASSUME IInv, NEW e \in Event
               PROVE  /\ runs[e] <= (MaxRetries + 1) * (crashes + 1)
                      /\ verdict[e] = "exhausted" => runs[e] > MaxRetries
    BY DEF RetryBudget
  <2> DEFINE spent == (MaxRetries + 1) * crashes
  <2>1. MaxRetries \in Nat /\ crashes \in Nat
    BY LimitsAssumption DEF IInv, TypeOK
  <2>2. spent \in Nat /\ (MaxRetries + 1) * (crashes + 1) = spent + (MaxRetries + 1)
    BY <2>1, OneMoreBudget
  <2>3. runs[e] <= spent + (IF e \in seen THEN MaxRetries + 1 ELSE attempts[e] + Underway(e))
    BY DEF IInv, Counting
  <2>4. e \notin seen => attempts[e] <= MaxRetries
    BY DEF IInv, Memory
  <2>5. runs[e] \in Nat /\ attempts[e] \in Nat /\ Underway(e) \in {0, 1}
    BY DEF IInv, TypeOK, Underway
  <2> HIDE DEF spent
  <2>6. runs[e] <= spent + (MaxRetries + 1)
    BY <2>1, <2>2, <2>3, <2>4, <2>5
  <2>7. QED
    BY <2>2, <2>6 DEF IInv, Counting
<1>2. QED
  BY <1>1, Invariance, PTL

------------------------------------------------------------------------------
\* The safety half of ImplementsEventDelivery.

LEMMA SameVerdict ==
    ASSUME UNCHANGED <<place, verdict>>
    PROVE  UNCHANGED Promise!vars
  BY DEF Promise!vars

LEMMA StepImplements ==
    ASSUME IInv, [Next]_vars
    PROVE  [Promise!Next]_(Promise!vars)
<1> DEFINE abstract == [e \in Event |-> CASE verdict[e] = "none"      -> "none"
                                          [] verdict[e] = "exhausted" -> "given_up"
                                          [] OTHER                    -> "handled"]
<1> USE DEF IInv, TypeOK
<1>1. ASSUME NEW e \in Event, Publish(e)
      PROVE  Promise!Publish(e)
  <2>1. place[e] = "unsent"
    BY <1>1 DEF Publish, Unsent
  <2>2. place' = [place EXCEPT ![e] = "queued"] /\ verdict' = verdict
    BY <1>1 DEF Publish, history
  <2>3. QED
    BY <2>1, <2>2 DEF Promise!Publish
<1>2. CASE Fetch
  <2>1. PICK passed, unread, stuck \in SUBSET Event :
           /\ Sweep(passed, unread, stuck)
           /\ passed \subseteq seen \cup unread
           /\ place' \in [Event -> Place]
    BY <1>2, FetchEffect
  <2> DEFINE archived == (passed \ unread) \ stuck
             buried   == unread \ stuck
  <2>2. verdict' = verdict
    BY <1>2 DEF Fetch
  <2>3. \A e \in archived : place[e] = "queued" /\ abstract[e] # "none"
    BY <2>1 DEF Sweep, Pending, Memory
  <2>4. \A e \in buried : place[e] = "queued"
    BY <2>1 DEF Sweep, Pending
  <2>5. place' = [e \in Event |-> IF e \in archived THEN "processed"
                                  ELSE IF e \in buried THEN "dlq" ELSE place[e]]
    BY <2>1 DEF Sweep
  <2>6. Promise!Clear(archived, buried)
    BY <2>2, <2>3, <2>4, <2>5 DEF Promise!Clear
  <2>7. archived \in SUBSET Event /\ buried \in SUBSET Event
    BY <2>1
  <2>8. QED
    BY <2>6, <2>7 DEF Promise!Next
<1>3. CASE Ack
  <2>1. PICK e \in Event : e = At /\ place[e] = "queued"
    BY <1>3 DEF Ack
  <2>2. place' \in {place, [place EXCEPT ![e] = "processed"]}
    BY <1>3, <2>1 DEF Ack, Move
  <2>3. abstract' = [abstract EXCEPT ![e] = "handled"]
    BY <1>3, <2>1 DEF Ack
  <2>4. Promise!Decide(e)
    BY <2>1, <2>2, <2>3 DEF Promise!Decide
  <2>5. QED
    BY <2>4 DEF Promise!Next
<1>4. CASE Reject
  <2>1. PICK e \in Event : e = At /\ place[e] = "queued"
    BY <1>4 DEF Reject
  <2>2. CASE UNCHANGED <<place, verdict>>
    BY <2>2, SameVerdict
  <2>3. CASE verdict' = [verdict EXCEPT ![e] = "exhausted"] /\ Move(e, "dlq")
    <3>1. place' \in {place, [place EXCEPT ![e] = "dlq"]}
      BY <2>3 DEF Move
    <3>2. abstract' = [abstract EXCEPT ![e] = "given_up"]
      BY <2>1, <2>3
    <3>3. Promise!Decide(e)
      BY <2>1, <3>1, <3>2 DEF Promise!Decide
    <3>4. QED
      BY <3>3 DEF Promise!Next
  <2>4. QED
    BY <1>4, <2>1, <2>2, <2>3 DEF Reject
<1>5. CASE Restart \/ Quiet
  <2>1. UNCHANGED <<place, verdict>>
    BY <1>5 DEF Restart, Quiet, history
  <2>2. QED
    BY <2>1, SameVerdict
<1>6. QED
  BY <1>1, <1>2, <1>3, <1>4, <1>5, Kinds DEF Promise!Next

\* The queue directory keeps the promise of EventDelivery, but for its liveness: an event is
\* archived only with a verdict, and what is archived or dead stays there.
THEOREM ImplementsDeliverySafety == Spec => Promise!Init /\ [][Promise!Next]_(Promise!vars)
<1>1. Init => Promise!Init
  BY DEF Init, Promise!Init
<1>2. QED
  BY <1>1, StepImplements, Invariance, PTL DEF Spec
=============================================================================
