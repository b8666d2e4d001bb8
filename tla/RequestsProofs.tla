--------------------------- MODULE RequestsProofs ---------------------------
(***************************************************************************)
(* What holds of the requests that cross processes, for any datasets,      *)
(* events, Agents, tasks, connections and mishaps: what others can see of  *)
(* a dataset's status and what the broker's hop keeps of the promise of    *)
(* the queue directory (DatasetBuild, BrokerDelivery), what the            *)
(* ConnectionManager knows and that an assignment is only lost to a call   *)
(* that had read before it (TaskPush), and the types of all parts.         *)
(***************************************************************************)
EXTENDS MCRequests, TLAPS

------------------------------------------------------------------------------
(***************************************************************************)
(* DatasetBuild: what others see of a build.                               *)
(***************************************************************************)
\* The inductive invariant.

RequestState == {"none", "created", "published", "committed", "rolled back"}
BuildOf == [client : Copy \cup {Gone}, stage : Stage]

\* Every client that has gone away is one of the mishaps.
Mishaps == mishaps \in 0 .. MaxMishaps /\ \A d \in Dataset : late[d] \in 0 .. mishaps

BuildTypes ==
    /\ request \in [Dataset -> RequestState]
    /\ dataset \in [Dataset -> DatasetStatus]
    /\ transaction \in [Dataset -> {NoTransaction} \cup BuildOf]
    /\ late \in [Dataset -> Int]
    /\ manifest \in [Dataset -> BOOLEAN]
    /\ eligible \in [Dataset -> BOOLEAN]

\* A row is there once its request has committed, and nobody builds what is not there.
Ordered ==
    \A d \in Dataset :
        /\ request[d] \in {"none", "created", "published"} => dataset[d] = "none"
        /\ transaction[d] # NoTransaction => dataset[d] # "none"

\* Whoever is about to say succeeded, or has said it, has written the manifest.
Written ==
    \A d \in Dataset :
        transaction[d].stage = "written" \/ dataset[d] = "succeeded" => manifest[d]

BuildInv == BuildTypes /\ Mishaps /\ Ordered /\ Written

\* VisibleSteps, of one step.
Visible ==
    \A d \in Dataset :
        /\ \/ dataset'[d] = dataset[d]
           \/ dataset[d] = "none" /\ dataset'[d] = "pending"
           \/ dataset[d] # "none" /\ dataset'[d] \in {"succeeded", "failed"}
        /\ dataset'[d] = "succeeded" => manifest'[d]

LEMMA InitBuild == BuildInit => BuildInv
<1> SUFFICES ASSUME BuildInit PROVE BuildInv
  OBVIOUS
<1> USE BrokerAssumption DEF BuildInit, BrokerInit
<1>1. BuildTypes
  BY DEF BuildTypes, RequestState, DatasetStatus
<1>2. Mishaps
  BY DEF Mishaps
<1>3. Ordered /\ Written
  BY DEF Ordered, Written, NoTransaction
<1>4. QED
  BY <1>1, <1>2, <1>3 DEF BuildInv

------------------------------------------------------------------------------
\* Steps by what they change.

\* No step counts more than one mishap.
Counted == mishaps' = mishaps \/ Mishap

LEMMA CountedMishaps ==
  ASSUME BuildTypes, Mishaps, Counted, late' = late
  PROVE  Mishaps'
BY BrokerAssumption DEF BuildTypes, Mishaps, Counted, Mishap

\* Nothing of the datasets, but for whether the build is possible.
LEMMA NothingMoves ==
  ASSUME BuildInv, Counted, UNCHANGED <<request, dataset, transaction, late, manifest>>,
         eligible' \in [Dataset -> BOOLEAN]
  PROVE  BuildInv' /\ Visible
<1>1. Mishaps'
  BY CountedMishaps DEF BuildInv
<1>2. (BuildTypes /\ Ordered /\ Written)'
  BY DEF BuildInv, BuildTypes, Ordered, Written
<1>3. Visible
  BY DEF BuildInv, Visible, Written
<1>4. QED
  BY <1>1, <1>2, <1>3 DEF BuildInv

\* The request's transaction, before its commit.
LEMMA RequestMoves ==
  ASSUME BuildInv, Counted, NEW d \in Dataset, NEW state \in RequestState,
         request' = [request EXCEPT ![d] = state],
         request[d] \in {"none", "created", "published"},
         UNCHANGED <<dataset, transaction, late, manifest, eligible>>
  PROVE  BuildInv' /\ Visible
<1>1. Mishaps'
  BY CountedMishaps DEF BuildInv
<1>2. BuildTypes'
  BY DEF BuildInv, BuildTypes
<1>3. Ordered'
  BY DEF BuildInv, BuildTypes, Ordered
<1>4. Written' /\ Visible
  BY DEF BuildInv, Written, Visible
<1>5. QED
  BY <1>1, <1>2, <1>3, <1>4 DEF BuildInv

\* A build's transaction, which has not written the manifest or has just done so.
LEMMA TransactionMoves ==
  ASSUME BuildInv, Mishaps', late' \in [Dataset -> Int],
         NEW d \in Dataset, NEW to \in {NoTransaction} \cup BuildOf,
         transaction' = [transaction EXCEPT ![d] = to],
         to # NoTransaction => dataset[d] # "none",
         to.stage = "written" => manifest'[d],
         manifest' \in [Dataset -> BOOLEAN],
         \A e \in Dataset : manifest[e] => manifest'[e],
         UNCHANGED <<request, dataset, eligible>>
  PROVE  BuildInv' /\ Visible
<1>1. BuildTypes'
  BY DEF BuildInv, BuildTypes
<1>2. \A e \in Dataset : transaction'[e] = IF e = d THEN to ELSE transaction[e]
  BY DEF BuildInv, BuildTypes
<1>3. Ordered'
  BY <1>2 DEF BuildInv, Ordered
<1>4. Written' /\ Visible
  BY <1>2 DEF BuildInv, Written, Visible
<1>5. QED
  BY <1>1, <1>3, <1>4 DEF BuildInv

LEMMA StageIsBuild ==
  ASSUME BuildInv, NEW d \in Dataset, transaction[d].stage \in Stage
  PROVE  transaction[d] \in BuildOf /\ transaction[d] # NoTransaction /\ dataset[d] # "none"
<1>1. transaction[d] # NoTransaction
  BY DEF NoTransaction, Stage
<1>2. QED
  BY <1>1 DEF BuildInv, BuildTypes, Ordered

------------------------------------------------------------------------------
\* The actions.

LEMMA NoLongerLate ==
  ASSUME BuildInv, NEW d \in Dataset, NEW client, Unserved(d, client), mishaps' = mishaps,
         late' = IF client = Gone THEN [late EXCEPT ![d] = @ - 1] ELSE late
  PROVE  Mishaps' /\ late' \in [Dataset -> Int]
<1>1. client = Gone => late[d] > 0
  BY DEF Unserved, Waits
<1>2. QED
  BY <1>1, BrokerAssumption DEF BuildInv, BuildTypes, Mishaps

LEMMA CommitRequestStep ==
  ASSUME BuildInv, NEW d \in Dataset, CommitRequest(d)
  PROVE  BuildInv' /\ Visible
<1> USE DEF CommitRequest
<1>1. mishaps' = mishaps
  BY DEF brokerVars
<1>2. Mishaps'
  BY <1>1, CountedMishaps DEF BuildInv, Counted
<1>3. "committed" \in RequestState /\ "pending" \in DatasetStatus
  BY DEF RequestState, DatasetStatus
<1>4. BuildTypes'
  BY <1>3 DEF BuildInv, BuildTypes
<1>5. \A e \in Dataset : /\ dataset'[e] = IF e = d THEN "pending" ELSE dataset[e]
                         /\ request'[e] = IF e = d THEN "committed" ELSE request[e]
  BY DEF BuildInv, BuildTypes
<1>6. Ordered'
  BY <1>5 DEF BuildInv, Ordered
<1>7. Written'
  BY <1>5 DEF BuildInv, Written
<1>8. dataset[d] = "none"
  BY DEF BuildInv, Ordered
<1>9. Visible
  BY <1>5, <1>7, <1>8 DEF Visible, Written
<1>10. QED
  BY <1>2, <1>4, <1>6, <1>7, <1>9 DEF BuildInv

LEMMA BeginStep ==
  ASSUME BuildInv, NEW d \in Dataset, NEW client \in Copy \cup {Gone}, Begin(d, client)
  PROVE  BuildInv' /\ Visible
<1> USE DEF Begin
<1> DEFINE to == [client |-> client, stage |-> "running"]
<1>1. to \in BuildOf
  BY DEF BuildOf, Stage
<1>2. to.stage # "written"
  OBVIOUS
<1>3. mishaps' = mishaps
  BY DEF brokerVars
<1>4. Mishaps' /\ late' \in [Dataset -> Int]
  BY <1>3, NoLongerLate
<1>5. transaction' = [transaction EXCEPT ![d] = to]
  OBVIOUS
<1>6. manifest' \in [Dataset -> BOOLEAN] /\ manifest' = manifest
  BY DEF BuildInv, BuildTypes
<1> HIDE DEF to
<1>7. QED
  BY <1>1, <1>2, <1>4, <1>5, <1>6, TransactionMoves

LEMMA WriteManifestStep ==
  ASSUME BuildInv, NEW d \in Dataset, WriteManifest(d)
  PROVE  BuildInv' /\ Visible
<1> USE DEF WriteManifest
<1>1. transaction[d] \in BuildOf /\ dataset[d] # "none"
  BY StageIsBuild DEF Stage
<1>2. Counted
  BY DEF Counted
<1>3. Mishaps' /\ late' \in [Dataset -> Int]
  BY <1>2, CountedMishaps DEF BuildInv, BuildTypes
<1>4. PICK stage \in {"written", "failing"} :
          /\ transaction' = [transaction EXCEPT ![d] = [transaction[d] EXCEPT !.stage = stage]]
          /\ stage = "written" => manifest' = [manifest EXCEPT ![d] = TRUE]
          /\ stage = "failing" => manifest' = manifest
  OBVIOUS
<1> DEFINE to == [transaction[d] EXCEPT !.stage = stage]
<1>5. to \in BuildOf /\ to.stage = stage
  BY <1>1 DEF BuildOf, Stage
<1>6. /\ manifest' \in [Dataset -> BOOLEAN]
      /\ \A e \in Dataset : manifest[e] => manifest'[e]
      /\ stage = "written" => manifest'[d]
  BY <1>4 DEF BuildInv, BuildTypes
<1>7. transaction' = [transaction EXCEPT ![d] = to]
  BY <1>4
<1>8. UNCHANGED <<request, dataset, eligible>>
  OBVIOUS
<1> HIDE DEF to, WriteManifest
<1>9. QED
  BY <1>1, <1>3, <1>5, <1>6, <1>7, <1>8, TransactionMoves

LEMMA CommitBuildStep ==
  ASSUME BuildInv, NEW d \in Dataset, CommitBuild(d)
  PROVE  BuildInv' /\ Visible
<1> DEFINE verdict == IF transaction[d].stage = "written" THEN "succeeded" ELSE "failed"
<1>1. /\ transaction[d].stage \in {"written", "failing"}
      /\ dataset' = [dataset EXCEPT ![d] = verdict]
      /\ transaction' = [transaction EXCEPT ![d] = NoTransaction]
      /\ mishaps' = mishaps
      /\ UNCHANGED <<request, late, manifest, eligible>>
  BY DEF CommitBuild
<1>2. dataset[d] # "none"
  BY <1>1, StageIsBuild DEF Stage
<1>3. Mishaps'
  BY <1>1, CountedMishaps DEF BuildInv, Counted
<1>4. verdict \in DatasetStatus /\ verdict \in {"succeeded", "failed"}
  BY DEF DatasetStatus
<1>5. BuildTypes'
  BY <1>1, <1>4 DEF BuildInv, BuildTypes
<1>6. \A e \in Dataset :
          /\ dataset'[e] = IF e = d THEN verdict ELSE dataset[e]
          /\ transaction'[e] = IF e = d THEN NoTransaction ELSE transaction[e]
  BY <1>1 DEF BuildInv, BuildTypes
<1>7. Ordered'
  <2>1. request[d] \notin {"none", "created", "published"}
    BY <1>2 DEF BuildInv, Ordered
  <2>2. QED
    BY <1>1, <1>4, <1>6, <2>1 DEF BuildInv, Ordered
<1>8. verdict = "succeeded" => manifest[d]
  BY DEF BuildInv, Written
<1>9. Written'
  BY <1>1, <1>4, <1>6, <1>8 DEF BuildInv, Written, NoTransaction
<1>10. Visible
  <2>1. \A e \in Dataset : dataset'[e] = "succeeded" => manifest'[e]
    BY <1>9 DEF Written
  <2>2. QED
    BY <1>2, <1>4, <1>6, <2>1 DEF Visible
<1>11. QED
  BY <1>3, <1>5, <1>7, <1>9, <1>10 DEF BuildInv

LEMMA AbortBuildStep ==
  ASSUME BuildInv, NEW d \in Dataset, AbortBuild(d)
  PROVE  BuildInv' /\ Visible
<1> USE DEF AbortBuild
<1>1. NoTransaction.stage # "written"
  BY DEF NoTransaction
<1>2. Mishaps' /\ late' \in [Dataset -> Int]
  BY CountedMishaps DEF BuildInv, BuildTypes, Counted
<1>3. manifest' \in [Dataset -> BOOLEAN] /\ manifest' = manifest
  BY DEF BuildInv, BuildTypes
<1>4. QED
  BY <1>1, <1>2, <1>3, TransactionMoves

\* A task that is gone leaves its request behind.
LEMMA LeaveRequestStep ==
  ASSUME BuildInv, NEW d \in Dataset, NEW c \in Copy, LeaveRequest(d, c), Mishap,
         UNCHANGED <<request, dataset, manifest, eligible>>
  PROVE  BuildInv' /\ Visible
<1>1. manifest' \in [Dataset -> BOOLEAN] /\ manifest' = manifest
  BY DEF BuildInv, BuildTypes
<1>2. CASE transaction[d].client = c
  <2> DEFINE to == [transaction[d] EXCEPT !.client = Gone]
  <2>1. transaction[d] # NoTransaction
    BY <1>2, BrokerAssumption DEF NoTransaction
  <2>2. transaction[d] \in BuildOf /\ dataset[d] # "none"
    BY <2>1 DEF BuildInv, BuildTypes, Ordered
  <2>3. to \in BuildOf /\ to.stage = transaction[d].stage
    BY <2>2 DEF BuildOf
  <2>4. to.stage = "written" => manifest'[d]
    BY <2>3 DEF BuildInv, Written
  <2>5. transaction' = [transaction EXCEPT ![d] = to] /\ late' = late
    BY <1>2 DEF LeaveRequest
  <2>6. Mishaps' /\ late' \in [Dataset -> Int]
    BY <2>5, CountedMishaps DEF BuildInv, BuildTypes, Counted
  <2> HIDE DEF to
  <2>7. QED
    BY <1>1, <2>2, <2>3, <2>4, <2>5, <2>6, TransactionMoves
<1>3. CASE transaction[d].client # c
  <2>1. late' = [late EXCEPT ![d] = @ + 1] /\ transaction' = transaction
    BY <1>3 DEF LeaveRequest
  <2>2. late' \in [Dataset -> Int]
    BY <2>1 DEF BuildInv, BuildTypes
  <2>3. Mishaps'
    BY <2>1, BrokerAssumption DEF BuildInv, BuildTypes, Mishaps, Mishap
  <2>4. BuildTypes'
    BY <2>1, <2>2 DEF BuildInv, BuildTypes
  <2>5. Ordered' /\ Written' /\ Visible
    BY <2>1 DEF BuildInv, Ordered, Written, Visible
  <2>6. QED
    BY <2>3, <2>4, <2>5 DEF BuildInv
<1>4. QED
  BY <1>2, <1>3

LEMMA BrokerCounted == ASSUME BrokerNext PROVE Counted
<1> USE DEF Counted
<1>1. ASSUME NEW e \in Event, Fetch(e) \/ Dispatch(e) \/ Ack(e) PROVE Counted
  BY <1>1 DEF Fetch, Dispatch, Ack
<1>2. ASSUME NEW e \in Event, FetchUndecodable(e) \/ Reject(e) PROVE Counted
  BY <1>2 DEF FetchUndecodable, Reject
<1>3. ASSUME NEW e \in Event, NEW c \in Copy, RunTask(e, c) PROVE Counted
  BY <1>3 DEF RunTask
<1>4. CASE Declare \/ DispatcherDies
  BY <1>4 DEF Declare, DispatcherDies
<1>5. QED
  BY <1>1, <1>2, <1>3, <1>4 DEF BrokerNext, DispatcherStep

------------------------------------------------------------------------------
LEMMA StepBuild ==
  ASSUME BuildInv, [BuildNext]_buildVars
  PROVE  BuildInv' /\ Visible
<1>1. CASE BrokerNext /\ UNCHANGED datasetVars
  BY <1>1, BrokerCounted, NothingMoves DEF datasetVars, BuildInv, BuildTypes
<1>2. ASSUME NEW d \in Dataset, Accept(d) \/ PublishRequest(d) \/ RequestFails(d)
      PROVE  BuildInv' /\ Visible
  <2>1. /\ "created" \in RequestState /\ "published" \in RequestState
        /\ "rolled back" \in RequestState
    BY DEF RequestState
  <2>2. CASE Accept(d)
    BY <2>1, <2>2, RequestMoves DEF Accept, Counted, brokerVars
  <2>3. CASE PublishRequest(d)
    BY <2>1, <2>3, RequestMoves DEF PublishRequest, Publish, Counted
  <2>4. CASE RequestFails(d)
    BY <2>1, <2>4, RequestMoves DEF RequestFails, Counted
  <2>5. QED
    BY <1>2, <2>2, <2>3, <2>4
<1>3. ASSUME NEW d \in Dataset, Withdraw(d) PROVE BuildInv' /\ Visible
  <2>1. eligible' \in [Dataset -> BOOLEAN]
    BY <1>3 DEF Withdraw, BuildInv, BuildTypes
  <2>2. QED
    BY <1>3, <2>1, NothingMoves DEF Withdraw, Counted
<1>4. ASSUME NEW d \in Dataset, NEW client \in Copy \cup {Gone}, NotFound(d, client)
      PROVE  BuildInv' /\ Visible
  <2>1. Mishaps' /\ late' \in [Dataset -> Int]
    BY <1>4, NoLongerLate DEF NotFound
  <2>2. UNCHANGED <<request, dataset, transaction, manifest, eligible>>
    BY <1>4 DEF NotFound
  <2>3. BuildTypes' /\ Ordered' /\ Written' /\ Visible
    BY <2>1, <2>2 DEF BuildInv, BuildTypes, Ordered, Written, Visible
  <2>4. QED
    BY <2>1, <2>3 DEF BuildInv
<1>5. ASSUME NEW n \in Notices, NEW c \in Copy, LogNotice(n, c) \/ NoticeLost(n, c)
      PROVE  BuildInv' /\ Visible
  BY <1>5, NothingMoves
  DEF LogNotice, NoticeLost, WorkerDies, ChildDies, Counted, datasetVars, BuildInv, BuildTypes
<1>6. ASSUME NEW n \in Notices, Notify(n) PROVE BuildInv' /\ Visible
  BY <1>6, NothingMoves DEF Notify, Publish, Counted, datasetVars, BuildInv, BuildTypes
<1>7. ASSUME NEW d \in Dataset, NEW c \in Copy, TimeOut(d, c) \/ TaskLost(d, c)
      PROVE  BuildInv' /\ Visible
  BY <1>7, LeaveRequestStep DEF TimeOut, TaskLost, WorkerDies, ChildDies
<1>8. CASE UNCHANGED buildVars
  BY <1>8, NothingMoves DEF buildVars, brokerVars, datasetVars, Counted, BuildInv, BuildTypes
<1>9. QED
  BY <1>1, <1>2, <1>3, <1>4, <1>5, <1>6, <1>7, <1>8, CommitRequestStep, BeginStep,
     WriteManifestStep, CommitBuildStep, AbortBuildStep DEF BuildNext, PlatformStep

\* The invariant: requests, rows, transactions, manifests and mishaps fit together.
THEOREM BuildAlways == BuildSpec => []BuildInv
<1>1. BuildInit => BuildInv
  BY InitBuild
<1>2. BuildInv /\ [BuildNext]_buildVars => BuildInv'
  BY StepBuild
<1>3. QED
  BY <1>1, <1>2, PTL DEF BuildSpec

\* Type correctness of the Platform's side (DatasetBuilder, its rows and requests); in
\* particular, no more clients are ever gone than there were mishaps.
THEOREM DatasetTypes == BuildSpec => []DatasetTypeOK
<1>1. BuildInv => DatasetTypeOK
  <2> SUFFICES ASSUME BuildInv PROVE DatasetTypeOK
    OBVIOUS
  <2>1. late \in [Dataset -> 0 .. MaxMishaps]
    BY BrokerAssumption DEF BuildInv, BuildTypes, Mishaps
  <2>2. QED
    BY <2>1 DEF BuildInv, BuildTypes, DatasetTypeOK, RequestState, BuildOf
<1>2. QED
  BY <1>1, BuildAlways, PTL

\* What others see of a build (the statuses build_dataset and DatasetBuilder commit) is
\* accepted, then built or failed, and what has succeeded has its manifest, however many
\* deliveries, deaths and timeouts there are.
THEOREM StepsAreVisible == BuildSpec => VisibleSteps
<1>1. BuildInv /\ [BuildNext]_buildVars => [Visible]_buildVars
  BY StepBuild
<1>2. QED
  BY <1>1, BuildAlways, PTL DEF BuildSpec, VisibleSteps, Visible

------------------------------------------------------------------------------
(***************************************************************************)
(* BrokerDelivery, as DatasetBuild uses it.                                *)
(***************************************************************************)
\* The inductive invariant.

TaskRow == [state : TaskState, retries : 0 .. MaxRetries]

Handled(e) == \E c \in Copy : task[e][c] # NoTask

\* An event that was rejected once too often is among the dead letters.
RejectedIsDead == \A e \in Event : attempts[e] > MaxRetries => message[e] = "dlq"

\* The worker acknowledges what it has sent a task for.
SentIsHandled == \A e \in Event : hand = e /\ sent => Handled(e)

\* A build whose client is still there has a task that runs.
Attended ==
    \A d \in Dataset : transaction[d] # NoTransaction /\ transaction[d].client # Gone =>
        Running(d, transaction[d].client)

BrokerInv == BrokerTypeOK /\ RejectedIsDead /\ SentIsHandled

LEMMA NoTaskIs == NoTask \in TaskRow /\ NoTask.state = "none"
<1>1. NoTask = [state |-> "none", retries |-> 0] /\ 0 \in 0 .. MaxRetries
  BY BrokerAssumption DEF NoTask
<1>2. QED
  BY <1>1 DEF TaskRow, TaskState

LEMMA DatasetsAreEvents == Dataset \subseteq Event /\ Notices \subseteq Event /\ Gone \notin Copy
BY DatasetAssumption, BrokerAssumption DEF Gone

LEMMA InitBroker == BuildInit => BrokerInv /\ Attended
<1> SUFFICES ASSUME BuildInit PROVE BrokerInv /\ Attended
  OBVIOUS
<1>1. BrokerTypeOK
  <2>1. task \in [Event -> [Copy -> [state : TaskState, retries : 0 .. MaxRetries]]]
    BY NoTaskIs DEF BuildInit, BrokerInit, TaskRow
  <2>2. message \in [Event -> MessagePlace] /\ cause \in [Event -> SUBSET Cause]
    BY DEF BuildInit, BrokerInit, MessagePlace
  <2>3. attempts \in [Event -> 0 .. MaxRetries + 1] /\ mishaps \in 0 .. MaxMishaps
    BY BrokerAssumption DEF BuildInit, BrokerInit
  <2>4. declared = FALSE /\ hand = NoEvent /\ sent = FALSE
    BY DEF BuildInit, BrokerInit
  <2>5. QED
    BY <2>1, <2>2, <2>3, <2>4 DEF BrokerTypeOK
<1>2. RejectedIsDead /\ SentIsHandled /\ Attended
  BY BrokerAssumption DEF RejectedIsDead, SentIsHandled, Attended, BuildInit, BrokerInit
<1>3. QED
  BY <1>1, <1>2 DEF BrokerInv

------------------------------------------------------------------------------
\* The tasks.

\* One task that was sent goes on, or none does.
OneMoves ==
    \/ task' = task
    \/ \E e \in Event, c \in Copy, t \in TaskRow :
         /\ task[e][c].state \in {"waiting", "running"} /\ t.state # "none"
         /\ task' = [task EXCEPT ![e][c] = t]

LEMMA OneTask ==
  ASSUME BrokerTypeOK, NEW e \in Event, NEW c \in Copy, NEW t, task' = [task EXCEPT ![e][c] = t]
  PROVE  \A f \in Event, b \in Copy : task'[f][b] = IF f = e /\ b = c THEN t ELSE task[f][b]
BY DEF BrokerTypeOK

LEMMA TasksTyped ==
  ASSUME BrokerTypeOK, NEW e \in Event, NEW c \in Copy, NEW t \in TaskRow,
         task' = [task EXCEPT ![e][c] = t]
  PROVE  task' \in [Event -> [Copy -> TaskRow]]
BY DEF BrokerTypeOK, TaskRow

\* Whether an event has been handed to Celery is not changed by what its tasks do.
LEMMA HandledStays ==
  ASSUME BrokerTypeOK, OneMoves
  PROVE  /\ task' \in [Event -> [Copy -> TaskRow]]
         /\ \A f \in Event : Handled(f)' <=> Handled(f)
<1>1. CASE task' = task
  BY <1>1 DEF BrokerTypeOK, TaskRow, Handled
<1>2. CASE \E e \in Event, c \in Copy, t \in TaskRow :
              /\ task[e][c].state \in {"waiting", "running"} /\ t.state # "none"
              /\ task' = [task EXCEPT ![e][c] = t]
  <2>1. PICK e \in Event, c \in Copy, t \in TaskRow :
            /\ task[e][c].state \in {"waiting", "running"} /\ t.state # "none"
            /\ task' = [task EXCEPT ![e][c] = t]
    BY <1>2
  <2>2. task' \in [Event -> [Copy -> TaskRow]]
    BY <2>1, TasksTyped
  <2>3. task[e][c] # NoTask /\ t # NoTask
    BY <2>1, NoTaskIs
  <2>4. \A f \in Event, b \in Copy : task'[f][b] = IF f = e /\ b = c THEN t ELSE task[f][b]
    BY <2>1 DEF BrokerTypeOK
  <2>5. \A f \in Event, b \in Copy : task'[f][b] # NoTask <=> task[f][b] # NoTask
    BY <2>3, <2>4
  <2>6. QED
    BY <2>2, <2>5 DEF Handled
<1>3. QED
  BY <1>1, <1>2 DEF OneMoves

\* What a task's step does to the hop: nothing but add a cause.
TaskStep == OneMoves /\ cause' \in [Event -> SUBSET Cause] /\ UNCHANGED <<declared, message, dispatcher>>

LEMMA TaskKeeps ==
  ASSUME BrokerInv, TaskStep, mishaps' \in 0 .. MaxMishaps
  PROVE  BrokerInv' /\ \A f \in Event : Handled(f)' <=> Handled(f)
<1>1. /\ task' \in [Event -> [Copy -> TaskRow]]
      /\ \A f \in Event : Handled(f)' <=> Handled(f)
  BY HandledStays DEF BrokerInv, TaskStep
<1>2. /\ cause' \in [Event -> SUBSET Cause] /\ declared' = declared /\ message' = message
      /\ attempts' = attempts /\ hand' = hand /\ sent' = sent
  BY DEF TaskStep, dispatcher
<1>3. BrokerTypeOK'
  BY <1>1, <1>2 DEF BrokerInv, BrokerTypeOK, TaskRow
<1>4. RejectedIsDead' /\ SentIsHandled'
  BY <1>1, <1>2 DEF BrokerInv, RejectedIsDead, SentIsHandled
<1>5. QED
  BY <1>1, <1>3, <1>4 DEF BrokerInv

LEMMA BlameFits ==
  ASSUME BrokerTypeOK, NEW e \in Event, NEW why \in Cause, Blame(e, why)
  PROVE  cause' \in [Event -> SUBSET Cause]
BY DEF Blame, BrokerTypeOK

LEMMA SetTaskMoves ==
  ASSUME BrokerTypeOK, NEW e \in Event, NEW c \in Copy, NEW state \in TaskState \ {"none"},
         task[e][c].state \in {"waiting", "running"}, SetTask(e, c, state)
  PROVE  OneMoves
<1>1. task[e][c] \in TaskRow
  BY DEF BrokerTypeOK, TaskRow
<1>2. PICK t : t = [task[e][c] EXCEPT !.state = state]
  OBVIOUS
<1>3. t \in TaskRow /\ t.state = state
  BY <1>1, <1>2 DEF TaskRow
<1>4. task' = [task EXCEPT ![e][c] = t]
  BY <1>2 DEF SetTask, BrokerTypeOK
<1>5. QED
  BY <1>3, <1>4 DEF OneMoves

LEMMA EndsMoves ==
  ASSUME BrokerTypeOK, NEW e \in Event, NEW c \in Copy, Running(e, c),
         TaskEnds(e, c) \/ TaskRefused(e, c) \/ TaskRetries(e, c)
  PROVE  OneMoves /\ cause' \in [Event -> SUBSET Cause]
<1>1. "ended" \in TaskState \ {"none"} /\ "refused" \in Cause /\ "exhausted" \in Cause
  BY DEF TaskState, Cause
<1>2. task[e][c].state = "running" /\ task[e][c] \in TaskRow
  BY DEF Running, BrokerTypeOK, TaskRow
<1>3. CASE SetTask(e, c, "ended") /\ UNCHANGED cause
  BY <1>1, <1>2, <1>3, SetTaskMoves DEF BrokerTypeOK
<1>4. CASE SetTask(e, c, "ended") /\ \E why \in {"refused", "exhausted"} : Blame(e, why)
  <2>1. OneMoves
    BY <1>1, <1>2, <1>4, SetTaskMoves
  <2>2. cause' \in [Event -> SUBSET Cause]
    BY <1>1, <1>4, BlameFits
  <2>3. QED
    BY <2>1, <2>2
<1>5. CASE /\ task[e][c].retries < MaxRetries
           /\ task' = [task EXCEPT ![e][c] = [state |-> "waiting", retries |-> @.retries + 1]]
           /\ UNCHANGED cause
  <2>1. PICK t : t = [state |-> "waiting", retries |-> task[e][c].retries + 1]
    OBVIOUS
  <2>2. task[e][c].retries + 1 \in 0 .. MaxRetries
    BY <1>2, <1>5, BrokerAssumption DEF TaskRow
  <2>3. t \in TaskRow /\ t.state = "waiting"
    BY <2>1, <2>2 DEF TaskRow, TaskState
  <2>4. task' = [task EXCEPT ![e][c] = t]
    BY <1>5, <2>1 DEF BrokerTypeOK
  <2>5. OneMoves
    BY <1>2, <2>3, <2>4 DEF OneMoves
  <2>6. QED
    BY <1>5, <2>5 DEF BrokerTypeOK
<1>6. QED
  BY <1>3, <1>4, <1>5 DEF TaskEnds, TaskRefused, TaskRetries

LEMMA LossMoves ==
  ASSUME BrokerTypeOK, NEW e \in Event, NEW c \in Copy, WorkerDies(e, c) \/ ChildDies(e, c)
  PROVE  TaskStep
<1>1. {"ended", "waiting"} \subseteq TaskState \ {"none"} /\ "child lost" \in Cause
  BY DEF TaskState, Cause
<1>2. task[e][c].state = "running"
  BY DEF WorkerDies, ChildDies, Running
<1>3. OneMoves
  BY <1>1, <1>2, SetTaskMoves DEF WorkerDies, ChildDies
<1>4. cause' \in [Event -> SUBSET Cause]
  BY <1>1, BlameFits DEF WorkerDies, ChildDies, BrokerTypeOK
<1>5. UNCHANGED <<declared, message, dispatcher>>
  BY DEF WorkerDies, ChildDies
<1>6. QED
  BY <1>3, <1>4, <1>5 DEF TaskStep

\* The answer to a client, if it is there, is to a task that runs.
LEMMA AnswerMoves ==
  ASSUME BrokerTypeOK, NEW d \in Dataset, NEW client \in Copy \cup {Gone},
         client # Gone => Running(d, client),
         NEW answer \in {"built", "refused", "error"}, Answer(d, client, answer)
  PROVE  OneMoves /\ cause' \in [Event -> SUBSET Cause]
<1>1. CASE client = Gone
  BY <1>1 DEF Answer, OneMoves, BrokerTypeOK
<1>2. CASE client # Gone
  <2>1. client \in Copy /\ Running(d, client) /\ d \in Event
    BY <1>2, DatasetsAreEvents
  <2>2. /\ answer = "built" => TaskEnds(d, client)
        /\ answer = "refused" => TaskRefused(d, client)
        /\ answer = "error" => TaskRetries(d, client)
    <3>1. CASE answer = "built"
      BY <1>2, <3>1 DEF Answer
    <3>2. CASE answer = "refused"
      BY <1>2, <3>2 DEF Answer
    <3>3. CASE answer = "error"
      BY <1>2, <3>3 DEF Answer
    <3>4. QED
      BY <3>1, <3>2, <3>3
  <2>3. QED
    BY <2>1, <2>2, EndsMoves
<1>3. QED
  BY <1>1, <1>2

------------------------------------------------------------------------------
\* The hop.

PlaceOf ==
    [e \in Event |-> CASE message[e] \in {"unsent", "unrouted"} -> "unsent"
                       [] message[e] \in {"queued", "held"}     -> "queued"
                       [] message[e] = "acked"                  -> "processed"
                       [] OTHER                                 -> "dlq"]

VerdictOf == [e \in Event |-> IF \E c \in Copy : task[e][c] # NoTask THEN "handled" ELSE "none"]

PromisedStep == [DeliveryOf!Next]_(DeliveryOf!vars)

LEMMA SamePlaces == ASSUME UNCHANGED <<PlaceOf, VerdictOf>> PROVE PromisedStep
BY DEF PromisedStep, DeliveryOf!vars, PlaceOf, VerdictOf

LEMMA SameVerdicts ==
  ASSUME \A f \in Event : Handled(f)' <=> Handled(f)
  PROVE  VerdictOf' = VerdictOf
BY DEF VerdictOf, Handled

\* An event goes to the dead letters, or out of the queue with its task sent.
LEMMA EventLeaves ==
  ASSUME NEW e \in Event, PlaceOf[e] = "queued", VerdictOf' = VerdictOf,
         \/ PlaceOf' = [PlaceOf EXCEPT ![e] = "dlq"]
         \/ PlaceOf' = [PlaceOf EXCEPT ![e] = "processed"] /\ VerdictOf[e] # "none"
  PROVE  PromisedStep
<1>1. PICK archived, buried \in SUBSET Event :
        \/ archived = {} /\ buried = {e} /\ PlaceOf' = [PlaceOf EXCEPT ![e] = "dlq"]
        \/ /\ archived = {e} /\ buried = {} /\ PlaceOf' = [PlaceOf EXCEPT ![e] = "processed"]
           /\ VerdictOf[e] # "none"
  <2>1. {} \in SUBSET Event /\ {e} \in SUBSET Event
    OBVIOUS
  <2>2. QED
    BY <2>1
<1>2. PlaceOf' = [f \in Event |-> IF f \in archived THEN "processed"
                                  ELSE IF f \in buried THEN "dlq" ELSE PlaceOf[f]]
  <2>1. DOMAIN PlaceOf = Event
    BY DEF PlaceOf
  <2>2. QED
    BY <1>1, <2>1
<1>3. DeliveryOf!Clear(archived, buried)
  BY <1>1, <1>2 DEF DeliveryOf!Clear, PlaceOf, VerdictOf
<1>4. QED
  BY <1>3 DEF PromisedStep, DeliveryOf!Next

LEMMA MessageMoves ==
  ASSUME BrokerTypeOK, NEW e \in Event, NEW m \in MessagePlace, PutMessage(e, m)
  PROVE  /\ message' = [message EXCEPT ![e] = m] /\ message' \in [Event -> MessagePlace]
         /\ \A f \in Event : message'[f] = IF f = e THEN m ELSE message[f]
BY DEF PutMessage, BrokerTypeOK

LEMMA PlaceMoves ==
  ASSUME BrokerTypeOK, NEW e \in Event, NEW m \in MessagePlace, PutMessage(e, m)
  PROVE  /\ m \in {"queued", "held"} => PlaceOf' = [PlaceOf EXCEPT ![e] = "queued"]
         /\ m \in {"unsent", "unrouted"} => PlaceOf' = [PlaceOf EXCEPT ![e] = "unsent"]
         /\ m = "acked" => PlaceOf' = [PlaceOf EXCEPT ![e] = "processed"]
         /\ m = "dlq" => PlaceOf' = [PlaceOf EXCEPT ![e] = "dlq"]
<1>1. \A f \in Event : message'[f] = IF f = e THEN m ELSE message[f]
  BY MessageMoves
<1>2. QED
  BY <1>1 DEF PlaceOf

LEMMA PlaceIs ==
  ASSUME NEW e \in Event
  PROVE  /\ message[e] \in {"queued", "held"} => PlaceOf[e] = "queued"
         /\ message[e] \in {"unsent", "unrouted"} => PlaceOf[e] = "unsent"
BY DEF PlaceOf

\* Nothing about the tasks.
LEMMA QuietTasks ==
  ASSUME task' = task
  PROVE  VerdictOf' = VerdictOf /\ \A f \in Event : Handled(f)' <=> Handled(f)
BY DEF VerdictOf, Handled

LEMMA PublishStep ==
  ASSUME BrokerInv, NEW e \in Event, Publish(e)
  PROVE  BrokerInv' /\ PromisedStep
<1>1. PICK m \in {"queued", "unrouted"} :
        /\ message[e] = "unsent" /\ PutMessage(e, m)
        /\ m = "queued" => cause' = cause
        /\ m = "unrouted" => Blame(e, "unrouted")
  BY DEF Publish
<1>2. UNCHANGED <<declared, attempts, hand, sent, task, mishaps>>
  BY DEF Publish, dispatcher
<1>3. m \in MessagePlace /\ "unrouted" \in Cause
  BY DEF MessagePlace, Cause
<1>4. /\ message' \in [Event -> MessagePlace]
      /\ \A f \in Event : message'[f] = IF f = e THEN m ELSE message[f]
  BY <1>1, <1>3, MessageMoves DEF BrokerInv
<1>5. cause' \in [Event -> SUBSET Cause]
  BY <1>1, <1>3, BlameFits DEF BrokerInv, BrokerTypeOK
<1>6. BrokerTypeOK'
  BY <1>1, <1>2, <1>4, <1>5 DEF BrokerInv, BrokerTypeOK
<1>7. RejectedIsDead'
  BY <1>1, <1>2, <1>4 DEF BrokerInv, RejectedIsDead
<1>8. SentIsHandled'
  BY <1>2, QuietTasks DEF BrokerInv, SentIsHandled
<1>9. PlaceOf[e] = "unsent" /\ VerdictOf' = VerdictOf
  BY <1>1, <1>2, PlaceIs, QuietTasks
<1>10. CASE m = "queued"
  <2>1. PlaceOf' = [PlaceOf EXCEPT ![e] = "queued"]
    BY <1>1, <1>3, <1>10, PlaceMoves DEF BrokerInv
  <2>2. DeliveryOf!Publish(e)
    BY <1>9, <2>1 DEF DeliveryOf!Publish, PlaceOf, VerdictOf
  <2>3. PromisedStep
    BY <2>2 DEF PromisedStep, DeliveryOf!Next
  <2>4. QED
    BY <1>6, <1>7, <1>8, <2>3 DEF BrokerInv
<1>11. CASE m = "unrouted"
  <2>1. PlaceOf' = [PlaceOf EXCEPT ![e] = "unsent"]
    BY <1>1, <1>3, <1>11, PlaceMoves DEF BrokerInv
  <2>2. PlaceOf' = PlaceOf
    <3>1. DOMAIN PlaceOf = Event
      BY DEF PlaceOf
    <3>2. PlaceOf \in [Event -> {PlaceOf[f] : f \in Event}]
      BY DEF PlaceOf
    <3>3. QED
      BY <1>9, <2>1, <3>2
  <2>3. PromisedStep
    BY <1>9, <2>2, SamePlaces
  <2>4. QED
    BY <1>6, <1>7, <1>8, <2>3 DEF BrokerInv
<1>12. QED
  BY <1>1, <1>10, <1>11

\* The event at hand goes where the worker, or its death, puts it: no task is touched.
LEMMA HandEmpties ==
  ASSUME BrokerInv, NEW e \in Event, message[e] \in {"queued", "held"},
         NEW m \in {"queued", "acked", "dlq"}, PutMessage(e, m),
         m = "acked" => Handled(e),
         hand' = NoEvent, sent' = FALSE, UNCHANGED <<declared, task>>,
         hand \in {e, NoEvent},
         attempts' \in [Event -> 0 .. MaxRetries + 1],
         \A f \in Event : attempts'[f] > MaxRetries =>
             (f # e /\ attempts'[f] = attempts[f]) \/ (f = e /\ m = "dlq"),
         cause' \in [Event -> SUBSET Cause], mishaps' \in 0 .. MaxMishaps
  PROVE  BrokerInv' /\ PromisedStep
<1>1. m \in MessagePlace
  BY DEF MessagePlace
<1>2. /\ message' \in [Event -> MessagePlace]
      /\ \A f \in Event : message'[f] = IF f = e THEN m ELSE message[f]
  BY <1>1, MessageMoves DEF BrokerInv
<1>3. BrokerTypeOK'
  BY <1>2 DEF BrokerInv, BrokerTypeOK
<1>4. RejectedIsDead'
  BY <1>2 DEF BrokerInv, RejectedIsDead
<1>5. SentIsHandled'
  BY DEF SentIsHandled
<1>6. PlaceOf[e] = "queued" /\ VerdictOf' = VerdictOf
  BY PlaceIs, QuietTasks
<1>7. CASE m = "queued"
  <2>1. PlaceOf' = [PlaceOf EXCEPT ![e] = "queued"]
    BY <1>1, <1>7, PlaceMoves DEF BrokerInv
  <2>2. PlaceOf' = PlaceOf
    <3>1. PlaceOf \in [Event -> {PlaceOf[f] : f \in Event}]
      BY DEF PlaceOf
    <3>2. QED
      BY <1>6, <2>1, <3>1
  <2>3. QED
    BY <1>6, <2>2, <1>3, <1>4, <1>5, SamePlaces DEF BrokerInv
<1>8. CASE m = "acked"
  <2>1. VerdictOf[e] # "none"
    BY <1>8 DEF VerdictOf, Handled
  <2>2. PlaceOf' = [PlaceOf EXCEPT ![e] = "processed"]
    BY <1>1, <1>8, PlaceMoves DEF BrokerInv
  <2>3. QED
    BY <1>6, <2>1, <2>2, <1>3, <1>4, <1>5, EventLeaves DEF BrokerInv
<1>9. CASE m = "dlq"
  <2>1. PlaceOf' = [PlaceOf EXCEPT ![e] = "dlq"]
    BY <1>1, <1>9, PlaceMoves DEF BrokerInv
  <2>2. QED
    BY <1>6, <2>1, <1>3, <1>4, <1>5, EventLeaves DEF BrokerInv
<1>10. QED
  BY <1>7, <1>8, <1>9

------------------------------------------------------------------------------
\* The worker's steps.

\* The bound on mishaps, for a step that counts at most one.
LEMMA MishapsTyped ==
  ASSUME BrokerTypeOK, Counted
  PROVE  mishaps' \in 0 .. MaxMishaps
BY BrokerAssumption DEF BrokerTypeOK, Counted, Mishap

LEMMA FetchStep ==
  ASSUME BrokerInv, NEW e \in Event, Fetch(e)
  PROVE  BrokerInv' /\ PromisedStep
<1>1. /\ hand = NoEvent /\ message[e] = "queued" /\ PutMessage(e, "held") /\ hand' = e
      /\ UNCHANGED <<declared, attempts, sent, task, cause, mishaps>>
  BY DEF Fetch
<1>2. "held" \in MessagePlace /\ ~sent
  BY <1>1 DEF MessagePlace, BrokerInv, BrokerTypeOK
<1>3. /\ message' \in [Event -> MessagePlace]
      /\ \A f \in Event : message'[f] = IF f = e THEN "held" ELSE message[f]
  BY <1>1, <1>2, MessageMoves DEF BrokerInv
<1>4. BrokerTypeOK'
  BY <1>1, <1>2, <1>3 DEF BrokerInv, BrokerTypeOK
<1>5. RejectedIsDead' /\ SentIsHandled'
  BY <1>1, <1>2, <1>3 DEF BrokerInv, RejectedIsDead, SentIsHandled
<1>6. PlaceOf' = [PlaceOf EXCEPT ![e] = "queued"] /\ PlaceOf[e] = "queued" /\ VerdictOf' = VerdictOf
  BY <1>1, <1>2, PlaceMoves, PlaceIs, QuietTasks DEF BrokerInv
<1>7. PlaceOf' = PlaceOf
  <2>1. PlaceOf \in [Event -> {PlaceOf[f] : f \in Event}]
    BY DEF PlaceOf
  <2>2. QED
    BY <1>6, <2>1
<1>8. PromisedStep
  BY <1>6, <1>7, SamePlaces
<1>9. QED
  BY <1>4, <1>5, <1>8 DEF BrokerInv

LEMMA FetchUndecodableStep ==
  ASSUME BrokerInv, NEW e \in Event, FetchUndecodable(e)
  PROVE  BrokerInv' /\ PromisedStep
<1>1. /\ hand = NoEvent /\ message[e] = "queued" /\ Mishap
      /\ PutMessage(e, "dlq") /\ Blame(e, "undecodable")
      /\ UNCHANGED <<declared, attempts, hand, sent, task>>
  BY DEF FetchUndecodable, dispatcher
<1>2. sent = FALSE /\ "undecodable" \in Cause
  BY <1>1 DEF BrokerInv, BrokerTypeOK, Cause
<1>3. cause' \in [Event -> SUBSET Cause]
  BY <1>1, <1>2, BlameFits DEF BrokerInv
<1>4. mishaps' \in 0 .. MaxMishaps
  BY <1>1, MishapsTyped DEF BrokerInv, Counted
<1>5. attempts' \in [Event -> 0 .. MaxRetries + 1]
  BY <1>1 DEF BrokerInv, BrokerTypeOK
<1>6. QED
  BY <1>1, <1>2, <1>3, <1>4, <1>5, HandEmpties

LEMMA RejectStep ==
  ASSUME BrokerInv, NEW e \in Event, Reject(e)
  PROVE  BrokerInv' /\ PromisedStep
<1>1. /\ hand = e /\ ~sent /\ Mishap /\ hand' = NoEvent
      /\ attempts' = [attempts EXCEPT ![e] = @ + 1]
      /\ UNCHANGED <<declared, sent, task>>
  BY DEF Reject
<1>2. PICK m \in {"queued", "dlq"} :
        /\ PutMessage(e, m)
        /\ m = "queued" => cause' = cause /\ ~(attempts'[e] > MaxRetries)
        /\ m = "dlq" => Blame(e, "undispatched")
  BY DEF Reject
<1>3. message[e] = "held" /\ attempts \in [Event -> 0 .. MaxRetries + 1]
  BY <1>1, NoEventAssumption DEF BrokerInv, BrokerTypeOK
<1>4. attempts[e] <= MaxRetries
  BY <1>3, BrokerAssumption DEF BrokerInv, RejectedIsDead
<1>5. /\ attempts' \in [Event -> 0 .. MaxRetries + 1]
      /\ \A f \in Event : f # e => attempts'[f] = attempts[f]
  BY <1>1, <1>3, <1>4, BrokerAssumption
<1>6. \A f \in Event : attempts'[f] > MaxRetries =>
             (f # e /\ attempts'[f] = attempts[f]) \/ (f = e /\ m = "dlq")
  BY <1>2, <1>5
<1>7. cause' \in [Event -> SUBSET Cause]
  <2>1. "undispatched" \in Cause
    BY DEF Cause
  <2>2. QED
    BY <1>2, <2>1, BlameFits DEF BrokerInv, BrokerTypeOK
<1>8. mishaps' \in 0 .. MaxMishaps
  BY <1>1, MishapsTyped DEF BrokerInv, Counted
<1>9. sent' = FALSE
  BY <1>1 DEF BrokerInv, BrokerTypeOK
<1>10. QED
  BY <1>1, <1>2, <1>3, <1>5, <1>6, <1>7, <1>8, <1>9, HandEmpties

LEMMA AckStep ==
  ASSUME BrokerInv, NEW e \in Event, Ack(e)
  PROVE  BrokerInv' /\ PromisedStep
<1>1. /\ hand = e /\ sent /\ PutMessage(e, "acked") /\ hand' = NoEvent /\ sent' = FALSE
      /\ attempts' = [attempts EXCEPT ![e] = 0]
      /\ UNCHANGED <<declared, task, cause, mishaps>>
  BY DEF Ack
<1>2. message[e] = "held" /\ Handled(e)
  BY <1>1, NoEventAssumption DEF BrokerInv, BrokerTypeOK, SentIsHandled
<1>3. /\ attempts' \in [Event -> 0 .. MaxRetries + 1]
      /\ \A f \in Event : attempts'[f] = IF f = e THEN 0 ELSE attempts[f]
  BY <1>1, BrokerAssumption DEF BrokerInv, BrokerTypeOK
<1>4. \A f \in Event : attempts'[f] > MaxRetries => f # e /\ attempts'[f] = attempts[f]
  BY <1>3, BrokerAssumption
<1>5. cause' \in [Event -> SUBSET Cause] /\ mishaps' \in 0 .. MaxMishaps
  BY <1>1 DEF BrokerInv, BrokerTypeOK
<1>6. QED
  BY <1>1, <1>2, <1>3, <1>4, <1>5, HandEmpties

LEMMA DispatcherDiesStep ==
  ASSUME BrokerInv, DispatcherDies
  PROVE  BrokerInv' /\ PromisedStep
<1>1. PICK e \in Event : e = hand /\ message[e] = "held"
  BY DEF DispatcherDies, BrokerInv, BrokerTypeOK
<1>2. /\ PutMessage(e, "queued") /\ hand' = NoEvent /\ sent' = FALSE /\ Mishap
      /\ attempts' = [f \in Event |-> 0] /\ UNCHANGED <<declared, task, cause>>
  BY <1>1 DEF DispatcherDies
<1>3. attempts' \in [Event -> 0 .. MaxRetries + 1] /\ \A f \in Event : ~(attempts'[f] > MaxRetries)
  BY <1>2, BrokerAssumption
<1>4. cause' \in [Event -> SUBSET Cause]
  BY <1>2 DEF BrokerInv, BrokerTypeOK
<1>5. mishaps' \in 0 .. MaxMishaps
  BY <1>2, MishapsTyped DEF BrokerInv, Counted
<1>6. QED
  BY <1>1, <1>2, <1>3, <1>4, <1>5, HandEmpties

LEMMA DispatchStep ==
  ASSUME BrokerInv, NEW e \in Event, Dispatch(e)
  PROVE  BrokerInv' /\ PromisedStep
<1>1. PICK c \in Copy : task[e][c] = NoTask /\ task' = [task EXCEPT ![e][c].state = "waiting"]
  BY DEF Dispatch
<1>2. /\ hand = e /\ sent' = TRUE
      /\ UNCHANGED <<declared, message, attempts, hand, cause, mishaps>>
  BY DEF Dispatch
<1>3. PICK t : t = [task[e][c] EXCEPT !.state = "waiting"]
  OBVIOUS
<1>4. t \in TaskRow /\ t # NoTask /\ task' = [task EXCEPT ![e][c] = t]
  <2>1. t \in TaskRow /\ t.state = "waiting"
    BY <1>1, <1>3, NoTaskIs DEF TaskRow, TaskState
  <2>2. task' = [task EXCEPT ![e][c] = t]
    BY <1>1, <1>3 DEF BrokerInv, BrokerTypeOK
  <2>3. QED
    BY <2>1, <2>2, NoTaskIs
<1>5. /\ task' \in [Event -> [Copy -> TaskRow]]
      /\ \A f \in Event, b \in Copy : task'[f][b] = IF f = e /\ b = c THEN t ELSE task[f][b]
  <2>1. task' \in [Event -> [Copy -> TaskRow]]
    BY <1>4, TasksTyped DEF BrokerInv
  <2>2. QED
    BY <1>4, <2>1 DEF BrokerInv, BrokerTypeOK
<1>6. Handled(e)'
  BY <1>4, <1>5 DEF Handled
<1>7. message[e] = "held" /\ hand # NoEvent
  BY <1>2, NoEventAssumption DEF BrokerInv, BrokerTypeOK
<1>8. BrokerTypeOK'
  BY <1>2, <1>5, <1>7 DEF BrokerInv, BrokerTypeOK, TaskRow
<1>9. RejectedIsDead' /\ SentIsHandled'
  BY <1>2, <1>6 DEF BrokerInv, RejectedIsDead, SentIsHandled
<1>10. PlaceOf[e] = "queued" /\ PlaceOf' = PlaceOf
  BY <1>2, <1>7, PlaceIs DEF PlaceOf
<1>11. VerdictOf' = [VerdictOf EXCEPT ![e] = "handled"]
  <2>1. \A f \in Event : f # e => (Handled(f)' <=> Handled(f))
    BY <1>5 DEF Handled
  <2>2. QED
    BY <1>6, <2>1 DEF VerdictOf, Handled
<1>12. DeliveryOf!Decide(e)
  BY <1>10, <1>11 DEF DeliveryOf!Decide, PlaceOf, VerdictOf
<1>13. PromisedStep
  BY <1>12 DEF PromisedStep, DeliveryOf!Next
<1>14. QED
  BY <1>8, <1>9, <1>13 DEF BrokerInv

\* What its tasks do to an event does not show in the promise.
LEMMA TaskIsQuiet ==
  ASSUME BrokerInv, TaskStep, mishaps' \in 0 .. MaxMishaps
  PROVE  BrokerInv' /\ PromisedStep
<1>1. BrokerInv' /\ \A f \in Event : Handled(f)' <=> Handled(f)
  BY TaskKeeps
<1>2. PlaceOf' = PlaceOf
  BY DEF TaskStep, PlaceOf
<1>3. QED
  BY <1>1, <1>2, SameVerdicts, SamePlaces

LEMMA RunTaskStep ==
  ASSUME BrokerInv, NEW e \in Event, NEW c \in Copy, RunTask(e, c)
  PROVE  TaskStep
<1>1. OneMoves
  BY SetTaskMoves DEF BrokerInv, RunTask, TaskState
<1>2. QED
  BY <1>1 DEF TaskStep, RunTask, BrokerInv, BrokerTypeOK

LEMMA BrokerStep ==
  ASSUME BrokerInv, BrokerNext
  PROVE  BrokerInv' /\ PromisedStep
<1>1. CASE Declare
  <2>1. declared' = TRUE /\ UNCHANGED <<message, attempts, hand, sent, task, cause, mishaps>>
    BY <1>1 DEF Declare, dispatcher
  <2>2. BrokerTypeOK' /\ RejectedIsDead'
    BY <2>1 DEF BrokerInv, BrokerTypeOK, RejectedIsDead
  <2>3. SentIsHandled'
    BY <2>1, QuietTasks DEF BrokerInv, SentIsHandled
  <2>4. UNCHANGED <<PlaceOf, VerdictOf>>
    BY <2>1 DEF PlaceOf, VerdictOf
  <2>5. QED
    BY <2>2, <2>3, <2>4, SamePlaces DEF BrokerInv
<1>2. CASE DispatcherStep
  BY <1>2, FetchStep, DispatchStep, AckStep DEF DispatcherStep
<1>3. CASE DispatcherDies
  BY <1>3, DispatcherDiesStep
<1>4. ASSUME NEW e \in Event, FetchUndecodable(e) \/ Reject(e)
      PROVE  BrokerInv' /\ PromisedStep
  BY <1>4, FetchUndecodableStep, RejectStep
<1>5. ASSUME NEW e \in Event, NEW c \in Copy, RunTask(e, c)
      PROVE  BrokerInv' /\ PromisedStep
  <2>1. mishaps' \in 0 .. MaxMishaps
    BY <1>5 DEF RunTask, BrokerInv, BrokerTypeOK
  <2>2. QED
    BY <1>5, <2>1, RunTaskStep, TaskIsQuiet
<1>6. QED
  BY <1>1, <1>2, <1>3, <1>4, <1>5 DEF BrokerNext

------------------------------------------------------------------------------
\* The steps of DatasetBuild.

Spares(d) == \A f \in Event \ {d} : task'[f] = task[f]

Attends(d) == transaction[d] # NoTransaction /\ transaction[d].client # Gone =>
                  Running(d, transaction[d].client)

RequestInv == BuildInv /\ BrokerInv /\ Attended

LEMMA OneDataset ==
  ASSUME BuildInv, Attended, NEW d \in Dataset, Spares(d), Attends(d)',
         \A f \in Dataset \ {d} : transaction'[f] = transaction[f]
  PROVE  Attended'
<1> SUFFICES ASSUME NEW f \in Dataset PROVE Attends(f)'
  BY DEF Attended, Attends
<1>1. CASE f = d
  BY <1>1
<1>2. CASE f # d
  <2>1. transaction'[f] = transaction[f] /\ task'[f] = task[f]
    BY <1>2, DatasetsAreEvents DEF Spares
  <2>2. QED
    BY <2>1 DEF Attended, Attends, Running
<1>3. QED
  BY <1>1, <1>2

\* Others' tasks, or new ones, are no concern of a build.
LEMMA SameTransactions ==
  ASSUME Attended, BuildInv, transaction' = transaction,
         \A d \in Dataset, c \in Copy : Running(d, c) => Running(d, c)'
  PROVE  Attended'
<1>1. \A d \in Dataset : transaction[d] \in {NoTransaction} \cup BuildOf
  BY DEF BuildInv, BuildTypes
<1>2. QED
  BY <1>1 DEF Attended, BuildOf

LEMMA EndsSpares ==
  ASSUME BrokerTypeOK, NEW d \in Event, NEW c \in Copy,
         TaskEnds(d, c) \/ TaskRefused(d, c) \/ TaskRetries(d, c)
  PROVE  Spares(d)
BY DEF TaskEnds, TaskRefused, TaskRetries, SetTask, Spares, BrokerTypeOK

LEMMA AnswerSpares ==
  ASSUME BrokerTypeOK, NEW d \in Dataset, NEW client \in Copy \cup {Gone},
         NEW answer \in {"built", "refused", "error"}, Answer(d, client, answer)
  PROVE  Spares(d)
<1>1. CASE client = Gone
  BY <1>1 DEF Answer, Spares
<1>2. CASE client # Gone
  <2>1. client \in Copy /\ d \in Event
    BY <1>2, DatasetsAreEvents
  <2>2. CASE answer = "built"
    BY <1>2, <2>1, <2>2, EndsSpares DEF Answer
  <2>3. CASE answer = "refused"
    BY <1>2, <2>1, <2>3, EndsSpares DEF Answer
  <2>4. CASE answer = "error"
    BY <1>2, <2>1, <2>4, EndsSpares DEF Answer
  <2>5. QED
    BY <2>2, <2>3, <2>4
<1>3. QED
  BY <1>1, <1>2

LEMMA ClientTyped ==
  ASSUME BuildInv, NEW d \in Dataset, transaction[d] # NoTransaction
  PROVE  transaction[d].client \in Copy \cup {Gone}
BY DEF BuildInv, BuildTypes, BuildOf

LEMMA NotBuilding == \A d \in Dataset : transaction[d].stage \in Stage => transaction[d] # NoTransaction
BY DEF NoTransaction, Stage

\* The hop is left alone, but for the mishaps.
LEMMA HopStays ==
  ASSUME BrokerInv, UNCHANGED <<declared, message, dispatcher, task, cause>>
  PROVE  TaskStep
BY DEF TaskStep, OneMoves, BrokerInv, BrokerTypeOK

\* A build's transaction ends, and its client is answered.
LEMMA EndOfBuild ==
  ASSUME RequestInv, NEW d \in Dataset, transaction[d] # NoTransaction,
         NEW answer \in {"built", "refused", "error"}, Answer(d, transaction[d].client, answer),
         transaction' = [transaction EXCEPT ![d] = NoTransaction],
         UNCHANGED <<declared, message, dispatcher>>
  PROVE  TaskStep /\ Attended'
<1> USE DEF RequestInv
<1>1. transaction[d].client \in Copy \cup {Gone}
  BY ClientTyped
<1>2. transaction[d].client # Gone => Running(d, transaction[d].client)
  BY DEF Attended
<1>3. OneMoves /\ cause' \in [Event -> SUBSET Cause]
  BY <1>1, <1>2, AnswerMoves DEF BrokerInv
<1>4. Spares(d)
  BY <1>1, AnswerSpares DEF BrokerInv
<1>5. /\ transaction'[d] = NoTransaction
      /\ \A f \in Dataset \ {d} : transaction'[f] = transaction[f]
  BY DEF BuildInv, BuildTypes
<1>6. Attended'
  BY <1>4, <1>5, OneDataset DEF Attends
<1>7. QED
  BY <1>3, <1>6 DEF TaskStep

LEMMA NotFoundAttended ==
  ASSUME RequestInv, NEW d \in Dataset, NEW client \in Copy \cup {Gone}, NotFound(d, client)
  PROVE  TaskStep /\ Attended'
<1> USE DEF RequestInv
<1>1. /\ Unserved(d, client) /\ Answer(d, client, "refused") /\ transaction' = transaction
      /\ UNCHANGED <<declared, message, dispatcher>>
  BY DEF NotFound
<1>2. client # Gone => Running(d, client)
  BY <1>1 DEF Unserved, Waits
<1>3. OneMoves /\ cause' \in [Event -> SUBSET Cause] /\ Spares(d)
  BY <1>1, <1>2, AnswerMoves, AnswerSpares DEF BrokerInv
<1>4. transaction'[d] = NoTransaction
  BY <1>1 DEF Unserved
<1>5. Attended'
  BY <1>1, <1>3, <1>4, OneDataset DEF Attends
<1>6. QED
  BY <1>1, <1>3, <1>5 DEF TaskStep

LEMMA BeginAttended ==
  ASSUME RequestInv, NEW d \in Dataset, NEW client \in Copy \cup {Gone}, Begin(d, client)
  PROVE  TaskStep /\ Attended'
<1> USE DEF RequestInv
<1>1. /\ Unserved(d, client) /\ UNCHANGED <<declared, message, dispatcher, task, cause>>
      /\ transaction' = [transaction EXCEPT ![d] = [client |-> client, stage |-> "running"]]
  BY DEF Begin, brokerVars, dispatcher
<1>2. client # Gone => Running(d, client)'
  BY <1>1 DEF Unserved, Waits, Running
<1>3. /\ transaction'[d] = [client |-> client, stage |-> "running"]
      /\ \A f \in Dataset \ {d} : transaction'[f] = transaction[f]
  BY <1>1 DEF BuildInv, BuildTypes
<1>4. transaction'[d].client = client
  BY <1>3
<1>5. Spares(d) /\ Attends(d)'
  BY <1>1, <1>2, <1>4 DEF Spares, Attends
<1>6. QED
  BY <1>1, <1>3, <1>5, OneDataset, HopStays

LEMMA WriteAttended ==
  ASSUME RequestInv, NEW d \in Dataset, WriteManifest(d)
  PROVE  TaskStep /\ Attended'
<1> USE DEF RequestInv
<1>1. /\ transaction[d].stage = "running" /\ UNCHANGED <<declared, message, dispatcher, task, cause>>
      /\ \E stage \in Stage : transaction' = [transaction EXCEPT ![d].stage = stage]
  BY DEF WriteManifest, Stage
<1>2. transaction[d] # NoTransaction /\ transaction[d] \in BuildOf
  BY <1>1, NotBuilding DEF Stage, BuildInv, BuildTypes
<1>3. /\ transaction'[d].client = transaction[d].client
      /\ \A f \in Dataset \ {d} : transaction'[f] = transaction[f]
  BY <1>1, <1>2 DEF BuildInv, BuildTypes, BuildOf
<1>4. Spares(d) /\ Attends(d)'
  BY <1>1, <1>2, <1>3 DEF Spares, Attends, Attended, Running
<1>5. QED
  BY <1>1, <1>3, <1>4, OneDataset, HopStays

\* The task whose request goes on without it is no longer the build's client.
LEMMA LeaveAttended ==
  ASSUME RequestInv, NEW d \in Dataset, NEW c \in Copy, LeaveRequest(d, c), Spares(d),
         \A b \in Copy \ {c} : task'[d][b] = task[d][b]
  PROVE  Attended'
<1> USE DEF RequestInv
<1>1. CASE transaction[d].client = c
  <2>1. transaction[d] \in BuildOf
    BY <1>1, BrokerAssumption DEF NoTransaction, BuildInv, BuildTypes
  <2>2. /\ transaction'[d].client = Gone
        /\ \A f \in Dataset \ {d} : transaction'[f] = transaction[f]
    BY <1>1, <2>1 DEF LeaveRequest, BuildInv, BuildTypes, BuildOf
  <2>3. QED
    BY <2>2, OneDataset DEF Attends
<1>2. CASE transaction[d].client # c
  <2>1. transaction' = transaction
    BY <1>2 DEF LeaveRequest
  <2>2. Attends(d)'
    BY <1>2, <2>1, ClientTyped DEF Attends, Attended, Running
  <2>3. QED
    BY <2>1, <2>2, OneDataset
<1>3. QED
  BY <1>1, <1>2

LEMMA TimeOutAttended ==
  ASSUME RequestInv, NEW d \in Dataset, NEW c \in Copy, TimeOut(d, c) \/ TaskLost(d, c)
  PROVE  TaskStep /\ Attended'
<1> USE DEF RequestInv
<1>1. d \in Event
  BY DatasetsAreEvents
<1>2. CASE TimeOut(d, c)
  <2>1. OneMoves /\ cause' \in [Event -> SUBSET Cause]
    BY <1>1, <1>2, EndsMoves DEF TimeOut, BrokerInv
  <2>2. Spares(d) /\ \A b \in Copy \ {c} : task'[d][b] = task[d][b]
    BY <1>1, <1>2 DEF TimeOut, TaskRetries, SetTask, Spares, BrokerInv, BrokerTypeOK
  <2>3. LeaveRequest(d, c) /\ UNCHANGED <<declared, message, dispatcher>>
    BY <1>2 DEF TimeOut
  <2>4. QED
    BY <2>1, <2>2, <2>3, LeaveAttended DEF TaskStep
<1>3. CASE TaskLost(d, c)
  <2>1. LeaveRequest(d, c) /\ (WorkerDies(d, c) \/ ChildDies(d, c))
    BY <1>3 DEF TaskLost
  <2>2. Spares(d) /\ \A b \in Copy \ {c} : task'[d][b] = task[d][b]
    BY <1>1, <2>1 DEF WorkerDies, ChildDies, SetTask, Spares, BrokerInv, BrokerTypeOK
  <2>3. QED
    BY <1>1, <2>1, <2>2, LossMoves, LeaveAttended DEF BrokerInv
<1>4. QED
  BY <1>2, <1>3

LEMMA NoticeAttended ==
  ASSUME RequestInv, NEW n \in Notices, NEW c \in Copy, LogNotice(n, c) \/ NoticeLost(n, c)
  PROVE  TaskStep /\ Attended'
<1> USE DEF RequestInv
<1>1. n \in Event /\ n \notin Dataset
  BY DatasetsAreEvents, DatasetAssumption
<1>2. Spares(n) /\ transaction' = transaction
  BY <1>1, EndsSpares DEF LogNotice, NoticeLost, WorkerDies, ChildDies, SetTask, Spares,
                          BrokerInv, BrokerTypeOK, datasetVars
<1>3. Attended'
  <2>1. \A d \in Dataset : task'[d] = task[d]
    BY <1>1, <1>2, DatasetsAreEvents DEF Spares
  <2>2. QED
    BY <1>2, <2>1, SameTransactions DEF Running
<1>4. TaskStep
  BY <1>1, EndsMoves, LossMoves DEF LogNotice, NoticeLost, BrokerInv, TaskStep
<1>5. QED
  BY <1>3, <1>4

\* A step of the hop alone leaves whatever runs running.
LEMMA BrokerAttended ==
  ASSUME RequestInv, BrokerNext, UNCHANGED datasetVars
  PROVE  Attended'
<1> USE DEF RequestInv
<1>1. \A d \in Dataset, c \in Copy : Running(d, c) => Running(d, c)'
  <2>1. CASE task' = task
    BY <2>1 DEF Running
  <2>2. ASSUME NEW e \in Event, Dispatch(e)
        PROVE  \A d \in Dataset, c \in Copy : Running(d, c) => Running(d, c)'
    <3>1. PICK b \in Copy : task[e][b] = NoTask /\ task' = [task EXCEPT ![e][b].state = "waiting"]
      BY <2>2 DEF Dispatch
    <3>2. ~Running(e, b)
      BY <3>1, NoTaskIs DEF Running
    <3>3. \A f \in Event, c \in Copy : (f # e \/ c # b) => task'[f][c] = task[f][c]
      BY <3>1 DEF BrokerInv, BrokerTypeOK
    <3>4. QED
      BY <3>2, <3>3, DatasetsAreEvents DEF Running
  <2>3. ASSUME NEW e \in Event, NEW b \in Copy, RunTask(e, b)
        PROVE  \A d \in Dataset, c \in Copy : Running(d, c) => Running(d, c)'
    BY <2>3, DatasetsAreEvents DEF RunTask, SetTask, Running, BrokerInv, BrokerTypeOK
  <2>4. QED
    BY <2>1, <2>2, <2>3 DEF BrokerNext, DispatcherStep, Declare, DispatcherDies, Fetch, Ack,
                            FetchUndecodable, Reject
<1>2. transaction' = transaction
  BY DEF datasetVars
<1>3. QED
  BY <1>1, <1>2, SameTransactions

LEMMA QuietAttended ==
  ASSUME RequestInv, UNCHANGED <<task, transaction>>
  PROVE  Attended'
BY SameTransactions DEF RequestInv, Running

LEMMA StepRequest ==
  ASSUME RequestInv, [BuildNext]_buildVars
  PROVE  RequestInv' /\ PromisedStep
<1>1. BuildInv'
  BY StepBuild DEF RequestInv
<1>2. mishaps' \in 0 .. MaxMishaps
  BY <1>1 DEF BuildInv, Mishaps
<1>3. ASSUME TaskStep, Attended' PROVE RequestInv' /\ PromisedStep
  BY <1>1, <1>2, <1>3, TaskIsQuiet DEF RequestInv
<1>4. CASE BrokerNext /\ UNCHANGED datasetVars
  BY <1>1, <1>4, BrokerStep, BrokerAttended DEF RequestInv
<1>5. ASSUME NEW e \in Event, Publish(e), UNCHANGED transaction
      PROVE  RequestInv' /\ PromisedStep
  BY <1>1, <1>5, PublishStep, QuietAttended DEF Publish, RequestInv
<1>6. ASSUME UNCHANGED <<declared, message, dispatcher, task, cause, transaction>>
      PROVE  RequestInv' /\ PromisedStep
  BY <1>3, <1>6, HopStays, QuietAttended DEF RequestInv
<1>7. ASSUME NEW d \in Dataset, \/ Accept(d) \/ CommitRequest(d) \/ RequestFails(d) \/ Withdraw(d)
      PROVE  RequestInv' /\ PromisedStep
  BY <1>6, <1>7 DEF Accept, CommitRequest, RequestFails, Withdraw, brokerVars, dispatcher
<1>8. ASSUME NEW d \in Dataset, PublishRequest(d)
      PROVE  RequestInv' /\ PromisedStep
  BY <1>5, <1>8, DatasetsAreEvents DEF PublishRequest
<1>9. ASSUME NEW n \in Notices, Notify(n)
      PROVE  RequestInv' /\ PromisedStep
  BY <1>5, <1>9, DatasetsAreEvents DEF Notify, datasetVars
<1>10. ASSUME NEW d \in Dataset, CommitBuild(d)
       PROVE  RequestInv' /\ PromisedStep
  <2>1. transaction[d] # NoTransaction
    BY <1>10, NotBuilding DEF CommitBuild, Stage
  <2>2. PICK answer \in {"built", "refused", "error"} : Answer(d, transaction[d].client, answer)
    BY <1>10 DEF CommitBuild
  <2>3. TaskStep /\ Attended'
    BY <1>10, <2>1, <2>2, EndOfBuild DEF CommitBuild
  <2>4. QED
    BY <1>3, <2>3
<1>11. ASSUME NEW d \in Dataset, AbortBuild(d)
       PROVE  RequestInv' /\ PromisedStep
  <2>1. TaskStep /\ Attended'
    BY <1>11, EndOfBuild DEF AbortBuild
  <2>2. QED
    BY <1>3, <2>1
<1>12. ASSUME NEW d \in Dataset, NEW client \in Copy \cup {Gone}, NotFound(d, client) \/ Begin(d, client)
       PROVE  RequestInv' /\ PromisedStep
  BY <1>3, <1>12, NotFoundAttended, BeginAttended
<1>13. ASSUME NEW d \in Dataset, WriteManifest(d)
       PROVE  RequestInv' /\ PromisedStep
  BY <1>3, <1>13, WriteAttended
<1>14. ASSUME NEW d \in Dataset, NEW c \in Copy, TimeOut(d, c) \/ TaskLost(d, c)
       PROVE  RequestInv' /\ PromisedStep
  BY <1>3, <1>14, TimeOutAttended
<1>15. ASSUME NEW n \in Notices, NEW c \in Copy, LogNotice(n, c) \/ NoticeLost(n, c)
       PROVE  RequestInv' /\ PromisedStep
  BY <1>3, <1>15, NoticeAttended
<1>16. CASE UNCHANGED buildVars
  BY <1>6, <1>16 DEF buildVars, brokerVars, datasetVars, dispatcher
<1>17. QED
  BY <1>4, <1>7, <1>8, <1>9, <1>10, <1>11, <1>12, <1>13, <1>14, <1>15, <1>16
  DEF BuildNext, PlatformStep

\* The invariant of builds and the hop together.
LEMMA RequestAlways == BuildSpec => []RequestInv
<1>1. BuildInit => RequestInv
  BY InitBuild, InitBroker DEF RequestInv
<1>2. RequestInv /\ [BuildNext]_buildVars => RequestInv'
  BY StepRequest
<1>3. QED
  BY <1>1, <1>2, PTL DEF BuildSpec

\* Type correctness of the two hops (RabbitPublisher, RabbitConsumer, RabbitWorker, Celery):
\* in particular the worker acknowledges and rejects only what it holds (message[hand] =
\* "held"), and no task is sent again more than max_retries times.
THEOREM BrokerTypes == BuildSpec => []BrokerTypeOK
<1>1. RequestInv => BrokerTypeOK
  BY DEF RequestInv, BrokerInv
<1>2. QED
  BY <1>1, RequestAlways, PTL

\* The broker's hop (RabbitWorker between the queue and Celery) keeps the promise that the
\* queue directory keeps, but for its liveness: no message leaves the queue that was not
\* dispatched or dead-lettered, and none comes back, whatever dies between a dispatch and
\* its acknowledgement.
THEOREM BrokerKeepsPromise ==
  BuildSpec => DeliveryOf!Init /\ [][DeliveryOf!Next]_(DeliveryOf!vars)
<1>1. BuildInit => DeliveryOf!Init
  <2> SUFFICES ASSUME BuildInit PROVE DeliveryOf!Init
    OBVIOUS
  <2>1. PlaceOf = [e \in Event |-> "unsent"]
    BY DEF PlaceOf, BuildInit, BrokerInit
  <2>2. VerdictOf = [e \in Event |-> "none"]
    BY DEF VerdictOf, BuildInit, BrokerInit
  <2>3. QED
    BY <2>1, <2>2 DEF DeliveryOf!Init, PlaceOf, VerdictOf
<1>2. RequestInv /\ [BuildNext]_buildVars => [DeliveryOf!Next]_(DeliveryOf!vars)
  BY StepRequest DEF PromisedStep
<1>3. QED
  BY <1>1, <1>2, RequestAlways, PTL DEF BuildSpec

------------------------------------------------------------------------------
(***************************************************************************)
(* TaskPush: who is connected, and what is assigned.                       *)
(***************************************************************************)
\* The inductive invariant.

\* A connection that was never opened has no handler.
Opened == \A c \in Connection : line[c] = "none" <=> server[c] = "none"

\* The manager's entry is of the right Agent, and served.
Entered == \A a \in Agent : entry[a] # None => owner[entry[a]] = a /\ server[entry[a]] = "serving"

\* A handler that serves without an entry has met another one's.
Displaced ==
    \A c \in Connection : server[c] = "serving" /\ entry[owner[c]] # c =>
        \E d \in Connection \ {c} : owner[d] = owner[c] /\ server[d] \in {"serving", "ended"}

\* An Agent's connection is its own.
Connected ==
    \A a \in Agent :
        /\ conn[a] # None => owner[conn[a]] = a /\ line[conn[a]] # "none"
        /\ agent[a] \in {"joining", "session"} => conn[a] # None
        /\ agent[a] = "session" => server[conn[a]] # "accepted"

\* A task that is not attached, since the Agent had it, is there or was taken by another call.
Kept ==
    \A r \in Call : At(r) = "written" /\ ~Attaches(r) =>
        \/ call[r].task \in node[call[r].agent]
        \/ \E q \in Call : /\ Answered(q) /\ call[q].agent = call[r].agent
                           /\ call[r].task \notin call[q].had

LinkInv == Opened /\ Entered /\ Displaced /\ Connected
CallInv == Kept /\ AssignmentsStay
PushInv == PushTypeOK /\ LinkInv /\ CallInv

CallTypes ==
    /\ row \in [Task -> SUBSET Agent] /\ node \in [Agent -> SUBSET Task]
    /\ call \in [Call -> Calls]
LinkTypes ==
    /\ known \subseteq Agent
    /\ entry \in [Agent -> Connection \cup {None}]
    /\ server \in [Connection -> ServerState]
    /\ line \in [Connection -> {"none", "up", "broken"}]
    /\ owner \in [Connection -> Agent]
    /\ down \in [Connection -> SUBSET Call]
    /\ agent \in [Agent -> AgentState]
    /\ conn \in [Agent -> Connection \cup {None}]
    /\ dirs \in [Agent -> SUBSET Task]

LEMMA TypesApart == PushTypeOK <=> CallTypes /\ LinkTypes
<1>1. QED
  BY DEF PushTypeOK, CallTypes, LinkTypes

LEMMA TypesTogether == CallTypes' /\ LinkTypes' => PushTypeOK'
<1>1. QED
  BY DEF PushTypeOK, CallTypes, LinkTypes

LEMMA Stages == {"read", "written", "stored", "answered", "refused"} \subseteq CallStage
<1>1. QED
  BY DEF CallStage

LEMMA NoneIsNoConnection == None \notin Connection
<1>1. QED
  BY DEF None, Connection

LEMMA InitPush == PushInit => PushInv
<1> SUFFICES ASSUME PushInit PROVE PushInv
  OBVIOUS
<1> USE DEF PushInit
<1>1. call \in [Call -> Calls] /\ \A r \in Call : At(r) = "none"
  BY DEF At
<1>2. owner \in [Connection -> Agent]
  BY PushAssumption
<1>3. PushTypeOK
  BY <1>1, <1>2 DEF PushTypeOK, ServerState, AgentState
<1>4. \A a \in Agent : entry[a] = None /\ conn[a] = None /\ agent[a] = "off"
  OBVIOUS
<1>5. \A c \in Connection : line[c] = "none" /\ server[c] = "none"
  OBVIOUS
<1>6. LinkInv
  BY <1>4, <1>5 DEF LinkInv, Opened, Entered, Displaced, Connected
<1>7. CallInv
  BY <1>1 DEF CallInv, Kept, AssignmentsStay, Answered
<1>8. QED
  BY <1>3, <1>6, <1>7 DEF PushInv

------------------------------------------------------------------------------
\* The requests.

LEMMA QuietLinks ==
  ASSUME LinkInv, UNCHANGED <<entry, server, line, owner, agent, conn>>
  PROVE  LinkInv'
<1>1. QED
  BY DEF LinkInv, Opened, Entered, Displaced, Connected

LEMMA QuietCalls ==
  ASSUME CallInv, UNCHANGED <<row, node, call>>
  PROVE  CallInv'
<1>1. QED
  BY DEF CallInv, Kept, AssignmentsStay, At, Attaches, Answered

\* What a step does to a call, field by field.
LEMMA OneCall ==
  ASSUME CallTypes, NEW r \in Call, NEW stage \in CallStage,
         NEW seen \in SUBSET Agent, NEW had \in SUBSET Task,
         call' = [call EXCEPT ![r] = [call[r] EXCEPT !.stage = stage, !.seen = seen, !.had = had]]
  PROVE  /\ call' \in [Call -> Calls]
         /\ \A q \in Call : q # r => call'[q] = call[q]
         /\ call'[r].stage = stage /\ call'[r].seen = seen /\ call'[r].had = had
         /\ call'[r].task = call[r].task /\ call'[r].agent = call[r].agent
<1>1. call[r] \in Calls
  BY DEF CallTypes
<1>2. [call[r] EXCEPT !.stage = stage, !.seen = seen, !.had = had] \in Calls
  BY <1>1 DEF Calls
<1>3. call'[r] = [call[r] EXCEPT !.stage = stage, !.seen = seen, !.had = had]
  BY DEF CallTypes
<1>4. QED
  BY <1>1, <1>2, <1>3 DEF CallTypes, Calls

\* A call that moves to a stage in which it has answered no one, or goes on from there.
LEMMA MovedCall ==
  ASSUME CallTypes, CallInv, NEW r \in Call, NEW stage \in CallStage, MoveTo(r, stage),
         UNCHANGED <<row, node>>,
         stage \in {"refused", "answered"}, stage = "answered" <=> Answered(r)
  PROVE  CallTypes' /\ CallInv'
<1>1. call[r] \in Calls
  BY DEF CallTypes
<1>2. call' = [call EXCEPT ![r] = [call[r] EXCEPT !.stage = stage, !.seen = call[r].seen,
                                                  !.had = call[r].had]]
  BY <1>1 DEF MoveTo, CallTypes, Calls
<1>3. /\ call' \in [Call -> Calls]
      /\ \A q \in Call : q # r => call'[q] = call[q]
      /\ call'[r].stage = stage /\ call'[r].seen = call[r].seen /\ call'[r].had = call[r].had
      /\ call'[r].task = call[r].task /\ call'[r].agent = call[r].agent
  BY <1>1, <1>2, OneCall DEF Calls
<1>4. \A q \in Call : Answered(q)' <=> Answered(q)
  BY <1>3 DEF Answered, At
<1>5. \A q \in Call : /\ call'[q].seen = call[q].seen /\ call'[q].had = call[q].had
                      /\ call'[q].task = call[q].task /\ call'[q].agent = call[q].agent
  BY <1>3
<1>6. \A q \in Call : At(q)' = "written" => At(q) = "written"
  BY <1>3 DEF At
<1>7. Kept'
  BY <1>4, <1>5, <1>6 DEF CallInv, Kept, Attaches
<1>8. AssignmentsStay'
  BY <1>4, <1>5 DEF CallInv, AssignmentsStay
<1>9. QED
  BY <1>3, <1>7, <1>8 DEF CallTypes, CallInv

LEMMA FailsStep ==
  ASSUME CallTypes, CallInv, NEW r \in Call, CallFails(r)
  PROVE  CallTypes' /\ CallInv'
<1>1. MoveTo(r, "refused") /\ UNCHANGED <<row, node>>
  BY DEF CallFails, database
<1>2. ~Answered(r) /\ "refused" \in CallStage
  BY Stages DEF CallFails, Answered
<1>3. QED
  BY <1>1, <1>2, MovedCall

LEMMA PushStep ==
  ASSUME CallTypes, CallInv, NEW r \in Call, PushTask(r)
  PROVE  CallTypes' /\ CallInv'
<1>1. MoveTo(r, "answered") /\ UNCHANGED <<row, node>>
  BY DEF PushTask, database
<1>2. Answered(r) /\ "answered" \in CallStage
  BY Stages DEF PushTask, Answered
<1>3. QED
  BY <1>1, <1>2, MovedCall

LEMMA ReadTaskStep ==
  ASSUME CallTypes, CallInv, NEW r \in Call, ReadTask(r)
  PROVE  CallTypes' /\ CallInv'
<1>1. call[r] \in Calls /\ call[r].had \in SUBSET Task /\ row[call[r].task] \in SUBSET Agent
  BY DEF CallTypes, Calls
<1>2. call' = [call EXCEPT ![r] = [call[r] EXCEPT !.stage = "read", !.seen = row[call[r].task],
                                                  !.had = call[r].had]]
  BY <1>1 DEF ReadTask, CallTypes, Calls
<1>3. /\ call' \in [Call -> Calls]
      /\ \A q \in Call : q # r => call'[q] = call[q]
      /\ call'[r].stage = "read" /\ At(r) = "none"
      /\ UNCHANGED <<row, node>>
  <2>1. At(r) = "none" /\ UNCHANGED <<row, node>>
    BY DEF ReadTask, database
  <2>2. QED
    BY <1>1, <1>2, <2>1, Stages, OneCall
<1>4. \A q \in Call : Answered(q)' <=> Answered(q)
  BY <1>3 DEF Answered, At
<1>5. \A q \in Call : Answered(q) \/ At(q)' = "written" => q # r
  BY <1>3 DEF Answered, At
<1>6. Kept'
  BY <1>3, <1>4, <1>5 DEF CallInv, Kept, Attaches, At
<1>7. AssignmentsStay'
  BY <1>3, <1>4, <1>5 DEF CallInv, AssignmentsStay
<1>8. QED
  BY <1>3, <1>6, <1>7 DEF CallTypes, CallInv

LEMMA ReadAgentStep ==
  ASSUME CallTypes, CallInv, NEW r \in Call, ReadAgent(r)
  PROVE  CallTypes' /\ CallInv'
<1>1. call[r] \in Calls /\ call[r].seen \in SUBSET Agent /\ node[call[r].agent] \in SUBSET Task
  BY DEF CallTypes, Calls
<1>2. At(r) = "read" /\ UNCHANGED <<row, node>>
  BY DEF ReadAgent, database
<1>3. CASE MoveTo(r, "refused")
  <2>1. ~Answered(r) /\ "refused" \in CallStage
    BY <1>2, Stages DEF Answered
  <2>2. QED
    BY <1>2, <1>3, <2>1, MovedCall
<1>4. CASE call' = [call EXCEPT ![r].stage = "written", ![r].had = node[call[r].agent]]
  <2>1. PICK had \in SUBSET Task : had = node[call[r].agent]
    BY <1>1
  <2>2. /\ call' \in [Call -> Calls]
        /\ \A q \in Call : q # r => call'[q] = call[q]
        /\ call'[r].stage = "written" /\ call'[r].seen = call[r].seen /\ call'[r].had = had
        /\ call'[r].task = call[r].task /\ call'[r].agent = call[r].agent
    <3>1. call' = [call EXCEPT ![r] = [call[r] EXCEPT !.stage = "written", !.seen = call[r].seen,
                                                      !.had = had]]
      BY <1>1, <1>4, <2>1 DEF CallTypes, Calls
    <3>2. "written" \in CallStage /\ call[r].seen \in SUBSET Agent
      BY <1>1, Stages
    <3>3. QED
      BY <3>1, <3>2, OneCall
  <2>3. \A q \in Call : Answered(q)' <=> Answered(q)
    BY <1>2, <2>2 DEF Answered, At
  <2>4. \A q \in Call : Answered(q) => q # r
    BY <1>2 DEF Answered
  <2>5. Kept'
    BY <1>2, <2>1, <2>2, <2>3, <2>4 DEF CallInv, Kept, Attaches, At
  <2>6. AssignmentsStay'
    BY <1>2, <2>2, <2>3, <2>4 DEF CallInv, AssignmentsStay
  <2>7. QED
    BY <1>2, <2>2, <2>5, <2>6 DEF CallTypes, CallInv
<1>5. QED
  BY <1>3, <1>4 DEF ReadAgent

LEMMA CommitStep ==
  ASSUME CallTypes, CallInv, NEW r \in Call, CommitAssignment(r)
  PROVE  CallTypes' /\ CallInv'
<1> DEFINE t == call[r].task
           a == call[r].agent
<1>1. call[r] \in Calls /\ t \in Task /\ a \in Agent
  BY DEF CallTypes, Calls
<1>2. call' = [call EXCEPT ![r] = [call[r] EXCEPT !.stage = "stored", !.seen = call[r].seen,
                                                  !.had = call[r].had]]
  BY <1>1 DEF CommitAssignment, MoveTo, CallTypes, Calls
<1>3. /\ call' \in [Call -> Calls]
      /\ \A q \in Call : q # r => call'[q] = call[q]
      /\ call'[r].stage = "stored"
      /\ \A q \in Call : /\ call'[q].seen = call[q].seen /\ call'[q].had = call[q].had
                         /\ call'[q].task = call[q].task /\ call'[q].agent = call[q].agent
  <2>1. /\ "stored" \in CallStage
        /\ call[r].seen \in SUBSET Agent /\ call[r].had \in SUBSET Task
    BY <1>1, Stages DEF Calls
  <2>2. /\ call' \in [Call -> Calls]
        /\ \A q \in Call : q # r => call'[q] = call[q]
        /\ call'[r].stage = "stored" /\ call'[r].seen = call[r].seen /\ call'[r].had = call[r].had
        /\ call'[r].task = call[r].task /\ call'[r].agent = call[r].agent
    BY <1>2, <2>1, OneCall
  <2>3. QED
    BY <2>2
<1>4. At(r) = "written" /\ \A q \in Call : Answered(q)' <=> Answered(q) \/ q = r
  BY <1>3 DEF Answered, At, CommitAssignment
<1>5. /\ row' \in [Task -> SUBSET Agent]
      /\ \A u \in Task : row'[u] = IF u = t THEN call[r].seen \cup {a} ELSE row[u]
  BY <1>1 DEF CommitAssignment, CallTypes, Calls
<1>6. /\ node' \in [Agent -> SUBSET Task]
      /\ \A b \in Agent : node'[b] = IF b = a /\ Attaches(r) THEN call[r].had \cup {t} ELSE node[b]
  BY <1>1 DEF CommitAssignment, CallTypes, Calls
<1>7. \A q \in Call : call[q].task \in Task /\ call[q].agent \in Agent
  BY DEF CallTypes, Calls
<1>8. Kept'
  <2> SUFFICES ASSUME NEW q \in Call, At(q)' = "written", ~Attaches(q)'
               PROVE  \/ call[q].task \in node'[call[q].agent]
                      \/ \E p \in Call : /\ Answered(p)' /\ call[p].agent = call[q].agent
                                         /\ call[q].task \notin call[p].had
    BY <1>3 DEF Kept
  <2>1. q # r /\ At(q) = "written" /\ ~Attaches(q)
    BY <1>3 DEF At, Attaches
  <2>2. CASE call[q].agent = a /\ Attaches(r)
    <3>1. CASE call[q].task \in call[r].had
      BY <1>6, <1>7, <2>2, <3>1
    <3>2. CASE call[q].task \notin call[r].had
      BY <1>4, <2>2, <3>2
    <3>3. QED
      BY <3>1, <3>2
  <2>3. CASE ~(call[q].agent = a /\ Attaches(r))
    BY <1>4, <1>6, <1>7, <2>1, <2>3 DEF CallInv, Kept
  <2>4. QED
    BY <2>2, <2>3
<1>9. ASSUME NEW q \in Call, Answered(q)'
      PROVE  \/ call[q].agent \in row'[call[q].task]
             \/ \E p \in Call \ {q} : /\ Answered(p)' /\ call[p].task = call[q].task
                                      /\ call[q].agent \notin call[p].seen
  <2>1. CASE q = r
    BY <1>1, <1>5, <2>1
  <2>2. CASE q # r /\ call[q].task = t
    BY <1>4, <1>5, <1>7, <2>2
  <2>3. CASE q # r /\ call[q].task # t
    BY <1>4, <1>5, <1>7, <1>9, <2>3 DEF CallInv, AssignmentsStay
  <2>4. QED
    BY <2>1, <2>2, <2>3
<1>10. ASSUME NEW q \in Call, Answered(q)'
       PROVE  \/ call[q].task \in node'[call[q].agent]
              \/ \E p \in Call \ {q} : /\ Answered(p)' /\ call[p].agent = call[q].agent
                                       /\ call[q].task \notin call[p].had
  <2>1. CASE q = r /\ Attaches(r)
    BY <1>1, <1>6, <2>1
  <2>2. CASE q = r /\ ~Attaches(r)
    <3>1. \A p \in Call : Answered(p) => p # r
      BY <1>4 DEF Answered
    <3>2. QED
      BY <1>4, <1>6, <1>7, <2>2, <3>1 DEF CallInv, Kept
  <2>3. CASE q # r /\ call[q].agent = a /\ Attaches(r)
    BY <1>4, <1>6, <1>7, <2>3
  <2>4. CASE q # r /\ ~(call[q].agent = a /\ Attaches(r))
    BY <1>4, <1>6, <1>7, <1>10, <2>4 DEF CallInv, AssignmentsStay
  <2>5. QED
    BY <2>1, <2>2, <2>3, <2>4
<1>11. AssignmentsStay'
  BY <1>3, <1>9, <1>10 DEF AssignmentsStay
<1>12. QED
  BY <1>3, <1>5, <1>6, <1>8, <1>11 DEF CallTypes, CallInv

LEMMA RestartCalls ==
  ASSUME CallTypes, CallInv, PlatformRestarts
  PROVE  CallTypes' /\ CallInv'
<1>1. \A r \in Call : call[r] \in Calls
  BY DEF CallTypes
<1>2. \A stage \in CallStage : Interrupted(stage) \in CallStage
  BY DEF Interrupted, CallStage
<1>3. call' = [r \in Call |-> [call[r] EXCEPT !.stage = Interrupted(@)]] /\ UNCHANGED <<row, node>>
  BY DEF PlatformRestarts, database
<1>4. \A r \in Call : /\ call'[r] \in Calls /\ call'[r].stage = Interrupted(call[r].stage)
                      /\ call'[r].seen = call[r].seen /\ call'[r].had = call[r].had
                      /\ call'[r].task = call[r].task /\ call'[r].agent = call[r].agent
  BY <1>1, <1>2, <1>3 DEF Calls
<1>5. \A r \in Call : (Answered(r)' <=> Answered(r)) /\ At(r)' # "written"
  BY <1>4 DEF Answered, At, Interrupted
<1>6. call' \in [Call -> Calls]
  BY <1>3, <1>4
<1>7. Kept'
  BY <1>5 DEF Kept
<1>8. AssignmentsStay'
  <2>1. \A q \in Call : /\ call'[q].seen = call[q].seen /\ call'[q].had = call[q].had
                        /\ call'[q].task = call[q].task /\ call'[q].agent = call[q].agent
    BY <1>4
  <2>2. (\A q \in Call : Answered(q)' <=> Answered(q)) /\ row' = row /\ node' = node
    BY <1>3, <1>5
  <2>3. QED
    BY <2>1, <2>2 DEF CallInv, AssignmentsStay
<1>9. QED
  BY <1>3, <1>6, <1>7, <1>8 DEF CallTypes, CallInv

LEMMA CallSteps ==
  ASSUME PushInv, NEW r \in Call, CallStep(r) \/ CallFails(r)
  PROVE  PushInv'
<1>1. CallTypes /\ LinkTypes /\ CallInv /\ LinkInv
  BY TypesApart DEF PushInv
<1>2. CASE PushTask(r)
  <2>3. CallTypes' /\ CallInv'
    BY <1>1, <1>2, PushStep
  <2>4. LinkInv'
    BY <1>1, <1>2, QuietLinks DEF PushTask, agents
  <2>5. down' \in [Connection -> SUBSET Call]
    BY <1>1, <1>2 DEF PushTask, LinkTypes
  <2>6. LinkTypes'
    BY <1>1, <1>2, <2>5 DEF PushTask, LinkTypes, database, agents
  <2>7. QED
    BY <2>3, <2>4, <2>6, TypesTogether DEF PushInv
<1>3. ASSUME ReadTask(r) \/ ReadAgent(r) \/ CommitAssignment(r) \/ CallFails(r)
      PROVE  PushInv'
  <2>1. UNCHANGED <<known, links, agents>>
    BY <1>3 DEF ReadTask, ReadAgent, CommitAssignment, CallFails, database
  <2>2. LinkTypes' /\ LinkInv'
    BY <1>1, <2>1, QuietLinks DEF LinkTypes, links, agents
  <2>3. CallTypes' /\ CallInv'
    BY <1>1, <1>3, ReadTaskStep, ReadAgentStep, CommitStep, FailsStep
  <2>4. QED
    BY <2>2, <2>3, TypesTogether DEF PushInv
<1>4. QED
  BY <1>2, <1>3 DEF CallStep

------------------------------------------------------------------------------
\* The connections.  A handler begins to serve, or ends; the other connections stay.

LEMMA RegisterStep ==
  ASSUME LinkTypes, LinkInv, NEW c \in Connection, Register(c)
  PROVE  LinkTypes' /\ LinkInv'
<1>1. /\ server[c] = "accepted" /\ owner[c] \in Agent
      /\ server' = [server EXCEPT ![c] = "serving"] /\ entry' = [entry EXCEPT ![owner[c]] = c]
      /\ known' = known \cup {owner[c]} /\ UNCHANGED <<line, owner, down, agent, conn, dirs>>
  BY DEF Register, Enter, LinkTypes, agents
<1>2. /\ \A d \in Connection : server'[d] = IF d = c THEN "serving" ELSE server[d]
      /\ \A a \in Agent : entry'[a] = IF a = owner[c] THEN c ELSE entry[a]
      /\ \A d \in Connection : owner[d] \in Agent
      /\ \A a \in Agent : entry[a] \in Connection \cup {None} /\ conn[a] \in Connection \cup {None}
  BY <1>1 DEF LinkTypes
<1>3. LinkTypes'
  BY <1>1 DEF LinkTypes, ServerState
<1>4. Opened'
  BY <1>1, <1>2 DEF LinkInv, Opened
<1>5. Entered'
  BY <1>1, <1>2 DEF LinkInv, Entered
<1>6. Displaced'
  BY <1>1, <1>2 DEF LinkInv, Displaced
<1>7. Connected'
  BY <1>1, <1>2 DEF LinkInv, Connected
<1>8. QED
  BY <1>3, <1>4, <1>5, <1>6, <1>7 DEF LinkInv

LEMMA EndStep ==
  ASSUME LinkTypes, LinkInv, NEW c \in Connection, RegisterFails(c) \/ HandlerEnds(c)
  PROVE  LinkTypes' /\ LinkInv'
<1>1. /\ server[c] \in {"accepted", "serving"} /\ owner[c] \in Agent
      /\ server' = [server EXCEPT ![c] = "ended"] /\ entry' = [entry EXCEPT ![owner[c]] = None]
      /\ UNCHANGED <<known, line, owner, down, agent, conn, dirs>>
  BY DEF RegisterFails, HandlerEnds, Enter, LinkTypes, agents, database
<1>2. /\ \A d \in Connection : server'[d] = IF d = c THEN "ended" ELSE server[d]
      /\ \A a \in Agent : entry'[a] = IF a = owner[c] THEN None ELSE entry[a]
      /\ \A d \in Connection : owner[d] \in Agent
      /\ \A a \in Agent : entry[a] \in Connection \cup {None} /\ conn[a] \in Connection \cup {None}
  BY <1>1 DEF LinkTypes
<1>3. LinkTypes'
  BY <1>1 DEF LinkTypes, ServerState
<1>4. Opened'
  BY <1>1, <1>2 DEF LinkInv, Opened
<1>5. Entered'
  BY <1>1, <1>2 DEF LinkInv, Entered
<1>6. Displaced'
  BY <1>1, <1>2 DEF LinkInv, Displaced
<1>7. Connected'
  BY <1>1, <1>2 DEF LinkInv, Connected
<1>8. QED
  BY <1>3, <1>4, <1>5, <1>6, <1>7 DEF LinkInv

LEMMA NeverRegistersStep ==
  ASSUME LinkTypes, LinkInv, NEW c \in Connection, NeverRegisters(c)
  PROVE  LinkTypes' /\ LinkInv'
<1>1. /\ server[c] = "accepted"
      /\ server' = [server EXCEPT ![c] = "ended"]
      /\ UNCHANGED <<known, entry, line, owner, down, agent, conn, dirs>>
  BY DEF NeverRegisters, LinkTypes, agents, database
<1>2. /\ \A d \in Connection : server'[d] = IF d = c THEN "ended" ELSE server[d]
      /\ \A a \in Agent : entry[a] \in Connection \cup {None} /\ conn[a] \in Connection \cup {None}
  BY <1>1 DEF LinkTypes
<1>3. LinkTypes'
  BY <1>1 DEF LinkTypes, ServerState
<1>4. Opened' /\ Entered'
  BY <1>1, <1>2 DEF LinkInv, Opened, Entered
<1>5. Displaced'
  BY <1>1, <1>2 DEF LinkInv, Displaced
<1>6. Connected'
  BY <1>1, <1>2 DEF LinkInv, Connected
<1>7. QED
  BY <1>3, <1>4, <1>5, <1>6 DEF LinkInv

LEMMA RestartLinks ==
  ASSUME LinkTypes, LinkInv, PlatformRestarts
  PROVE  LinkTypes' /\ LinkInv'
<1>1. /\ \A a \in Agent : entry'[a] = None
      /\ \A c \in Connection : server'[c] = IF server[c] = "none" THEN "none" ELSE "ended"
      /\ \A c \in Connection : line'[c] = IF line[c] = "up" THEN "broken" ELSE line[c]
      /\ UNCHANGED <<known, owner, down, agent, conn, dirs>>
  BY DEF PlatformRestarts, agents, database
<1>2. LinkTypes'
  BY <1>1 DEF PlatformRestarts, LinkTypes, ServerState
<1>3. \A a \in Agent : conn[a] \in Connection \cup {None}
  BY DEF LinkTypes
<1>4. Opened' /\ Entered' /\ Displaced'
  BY <1>1 DEF LinkInv, Opened, Entered, Displaced
<1>5. Connected'
  BY <1>1, <1>3 DEF LinkInv, Connected
<1>6. QED
  BY <1>2, <1>4, <1>5 DEF LinkInv

LEMMA BreaksStep ==
  ASSUME LinkTypes, LinkInv, NEW c \in Connection, Breaks(c)
  PROVE  LinkTypes' /\ LinkInv'
<1>1. /\ line[c] = "up" /\ line' = [line EXCEPT ![c] = "broken"]
      /\ UNCHANGED <<known, entry, server, owner, down, agent, conn, dirs>>
  BY DEF Breaks, agents, database
<1>2. LinkTypes' /\ \A d \in Connection : line'[d] = "none" <=> line[d] = "none"
  BY <1>1 DEF LinkTypes
<1>3. \A a \in Agent : conn[a] \in Connection \cup {None}
  BY DEF LinkTypes
<1>4. Opened' /\ Entered' /\ Displaced' /\ Connected'
  BY <1>1, <1>2, <1>3 DEF LinkInv, Opened, Entered, Displaced, Connected
<1>5. QED
  BY <1>2, <1>4 DEF LinkInv

\* The Agent opens a connection, the next one.
LEMMA ConnectStep ==
  ASSUME LinkTypes, LinkInv, NEW a \in Agent, NEW c \in Connection, Connect(a, c)
  PROVE  LinkTypes' /\ LinkInv'
<1>1. /\ line[c] = "none" /\ server[c] = "none" /\ owner[c] = a
      /\ line' = [line EXCEPT ![c] = "up"] /\ server' = [server EXCEPT ![c] = "accepted"]
      /\ agent' = [agent EXCEPT ![a] = "joining"] /\ conn' = [conn EXCEPT ![a] = c]
      /\ UNCHANGED <<known, entry, owner, down, dirs>>
  BY DEF Connect, AgentTo, LinkInv, Opened, database
<1>2. LinkTypes'
  BY <1>1 DEF LinkTypes, ServerState, AgentState
<1>3. /\ \A d \in Connection : server'[d] = IF d = c THEN "accepted" ELSE server[d]
      /\ \A d \in Connection : line'[d] = IF d = c THEN "up" ELSE line[d]
      /\ \A b \in Agent : agent'[b] = IF b = a THEN "joining" ELSE agent[b]
      /\ \A b \in Agent : conn'[b] = IF b = a THEN c ELSE conn[b]
      /\ \A b \in Agent : conn[b] \in Connection \cup {None} /\ entry[b] \in Connection \cup {None}
  BY <1>1 DEF LinkTypes
<1>4. c # None
  BY NoneIsNoConnection
<1>5. Opened' /\ Entered'
  BY <1>1, <1>3 DEF LinkInv, Opened, Entered
<1>6. Displaced'
  BY <1>1, <1>3 DEF LinkInv, Displaced
<1>7. Connected'
  BY <1>1, <1>3, <1>4 DEF LinkInv, Connected
<1>8. QED
  BY <1>2, <1>5, <1>6, <1>7 DEF LinkInv

\* The Agent drops its connection, if it has one.
LEMMA DropStep ==
  ASSUME LinkTypes, LinkInv, NEW a \in Agent, NEW state \in {"off", "idle"},
         AgentTo(a, state, None),
         \/ UNCHANGED <<line, down>>
         \/ /\ conn[a] # None
            /\ line' = [line EXCEPT ![conn[a]] = "broken"]
            /\ down' = [down EXCEPT ![conn[a]] = {}],
         dirs' \in [Agent -> SUBSET Task], UNCHANGED <<known, entry, server, owner>>
  PROVE  LinkTypes' /\ LinkInv'
<1>1. agent' = [agent EXCEPT ![a] = state] /\ conn' = [conn EXCEPT ![a] = None]
  BY DEF AgentTo
<1>2. /\ line' \in [Connection -> {"none", "up", "broken"}]
      /\ \A d \in Connection : line'[d] = "none" <=> line[d] = "none"
  BY DEF LinkTypes, LinkInv, Connected
<1>3. down' \in [Connection -> SUBSET Call]
  BY DEF LinkTypes
<1>4. LinkTypes'
  BY <1>1, <1>2, <1>3 DEF LinkTypes, AgentState
<1>5. /\ \A b \in Agent : agent'[b] = IF b = a THEN state ELSE agent[b]
      /\ \A b \in Agent : conn'[b] = IF b = a THEN None ELSE conn[b]
      /\ \A b \in Agent : conn[b] \in Connection \cup {None}
  BY <1>1 DEF LinkTypes
<1>6. Opened' /\ Entered' /\ Displaced'
  BY <1>2 DEF LinkInv, Opened, Entered, Displaced
<1>7. Connected'
  BY <1>2, <1>5 DEF LinkInv, Connected
<1>8. QED
  BY <1>4, <1>6, <1>7 DEF LinkInv

LEMMA AgentSteps ==
  ASSUME CallTypes, LinkTypes, LinkInv, NEW a \in Agent,
         \/ Start(a) \/ StartUnfetched(a) \/ Joined(a) \/ Leave(a) \/ Stop(a)
         \/ \E r \in Call : Receive(a, r) \/ ReceiveFails(a, r)
  PROVE  LinkTypes' /\ LinkInv'
<1>1. dirs \in [Agent -> SUBSET Task]
  BY DEF LinkTypes
<1>2. CASE Start(a) \/ StartUnfetched(a)
  <2>1. dirs' \in [Agent -> SUBSET Task]
    BY <1>1, <1>2 DEF Start, StartUnfetched
  <2>2. /\ AgentTo(a, "idle", None)
        /\ UNCHANGED <<known, entry, server, line, owner, down>>
    BY <1>2 DEF Start, StartUnfetched, database, links
  <2>3. QED
    BY <2>1, <2>2, DropStep
<1>3. CASE Joined(a)
  <2>1. /\ agent[a] = "joining" /\ server[conn[a]] # "accepted"
        /\ agent' = [agent EXCEPT ![a] = "session"] /\ conn' = conn
        /\ UNCHANGED <<known, entry, server, line, owner, down, dirs>>
    BY <1>3 DEF Joined, AgentTo, database, links, LinkTypes
  <2>2. LinkTypes'
    BY <2>1 DEF LinkTypes, AgentState
  <2>3. \A b \in Agent : agent'[b] = IF b = a THEN "session" ELSE agent[b]
    BY <2>1 DEF LinkTypes
  <2>4. LinkInv'
    BY <2>1, <2>3 DEF LinkInv, Opened, Entered, Displaced, Connected
  <2>5. QED
    BY <2>2, <2>4
<1>4. CASE Leave(a) \/ \E r \in Call : ReceiveFails(a, r)
  <2>1. /\ conn[a] # None
        /\ line' = [line EXCEPT ![conn[a]] = "broken"] /\ down' = [down EXCEPT ![conn[a]] = {}]
        /\ AgentTo(a, "idle", None) /\ UNCHANGED <<known, entry, server, owner, dirs>>
    BY <1>4 DEF Leave, ReceiveFails, database, LinkInv, Connected
  <2>2. QED
    BY <1>1, <2>1, DropStep
<1>5. CASE Stop(a)
  <2>1. /\ \/ UNCHANGED <<line, down>>
           \/ /\ conn[a] # None
              /\ line' = [line EXCEPT ![conn[a]] = "broken"]
              /\ down' = [down EXCEPT ![conn[a]] = {}]
        /\ AgentTo(a, "off", None) /\ UNCHANGED <<known, entry, server, owner, dirs>>
    BY <1>5 DEF Stop, database
  <2>2. QED
    BY <1>1, <2>1, DropStep
<1>6. CASE \E r \in Call : Receive(a, r)
  <2>1. PICK r \in Call : Receive(a, r)
    BY <1>6
  <2>2. UNCHANGED <<known, entry, server, line, owner, agent, conn>>
    BY <2>1 DEF Receive, database
  <2>3. down' \in [Connection -> SUBSET Call]
    BY <2>1 DEF Receive, LinkTypes
  <2>4. call[r].task \in Task
    BY DEF CallTypes, Calls
  <2>5. dirs' \in [Agent -> SUBSET Task]
    BY <2>1, <2>4 DEF Receive, LinkTypes
  <2>6. QED
    BY <2>2, <2>3, <2>5, QuietLinks DEF LinkTypes
<1>7. QED
  BY <1>2, <1>3, <1>4, <1>5, <1>6

LEMMA NextPush == PushInv /\ [PushNext]_pushVars => PushInv'
<1> SUFFICES ASSUME PushInv, [PushNext]_pushVars PROVE PushInv'
  OBVIOUS
<1>1. CallTypes /\ LinkTypes /\ CallInv /\ LinkInv
  BY TypesApart DEF PushInv
<1>2. ASSUME UNCHANGED <<row, node, call>>, LinkTypes', LinkInv'
      PROVE  PushInv'
  <2>1. CallTypes' /\ CallInv'
    BY <1>1, <1>2, QuietCalls DEF CallTypes
  <2>2. QED
    BY <1>2, <2>1, TypesTogether DEF PushInv
<1>3. CASE UNCHANGED pushVars
  <2>1. UNCHANGED <<row, node, call>> /\ UNCHANGED <<known, links, agents>>
    BY <1>3 DEF pushVars, database
  <2>2. LinkTypes' /\ LinkInv'
    BY <1>1, <2>1, QuietLinks DEF LinkTypes, links, agents
  <2>3. QED
    BY <1>2, <2>1, <2>2
<1>4. ASSUME NEW r \in Call, CallStep(r) \/ CallFails(r) PROVE PushInv'
  BY <1>4, CallSteps
<1>5. ASSUME NEW c \in Connection,
             Register(c) \/ RegisterFails(c) \/ NeverRegisters(c) \/ HandlerEnds(c) \/ Breaks(c)
      PROVE  PushInv'
  <2>1. UNCHANGED <<row, node, call>>
    BY <1>5 DEF Register, RegisterFails, NeverRegisters, HandlerEnds, Breaks, database
  <2>2. LinkTypes' /\ LinkInv'
    BY <1>1, <1>5, RegisterStep, EndStep, NeverRegistersStep, BreaksStep
  <2>3. QED
    BY <1>2, <2>1, <2>2
<1>6. CASE PlatformRestarts
  BY <1>1, <1>6, RestartCalls, RestartLinks, TypesTogether DEF PushInv
<1>7. ASSUME NEW a \in Agent, NEW c \in Connection, Connect(a, c) PROVE PushInv'
  <2>1. UNCHANGED <<row, node, call>>
    BY <1>7 DEF Connect, database
  <2>2. QED
    BY <1>1, <1>2, <1>7, <2>1, ConnectStep
<1>8. ASSUME NEW a \in Agent,
             \/ Start(a) \/ StartUnfetched(a) \/ Joined(a) \/ Leave(a) \/ Stop(a)
             \/ \E r \in Call : Receive(a, r) \/ ReceiveFails(a, r)
      PROVE  PushInv'
  <2>1. UNCHANGED <<row, node, call>>
    BY <1>8 DEF Start, StartUnfetched, Joined, Leave, Stop, Receive, ReceiveFails, database
  <2>2. LinkTypes' /\ LinkInv'
    BY <1>1, <1>8, AgentSteps
  <2>3. QED
    BY <1>2, <2>1, <2>2
<1>9. QED
  BY <1>3, <1>4, <1>5, <1>6, <1>7, <1>8 DEF PushNext

LEMMA Honest == PushInv => RegistryIsHonest
<1> SUFFICES ASSUME PushInv PROVE RegistryIsHonest
  OBVIOUS
<1>1. LinkTypes /\ LinkInv
  BY TypesApart DEF PushInv
<1>2. ASSUME NEW a \in Agent, Deaf(a), server[conn[a]] # "ended"
      PROVE  \E c \in Connection \ {conn[a]} : owner[c] = a /\ server[c] \in {"serving", "ended"}
  <2>1. /\ conn[a] \in Connection /\ owner[conn[a]] = a /\ line[conn[a]] # "none"
        /\ server[conn[a]] # "accepted" /\ entry[a] # conn[a]
    BY <1>1, <1>2 DEF Deaf, LinkTypes, LinkInv, Connected
  <2>2. server[conn[a]] = "serving"
    BY <1>1, <1>2, <2>1 DEF LinkTypes, LinkInv, Opened, ServerState
  <2>3. QED
    BY <1>1, <2>1, <2>2 DEF LinkInv, Displaced
<1>3. QED
  BY <1>1, <1>2 DEF RegistryIsHonest, LinkInv, Entered

\* The invariant of this module holds throughout.
THEOREM PushAlways == PushSpec => []PushInv
<1>1. QED
  BY InitPush, NextPush, PTL DEF PushSpec

\* The parts keep their types, for any Agents, tasks, calls and connections.
THEOREM PushTypes == PushSpec => []PushTypeOK
<1>1. PushInv => PushTypeOK
  BY DEF PushInv
<1>2. QED
  BY <1>1, PushAlways, PTL

\* Whatever connections are opened, lost and replaced and however often the Platform
\* restarts: what the manager takes for an Agent's connection is served and that Agent's,
\* and an Agent in a session that the manager does not know of has had another connection,
\* or one whose handler has ended (handlers.py:189).
THEOREM RegistryAlwaysHonest == PushSpec => []RegistryIsHonest
<1>1. QED
  BY Honest, PushAlways, PTL

\* Of any number of concurrent assignments, one that was answered is stored on both sides,
\* unless a call that had read the list before it was stored has overwritten it.
THEOREM AssignmentsAlwaysStay == PushSpec => []AssignmentsStay
<1>1. PushInv => AssignmentsStay
  BY DEF PushInv, CallInv
<1>2. QED
  BY <1>1, PushAlways, PTL

LEMMA StartBrings ==
    ASSUME NEW a \in Agent, NEW t \in Task
    PROVE  PushInv /\ a \in row[t] /\ <<Start(a)>>_pushVars => (t \in dirs[a])'
<1> SUFFICES ASSUME PushInv, a \in row[t], Start(a) PROVE t \in dirs'[a]
  OBVIOUS
<1>1. dirs \in [Agent -> SUBSET Task]
  BY DEF PushInv, PushTypeOK
<1> QED
  BY <1>1 DEF Start

LEMMA StartBringsTask ==
    ASSUME NEW a \in Agent, NEW t \in Task
    PROVE  PushSpec /\ []<><<Start(a)>>_pushVars =>
             ((a \in row[t]) ~> (t \in dirs[a] \/ a \notin row[t]))
<1>1. PushInv /\ a \in row[t] /\ <<Start(a)>>_pushVars => (t \in dirs[a])'
  BY StartBrings
<1>2. a \in row[t] \/ a \notin row[t]
  OBVIOUS
<1> QED
  BY <1>1, <1>2, PushAlways, PTL DEF PushSpec

\* Whatever becomes of its push (sent over a lost connection, or to nobody), an assignment
\* gets its directory on the Agent's disk by the Agent's starts (_run_daemon's fetch), if these
\* come again and again with a Platform that answers: the second half of AssignmentArrives.
THEOREM StartsAlwaysMakeUp == PushSpec => StartsMakeUp
<1>1. ASSUME NEW a \in Awake, NEW t \in Task
      PROVE  PushSpec /\ []<><<Start(a)>>_pushVars =>
               ((a \in row[t]) ~> (t \in dirs[a] \/ a \notin row[t]))
  BY StartBringsTask, PushAssumption
<1> QED
  BY <1>1 DEF StartsMakeUp

------------------------------------------------------------------------------
(***************************************************************************)
(* TaskDirectory, and the types of all parts.                              *)
(***************************************************************************)
LEMMA DirectoryInits == DirectoryInit => DirectoryTypeOK
BY DEF DirectoryInit, DirectoryTypeOK, Metadata, FileState, Nobody

LEMMA DirectorySteps == DirectoryTypeOK /\ [DirectoryNext]_directoryVars => DirectoryTypeOK'
<1> SUFFICES ASSUME DirectoryTypeOK, [DirectoryNext]_directoryVars PROVE DirectoryTypeOK'
  OBVIOUS
<1> USE DEF DirectoryTypeOK, Metadata, FileState
<1>1. ASSUME NEW t \in Directory, MakeDirectory(t) \/ OpenMetadata(t) \/ FillMetadata(t)
      PROVE  DirectoryTypeOK'
  BY <1>1 DEF MakeDirectory, OpenMetadata, FillMetadata
<1>2. ASSUME NEW t \in Directory, Assign(t) \/ Push(t) \/ Rebuild(t)
      PROVE  DirectoryTypeOK'
  BY <1>2 DEF Assign, Push, Rebuild, Write
<1>3. ASSUME NEW t \in Directory, Drop(t) \/ Process(t)
      PROVE  DirectoryTypeOK'
  BY <1>3 DEF Drop, Process
<1>4. CASE WriteFails \/ Kill
  BY <1>4 DEF WriteFails, Kill, Die
<1>5. CASE StartAgent \/ StartEmpty \/ Run \/ Trigger
  BY <1>5 DEF StartAgent, StartEmpty, Run, Trigger, Scanned
<1>6. CASE UNCHANGED directoryVars
  BY <1>6 DEF directoryVars
<1>7. QED
  BY <1>1, <1>2, <1>3, <1>4, <1>5, <1>6 DEF DirectoryNext

\* A directory is that of an assigned task, a recording lies in a directory, and a process
\* that is down has nothing in its memory.
DirectoryInv ==
    /\ DirectoryTypeOK
    /\ \A t \in Directory : metadata[t] # "missing" \/ writing = {t} \/ t \in todo => t \in assigned
    /\ \A t \in Directory : file[t] # "none" => metadata[t] # "missing"
    /\ process = "down" => ~fetched /\ todo = {} /\ writing = Nobody

Filled(t) == file[t] # "none"
TakenOrTorn(t) == file[t] = "taken" \/ metadata[t] = "torn"

\* A process that got its tasks from the Platform has t's directory before it, or the
\* directory is in order; and once it runs, the recording is in its queue.
SeenTo(t) ==
    fetched => /\ t \in todo \/ writing = {t} \/ metadata[t] = "whole"
               /\ process = "running" => metadata[t] = "whole" /\ file[t] = "queued"

LEMMA InitDirectory == DirectoryInit => DirectoryInv
  BY DEF DirectoryInit, DirectoryInv, DirectoryTypeOK, Metadata, FileState, Nobody

LEMMA StepDirectory == DirectoryInv /\ [DirectoryNext]_directoryVars => DirectoryInv'
<1> SUFFICES ASSUME DirectoryInv, [DirectoryNext]_directoryVars PROVE DirectoryInv'
  OBVIOUS
<1>1. DirectoryTypeOK'
  BY DirectorySteps DEF DirectoryInv
<1> USE DEF DirectoryInv, DirectoryTypeOK, Metadata, FileState
<1>2. ASSUME NEW t \in Directory, MakeDirectory(t) \/ OpenMetadata(t) \/ FillMetadata(t)
      PROVE  DirectoryInv'
  BY <1>1, <1>2 DEF MakeDirectory, OpenMetadata, FillMetadata, Nobody
<1>3. ASSUME NEW t \in Directory, Assign(t) PROVE DirectoryInv'
  BY <1>1, <1>3 DEF Assign
<1>4. ASSUME NEW t \in Directory, Push(t) \/ Rebuild(t) PROVE DirectoryInv'
  BY <1>1, <1>4 DEF Push, Rebuild, Write
<1>5. ASSUME NEW t \in Directory, Drop(t) \/ Process(t) PROVE DirectoryInv'
  BY <1>1, <1>5 DEF Drop, Process
<1>6. ASSUME WriteFails \/ Kill PROVE DirectoryInv'
  BY <1>1, <1>6 DEF WriteFails, Kill, Die, Nobody
<1>7. ASSUME StartAgent \/ StartEmpty PROVE DirectoryInv'
  BY <1>1, <1>7 DEF StartAgent, StartEmpty, Nobody
<1>8. ASSUME Run \/ Trigger PROVE DirectoryInv'
  BY <1>1, <1>8 DEF Run, Trigger, Scanned, Nobody
<1>9. ASSUME UNCHANGED directoryVars PROVE DirectoryInv'
  BY <1>9 DEF directoryVars
<1> QED
  BY <1>2, <1>3, <1>4, <1>5, <1>6, <1>7, <1>8, <1>9 DEF DirectoryNext

\* A recording never leaves its directory but for where the Agent takes it.
LEMMA StaysFilled ==
    ASSUME NEW t \in Directory
    PROVE  DirectoryInv /\ Filled(t) /\ [DirectoryNext]_directoryVars => Filled(t)'
<1> SUFFICES ASSUME DirectoryInv, Filled(t), [DirectoryNext]_directoryVars PROVE Filled(t)'
  OBVIOUS
<1> USE DEF DirectoryInv, DirectoryTypeOK, Filled
<1>1. ASSUME NEW u \in Directory, MakeDirectory(u) \/ OpenMetadata(u) \/ FillMetadata(u) \/
                                  Assign(u) \/ Push(u) \/ Rebuild(u)
      PROVE  Filled(t)'
  BY <1>1 DEF MakeDirectory, OpenMetadata, FillMetadata, Assign, Push, Rebuild
<1>2. ASSUME NEW u \in Directory, Drop(u) \/ Process(u) PROVE Filled(t)'
  BY <1>2 DEF Drop, Process
<1>3. ASSUME WriteFails \/ Kill \/ StartAgent \/ StartEmpty \/ Run \/ Trigger PROVE Filled(t)'
  BY <1>3 DEF WriteFails, Kill, Die, StartAgent, StartEmpty, Run, Trigger, Scanned
<1>4. ASSUME UNCHANGED directoryVars PROVE Filled(t)'
  BY <1>4 DEF directoryVars
<1> QED
  BY <1>1, <1>2, <1>3, <1>4 DEF DirectoryNext

\* A start whose fetch succeeds has every filled directory before it.
LEMMA StartAttends ==
    ASSUME NEW t \in Directory
    PROVE  DirectoryInv /\ Filled(t) /\ <<StartAgent>>_directoryVars => SeenTo(t)'
  BY DEF DirectoryInv, Filled, StartAgent, SeenTo

\* What follows keeps it so, unless the recording is taken or .task.json torn.
LEMMA StaysAttended ==
    ASSUME NEW t \in Directory
    PROVE  DirectoryInv /\ Filled(t) /\ ~TakenOrTorn(t) /\ SeenTo(t)
             /\ [DirectoryNext]_directoryVars /\ ~TakenOrTorn(t)' => SeenTo(t)'
<1> SUFFICES ASSUME DirectoryInv, Filled(t), ~TakenOrTorn(t), SeenTo(t),
                    [DirectoryNext]_directoryVars, ~TakenOrTorn(t)'
             PROVE  SeenTo(t)'
  OBVIOUS
<1> USE DEF DirectoryInv, DirectoryTypeOK, Metadata, FileState, Filled, TakenOrTorn, SeenTo
<1>1. ASSUME NEW u \in Directory, MakeDirectory(u) \/ OpenMetadata(u) \/ FillMetadata(u)
      PROVE  SeenTo(t)'
  BY <1>1 DEF MakeDirectory, OpenMetadata, FillMetadata, Nobody
<1>2. ASSUME NEW u \in Directory, Assign(u) PROVE SeenTo(t)'
  BY <1>2 DEF Assign
<1>3. ASSUME NEW u \in Directory, Push(u) \/ Rebuild(u) PROVE SeenTo(t)'
  BY <1>3 DEF Push, Rebuild, Write, Nobody
<1>4. ASSUME NEW u \in Directory, Drop(u) \/ Process(u) PROVE SeenTo(t)'
  BY <1>4 DEF Drop, Process
<1>5. ASSUME WriteFails \/ Kill PROVE SeenTo(t)'
  BY <1>5 DEF WriteFails, Kill, Die, Nobody
<1>6. ASSUME StartAgent \/ StartEmpty PROVE SeenTo(t)'
  BY <1>6 DEF StartAgent, StartEmpty
<1>7. ASSUME Run \/ Trigger PROVE SeenTo(t)'
  BY <1>7 DEF Run, Trigger, Scanned, Nobody
<1>8. ASSUME UNCHANGED directoryVars PROVE SeenTo(t)'
  BY <1>8 DEF directoryVars
<1> QED
  BY <1>1, <1>2, <1>3, <1>4, <1>5, <1>6, <1>7, <1>8 DEF DirectoryNext

\* One directory's recording is taken.
LEMMA FileIsTaken ==
    ASSUME NEW t \in Directory
    PROVE  DirectorySpec /\ []<><<StartAgent>>_directoryVars /\ []<>Idle =>
             (Filled(t) ~> TakenOrTorn(t))
<1>1. DirectoryInv /\ Filled(t) /\ [DirectoryNext]_directoryVars => Filled(t)'
  BY StaysFilled
<1>2. DirectoryInv /\ Filled(t) /\ <<StartAgent>>_directoryVars => SeenTo(t)'
  BY StartAttends
<1>3. DirectoryInv /\ Filled(t) /\ ~TakenOrTorn(t) /\ SeenTo(t)
        /\ [DirectoryNext]_directoryVars /\ ~TakenOrTorn(t)' => SeenTo(t)'
  BY StaysAttended
<1>4. Idle => ~SeenTo(t)
  BY DEF Idle, SeenTo
<1> QED
  BY <1>1, <1>2, <1>3, <1>4, InitDirectory, StepDirectory, PTL DEF DirectorySpec

\* Every recording is taken where .task.json is not torn, if the Agent is started again and
\* again and now and then gets its tasks and gets through its queue.
THEOREM FilesAreAlwaysTaken == DirectorySpec => FilesAreTaken
<1>1. ASSUME NEW t \in Directory
      PROVE  DirectorySpec /\ []<><<StartAgent>>_directoryVars /\ []<>Idle =>
               (file[t] # "none" ~> (file[t] = "taken" \/ metadata[t] = "torn"))
  BY FileIsTaken DEF Filled, TakenOrTorn
<1> QED
  BY <1>1 DEF FilesAreTaken

------------------------------------------------------------------------------
\* What TLC checks of the parts side by side is a behaviour of each of them.
LEMMA PartsMove == MCSpec => BuildSpec /\ PushSpec /\ DirectorySpec
<1>1. MCInit => BuildInit /\ PushInit /\ DirectoryInit
  BY DEF MCInit
<1>2. ASSUME [MCNext]_<<scene, buildVars, pushVars, directoryVars>>
      PROVE  [BuildNext]_buildVars /\ [PushNext]_pushVars /\ [DirectoryNext]_directoryVars
  BY <1>2 DEF MCNext
<1>3. QED
  BY <1>1, <1>2, PTL DEF MCSpec, BuildSpec, PushSpec, DirectorySpec

\* Type correctness of every part: of the broker's two hops and of the builds, of who is
\* connected and assigned, and of the Agent's task directories (write_task_metadata,
\* rebuild_from_platform), wherever they are killed.
THEOREM TypesAlwaysOK == BuildSpec /\ PushSpec /\ DirectorySpec => []TypesOK
<1>1. DirectorySpec => []DirectoryTypeOK
  BY DirectoryInits, DirectorySteps, PTL DEF DirectorySpec
<1>2. BrokerTypeOK /\ DatasetTypeOK /\ PushTypeOK /\ DirectoryTypeOK => TypesOK
  BY DEF TypesOK
<1>3. QED
  BY <1>1, <1>2, BrokerTypes, DatasetTypes, PushTypes, PTL
=============================================================================
