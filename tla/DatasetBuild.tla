---------------------------- MODULE DatasetBuild ----------------------------
(***************************************************************************)
(* Training set builds, from the request to the manifest.  The Platform    *)
(* stores the request and publishes dataset.build_requested; the Scheduler *)
(* decides when to build, by a Celery task that asks the Platform to; the  *)
(* Platform builds in one transaction: it marks the dataset running,       *)
(* writes the manifest, marks it succeeded or failed, and commits.         *)
(*                                                                         *)
(* Other events of the same queue are tasks that only log.                 *)
(***************************************************************************)
EXTENDS BrokerDelivery

CONSTANTS Dataset,      \* and the dataset.build_requested event of each
          Notices       \* annotation.approved events

ASSUME DatasetAssumption == Event = Dataset \cup Notices /\ Dataset \cap Notices = {}

VARIABLES request,      \* the transaction of POST /datasets/build
          dataset,      \* the committed status
          transaction,  \* of POST /callbacks/dataset-build: whose it is, how far it is
          late,         \* build requests whose client has gone away
          manifest,     \* the manifest is in the object store
          eligible      \* the dataset's Episodes are all published

datasetVars == <<request, dataset, transaction, late, manifest, eligible>>
buildVars == <<brokerVars, datasetVars>>

------------------------------------------------------------------------------
DatasetStatus == {"none", "pending", "running", "succeeded", "failed"}

Stage == {"running", "written", "failing"}

NoTransaction == [client |-> -1, stage |-> "none"]

\* The client of a request nobody waits for any more.
Gone == 0

BuildInit ==
    /\ BrokerInit
    /\ request = [d \in Dataset |-> "none"]
    /\ dataset = [d \in Dataset |-> "none"]
    /\ transaction = [d \in Dataset |-> NoTransaction]
    /\ late = [d \in Dataset |-> 0]
    /\ manifest = [d \in Dataset |-> FALSE]
    /\ eligible = [d \in Dataset |-> TRUE]

------------------------------------------------------------------------------
\* build_dataset: the checks, the row, the event, the commit.

Accept(d) ==
    /\ request[d] = "none"
    /\ request' = [request EXCEPT ![d] = "created"]
    /\ UNCHANGED <<brokerVars, dataset, transaction, late, manifest, eligible>>

PublishRequest(d) ==
    /\ request[d] = "created"
    /\ Publish(d)
    /\ request' = [request EXCEPT ![d] = "published"]
    /\ UNCHANGED <<dataset, transaction, late, manifest, eligible>>

CommitRequest(d) ==
    /\ request[d] = "published"
    /\ request' = [request EXCEPT ![d] = "committed"]
    /\ dataset' = [dataset EXCEPT ![d] = "pending"]
    /\ UNCHANGED <<brokerVars, transaction, late, manifest, eligible>>

\* The broker cannot be reached, or the commit fails.
RequestFails(d) ==
    /\ request[d] \in {"created", "published"}
    /\ Mishap
    /\ request' = [request EXCEPT ![d] = "rolled back"]
    /\ UNCHANGED <<declared, message, dispatcher, task, cause>>
    /\ UNCHANGED <<dataset, transaction, late, manifest, eligible>>

\* Review publishes an annotation.approved event.
Notify(n) == n \in Notices /\ Publish(n) /\ UNCHANGED datasetVars

\* An Episode leaves published: overlapping requests can do that (EpisodeLifecycle).
Withdraw(d) ==
    /\ eligible[d]
    /\ Mishap
    /\ eligible' = [eligible EXCEPT ![d] = FALSE]
    /\ UNCHANGED <<declared, message, dispatcher, task, cause>>
    /\ UNCHANGED <<request, dataset, transaction, late, manifest>>

------------------------------------------------------------------------------
\* DatasetBuilder.build, called by the route dataset_build.

Waits(d, client) == IF client = Gone THEN late[d] > 0 ELSE Running(d, client)

\* Those who wait for the row's lock do not have it.
Unserved(d, client) == Waits(d, client) /\ transaction[d] = NoTransaction

Answer(d, client, answer) ==
    IF client = Gone
    THEN UNCHANGED <<task, cause>>
    ELSE CASE answer = "built"   -> TaskEnds(d, client)
           [] answer = "refused" -> TaskRefused(d, client)
           [] answer = "error"   -> TaskRetries(d, client)

\* The dataset is not there yet, or never will be: 422.
NotFound(d, client) ==
    /\ Unserved(d, client)
    /\ dataset[d] = "none"
    /\ Answer(d, client, "refused")
    /\ late' = IF client = Gone THEN [late EXCEPT ![d] = @ - 1] ELSE late
    /\ UNCHANGED <<declared, message, dispatcher, mishaps>>
    /\ UNCHANGED <<request, dataset, transaction, manifest, eligible>>

\* Mutant: mark_running commits.
BeginVisibly(d, client) ==
    /\ Unserved(d, client)
    /\ dataset[d] # "none"
    /\ transaction' = [transaction EXCEPT ![d] = [client |-> client, stage |-> "running"]]
    /\ dataset' = [dataset EXCEPT ![d] = "running"]
    /\ late' = IF client = Gone THEN [late EXCEPT ![d] = @ - 1] ELSE late
    /\ UNCHANGED <<brokerVars, request, manifest, eligible>>

\* mark_running writes the row, and with it locks it.
Begin(d, client) ==
    /\ Unserved(d, client)
    /\ dataset[d] # "none"
    /\ transaction' = [transaction EXCEPT ![d] = [client |-> client, stage |-> "running"]]
    /\ late' = IF client = Gone THEN [late EXCEPT ![d] = @ - 1] ELSE late
    /\ UNCHANGED <<brokerVars, request, dataset, manifest, eligible>>

\* _write_manifest: an Episode that is not published, or an error of the file system,
\* fails the build; the manifest appears by a rename.
WriteManifest(d) ==
    /\ transaction[d].stage = "running"
    /\ \/ /\ eligible[d]
          /\ manifest' = [manifest EXCEPT ![d] = TRUE]
          /\ transaction' = [transaction EXCEPT ![d].stage = "written"]
          /\ UNCHANGED mishaps
       \/ /\ IF eligible[d] THEN Mishap ELSE UNCHANGED mishaps
          /\ transaction' = [transaction EXCEPT ![d].stage = "failing"]
          /\ UNCHANGED manifest
    /\ UNCHANGED <<declared, message, dispatcher, task, cause>>
    /\ UNCHANGED <<request, dataset, late, eligible>>

\* Mutant: a failed build, too, is answered 200 and marked succeeded.
CommitAnything(d) ==
    /\ transaction[d].stage \in {"written", "failing"}
    /\ dataset' = [dataset EXCEPT ![d] = "succeeded"]
    /\ Answer(d, transaction[d].client, "built")
    /\ transaction' = [transaction EXCEPT ![d] = NoTransaction]
    /\ UNCHANGED <<declared, message, dispatcher, mishaps>>
    /\ UNCHANGED <<request, late, manifest, eligible>>

\* Mutant: a failed build is answered, and its row left as it is.
CommitUnmarked(d) ==
    /\ transaction[d].stage \in {"written", "failing"}
    /\ dataset' = IF transaction[d].stage = "written"
                  THEN [dataset EXCEPT ![d] = "succeeded"] ELSE dataset
    /\ Answer(d, transaction[d].client, "built")
    /\ transaction' = [transaction EXCEPT ![d] = NoTransaction]
    /\ UNCHANGED <<declared, message, dispatcher, mishaps>>
    /\ UNCHANGED <<request, late, manifest, eligible>>

\* mark_succeeded or mark_failed, and the route's commit.
CommitBuild(d) ==
    /\ transaction[d].stage \in {"written", "failing"}
    /\ LET built == transaction[d].stage = "written" IN
         /\ dataset' = [dataset EXCEPT ![d] = IF built THEN "succeeded" ELSE "failed"]
         /\ Answer(d, transaction[d].client, IF built THEN "built" ELSE "refused")
    /\ transaction' = [transaction EXCEPT ![d] = NoTransaction]
    /\ UNCHANGED <<declared, message, dispatcher, mishaps>>
    /\ UNCHANGED <<request, late, manifest, eligible>>

\* The Platform dies in the middle, or cannot commit.
AbortBuild(d) ==
    /\ transaction[d] # NoTransaction
    /\ Mishap
    /\ Answer(d, transaction[d].client, "error")
    /\ transaction' = [transaction EXCEPT ![d] = NoTransaction]
    /\ UNCHANGED <<declared, message, dispatcher>>
    /\ UNCHANGED <<request, dataset, late, manifest, eligible>>

\* The task stops waiting, or is killed; the request goes on without it.
LeaveRequest(d, c) ==
    IF transaction[d].client = c
    THEN transaction' = [transaction EXCEPT ![d].client = Gone] /\ UNCHANGED late
    ELSE late' = [late EXCEPT ![d] = @ + 1] /\ UNCHANGED transaction

TimeOut(d, c) ==
    /\ Running(d, c)
    /\ Mishap
    /\ TaskRetries(d, c)
    /\ LeaveRequest(d, c)
    /\ UNCHANGED <<declared, message, dispatcher, request, dataset, manifest, eligible>>

TaskLost(d, c) ==
    /\ WorkerDies(d, c) \/ ChildDies(d, c)
    /\ LeaveRequest(d, c)
    /\ UNCHANGED <<request, dataset, manifest, eligible>>

\* convert_annotation and notify_rejected only log.
LogNotice(n, c) ==
    /\ n \in Notices
    /\ Running(n, c)
    /\ TaskEnds(n, c)
    /\ UNCHANGED <<declared, message, dispatcher, mishaps, datasetVars>>

NoticeLost(n, c) == n \in Notices /\ (WorkerDies(n, c) \/ ChildDies(n, c)) /\ UNCHANGED datasetVars

------------------------------------------------------------------------------
PlatformStep ==
    \E d \in Dataset :
        \/ PublishRequest(d) \/ CommitRequest(d) \/ WriteManifest(d) \/ CommitBuild(d)
        \/ \E client \in Copy \cup {Gone} : NotFound(d, client) \/ Begin(d, client)

CeleryStep ==
    \/ (\E e \in Event, c \in Copy : RunTask(e, c)) /\ UNCHANGED datasetVars
    \/ \E n \in Notices, c \in Copy : LogNotice(n, c)

BuildNext ==
    \/ BrokerNext /\ UNCHANGED datasetVars
    \/ PlatformStep
    \/ \E d \in Dataset : Accept(d) \/ RequestFails(d) \/ Withdraw(d) \/ AbortBuild(d)
    \/ \E n \in Notices : Notify(n)
    \/ \E d \in Dataset, c \in Copy : TimeOut(d, c) \/ TaskLost(d, c)
    \/ \E n \in Notices, c \in Copy : LogNotice(n, c) \/ NoticeLost(n, c)

\* Both workers, and the Platform's handling of what it has received, keep running.
BuildFairness ==
    /\ WF_buildVars(DispatcherStep /\ UNCHANGED datasetVars)
    /\ WF_buildVars(PlatformStep)
    /\ WF_buildVars(CeleryStep)

BuildSpec == BuildInit /\ [][BuildNext]_buildVars /\ BuildFairness

------------------------------------------------------------------------------
\* The types of the Platform's side.
DatasetTypeOK ==
    /\ request \in [Dataset -> {"none", "created", "published", "committed", "rolled back"}]
    /\ dataset \in [Dataset -> DatasetStatus]
    /\ transaction \in [Dataset -> {NoTransaction} \cup [client : Copy \cup {Gone}, stage : Stage]]
    /\ late \in [Dataset -> 0 .. MaxMishaps]
    /\ manifest \in [Dataset -> BOOLEAN]
    /\ eligible \in [Dataset -> BOOLEAN]

\* The steps of a dataset's status that others can see: accepted, then built or failed; a
\* second delivery may turn either of these into the other.  Nobody ever sees running, and
\* one that is said to have succeeded has its manifest, whatever died, timed out or was
\* delivered twice on the way.
VisibleSteps ==
    [][\A d \in Dataset :
         /\ \/ dataset'[d] = dataset[d]
            \/ dataset[d] = "none" /\ dataset'[d] = "pending"
            \/ dataset[d] # "none" /\ dataset'[d] \in {"succeeded", "failed"}
         /\ dataset'[d] = "succeeded" => manifest'[d]]_buildVars

\* A dataset that is pending is built or fails in the end; or there is a reason on record
\* why it never will be: its event was published before the Scheduler had ever declared its
\* queue, or was dead-lettered; or its task was answered 422 (as it is before the commit),
\* was tried max_retries + 1 times, or was lost with the child process that ran it.
EveryBuildEnds ==
    \A d \in Dataset :
        dataset[d] = "pending" ~> dataset[d] \in {"succeeded", "failed"} \/ cause[d] # {}
=============================================================================
