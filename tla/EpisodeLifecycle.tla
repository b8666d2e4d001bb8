--------------------------- MODULE EpisodeLifecycle ---------------------------
(***************************************************************************)
(* The Platform's handling of one Episode's life, at the grain of database *)
(* statements.                                                             *)
(*                                                                         *)
(* Every HTTP request or WebSocket frame that may move an Episode runs in  *)
(* one database transaction, and awaits between its statements; any number *)
(* of requests interleave at those awaits.  What the database gives is     *)
(* READ COMMITTED: a read sees the last committed row (or the              *)
(* transaction's own write), an UPDATE or INSERT locks its row until the   *)
(* transaction ends.  There is no version column, so a value read before   *)
(* the lock may be stale when it is used, and SQLAlchemy leaves a column   *)
(* out of an UPDATE when what is assigned to it equals what the request    *)
(* loaded: another request's write to that column then stays.              *)
(*                                                                         *)
(* Events leave the Platform inside the transaction, before its commit.    *)
(***************************************************************************)
EXTENDS EpisodeStates, FiniteSets

CONSTANTS Episode,      \* episode identifiers
          Request,      \* slots for requests in flight
          Segments,     \* what an annotator may submit
          Overlap,      \* may two requests on one Episode be in flight?
          MaxTrail,     \* no new request once an Episode's trail is this long
          MaxEvents     \* no new request would publish an event more often than this

ASSUME OverlapAssumption == Overlap \in BOOLEAN
ASSUME BoundsAssumption == MaxTrail \in Nat /\ MaxEvents \in Nat

VARIABLES status,       \* committed episodes.status, Absent without a row
          segments,     \* committed episodes.segments
          trail,        \* committed episode_transitions of e, in the order of the row lock
          annotation,   \* committed annotations row of e
          counters,     \* committed counters of the collect task
          overtaken,    \* history: Episodes whose last submission left a column to another
          events,       \* events[e][k]: how often event k was published for e
          request,      \* request[r]: where a request is, and what it read
          txn           \* txn[r]: what its transaction locked and wrote

dbVars == <<status, segments, trail, annotation, counters, overtaken>>
vars == <<status, segments, trail, annotation, counters, overtaken, events, request, txn>>

------------------------------------------------------------------------------
\* The requests, by what they do.

\* The status each request moves an Episode to.
Target ==
    [start_upload    |-> "uploading",
     report_failed   |-> "failed",                 \* up.episode_status frame
     upload_complete |-> "uploaded",
     algo_succeeded  |-> "verification_pending",
     algo_failed     |-> "failed",                 \* some operator left an artefact
     algo_crashed    |-> "failed",                 \* none did
     prepared        |-> "annotation_pending",
     prepare_failed  |-> "failed",
     verify_approve  |-> "annotation_processing",
     verify_reject   |-> "rejected",
     annotate        |-> "annotation_review",
     review_approve  |-> "published",
     review_reject   |-> "annotation_pending"]

Operation == DOMAIN Target

\* Human decisions first check that the Episode is where they expect it.
Expected ==
    [verify_approve |-> "verification_pending",
     verify_reject  |-> "verification_pending",
     annotate       |-> "annotation_pending",
     review_approve |-> "annotation_review",
     review_reject  |-> "annotation_review"]

HumanOperation == DOMAIN Expected

\* The event a request publishes once its transition is flushed.
EventOf ==
    [upload_complete |-> "episode.uploaded",
     verify_approve  |-> "annotation.processing_requested",
     verify_reject   |-> "episode.rejected",
     review_approve  |-> "annotation.approved"]

EventKey == {EventOf[o] : o \in DOMAIN EventOf}

\* Callbacks of the Scheduler answer an event, and may answer it repeatedly.
TriggeredBy ==
    [algo_succeeded |-> "episode.uploaded",
     algo_failed    |-> "episode.uploaded",
     algo_crashed   |-> "episode.uploaded",
     prepared       |-> "annotation.processing_requested",
     prepare_failed |-> "annotation.processing_requested"]

CounterOf == [upload_complete |-> "collected", review_approve |-> "published"]

\* Who the transition record names.
Actor(o) ==
    CASE o \in {"start_upload", "report_failed"} -> "agent_report"
      [] o = "upload_complete"                   -> "upload_callback"
      [] o \in DOMAIN TriggeredBy                -> "scheduler"
      [] o \in HumanOperation                    -> "user"

ActorName == {"agent_report", "upload_callback", "scheduler", "user"}

------------------------------------------------------------------------------
\* Rows and transactions.

NoSegments == "none"            \* the empty list
MachineSegments == "machine"    \* what the preannotate operator produced
AnySegments == Segments \cup {NoSegments, MachineSegments}

Decision == {"none", "approve", "reject"}

\* An annotations row; revision 0 stands for the row not existing.
Annotation == [revision : Nat, segments : AnySegments, verify : Decision, review : Decision]
NoAnnotation ==
    [revision |-> 0, segments |-> NoSegments, verify |-> "none", review |-> "none"]

Counters == [collected : Nat, published : Nat]

TransitionRecord == [from : Status, to : Status, by : ActorName]

Table == {"episode", "annotation", "task"}

Step == {"idle", "read_annotation", "write_annotation", "read_episode", "attach", "guard",
         "apply", "flush", "publish", "read_counter", "write_counter", "commit"}

\* Control of a request: its next statement, what it asks for, what it has read; noted
\* and found are the segments it loaded with the annotations and with the episodes row.
None == "none"
Fresh(step, op, e, payload, found) ==
    [step |-> step, op |-> op, episode |-> e, payload |-> payload,
     noted |-> NoSegments, found |-> found, from |-> Absent, revision |-> 0, count |-> 0]
Idle == Fresh("idle", None, None, NoSegments, NoSegments)

\* The writes of a transaction that has not committed; only the parts of the
\* tables in locks mean anything.
NoWrites ==
    [locks |-> {}, status |-> Absent, segments |-> NoSegments, records |-> <<>>,
     annotation |-> NoAnnotation, counters |-> [collected |-> 0, published |-> 0]]

Op(r) == request[r].op
Ep(r) == request[r].episode

\* The row of table that r's request is about is locked by another transaction.
\* All Episodes here belong to one collect task.
Blocked(r, table) ==
    \E q \in Request \ {r} :
        /\ table \in txn[q].locks
        /\ table = "task" \/ Ep(q) = Ep(r)

\* What r reads: its own write, else the committed row.
SeenStatus(r) == IF "episode" \in txn[r].locks THEN txn[r].status ELSE status[Ep(r)]
SeenSegments(r) == IF "episode" \in txn[r].locks THEN txn[r].segments ELSE segments[Ep(r)]

\* A column after an UPDATE that assigns to it: left as it is where the assignment
\* changes nothing of what was loaded.
Updated(column, loaded, assigned) == IF assigned = loaded THEN column ELSE assigned

Proceed(r, step) == request' = [request EXCEPT ![r].step = step]

\* Mutant: a connection returned to the pool with its transaction open.
DiscardWithoutRollback(r) ==
    /\ request' = [request EXCEPT ![r] = Idle]
    /\ UNCHANGED txn

\* The request ends without a commit: an error response, or the process died.
Discard(r) ==
    /\ request' = [request EXCEPT ![r] = Idle]
    /\ txn' = [txn EXCEPT ![r] = NoWrites]

------------------------------------------------------------------------------
\* Requests arrive.

Init ==
    /\ status = [e \in Episode |-> Absent]
    /\ segments = [e \in Episode |-> NoSegments]
    /\ trail = [e \in Episode |-> <<>>]
    /\ annotation = [e \in Episode |-> NoAnnotation]
    /\ counters = [collected |-> 0, published |-> 0]
    /\ overtaken = {}
    /\ events = [e \in Episode |-> [k \in EventKey |-> 0]]
    /\ request = [r \in Request |-> Idle]
    /\ txn = [r \in Request |-> NoWrites]

\* POST /episodes: one INSERT, committed at once.
CreateEpisode(e) ==
    /\ status[e] = Absent
    /\ status' = [status EXCEPT ![e] = InitialState]
    /\ UNCHANGED <<segments, trail, annotation, counters, overtaken, events, request, txn>>

\* Callbacks come only after the event they answer.  The other conjuncts bound the
\* model, by MaxTrail and MaxEvents, and by Overlap the environment.
Admitted(o, e) ==
    /\ status[e] # Absent
    /\ o \in DOMAIN TriggeredBy => events[e][TriggeredBy[o]] > 0
    /\ o \in DOMAIN EventOf => events[e][EventOf[o]] < MaxEvents
    /\ Len(trail[e]) < MaxTrail
    /\ Overlap \/ \A q \in Request : Ep(q) # e

\* A request's first statement has been answered; step is the one it goes on with, and found
\* what it has loaded of the segments that it may assign.
Arrive(r, o, e, payload, found, step) ==
    /\ request[r].step = "idle"
    /\ Admitted(o, e)
    /\ request' = [request EXCEPT ![r] = Fresh(step, o, e, payload, found)]
    /\ UNCHANGED <<dbVars, events, txn>>

\* review.submit_*: assert_actionable answers 409 unless the status is the expected one.
SubmitDecision(r, o, e, payload) ==
    /\ o \in HumanOperation
    /\ payload \in IF o = "annotate" THEN Segments ELSE {NoSegments}
    /\ status[e] = Expected[o]
    /\ Arrive(r, o, e, payload, NoSegments, "read_annotation")

\* Mutant: a replayed upload-complete is not recognised.
UploadCompleteNoReplayCheck(r, e) ==
    Arrive(r, "upload_complete", e, NoSegments, NoSegments, "attach")

\* mark_uploaded: any status but uploading is taken for a replay and answered 200.
UploadComplete(r, e) ==
    /\ status[e] = "uploading"
    /\ Arrive(r, "upload_complete", e, NoSegments, NoSegments, "attach")

\* handle_algo_result with something to attach: the row is written before the guard.
AlgoResult(r, o, e, payload) ==
    /\ o \in {"algo_succeeded", "algo_failed"}
    /\ payload \in {MachineSegments, NoSegments}
    /\ Arrive(r, o, e, payload, segments[e], "attach")

\* Requests whose first read of the Episode is the guard of lifecycle.transition.
RequestTransition(r, o, e) ==
    /\ o \in {"start_upload", "report_failed", "algo_crashed", "prepared", "prepare_failed"}
    /\ status[e] \in Status
    /\ CanTransition(status[e], Target[o])
    /\ Arrive(r, o, e, NoSegments, NoSegments, "apply")

------------------------------------------------------------------------------
\* A request goes on, one statement at a time.

\* Read the annotations row.  A review of an Episode without one is a 404.
ReadAnnotation(r) ==
    LET seen == annotation[Ep(r)].revision
    IN  /\ request[r].step = "read_annotation"
        /\ IF seen = 0 /\ Op(r) \in {"review_approve", "review_reject"}
           THEN Discard(r)
           ELSE /\ request' = [request EXCEPT ![r].step = "write_annotation",
                                              ![r].revision = seen,
                                              ![r].noted = annotation[Ep(r)].segments]
                /\ UNCHANGED txn
        /\ UNCHANGED <<dbVars, events>>

\* The annotation's segments as a submission leaves them.
Submitted(r) ==
    IF request[r].revision = 0
    THEN request[r].payload
    ELSE Updated(annotation[Ep(r)].segments, request[r].noted, request[r].payload)

\* Mutant: the revision goes up with every submission, not with every return.
AnnotationWrittenRevisesOnSubmit(r) ==
    LET row == IF request[r].revision = 0
               THEN [NoAnnotation EXCEPT !.revision = 1]
               ELSE annotation[Ep(r)]
    IN  CASE Op(r) = "verify_approve" -> [row EXCEPT !.verify = "approve"]
          [] Op(r) = "verify_reject"  -> [row EXCEPT !.verify = "reject"]
          [] Op(r) = "annotate"       -> [row EXCEPT !.segments = Submitted(r),
                                                     !.revision = @ + 1]
          [] Op(r) = "review_approve" -> [row EXCEPT !.review = "approve"]
          [] Op(r) = "review_reject"  -> [row EXCEPT !.review = "reject"]

\* The row as r writes it: an insert where r saw none, else the changed columns.
AnnotationWritten(r) ==
    LET row == IF request[r].revision = 0
               THEN [NoAnnotation EXCEPT !.revision = 1]
               ELSE annotation[Ep(r)]
    IN  CASE Op(r) = "verify_approve" -> [row EXCEPT !.verify = "approve"]
          [] Op(r) = "verify_reject"  -> [row EXCEPT !.verify = "reject"]
          [] Op(r) = "annotate"       -> [row EXCEPT !.segments = Submitted(r)]
          [] Op(r) = "review_approve" -> [row EXCEPT !.review = "approve"]
          [] Op(r) = "review_reject"  ->
                 [row EXCEPT !.review = "reject", !.revision = request[r].revision + 1]

\* Flush the annotations row.  An insert over a row committed since violates the
\* unique episode_id and ends the request.
WriteAnnotation(r) ==
    /\ request[r].step = "write_annotation"
    /\ ~Blocked(r, "annotation")
    /\ IF request[r].revision = 0 /\ annotation[Ep(r)].revision > 0
       THEN Discard(r)
       ELSE /\ txn' = [txn EXCEPT ![r].locks = @ \cup {"annotation"},
                                  ![r].annotation = AnnotationWritten(r)]
            /\ Proceed(r, IF Op(r) = "annotate" THEN "read_episode" ELSE "guard")
    /\ UNCHANGED <<dbVars, events>>

\* replace_segments loads the episodes row again before it writes to it.
ReadEpisode(r) ==
    /\ request[r].step = "read_episode"
    /\ request' = [request EXCEPT ![r].step = "attach", ![r].found = SeenSegments(r)]
    /\ UNCHANGED <<dbVars, events, txn>>

\* Mutant: segments are only filled in, never replaced.
AttachKeepsSegments(r) ==
    /\ request[r].step = "attach"
    /\ ~Blocked(r, "episode")
    /\ txn' = [txn EXCEPT ![r].locks = @ \cup {"episode"},
                          ![r].status = SeenStatus(r),
                          ![r].segments = IF SeenSegments(r) # NoSegments
                                          THEN SeenSegments(r)
                                          ELSE request[r].payload]
    /\ Proceed(r, IF Op(r) = "upload_complete" THEN "apply" ELSE "guard")
    /\ UNCHANGED <<dbVars, events>>

\* The Episode's segments as r leaves them.  A submission always assigns them, an algo
\* result only where it has some, and the upload callback never.
Attached(r) ==
    IF Op(r) = "annotate" \/ request[r].payload # NoSegments
    THEN Updated(SeenSegments(r), request[r].found, request[r].payload)
    ELSE SeenSegments(r)

\* attach_upload_result, attach_processing_result, replace_segments: write columns
\* of the episodes row other than the status, and so lock it.
Attach(r) ==
    /\ request[r].step = "attach"
    /\ ~Blocked(r, "episode")
    /\ txn' = [txn EXCEPT ![r].locks = @ \cup {"episode"},
                          ![r].status = SeenStatus(r),
                          ![r].segments = Attached(r)]
    /\ Proceed(r, IF Op(r) = "upload_complete" THEN "apply" ELSE "guard")
    /\ UNCHANGED <<dbVars, events>>

\* Mutant: no assert_transition.
GuardUnchecked(r) ==
    /\ request[r].step = "guard"
    /\ Proceed(r, IF SeenStatus(r) = Target[Op(r)] THEN "commit" ELSE "apply")
    /\ UNCHANGED <<dbVars, events, txn>>

\* Mutant: the 409 is answered from the route, which commits what was written so far.
GuardCommitsRefused(r) ==
    /\ request[r].step = "guard"
    /\ Proceed(r, IF /\ SeenStatus(r) # Target[Op(r)]
                     /\ CanTransition(SeenStatus(r), Target[Op(r)])
                  THEN "apply" ELSE "commit")
    /\ UNCHANGED <<dbVars, events, txn>>

\* lifecycle.transition: at the target already is a replay, an edge the machine
\* does not have is a 409.
Guard(r) ==
    /\ request[r].step = "guard"
    /\ IF SeenStatus(r) = Target[Op(r)]
       THEN Proceed(r, "commit") /\ UNCHANGED txn
       ELSE IF CanTransition(SeenStatus(r), Target[Op(r)])
            THEN Proceed(r, "apply") /\ UNCHANGED txn
            ELSE Discard(r)
    /\ UNCHANGED <<dbVars, events>>

\* Mutant: the status is read after it was overwritten, too late for the record.
ReadForUpdateWithoutFrom(r) ==
    /\ request[r].step = "apply"
    /\ Proceed(r, IF SeenStatus(r) # Target[Op(r)] THEN "flush"
                  ELSE IF Op(r) = "upload_complete" THEN "publish"
                  ELSE "commit")
    /\ UNCHANGED <<dbVars, events, txn>>

\* apply_transition reads the row again, and does not judge what it finds.
\* mark_uploaded goes on whether or not anything changed.
ReadForUpdate(r) ==
    /\ request[r].step = "apply"
    /\ request' = [request EXCEPT
           ![r].from = SeenStatus(r),
           ![r].step = IF SeenStatus(r) # Target[Op(r)] THEN "flush"
                       ELSE IF Op(r) = "upload_complete" THEN "publish"
                       ELSE "commit"]
    /\ UNCHANGED <<dbVars, events, txn>>

\* Mutant: the route commits, and leaves the event for later.
FlushWithoutPublish(r) ==
    LET record == [from |-> request[r].from, to |-> Target[Op(r)], by |-> Actor(Op(r))]
    IN  /\ request[r].step = "flush"
        /\ ~Blocked(r, "episode")
        /\ txn' = [txn EXCEPT ![r].locks = @ \cup {"episode"},
                              ![r].status = Target[Op(r)],
                              ![r].segments = SeenSegments(r),
                              ![r].records = Append(@, record)]
        /\ Proceed(r, "commit")
        /\ UNCHANGED <<dbVars, events>>

\* UPDATE the status and INSERT the transition record, with the from_status read before.
Flush(r) ==
    LET record == [from |-> request[r].from, to |-> Target[Op(r)], by |-> Actor(Op(r))]
    IN  /\ request[r].step = "flush"
        /\ ~Blocked(r, "episode")
        /\ txn' = [txn EXCEPT ![r].locks = @ \cup {"episode"},
                              ![r].status = Target[Op(r)],
                              ![r].segments = SeenSegments(r),
                              ![r].records = Append(@, record)]
        /\ Proceed(r, IF Op(r) \in DOMAIN EventOf THEN "publish" ELSE "commit")
        /\ UNCHANGED <<dbVars, events>>

\* Mutant: the move on to processing sets the status and records nothing.
PublishUnrecorded(r) ==
    /\ request[r].step = "publish"
    /\ events' = [events EXCEPT ![Ep(r)][EventOf[Op(r)]] = @ + 1]
    /\ IF Op(r) = "upload_complete"
       THEN txn' = [txn EXCEPT ![r].status = "processing"]
       ELSE UNCHANGED txn
    /\ Proceed(r, IF Op(r) \in DOMAIN CounterOf THEN "read_counter" ELSE "commit")
    /\ UNCHANGED dbVars

\* The event leaves.  mark_uploaded then takes the Episode on to processing, in a
\* row it has locked.
Publish(r) ==
    LET ingested == [from |-> "uploaded", to |-> "processing", by |-> Actor(Op(r))]
    IN  /\ request[r].step = "publish"
        /\ events' = [events EXCEPT ![Ep(r)][EventOf[Op(r)]] = @ + 1]
        /\ IF Op(r) = "upload_complete"
           THEN txn' = [txn EXCEPT ![r].status = "processing",
                                   ![r].records = Append(@, ingested)]
           ELSE UNCHANGED txn
        /\ Proceed(r, IF Op(r) \in DOMAIN CounterOf THEN "read_counter" ELSE "commit")
        /\ UNCHANGED dbVars

\* increment_counters: read the task row, then write it back one higher.
ReadCounter(r) ==
    /\ request[r].step = "read_counter"
    /\ request' = [request EXCEPT ![r].step = "write_counter",
                                  ![r].count = counters[CounterOf[Op(r)]]]
    /\ UNCHANGED <<dbVars, events, txn>>

WriteCounter(r) ==
    /\ request[r].step = "write_counter"
    /\ ~Blocked(r, "task")
    /\ txn' = [txn EXCEPT ![r].locks = @ \cup {"task"},
                          ![r].counters =
                              [counters EXCEPT ![CounterOf[Op(r)]] = request[r].count + 1]]
    /\ Proceed(r, "commit")
    /\ UNCHANGED <<dbVars, events>>

\* r submits a list that it found in place, in a row that another submission has
\* changed since: its UPDATE leaves that row's list to the other.
LeavesOut(r) ==
    \/ request[r].noted = request[r].payload /\ txn[r].annotation.segments # request[r].payload
    \/ request[r].found = request[r].payload /\ txn[r].segments # request[r].payload

\* session.commit at the end of the route.
Commit(r) ==
    LET w == txn[r]
        e == Ep(r)
    IN  /\ request[r].step = "commit"
        /\ status' = [status EXCEPT ![e] = IF "episode" \in w.locks THEN w.status ELSE @]
        /\ segments' = [segments EXCEPT ![e] = IF "episode" \in w.locks THEN w.segments ELSE @]
        /\ trail' = [trail EXCEPT ![e] = @ \o w.records]
        /\ annotation' =
               [annotation EXCEPT ![e] = IF "annotation" \in w.locks THEN w.annotation ELSE @]
        /\ counters' = IF "task" \in w.locks THEN w.counters ELSE counters
        /\ overtaken' = IF Op(r) # "annotate" THEN overtaken
                        ELSE IF LeavesOut(r) THEN overtaken \cup {e} ELSE overtaken \ {e}
        /\ Discard(r)
        /\ UNCHANGED events

\* Mutant: increment_counters commits on its own.
AbortKeepsCounters(r) ==
    /\ request[r].step # "idle"
    /\ counters' = IF "task" \in txn[r].locks THEN txn[r].counters ELSE counters
    /\ Discard(r)
    /\ UNCHANGED <<status, segments, trail, annotation, overtaken, events>>

\* A statement or the commit fails, or the process dies: get_session rolls back.
\* What was published stays published.
Abort(r) ==
    /\ request[r].step # "idle"
    /\ Discard(r)
    /\ UNCHANGED <<dbVars, events>>

------------------------------------------------------------------------------
Continue(r) ==
    \/ ReadAnnotation(r)
    \/ WriteAnnotation(r)
    \/ ReadEpisode(r)
    \/ Attach(r)
    \/ Guard(r)
    \/ ReadForUpdate(r)
    \/ Flush(r)
    \/ Publish(r)
    \/ ReadCounter(r)
    \/ WriteCounter(r)
    \/ Commit(r)

Receive(r, e) ==
    \/ \E o \in HumanOperation, p \in AnySegments : SubmitDecision(r, o, e, p)
    \/ UploadComplete(r, e)
    \/ \E o \in {"algo_succeeded", "algo_failed"}, p \in AnySegments : AlgoResult(r, o, e, p)
    \/ \E o \in Operation : RequestTransition(r, o, e)

Next ==
    \/ \E e \in Episode : CreateEpisode(e)
    \/ \E r \in Request, e \in Episode : Receive(r, e)
    \/ \E r \in Request : Continue(r) \/ Abort(r)

Spec == Init /\ [][Next]_vars

------------------------------------------------------------------------------
\* The type invariant.

RequestType ==
    [step : Step, op : Operation \cup {None}, episode : Episode \cup {None},
     payload : AnySegments, noted : AnySegments, found : AnySegments,
     from : Status \cup {Absent}, revision : Nat, count : Nat]

WritesType ==
    [locks : SUBSET Table, status : Status \cup {Absent}, segments : AnySegments,
     records : Seq(TransitionRecord), annotation : Annotation, counters : Counters]

TypeOK ==
    /\ status \in [Episode -> Status \cup {Absent}]
    /\ segments \in [Episode -> AnySegments]
    /\ trail \in [Episode -> Seq(TransitionRecord)]
    /\ annotation \in [Episode -> Annotation]
    /\ counters \in Counters
    /\ overtaken \subseteq Episode
    /\ events \in [Episode -> [EventKey -> Nat]]
    /\ request \in [Request -> RequestType]
    /\ txn \in [Request -> WritesType]

------------------------------------------------------------------------------
\* Safety, whatever the interleaving.

\* Records in e's trail that lead to target.
RecordsTo(e, target) == {i \in DOMAIN trail[e] : trail[e][i].to = target}

\* The audit trail always accounts for the status a user sees: the status of an
\* Episode is where its last transition record went (apply_transition writes both).
AuditTrail ==
    \A e \in Episode :
        IF status[e] = Absent THEN trail[e] = <<>> ELSE WalkEnd(trail[e]) = status[e]

\* A status that stands for a human decision is backed by that decision in the
\* annotations row: nobody finds an Episode published whose review says reject, or
\* in preparation whose verification says reject, however two reviewers race
\* (ReviewService writes the row before the transition, and its lock orders them).
DecisionOnFile ==
    \A e \in Episode :
        /\ status[e] = "published" => annotation[e].review = "approve"
        /\ status[e] = "annotation_processing" => annotation[e].verify = "approve"

\* What waits for review is what the annotator submitted: the two copies of the
\* segments, on the Episode and on the annotation, agree (submit_annotation assigns
\* both; algo results only one of them).  They may differ for one reason only: the
\* submission repeated the list it loaded from one of the rows, SQLAlchemy left that
\* column out, and a submission that overlapped had changed it in between.
ReviewSeesEpisodeSegments ==
    \A e \in Episode :
        status[e] = "annotation_review" =>
            segments[e] = annotation[e].segments \/ e \in overtaken

\* No committed move goes unannounced: a transition with an event never commits
\* more often than the event was published, whatever fails in between.
NoMoveWithoutEvent ==
    \A e \in Episode, o \in DOMAIN EventOf :
        Cardinality(RecordsTo(e, Target[o])) <= events[e][EventOf[o]]

\* The table whose row lock r's next statement needs.
Needs ==
    [write_annotation |-> "annotation", attach |-> "episode", flush |-> "episode",
     write_counter |-> "task"]
Waiting(r) == request[r].step \in DOMAIN Needs /\ Blocked(r, Needs[request[r].step])

\* Requests never all wait for each other: while one is in flight, one can go on
\* (every route locks the annotations row, the episodes row and the task row in
\* this order, and whatever ends a request releases its locks).
SomeRequestCanGoOn ==
    (\E r \in Request : request[r].step # "idle") =>
        \E r \in Request : request[r].step # "idle" /\ ~Waiting(r)

------------------------------------------------------------------------------
\* Safety while requests do not overlap: one at a time for each Episode (~Overlap),
\* and for the counters, which all Episodes share, one at a time in all.

\* The collect task's counters are what the trails say was collected and published:
\* a replayed callback or an aborted request never counts (increment_counters).
CountersMatchTrail ==
    LET Total(target) == Cardinality(UNION {{e} \X RecordsTo(e, target) : e \in Episode})
    IN  counters = [collected |-> Total("uploaded"), published |-> Total("published")]

\* The revision of an annotation counts the times a reviewer sent it back.
RevisionCountsReturns ==
    \A e \in Episode :
        annotation[e].revision > 0 =>
            annotation[e].revision = 1 + Cardinality(
                {i \in RecordsTo(e, "annotation_pending") : trail[e][i].by = "user"})

\* What is published is what was reviewed: the Episode's segments, which datasets
\* are built from, are still the annotation's.
PublishedAsReviewed ==
    \A e \in Episode : status[e] = "published" => segments[e] = annotation[e].segments

\* The committed database follows the abstract state machine.
EdgeOf(record) == [from |-> record.from, to |-> record.to]
Machine == INSTANCE EpisodeStateMachine
               WITH trail <- [e \in Episode |-> [i \in DOMAIN trail[e] |-> EdgeOf(trail[e][i])]]
ImplementsStateMachine == Machine!Spec

------------------------------------------------------------------------------
\* What the repository says of this code and what the code does not do.

\* repositories/episode.py on recording a transition: "illegal transitions are
\* stopped by the lifecycle's guard", so every record is an edge of the machine.
RecordedEdgesLegal ==
    \A e \in Episode : \A i \in DOMAIN trail[e] :
        CanTransition(trail[e][i].from, trail[e][i].to)

\* api/routes/callbacks.py: algo-result drives processing to verification_pending or
\* failed, annotation-processing drives annotation_processing to annotation_pending
\* or failed; the Scheduler moves nothing else.
SchedulerDrivesItsStages ==
    \A e \in Episode : \A i \in DOMAIN trail[e] :
        trail[e][i].by = "scheduler" =>
            \/ /\ trail[e][i].from = "processing"
               /\ trail[e][i].to \in {"verification_pending", "failed"}
            \/ /\ trail[e][i].from = "annotation_processing"
               /\ trail[e][i].to \in {"annotation_pending", "failed"}
==============================================================================
