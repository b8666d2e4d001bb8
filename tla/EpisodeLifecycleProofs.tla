------------------------ MODULE EpisodeLifecycleProofs ------------------------
(***************************************************************************)
(* What holds of EpisodeLifecycle for every set of Episodes, any number of *)
(* requests in flight and no bound on trails or events: typing, the        *)
(* exclusion that row locks give, progress of some request, decisions on   *)
(* file, the audit trail, that every move was announced, and that what     *)
(* waits for review is what was submitted.  Then what holds while requests *)
(* on one Episode do not overlap: the abstract state machine, revisions,   *)
(* published segments and, with one request at a time, the counters.       *)
(***************************************************************************)
EXTENDS EpisodeLifecycle, FiniteSetTheorems, SequenceTheorems, TLAPS

InFlight(r) == request[r].step # "idle"

------------------------------------------------------------------------------
\* Control: what a request's next statement says about it.

\* Steps that come after the guard of a human decision.
PastGuard == {"apply", "flush", "publish", "read_counter", "write_counter", "commit"}

\* A request in flight is about a known Episode, and each statement is only
\* reached by the operations that have it.
ControlOf(r) ==
    /\ request[r].op \in Operation
    /\ request[r].episode \in Episode
    /\ status[Ep(r)] \in Status
    /\ "episode" \in txn[r].locks => txn[r].status \in Status
    /\ request[r].step \in {"read_annotation", "write_annotation"} => Op(r) \in HumanOperation
    /\ request[r].step = "read_episode" => Op(r) = "annotate"
    /\ request[r].step = "flush" => request[r].from \in Status
    /\ request[r].step = "publish" => Op(r) \in DOMAIN EventOf
    /\ request[r].step \in {"read_counter", "write_counter"} => Op(r) \in DOMAIN CounterOf

Control ==
    \A r \in Request : IF InFlight(r) THEN ControlOf(r) ELSE txn[r] = NoWrites

------------------------------------------------------------------------------
\* Locks: when a table's row may be locked, and that two transactions never lock
\* the same row.

LocksOf(r) ==
    /\ "annotation" \in txn[r].locks => request[r].step \in PastGuard \cup {"read_episode", "attach", "guard"}
    /\ "episode" \in txn[r].locks => request[r].step \in PastGuard \cup {"guard"}
    /\ "task" \in txn[r].locks => request[r].step = "commit"

SameRow(r, q, t) == t = "task" \/ request[r].episode = request[q].episode

LocksExclude ==
    \A r, q \in Request : \A t \in txn[r].locks :
        r # q /\ SameRow(r, q, t) => t \notin txn[q].locks

Locks == (\A r \in Request : LocksOf(r)) /\ LocksExclude

------------------------------------------------------------------------------
\* Decisions: a decision is written under the lock of the annotations row, and what
\* the guard then admits cannot be undone by anyone else until that lock is released.

\* An annotations row that does not exist has no decisions.
FreshRow(row) == row.revision = 0 => row.verify = "none" /\ row.review = "none"

\* A human decision past its first write holds the annotations row.
HoldsAnnotation(r) ==
    Op(r) \in HumanOperation /\ request[r].step \in PastGuard \cup {"read_episode", "attach", "guard"}
        => "annotation" \in txn[r].locks

\* What r would write to the annotations row: its own decision, else what is there.
AnnotationColumns(r) ==
    LET row == txn[r].annotation
        e == request[r].episode
    IN  "annotation" \in txn[r].locks =>
            /\ row.revision > 0
            /\ row.verify = CASE Op(r) = "verify_approve" -> "approve"
                              [] Op(r) = "verify_reject"  -> "reject"
                              [] OTHER                    -> annotation[e].verify
            /\ row.review = CASE Op(r) = "review_approve" -> "approve"
                              [] Op(r) = "review_reject"  -> "reject"
                              [] OTHER                    -> annotation[e].review

\* What r would write to the status.
StatusColumn(r) ==
    "episode" \in txn[r].locks => txn[r].status \in {status[Ep(r)], Target[Op(r)], "processing"}

\* A rejection writes nothing to the episodes row before its guard.
RejectionUnwritten(r) ==
    Op(r) \in {"verify_reject", "review_reject"} =>
        /\ request[r].step \notin {"read_episode", "attach"}
        /\ request[r].step = "guard" => "episode" \notin txn[r].locks

\* A rejection that the guard let through finds nothing approved.
RejectionGuarded(r) ==
    request[r].step \in PastGuard =>
        /\ Op(r) = "verify_reject" => status[Ep(r)] # "annotation_processing"
        /\ Op(r) = "review_reject" => status[Ep(r)] # "published"

DecisionsOf(r) ==
    /\ request[r].revision > 0 => annotation[Ep(r)].revision > 0
    /\ HoldsAnnotation(r)
    /\ AnnotationColumns(r)
    /\ StatusColumn(r)
    /\ RejectionUnwritten(r)
    /\ RejectionGuarded(r)

Decisions ==
    /\ \A e \in Episode : FreshRow(annotation[e])
    /\ \A r \in Request : InFlight(r) => DecisionsOf(r)

------------------------------------------------------------------------------
\* Trails: the records of a transaction lead to the status it would write.

TrailOf(r) ==
    /\ "episode" \in txn[r].locks =>
           WalkEnd(trail[Ep(r)] \o txn[r].records) = txn[r].status
    /\ "episode" \notin txn[r].locks => txn[r].records = <<>>
    /\ request[r].step = "publish" => "episode" \in txn[r].locks \/ Op(r) # "upload_complete"
    /\ request[r].step \in {"apply", "flush"} /\ Op(r) = "upload_complete"
           => "episode" \in txn[r].locks
    /\ request[r].step = "guard" => Op(r) # "upload_complete"

Trails == \A r \in Request : InFlight(r) => TrailOf(r)

------------------------------------------------------------------------------
(***************************************************************************)
(* Effects: what each step does to the request that takes it, field by     *)
(* field.                                                                  *)
(***************************************************************************)
TypeControl == TypeOK /\ Control

\* Only r's request and transaction change.
OnlyOf(r) == \A q \in Request \ {r} : request'[q] = request[q] /\ txn'[q] = txn[q]

\* r's request is over.
Ends(r) == request'[r] = Idle /\ txn'[r] = NoWrites /\ OnlyOf(r)

\* r's request goes on with step; what it has read may change with it.
GoesOn(r, step) ==
    /\ request'[r].step = step
    /\ request'[r].op = request[r].op
    /\ request'[r].episode = request[r].episode
    /\ OnlyOf(r)

Typed == request' \in [Request -> RequestType] /\ txn' \in [Request -> WritesType]

LEMMA OperationFacts ==
    /\ \A o \in Operation : Target[o] \in Status /\ Actor(o) \in ActorName
    /\ HumanOperation \subseteq Operation
    /\ DOMAIN EventOf \subseteq Operation
    /\ DOMAIN CounterOf \subseteq DOMAIN EventOf
    /\ \A o \in DOMAIN EventOf : EventOf[o] \in EventKey
    /\ \A o \in DOMAIN CounterOf : CounterOf[o] \in {"collected", "published"}
    /\ "upload_complete" \in DOMAIN EventOf
    /\ Absent \notin Status
    /\ {"processing", "uploaded", InitialState} \subseteq Status
<1>1. \A o \in Operation : Target[o] \in Status
  BY DEF Operation, Target, Status, Transitions
<1>2. \A o \in Operation : Actor(o) \in ActorName
  BY DEF Operation, Target, Actor, ActorName, TriggeredBy, HumanOperation, Expected
<1>3. QED
  BY <1>1, <1>2 DEF Operation, Target, HumanOperation, Expected, EventOf, CounterOf, EventKey,
                    Status, Transitions, Absent, InitialState

LEMMA EmptyTyped == Idle \in RequestType /\ NoWrites \in WritesType
  BY DEF Idle, Fresh, NoWrites, RequestType, WritesType, Step, AnySegments, Annotation, NoAnnotation,
         Decision, Counters

LEMMA DiscardEnds ==
    ASSUME TypeOK, NEW r \in Request, Discard(r)
    PROVE  Typed /\ Ends(r)
  BY EmptyTyped DEF TypeOK, Discard, Typed, Ends, OnlyOf

LEMMA ProceedGoesOn ==
    ASSUME TypeOK, NEW r \in Request, NEW s \in Step, Proceed(r, s),
           txn' \in [Request -> WritesType], \A q \in Request \ {r} : txn'[q] = txn[q]
    PROVE  /\ Typed /\ GoesOn(r, s)
           /\ request'[r].from = request[r].from
           /\ request'[r].revision = request[r].revision
           /\ request'[r].payload = request[r].payload
  BY DEF TypeOK, Proceed, Typed, GoesOn, OnlyOf, RequestType

LEMMA InFlightEpisode ==
    ASSUME TypeControl, NEW r \in Request, InFlight(r)
    PROVE  /\ request[r] \in RequestType /\ txn[r] \in WritesType
           /\ Ep(r) \in Episode /\ Op(r) \in Operation
           /\ SeenStatus(r) \in Status /\ SeenSegments(r) \in AnySegments
           /\ annotation[Ep(r)] \in Annotation
  BY DEF TypeControl, TypeOK, Control, ControlOf, Ep, Op, SeenStatus, SeenSegments, WritesType

LEMMA ReadAnnotationEffect ==
    ASSUME TypeControl, NEW r \in Request, ReadAnnotation(r)
    PROVE  /\ Typed
           /\ \/ Ends(r)
              \/ /\ GoesOn(r, "write_annotation")
                 /\ request'[r].revision = annotation[Ep(r)].revision
                 /\ txn' = txn
<1>1. /\ request[r] \in RequestType /\ annotation[Ep(r)].revision \in Nat
      /\ annotation[Ep(r)].segments \in AnySegments
  BY InFlightEpisode DEF ReadAnnotation, InFlight, Annotation
<1>2. CASE Discard(r)
  BY <1>2, DiscardEnds DEF TypeControl
<1>3. CASE /\ request' = [request EXCEPT ![r].step = "write_annotation",
                                        ![r].revision = annotation[Ep(r)].revision,
                                        ![r].noted = annotation[Ep(r)].segments]
           /\ UNCHANGED txn
  BY <1>1, <1>3 DEF TypeControl, TypeOK, Typed, GoesOn, OnlyOf, RequestType, Step
<1>4. QED
  BY <1>2, <1>3 DEF ReadAnnotation

LEMMA AnnotationWrittenTyped ==
    ASSUME TypeControl, NEW r \in Request, request[r].step = "write_annotation"
    PROVE  AnnotationWritten(r) \in Annotation
<1> DEFINE row == IF request[r].revision = 0
                  THEN [NoAnnotation EXCEPT !.revision = 1]
                  ELSE annotation[Ep(r)]
<1>1. request[r] \in RequestType /\ annotation[Ep(r)] \in Annotation
  BY InFlightEpisode DEF InFlight
<1>2. row \in Annotation
  BY <1>1 DEF Annotation, NoAnnotation, AnySegments, Decision
<1>3. Op(r) \in HumanOperation
  BY DEF TypeControl, Control, ControlOf, InFlight
<1> HIDE DEF row
<1>4. CASE Op(r) = "annotate"
  <2>1. Submitted(r) \in AnySegments
    BY <1>1 DEF Submitted, Updated, Annotation, RequestType
  <2>2. QED
    BY <1>2, <1>4, <2>1 DEF AnnotationWritten, row, Annotation
<1>5. CASE Op(r) \in {"verify_approve", "verify_reject", "review_approve"}
  <2>1. AnnotationWritten(r) \in
            {[row EXCEPT !.verify = d] : d \in Decision} \cup
            {[row EXCEPT !.review = d] : d \in Decision}
    BY <1>5 DEF AnnotationWritten, row, Decision
  <2>2. QED
    <3>1. \A d \in Decision : [row EXCEPT !.verify = d] \in Annotation
      BY <1>2 DEF Annotation
    <3>2. \A d \in Decision : [row EXCEPT !.review = d] \in Annotation
      BY <1>2 DEF Annotation
    <3>3. QED
      BY <2>1, <3>1, <3>2
<1>6. CASE Op(r) = "review_reject"
  <2>1. AnnotationWritten(r) =
            [row EXCEPT !.review = "reject", !.revision = request[r].revision + 1]
    BY <1>6 DEF AnnotationWritten, row
  <2>2. request[r].revision + 1 \in Nat
    BY <1>1 DEF RequestType
  <2>3. QED
    BY <1>2, <2>1, <2>2 DEF Annotation, Decision
<1>7. QED
  BY <1>3, <1>4, <1>5, <1>6 DEF HumanOperation, Expected

LEMMA WriteAnnotationEffect ==
    ASSUME TypeControl, NEW r \in Request, WriteAnnotation(r)
    PROVE  /\ Typed
           /\ \/ Ends(r)
              \/ /\ request[r].revision = 0 => ~(annotation[Ep(r)].revision > 0)
                 /\ GoesOn(r, IF Op(r) = "annotate" THEN "read_episode" ELSE "guard")
                 /\ request'[r].revision = request[r].revision
                 /\ txn'[r].locks = txn[r].locks \cup {"annotation"}
                 /\ txn'[r].annotation = AnnotationWritten(r)
                 /\ txn'[r].status = txn[r].status
                 /\ txn'[r].records = txn[r].records
<1>1. AnnotationWritten(r) \in Annotation /\ txn[r] \in WritesType
  BY AnnotationWrittenTyped, InFlightEpisode DEF WriteAnnotation, InFlight
<1>2. CASE Discard(r)
  BY <1>2, DiscardEnds DEF TypeControl
<1>3. CASE /\ ~(request[r].revision = 0 /\ annotation[Ep(r)].revision > 0)
           /\ txn' = [txn EXCEPT ![r].locks = @ \cup {"annotation"},
                                 ![r].annotation = AnnotationWritten(r)]
           /\ Proceed(r, IF Op(r) = "annotate" THEN "read_episode" ELSE "guard")
  <2>1. /\ txn' \in [Request -> WritesType]
        /\ \A q \in Request \ {r} : txn'[q] = txn[q]
        /\ txn'[r].locks = txn[r].locks \cup {"annotation"}
        /\ txn'[r].annotation = AnnotationWritten(r)
        /\ txn'[r].status = txn[r].status
        /\ txn'[r].records = txn[r].records
    BY <1>1, <1>3 DEF TypeControl, TypeOK, WritesType, Table
  <2>2. QED
    BY <1>3, <2>1, ProceedGoesOn DEF TypeControl, Step
<1>4. QED
  BY <1>2, <1>3 DEF WriteAnnotation

LEMMA ReadEpisodeEffect ==
    ASSUME TypeControl, NEW r \in Request, ReadEpisode(r)
    PROVE  /\ Typed
           /\ GoesOn(r, "attach")
           /\ request'[r].revision = request[r].revision
           /\ txn' = txn
           /\ request[r].step = "read_episode"
           /\ Op(r) = "annotate"
<1>1. request[r] \in RequestType /\ SeenSegments(r) \in AnySegments
  BY InFlightEpisode DEF ReadEpisode, InFlight
<1>2. Op(r) = "annotate"
  BY DEF ReadEpisode, TypeControl, Control, ControlOf, InFlight
<1>3. QED
  BY <1>1, <1>2 DEF ReadEpisode, TypeControl, TypeOK, Typed, GoesOn, OnlyOf, RequestType, Step

LEMMA AttachEffect ==
    ASSUME TypeControl, NEW r \in Request, Attach(r)
    PROVE  /\ Typed
           /\ GoesOn(r, IF Op(r) = "upload_complete" THEN "apply" ELSE "guard")
           /\ request'[r].revision = request[r].revision
           /\ txn'[r].locks = txn[r].locks \cup {"episode"}
           /\ txn'[r].status = SeenStatus(r)
           /\ txn'[r].annotation = txn[r].annotation
           /\ txn'[r].records = txn[r].records
<1>1. /\ request[r] \in RequestType /\ txn[r] \in WritesType
      /\ SeenStatus(r) \in Status /\ SeenSegments(r) \in AnySegments
  BY InFlightEpisode DEF Attach, InFlight
<1>2. Attached(r) \in AnySegments
  BY <1>1 DEF Attached, Updated, RequestType
<1>3. /\ txn' \in [Request -> WritesType]
      /\ \A q \in Request \ {r} : txn'[q] = txn[q]
      /\ txn'[r].locks = txn[r].locks \cup {"episode"}
      /\ txn'[r].status = SeenStatus(r)
      /\ txn'[r].annotation = txn[r].annotation
      /\ txn'[r].records = txn[r].records
  BY <1>1, <1>2 DEF Attach, TypeControl, TypeOK, WritesType, Table
<1>4. QED
  BY <1>3, ProceedGoesOn DEF Attach, TypeControl, Step

LEMMA GuardEffect ==
    ASSUME TypeControl, NEW r \in Request, Guard(r)
    PROVE  /\ Typed
           /\ \/ Ends(r)
              \/ /\ \/ GoesOn(r, "commit") /\ SeenStatus(r) = Target[Op(r)]
                    \/ GoesOn(r, "apply") /\ CanTransition(SeenStatus(r), Target[Op(r)])
                 /\ request'[r].revision = request[r].revision
                 /\ txn' = txn
<1>1. CASE Discard(r)
  BY <1>1, DiscardEnds DEF TypeControl
<1>2. CASE /\ SeenStatus(r) = Target[Op(r)]
           /\ Proceed(r, "commit") /\ UNCHANGED txn
  BY <1>2, ProceedGoesOn DEF TypeControl, TypeOK, Step
<1>3. CASE /\ CanTransition(SeenStatus(r), Target[Op(r)])
           /\ Proceed(r, "apply") /\ UNCHANGED txn
  BY <1>3, ProceedGoesOn DEF TypeControl, TypeOK, Step
<1>4. QED
  BY <1>1, <1>2, <1>3 DEF Guard

LEMMA ReadForUpdateEffect ==
    ASSUME TypeControl, NEW r \in Request, ReadForUpdate(r)
    PROVE  /\ Typed
           /\ GoesOn(r, IF SeenStatus(r) # Target[Op(r)] THEN "flush"
                        ELSE IF Op(r) = "upload_complete" THEN "publish" ELSE "commit")
           /\ request'[r].from = SeenStatus(r)
           /\ request'[r].revision = request[r].revision
           /\ txn' = txn
<1>1. request[r] \in RequestType /\ SeenStatus(r) \in Status
  BY InFlightEpisode DEF ReadForUpdate, InFlight
<1>2. QED
  BY <1>1 DEF ReadForUpdate, TypeControl, TypeOK, Typed, GoesOn, OnlyOf, RequestType, Step

LEMMA FlushEffect ==
    ASSUME TypeControl, NEW r \in Request, Flush(r)
    PROVE  /\ Typed
           /\ GoesOn(r, IF Op(r) \in DOMAIN EventOf THEN "publish" ELSE "commit")
           /\ request'[r].revision = request[r].revision
           /\ txn'[r].locks = txn[r].locks \cup {"episode"}
           /\ txn'[r].status = Target[Op(r)]
           /\ txn'[r].annotation = txn[r].annotation
           /\ \E x \in TransitionRecord :
                  x.to = Target[Op(r)] /\ txn'[r].records = Append(txn[r].records, x)
<1> DEFINE record == [from |-> request[r].from, to |-> Target[Op(r)], by |-> Actor(Op(r))]
<1>1. /\ txn[r] \in WritesType
      /\ SeenSegments(r) \in AnySegments /\ Target[Op(r)] \in Status
  BY InFlightEpisode, OperationFacts DEF Flush, InFlight
<1>2. record \in TransitionRecord
  BY InFlightEpisode, OperationFacts
     DEF Flush, InFlight, TypeControl, Control, ControlOf, TransitionRecord
<1>3. txn' = [txn EXCEPT ![r].locks = @ \cup {"episode"},
                         ![r].status = Target[Op(r)],
                         ![r].segments = SeenSegments(r),
                         ![r].records = Append(@, record)]
  BY DEF Flush
<1> HIDE DEF record
<1>4. Append(txn[r].records, record) \in Seq(TransitionRecord)
  BY <1>1, <1>2 DEF WritesType
<1>5. /\ txn' \in [Request -> WritesType]
      /\ \A q \in Request \ {r} : txn'[q] = txn[q]
      /\ txn'[r].locks = txn[r].locks \cup {"episode"}
      /\ txn'[r].status = Target[Op(r)]
      /\ txn'[r].annotation = txn[r].annotation
      /\ txn'[r].records = Append(txn[r].records, record)
  BY <1>1, <1>3, <1>4 DEF TypeControl, TypeOK, WritesType, Table
<1>6. record.to = Target[Op(r)]
  BY DEF record
<1>7. Proceed(r, IF Op(r) \in DOMAIN EventOf THEN "publish" ELSE "commit")
  BY DEF Flush
<1>8. QED
  BY <1>2, <1>5, <1>6, <1>7, ProceedGoesOn DEF TypeControl, Step

LEMMA PublishEffect ==
    ASSUME TypeControl, NEW r \in Request, Publish(r)
    PROVE  /\ Typed
           /\ events' \in [Episode -> [EventKey -> Nat]]
           /\ GoesOn(r, IF Op(r) \in DOMAIN CounterOf THEN "read_counter" ELSE "commit")
           /\ request'[r].revision = request[r].revision
           /\ \/ txn' = txn /\ Op(r) # "upload_complete"
              \/ /\ Op(r) = "upload_complete"
                 /\ txn'[r].locks = txn[r].locks
                 /\ txn'[r].status = "processing"
                 /\ txn'[r].annotation = txn[r].annotation
                 /\ \E x \in TransitionRecord :
                        x.to = "processing" /\ txn'[r].records = Append(txn[r].records, x)
<1> DEFINE ingested == [from |-> "uploaded", to |-> "processing", by |-> Actor(Op(r))]
<1>1. txn[r] \in WritesType /\ Ep(r) \in Episode /\ Op(r) \in DOMAIN EventOf
  BY InFlightEpisode DEF Publish, InFlight, TypeControl, Control, ControlOf
<1>2. events' \in [Episode -> [EventKey -> Nat]]
  <2>1. EventOf[Op(r)] \in EventKey
    BY <1>1, OperationFacts
  <2>2. QED
    BY <1>1, <2>1 DEF Publish, TypeControl, TypeOK
<1>3. ingested \in TransitionRecord
  BY <1>1, InFlightEpisode, OperationFacts DEF Publish, InFlight, TransitionRecord
<1>4. Proceed(r, IF Op(r) \in DOMAIN CounterOf THEN "read_counter" ELSE "commit")
  BY DEF Publish
<1>5. CASE Op(r) # "upload_complete" /\ UNCHANGED txn
  BY <1>2, <1>4, <1>5, ProceedGoesOn DEF TypeControl, TypeOK, Step
<1>6. CASE /\ Op(r) = "upload_complete"
           /\ txn' = [txn EXCEPT ![r].status = "processing",
                                 ![r].records = Append(@, ingested)]
  <2> HIDE DEF ingested
  <2>1. Append(txn[r].records, ingested) \in Seq(TransitionRecord)
    BY <1>1, <1>3 DEF WritesType
  <2>2. /\ txn' \in [Request -> WritesType]
        /\ \A q \in Request \ {r} : txn'[q] = txn[q]
        /\ txn'[r].locks = txn[r].locks
        /\ txn'[r].status = "processing"
        /\ txn'[r].annotation = txn[r].annotation
        /\ txn'[r].records = Append(txn[r].records, ingested)
    BY <1>1, <1>6, <2>1, OperationFacts DEF TypeControl, TypeOK, WritesType
  <2>3. ingested.to = "processing"
    BY DEF ingested
  <2>4. QED
    BY <1>2, <1>3, <1>4, <1>6, <2>2, <2>3, ProceedGoesOn DEF TypeControl, Step
<1>7. QED
  BY <1>5, <1>6 DEF Publish

LEMMA ReadCounterEffect ==
    ASSUME TypeControl, NEW r \in Request, ReadCounter(r)
    PROVE  /\ Typed
           /\ GoesOn(r, "write_counter")
           /\ request'[r].revision = request[r].revision
           /\ txn' = txn
<1>1. request[r] \in RequestType /\ counters[CounterOf[Op(r)]] \in Nat
  <2>1. CounterOf[Op(r)] \in {"collected", "published"}
    BY OperationFacts DEF ReadCounter, TypeControl, Control, ControlOf, InFlight
  <2>2. QED
    BY <2>1, InFlightEpisode DEF ReadCounter, InFlight, TypeControl, TypeOK, Counters
<1>2. QED
  BY <1>1 DEF ReadCounter, TypeControl, TypeOK, Typed, GoesOn, OnlyOf, RequestType, Step

LEMMA WriteCounterEffect ==
    ASSUME TypeControl, NEW r \in Request, WriteCounter(r)
    PROVE  /\ Typed
           /\ GoesOn(r, "commit")
           /\ request'[r].revision = request[r].revision
           /\ txn'[r].locks = txn[r].locks \cup {"task"}
           /\ txn'[r].status = txn[r].status
           /\ txn'[r].annotation = txn[r].annotation
           /\ txn'[r].records = txn[r].records
<1> DEFINE written == [counters EXCEPT ![CounterOf[Op(r)]] = request[r].count + 1]
<1>1. written \in Counters
  <2>1. CounterOf[Op(r)] \in {"collected", "published"} /\ request[r].count \in Nat
    BY OperationFacts, InFlightEpisode
       DEF WriteCounter, TypeControl, Control, ControlOf, InFlight, RequestType
  <2>2. QED
    BY <2>1 DEF TypeControl, TypeOK, Counters
<1>2. txn[r] \in WritesType
  BY InFlightEpisode DEF WriteCounter, InFlight
<1>3. txn' = [txn EXCEPT ![r].locks = @ \cup {"task"}, ![r].counters = written]
  BY DEF WriteCounter
<1> HIDE DEF written
<1>4. /\ txn' \in [Request -> WritesType]
      /\ \A q \in Request \ {r} : txn'[q] = txn[q]
      /\ txn'[r].locks = txn[r].locks \cup {"task"}
      /\ txn'[r].status = txn[r].status
      /\ txn'[r].annotation = txn[r].annotation
      /\ txn'[r].records = txn[r].records
  BY <1>1, <1>2, <1>3 DEF TypeControl, TypeOK, WritesType, Table
<1>5. QED
  BY <1>4, ProceedGoesOn DEF WriteCounter, TypeControl, Step

LEMMA ArriveEffect ==
    ASSUME TypeControl, NEW r \in Request, NEW e \in Episode, Receive(r, e)
    PROVE  \E o \in Operation, step \in {"read_annotation", "attach", "apply"} :
               /\ Typed
               /\ request[r].step = "idle"
               /\ request'[r].step = step
               /\ request'[r].op = o
               /\ request'[r].episode = e
               /\ request'[r].revision = 0
               /\ OnlyOf(r)
               /\ txn' = txn
               /\ status[e] \in Status
               /\ step = "read_annotation" <=> o \in HumanOperation
               /\ step = "apply" => o # "upload_complete"
               /\ UNCHANGED <<dbVars, events>>
<1>1. ASSUME NEW o \in Operation, NEW p \in AnySegments, NEW found \in AnySegments,
             NEW step \in {"read_annotation", "attach", "apply"},
             Arrive(r, o, e, p, found, step)
      PROVE  /\ Typed
             /\ request[r].step = "idle"
             /\ request'[r].step = step
             /\ request'[r].op = o
             /\ request'[r].episode = e
             /\ request'[r].revision = 0
             /\ OnlyOf(r)
             /\ txn' = txn
             /\ status[e] \in Status
             /\ UNCHANGED <<dbVars, events>>
  <2>1. status[e] \in Status
    BY <1>1 DEF Arrive, Admitted, TypeControl, TypeOK
  <2> DEFINE fresh == Fresh(step, o, e, p, found)
  <2>2. fresh \in RequestType
    BY DEF Fresh, RequestType, Step, AnySegments, TypeControl, TypeOK
  <2>3. /\ fresh.step = step
        /\ fresh.op = o
        /\ fresh.episode = e
        /\ fresh.revision = 0
    BY DEF Fresh
  <2>4. QED
    BY <1>1, <2>1, <2>2, <2>3 DEF Arrive, TypeControl, TypeOK, Typed, OnlyOf
<1>2. ASSUME NEW o \in HumanOperation, NEW p \in AnySegments, SubmitDecision(r, o, e, p)
      PROVE  o \in Operation /\ Arrive(r, o, e, p, NoSegments, "read_annotation")
  BY <1>2, OperationFacts DEF SubmitDecision
<1>3. ASSUME UploadComplete(r, e)
      PROVE  Arrive(r, "upload_complete", e, NoSegments, NoSegments, "attach")
  BY <1>3 DEF UploadComplete
<1>4. ASSUME NEW o \in {"algo_succeeded", "algo_failed"}, NEW p \in AnySegments,
             AlgoResult(r, o, e, p)
      PROVE  segments[e] \in AnySegments /\ Arrive(r, o, e, p, segments[e], "attach")
  BY <1>4 DEF AlgoResult, TypeControl, TypeOK
<1>5. ASSUME NEW o \in Operation, RequestTransition(r, o, e)
      PROVE  /\ Arrive(r, o, e, NoSegments, NoSegments, "apply")
             /\ o \notin HumanOperation \cup {"upload_complete"}
  BY <1>5 DEF RequestTransition, HumanOperation, Expected
<1>6. /\ NoSegments \in AnySegments
      /\ {"upload_complete", "algo_succeeded", "algo_failed"} \subseteq Operation \ HumanOperation
  BY DEF AnySegments, Operation, Target, HumanOperation, Expected
<1>7. QED
  BY <1>1, <1>2, <1>3, <1>4, <1>5, <1>6 DEF Receive

\* Commit writes what the transaction wrote to the rows it locked.
LEMMA CommitEffect ==
    ASSUME TypeControl, NEW r \in Request, Commit(r)
    PROVE  /\ Typed /\ Ends(r) /\ InFlight(r) /\ Ep(r) \in Episode
           /\ \A e \in Episode \ {Ep(r)} :
                  status'[e] = status[e] /\ trail'[e] = trail[e] /\ annotation'[e] = annotation[e]
           /\ status'[Ep(r)] =
                  IF "episode" \in txn[r].locks THEN txn[r].status ELSE status[Ep(r)]
           /\ trail'[Ep(r)] = trail[Ep(r)] \o txn[r].records
           /\ annotation'[Ep(r)] =
                  IF "annotation" \in txn[r].locks THEN txn[r].annotation ELSE annotation[Ep(r)]
           /\ status' \in [Episode -> Status \cup {Absent}]
           /\ segments' \in [Episode -> AnySegments]
           /\ trail' \in [Episode -> Seq(TransitionRecord)]
           /\ annotation' \in [Episode -> Annotation]
           /\ counters' \in Counters
           /\ overtaken' \subseteq Episode
           /\ events' = events
<1>1. txn[r] \in WritesType /\ Ep(r) \in Episode /\ InFlight(r)
  BY InFlightEpisode DEF Commit, InFlight
<1>2. Typed /\ Ends(r)
  BY DiscardEnds DEF Commit, TypeControl
<1>3. trail[Ep(r)] \o txn[r].records \in Seq(TransitionRecord)
  BY <1>1 DEF TypeControl, TypeOK, WritesType
<1>4. /\ trail' \in [Episode -> Seq(TransitionRecord)]
      /\ trail'[Ep(r)] = trail[Ep(r)] \o txn[r].records
      /\ \A e \in Episode \ {Ep(r)} : trail'[e] = trail[e]
  BY <1>1, <1>3 DEF Commit, TypeControl, TypeOK
<1>5. /\ status' \in [Episode -> Status \cup {Absent}]
      /\ segments' \in [Episode -> AnySegments]
      /\ annotation' \in [Episode -> Annotation]
      /\ counters' \in Counters
      /\ overtaken' \subseteq Episode
  BY <1>1 DEF Commit, TypeControl, TypeOK, WritesType
<1>6. QED
  BY <1>1, <1>2, <1>4, <1>5 DEF Commit, TypeControl, TypeOK

\* The steps within a transaction.
Statement(r) ==
    \/ ReadAnnotation(r) \/ WriteAnnotation(r) \/ ReadEpisode(r) \/ Attach(r) \/ Guard(r)
    \/ ReadForUpdate(r) \/ Flush(r) \/ Publish(r) \/ ReadCounter(r) \/ WriteCounter(r)

\* A statement leaves the database alone, and only Publish touches the events.
LEMMA StatementEffect ==
    ASSUME NEW r \in Request, Statement(r)
    PROVE  InFlight(r) /\ UNCHANGED dbVars /\ (~Publish(r) => UNCHANGED events)
<1>1. CASE ReadAnnotation(r)
  BY <1>1 DEF ReadAnnotation, InFlight
<1>2. CASE WriteAnnotation(r)
  BY <1>2 DEF WriteAnnotation, InFlight
<1>2a. CASE ReadEpisode(r)
  BY <1>2a DEF ReadEpisode, InFlight
<1>3. CASE Attach(r)
  BY <1>3 DEF Attach, InFlight
<1>4. CASE Guard(r)
  BY <1>4 DEF Guard, InFlight
<1>5. CASE ReadForUpdate(r)
  BY <1>5 DEF ReadForUpdate, InFlight
<1>6. CASE Flush(r)
  BY <1>6 DEF Flush, InFlight
<1>7. CASE Publish(r)
  BY <1>7 DEF Publish, InFlight
<1>8. CASE ReadCounter(r)
  BY <1>8 DEF ReadCounter, InFlight
<1>9. CASE WriteCounter(r)
  BY <1>9 DEF WriteCounter, InFlight
<1>10. QED
  BY <1>1, <1>2, <1>2a, <1>3, <1>4, <1>5, <1>6, <1>7, <1>8, <1>9 DEF Statement

\* A step of Next is one of these; only CreateEpisode and Commit change the database.
LEMMA NextCases ==
    ASSUME [Next]_vars
    PROVE  \/ UNCHANGED vars
           \/ \E e \in Episode : CreateEpisode(e)
           \/ \E r \in Request, e \in Episode : Receive(r, e)
           \/ \E r \in Request : Statement(r)
           \/ \E r \in Request : Commit(r)
           \/ \E r \in Request : Abort(r)
  BY DEF Next, Continue, Statement

------------------------------------------------------------------------------
(***************************************************************************)
(* Typing, with the control facts it needs.                                *)
(***************************************************************************)

\* A step of r leaves what is known of the others alone.
LEMMA ControlFrame ==
    ASSUME TypeControl, NEW r \in Request, OnlyOf(r),
           IF InFlight(r)' THEN ControlOf(r)' ELSE txn'[r] = NoWrites,
           \A e \in Episode : status[e] \in Status => status'[e] \in Status
    PROVE  Control'
  BY DEF TypeControl, Control, ControlOf, InFlight, OnlyOf, Op, Ep

LEMMA TypeControlInit == Init => TypeControl
<1> SUFFICES ASSUME Init PROVE TypeControl
  OBVIOUS
<1>1. NoSegments \in AnySegments /\ NoAnnotation \in Annotation
  BY DEF AnySegments, Annotation, NoAnnotation, Decision
<1>2. TypeOK
  BY <1>1, EmptyTyped DEF Init, TypeOK, Counters
<1>3. Control
  BY DEF Init, Control, InFlight, Idle, Fresh
<1>4. QED
  BY <1>2, <1>3 DEF TypeControl

LEMMA TypeControlStep == TypeControl /\ [Next]_vars => TypeControl'
<1> SUFFICES ASSUME TypeControl, [Next]_vars PROVE TypeControl'
  OBVIOUS
<1>1. CASE UNCHANGED vars
  BY <1>1 DEF vars, dbVars, TypeControl, TypeOK, Control, InFlight, ControlOf, Ep, Op
<1>2. ASSUME NEW e \in Episode, CreateEpisode(e) PROVE TypeControl'
  <2>1. TypeOK'
    BY <1>2, OperationFacts DEF CreateEpisode, TypeControl, TypeOK
  <2>2. status'[e] = InitialState /\ \A f \in Episode \ {e} : status'[f] = status[f]
    BY <1>2 DEF CreateEpisode, TypeControl, TypeOK
  <2>3. Control'
    BY <1>2, <2>2, OperationFacts
       DEF CreateEpisode, TypeControl, Control, InFlight, ControlOf, Ep, Op
  <2>4. QED
    BY <2>1, <2>3 DEF TypeControl
<1>3. ASSUME NEW r \in Request, NEW e \in Episode, Receive(r, e) PROVE TypeControl'
  <2>1. PICK o \in Operation, step \in {"read_annotation", "attach", "apply"} :
            /\ Typed /\ request'[r].step = step
            /\ request'[r].op = o /\ request'[r].episode = e /\ OnlyOf(r) /\ txn' = txn
            /\ status[e] \in Status
            /\ step = "read_annotation" <=> o \in HumanOperation
            /\ UNCHANGED <<dbVars, events>>
    BY <1>3, ArriveEffect
  <2>2. TypeOK'
    BY <2>1 DEF dbVars, Typed, TypeControl, TypeOK
  <2>3. request[r].step = "idle" /\ txn[r] = NoWrites /\ "episode" \notin NoWrites.locks
    BY <1>3, ArriveEffect DEF TypeControl, Control, InFlight, NoWrites
  <2>4. InFlight(r)' /\ ControlOf(r)'
    <3>1. status' = status /\ txn'[r].locks = NoWrites.locks
      BY <2>1, <2>3 DEF dbVars
    <3>2. QED
      BY <2>1, <2>3, <3>1 DEF InFlight, ControlOf, Op, Ep
  <2>5. QED
    BY <2>1, <2>2, <2>4, ControlFrame DEF dbVars, TypeControl
<1>4. ASSUME NEW r \in Request, Ends(r), Typed, UNCHANGED dbVars, UNCHANGED events
      PROVE  TypeControl'
  <2>1. TypeOK'
    BY <1>4 DEF dbVars, Typed, TypeControl, TypeOK
  <2>2. ~InFlight(r)' /\ txn'[r] = NoWrites
    BY <1>4 DEF Ends, InFlight, Idle, Fresh
  <2>3. QED
    BY <1>4, <2>1, <2>2, ControlFrame DEF Ends, dbVars, TypeControl
<1>5. ASSUME NEW r \in Request, Statement(r) PROVE TypeControl'
  <2>1. /\ InFlight(r) /\ UNCHANGED dbVars /\ (~Publish(r) => UNCHANGED events)
        /\ ControlOf(r) /\ SeenStatus(r) \in Status
    BY <1>5, StatementEffect, InFlightEpisode DEF TypeControl, Control
  <2>2. Typed /\ events' \in [Episode -> [EventKey -> Nat]] => TypeOK'
    BY <2>1 DEF dbVars, Typed, TypeControl, TypeOK
  <2>3. ASSUME Typed, events' \in [Episode -> [EventKey -> Nat]], NEW s \in Step \ {"idle"},
               GoesOn(r, s),
               "episode" \in txn'[r].locks => txn'[r].status \in Status,
               s \in {"read_annotation", "write_annotation"} => Op(r) \in HumanOperation,
               s = "read_episode" => Op(r) = "annotate",
               s = "flush" => request'[r].from \in Status,
               s = "publish" => Op(r) \in DOMAIN EventOf,
               s \in {"read_counter", "write_counter"} => Op(r) \in DOMAIN CounterOf
        PROVE  TypeControl'
    <3>1. InFlight(r)' /\ ControlOf(r)'
      BY <2>1, <2>3 DEF GoesOn, InFlight, ControlOf, Op, Ep, dbVars
    <3>2. QED
      BY <2>1, <2>2, <2>3, <3>1, ControlFrame DEF GoesOn, dbVars, TypeControl
  <2>4. events \in [Episode -> [EventKey -> Nat]]
    BY DEF TypeControl, TypeOK
  <2>5. CASE ReadAnnotation(r)
    <3>1. ~Publish(r) /\ Op(r) \in HumanOperation
      BY <2>1, <2>5 DEF ReadAnnotation, Publish, ControlOf
    <3>2. QED
      BY <1>4, <2>1, <2>3, <2>4, <2>5, <3>1, ReadAnnotationEffect DEF ControlOf, Step
  <2>6. CASE WriteAnnotation(r)
    <3>1. ~Publish(r)
      BY <2>6 DEF WriteAnnotation, Publish
    <3>2. QED
      BY <1>4, <2>1, <2>3, <2>4, <2>6, <3>1, WriteAnnotationEffect DEF ControlOf, Step
  <2>6a. CASE ReadEpisode(r)
    <3>1. ~Publish(r)
      BY <2>6a DEF ReadEpisode, Publish
    <3>2. QED
      BY <2>1, <2>3, <2>4, <2>6a, <3>1, ReadEpisodeEffect DEF ControlOf, Step
  <2>7. CASE Attach(r)
    <3>1. ~Publish(r)
      BY <2>7 DEF Attach, Publish
    <3>2. QED
      BY <2>1, <2>3, <2>4, <2>7, <3>1, AttachEffect DEF ControlOf, Step
  <2>8. CASE Guard(r)
    <3>1. ~Publish(r)
      BY <2>8 DEF Guard, Publish
    <3>2. QED
      BY <1>4, <2>1, <2>3, <2>4, <2>8, <3>1, GuardEffect DEF ControlOf, Step
  <2>9. CASE ReadForUpdate(r)
    <3>1. ~Publish(r)
      BY <2>9 DEF ReadForUpdate, Publish
    <3>2. QED
      BY <2>1, <2>3, <2>4, <2>9, <3>1, ReadForUpdateEffect, OperationFacts DEF ControlOf, Step
  <2>10. CASE Flush(r)
    <3>1. ~Publish(r)
      BY <2>10 DEF Flush, Publish
    <3>2. Target[Op(r)] \in Status
      BY <2>1, OperationFacts DEF ControlOf, Op
    <3>3. QED
      BY <2>1, <2>3, <2>4, <2>10, <3>1, <3>2, FlushEffect DEF ControlOf, Step
  <2>11. CASE Publish(r)
    BY <2>1, <2>3, <2>11, PublishEffect, OperationFacts DEF ControlOf, Step
  <2>12. CASE ReadCounter(r)
    <3>1. ~Publish(r)
      BY <2>12 DEF ReadCounter, Publish
    <3>2. Op(r) \in DOMAIN CounterOf
      BY <2>1, <2>12 DEF ControlOf, ReadCounter
    <3>3. QED
      BY <2>1, <2>3, <2>4, <2>12, <3>1, <3>2, ReadCounterEffect DEF ControlOf, Step
  <2>13. CASE WriteCounter(r)
    <3>1. ~Publish(r)
      BY <2>13 DEF WriteCounter, Publish
    <3>2. QED
      BY <2>1, <2>3, <2>4, <2>13, <3>1, WriteCounterEffect DEF ControlOf, Step
  <2>14. QED
    BY <1>5, <2>5, <2>6, <2>6a, <2>7, <2>8, <2>9, <2>10, <2>11, <2>12, <2>13 DEF Statement
<1>6. ASSUME NEW r \in Request, Commit(r) PROVE TypeControl'
  <2>1. TypeOK'
    BY <1>6, CommitEffect DEF Typed, TypeControl, TypeOK
  <2>2. ~InFlight(r)' /\ txn'[r] = NoWrites
    <3>1. Ends(r)
      BY <1>6, CommitEffect
    <3>2. QED
      BY <3>1 DEF Ends, InFlight, Idle, Fresh
  <2>3. \A e \in Episode : status[e] \in Status => status'[e] \in Status
    BY <1>6, CommitEffect DEF TypeControl, Control, ControlOf
  <2>4. QED
    BY <1>6, <2>1, <2>2, <2>3, CommitEffect, ControlFrame DEF Ends, TypeControl
<1>7. ASSUME NEW r \in Request, Abort(r) PROVE TypeControl'
  BY <1>4, <1>7, DiscardEnds DEF Abort, TypeControl
<1>8. QED
  BY <1>1, <1>2, <1>3, <1>5, <1>6, <1>7, NextCases

LEMMA TypeControlAlways == Spec => []TypeControl
  BY TypeControlInit, TypeControlStep, PTL DEF Spec

\* Every variable keeps its type: no statement writes to a row, a counter or a trail
\* what does not belong there, and a request in flight never loses its Episode.
THEOREM TypeCorrect == Spec => []TypeOK
<1>1. TypeControl => TypeOK
  BY DEF TypeControl
<1>2. QED
  BY <1>1, TypeControlAlways, PTL

------------------------------------------------------------------------------
(***************************************************************************)
(* Locks exclude, and some request can always go on.                       *)
(***************************************************************************)

\* r locks one more row, which nobody else has.
LEMMA LocksGrow ==
    ASSUME TypeControl, Locks, NEW r \in Request, OnlyOf(r), NEW t \in Table, ~Blocked(r, t),
           txn'[r].locks = txn[r].locks \cup {t},
           request'[r].episode = request[r].episode,
           LocksOf(r)'
    PROVE  Locks'
<1>1. \A q \in Request : LocksOf(q)'
  BY DEF Locks, LocksOf, OnlyOf
<1>2. LocksExclude'
  BY DEF Locks, LocksExclude, SameRow, OnlyOf, Blocked, Ep
<1>3. QED
  BY <1>1, <1>2 DEF Locks

\* r locks nothing more.
LEMMA LocksSame ==
    ASSUME TypeControl, Locks, NEW r \in Request, OnlyOf(r),
           txn'[r].locks = txn[r].locks,
           request'[r].episode = request[r].episode,
           LocksOf(r)'
    PROVE  Locks'
<1>1. \A q \in Request : LocksOf(q)'
  BY DEF Locks, LocksOf, OnlyOf
<1>2. LocksExclude'
  BY DEF Locks, LocksExclude, SameRow, OnlyOf
<1>3. QED
  BY <1>1, <1>2 DEF Locks

\* r gives up its locks.
LEMMA LocksDrop ==
    ASSUME TypeControl, Locks, NEW r \in Request, OnlyOf(r), txn'[r] = NoWrites
    PROVE  Locks'
<1>1. txn'[r].locks = {}
  BY DEF NoWrites
<1>2. QED
  BY <1>1 DEF Locks, LocksOf, LocksExclude, SameRow, OnlyOf

LEMMA LocksStep == TypeControl /\ Locks /\ [Next]_vars => Locks'
<1> SUFFICES ASSUME TypeControl, Locks, [Next]_vars PROVE Locks'
  OBVIOUS
<1>1. CASE UNCHANGED <<request, txn>>
  BY <1>1 DEF Locks, LocksOf, LocksExclude, SameRow
<1>2. ASSUME NEW r \in Request, NEW e \in Episode, Receive(r, e) PROVE Locks'
  <2>1. OnlyOf(r) /\ txn' = txn /\ ~InFlight(r)
    BY <1>2, ArriveEffect DEF InFlight
  <2>2. txn'[r] = NoWrites
    BY <2>1 DEF TypeControl, Control
  <2>3. QED
    BY <2>1, <2>2, LocksDrop
<1>3. ASSUME NEW r \in Request, Ends(r) PROVE Locks'
  BY <1>3, LocksDrop DEF Ends
<1>4. ASSUME NEW r \in Request, Statement(r) PROVE Locks'
  <2>1. LocksOf(r) /\ txn[r] \in WritesType
    BY <1>4, StatementEffect, InFlightEpisode DEF Locks
  <2>2. ASSUME NEW s \in Step, GoesOn(r, s), txn'[r].locks = txn[r].locks, LocksOf(r)'
        PROVE  Locks'
    BY <2>2, LocksSame DEF GoesOn
  <2>3. CASE ReadAnnotation(r)
    <3>1. ASSUME GoesOn(r, "write_annotation"), txn' = txn PROVE LocksOf(r)'
      BY <2>1, <2>3, <3>1 DEF ReadAnnotation, GoesOn, LocksOf, PastGuard
    <3>2. QED
      BY <1>3, <2>2, <2>3, <3>1, ReadAnnotationEffect DEF Step
  <2>4. CASE WriteAnnotation(r)
    <3>1. CASE Ends(r)
      BY <1>3, <3>1
    <3>2. CASE ~Ends(r)
      <4>1. /\ GoesOn(r, IF Op(r) = "annotate" THEN "read_episode" ELSE "guard")
            /\ txn'[r].locks = txn[r].locks \cup {"annotation"}
        BY <2>4, <3>2, WriteAnnotationEffect
      <4>2. LocksOf(r)'
        BY <2>1, <2>4, <4>1 DEF WriteAnnotation, GoesOn, LocksOf, PastGuard
      <4>3. ~Blocked(r, "annotation") /\ "annotation" \in Table
        BY <2>4 DEF WriteAnnotation, Table
      <4>4. QED
        BY <4>1, <4>2, <4>3, LocksGrow DEF GoesOn
    <3>3. QED
      BY <3>1, <3>2
  <2>4a. CASE ReadEpisode(r)
    <3>1. GoesOn(r, "attach") /\ txn' = txn /\ request[r].step = "read_episode"
      BY <2>4a, ReadEpisodeEffect
    <3>2. LocksOf(r)'
      BY <2>1, <3>1 DEF GoesOn, LocksOf, PastGuard
    <3>3. QED
      BY <2>2, <3>1, <3>2 DEF Step
  <2>5. CASE Attach(r)
    <3>1. /\ GoesOn(r, IF Op(r) = "upload_complete" THEN "apply" ELSE "guard")
          /\ txn'[r].locks = txn[r].locks \cup {"episode"}
      BY <2>5, AttachEffect
    <3>2. LocksOf(r)'
      BY <2>1, <2>5, <3>1 DEF Attach, GoesOn, LocksOf, PastGuard
    <3>3. ~Blocked(r, "episode") /\ "episode" \in Table
      BY <2>5 DEF Attach, Table
    <3>4. QED
      BY <3>1, <3>2, <3>3, LocksGrow DEF GoesOn
  <2>6. CASE Guard(r)
    <3>1. ASSUME NEW s \in {"commit", "apply"}, GoesOn(r, s), txn' = txn PROVE LocksOf(r)'
      BY <2>1, <2>6, <3>1 DEF Guard, GoesOn, LocksOf, PastGuard
    <3>2. QED
      BY <1>3, <2>2, <2>6, <3>1, GuardEffect DEF Step
  <2>7. CASE ReadForUpdate(r)
    <3>1. ASSUME NEW s \in {"flush", "publish", "commit"}, GoesOn(r, s), txn' = txn
          PROVE  LocksOf(r)'
      BY <2>1, <2>7, <3>1 DEF ReadForUpdate, GoesOn, LocksOf, PastGuard
    <3>2. QED
      BY <2>2, <2>7, <3>1, ReadForUpdateEffect DEF Step
  <2>8. CASE Flush(r)
    <3>1. /\ GoesOn(r, IF Op(r) \in DOMAIN EventOf THEN "publish" ELSE "commit")
          /\ txn'[r].locks = txn[r].locks \cup {"episode"}
      BY <2>8, FlushEffect
    <3>2. LocksOf(r)'
      BY <2>1, <2>8, <3>1 DEF Flush, GoesOn, LocksOf, PastGuard
    <3>3. ~Blocked(r, "episode") /\ "episode" \in Table
      BY <2>8 DEF Flush, Table
    <3>4. QED
      BY <3>1, <3>2, <3>3, LocksGrow DEF GoesOn
  <2>9. CASE Publish(r)
    <3>1. /\ GoesOn(r, IF Op(r) \in DOMAIN CounterOf THEN "read_counter" ELSE "commit")
          /\ txn'[r].locks = txn[r].locks
      BY <2>9, PublishEffect
    <3>2. LocksOf(r)'
      BY <2>1, <2>9, <3>1 DEF Publish, GoesOn, LocksOf, PastGuard
    <3>3. QED
      BY <2>2, <3>1, <3>2 DEF Step
  <2>10. CASE ReadCounter(r)
    <3>1. GoesOn(r, "write_counter") /\ txn' = txn
      BY <2>10, ReadCounterEffect
    <3>2. LocksOf(r)'
      BY <2>1, <2>10, <3>1 DEF ReadCounter, GoesOn, LocksOf, PastGuard
    <3>3. QED
      BY <2>2, <3>1, <3>2 DEF Step
  <2>11. CASE WriteCounter(r)
    <3>1. /\ GoesOn(r, "commit")
          /\ txn'[r].locks = txn[r].locks \cup {"task"}
      BY <2>11, WriteCounterEffect
    <3>2. LocksOf(r)'
      BY <2>1, <2>11, <3>1 DEF WriteCounter, GoesOn, LocksOf, PastGuard
    <3>3. ~Blocked(r, "task") /\ "task" \in Table
      BY <2>11 DEF WriteCounter, Table
    <3>4. QED
      BY <3>1, <3>2, <3>3, LocksGrow DEF GoesOn
  <2>12. QED
    BY <1>4, <2>3, <2>4, <2>4a, <2>5, <2>6, <2>7, <2>8, <2>9, <2>10, <2>11 DEF Statement
<1>5. ASSUME NEW r \in Request, Commit(r) \/ Abort(r) PROVE Locks'
  <2>1. Ends(r)
    BY <1>5, CommitEffect, DiscardEnds DEF Abort, TypeControl
  <2>2. QED
    BY <1>3, <2>1
<1>6. QED
  BY <1>1, <1>2, <1>4, <1>5, NextCases DEF vars, CreateEpisode

LEMMA LocksAlways == Spec => [](TypeControl /\ Locks)
<1>1. Init => Locks
  BY DEF Init, Locks, LocksOf, LocksExclude, NoWrites
<1>2. QED
  BY <1>1, TypeControlInit, TypeControlStep, LocksStep, PTL DEF Spec

\* Requests never all wait for each other, however many there are: the holder of the
\* task row commits next, the holder of an episodes row can only wait for the task row,
\* and the holder of an annotations row only for those two.
THEOREM NoDeadlock == Spec => []SomeRequestCanGoOn
<1>1. ASSUME TypeControl, Locks PROVE SomeRequestCanGoOn
  <2> SUFFICES ASSUME NEW r \in Request, InFlight(r)
               PROVE  \E q \in Request : InFlight(q) /\ ~Waiting(q)
    BY DEF SomeRequestCanGoOn, InFlight
  <2>1. ASSUME NEW q \in Request, NEW t \in txn[q].locks PROVE InFlight(q) /\ LocksOf(q)
    <3>1. InFlight(q)
      BY <1>1, <2>1 DEF TypeControl, Control, NoWrites
    <3>2. QED
      BY <1>1, <3>1 DEF Locks
  <2>2. ASSUME NEW q \in Request, "task" \in txn[q].locks
        PROVE  InFlight(q) /\ ~Waiting(q)
    BY <2>1, <2>2 DEF LocksOf, Waiting, Needs
  <2>3. ASSUME NEW q \in Request, InFlight(q), request[q].step = "write_counter"
        PROVE  \E p \in Request : InFlight(p) /\ ~Waiting(p)
    BY <2>2, <2>3 DEF Waiting, Needs, Blocked
  <2>4. ASSUME NEW q \in Request, "episode" \in txn[q].locks
        PROVE  \E p \in Request : InFlight(p) /\ ~Waiting(p)
    <3>1. ~Blocked(q, "episode")
      BY <1>1, <2>4 DEF Locks, LocksExclude, SameRow, Blocked, Ep
    <3>2. InFlight(q) /\ LocksOf(q)
      BY <2>1, <2>4
    <3>3. request[q].step # "write_counter" => ~Waiting(q)
      BY <2>4, <3>1, <3>2 DEF LocksOf, Waiting, Needs, PastGuard
    <3>4. QED
      BY <2>3, <3>2, <3>3
  <2>5. ASSUME NEW q \in Request, InFlight(q), request[q].step \in {"attach", "flush"}
        PROVE  \E p \in Request : InFlight(p) /\ ~Waiting(p)
    BY <2>4, <2>5 DEF Waiting, Needs, Blocked
  <2>6. ASSUME NEW q \in Request, "annotation" \in txn[q].locks
        PROVE  \E p \in Request : InFlight(p) /\ ~Waiting(p)
    <3>1. InFlight(q) /\ LocksOf(q)
      BY <2>1, <2>6
    <3>2. request[q].step \notin {"write_counter", "attach", "flush"} => ~Waiting(q)
      BY <2>6, <3>1 DEF LocksOf, Waiting, Needs, PastGuard
    <3>3. QED
      BY <2>3, <2>5, <3>1, <3>2
  <2>7. CASE request[r].step = "write_annotation"
    BY <2>6, <2>7 DEF Waiting, Needs, Blocked
  <2>8. CASE request[r].step \in {"write_counter", "attach", "flush"}
    BY <2>3, <2>5, <2>8
  <2>9. CASE request[r].step \notin {"write_annotation", "write_counter", "attach", "flush"}
    BY <2>9 DEF Waiting, Needs
  <2>10. QED
    BY <2>7, <2>8, <2>9
<1>2. QED
  BY <1>1, LocksAlways, PTL

------------------------------------------------------------------------------
(***************************************************************************)
(* The audit trail.                                                        *)
(***************************************************************************)
LEMMA WalkEndAppend ==
    ASSUME NEW w \in Seq(TransitionRecord), NEW x \in TransitionRecord
    PROVE  WalkEnd(Append(w, x)) = x.to
  BY DEF WalkEnd

LEMMA AppendAfter ==
    ASSUME NEW w \in Seq(TransitionRecord), NEW v \in Seq(TransitionRecord),
           NEW x \in TransitionRecord
    PROVE  w \o Append(v, x) = Append(w \o v, x)
  OBVIOUS

LEMMA ConcatNothing == \A w \in Seq(TransitionRecord) : w \o <<>> = w
  OBVIOUS

LEMMA WalkEndAfter ==
    ASSUME NEW w \in Seq(TransitionRecord), NEW v \in Seq(TransitionRecord),
           NEW x \in TransitionRecord
    PROVE  WalkEnd(w \o Append(v, x)) = x.to
<1>1. w \o v \in Seq(TransitionRecord)
  OBVIOUS
<1>2. QED
  BY <1>1, AppendAfter, WalkEndAppend

\* A step of r, with the database unchanged or changed for its Episode only, under the
\* lock of the episodes row.
LEMMA TrailsFrame ==
    ASSUME TypeControl, Locks, Trails, NEW r \in Request, OnlyOf(r), InFlight(r)' => TrailOf(r)',
           \A e \in Episode :
               \/ status'[e] = status[e] /\ trail'[e] = trail[e]
               \/ e = Ep(r) /\ "episode" \in txn[r].locks
    PROVE  Trails'
<1> SUFFICES ASSUME NEW q \in Request, q # r, InFlight(q)' PROVE TrailOf(q)'
  BY DEF Trails
<1>1. request'[q] = request[q] /\ txn'[q] = txn[q] /\ InFlight(q) /\ TrailOf(q)
  BY DEF OnlyOf, InFlight, Trails
<1>2. Ep(q) \in Episode
  BY <1>1 DEF TypeControl, Control, ControlOf, Ep
<1>3. "episode" \in txn[q].locks => trail'[Ep(q)] = trail[Ep(q)]
  BY <1>2 DEF Locks, LocksExclude, SameRow, Ep
<1>4. QED
  BY <1>1, <1>3 DEF TrailOf, Op, Ep

LEMMA TrailsInit == Init => Trails /\ AuditTrail
  BY DEF Init, Trails, InFlight, Idle, Fresh, AuditTrail

LEMMA TrailsStep == TypeControl /\ Locks /\ Trails /\ AuditTrail /\ [Next]_vars => Trails'
<1> SUFFICES ASSUME TypeControl, Locks, Trails, AuditTrail, [Next]_vars PROVE Trails'
  OBVIOUS
<1>1. CASE UNCHANGED vars
  BY <1>1 DEF vars, dbVars, Trails, InFlight, TrailOf, Op, Ep
<1>2. ASSUME NEW e \in Episode, CreateEpisode(e) PROVE Trails'
  BY <1>2 DEF CreateEpisode, Trails, InFlight, TrailOf, Op, Ep
<1>3. ASSUME NEW r \in Request, NEW e \in Episode, Receive(r, e) PROVE Trails'
  <2>1. PICK o \in Operation, step \in {"read_annotation", "attach", "apply"} :
            /\ ~InFlight(r) /\ request'[r].step = step /\ request'[r].op = o
            /\ OnlyOf(r) /\ txn' = txn /\ UNCHANGED dbVars
            /\ step = "apply" => o # "upload_complete"
    BY <1>3, ArriveEffect DEF InFlight
  <2>2. txn'[r].locks = {} /\ txn'[r].records = <<>>
    BY <2>1 DEF TypeControl, Control, NoWrites
  <2>3. TrailOf(r)'
    BY <2>1, <2>2 DEF TrailOf, Op
  <2>4. QED
    BY <2>1, <2>3, TrailsFrame DEF dbVars
<1>4. ASSUME NEW r \in Request, Ends(r), UNCHANGED dbVars PROVE Trails'
  BY <1>4, TrailsFrame DEF Ends, InFlight, Idle, Fresh, dbVars
<1>5. ASSUME NEW r \in Request, Statement(r) PROVE Trails'
  <2>1. /\ InFlight(r) /\ UNCHANGED dbVars /\ TrailOf(r) /\ txn[r] \in WritesType
        /\ Ep(r) \in Episode /\ Op(r) \in Operation
        /\ trail[Ep(r)] \in Seq(TransitionRecord) /\ txn[r].records \in Seq(TransitionRecord)
        /\ status[Ep(r)] \in Status
    BY <1>5, StatementEffect, InFlightEpisode
       DEF Trails, WritesType, TypeControl, TypeOK, Control, ControlOf
  <2>2. ASSUME OnlyOf(r), TrailOf(r)' PROVE Trails'
    BY <2>1, <2>2, TrailsFrame DEF dbVars
  <2>3. ASSUME NEW s \in Step, GoesOn(r, s),
               "episode" \in txn'[r].locks <=> "episode" \in txn[r].locks,
               txn'[r].status = txn[r].status, txn'[r].records = txn[r].records,
               s = "publish" => "episode" \in txn[r].locks \/ Op(r) # "upload_complete",
               s \in {"apply", "flush"} /\ Op(r) = "upload_complete"
                   => "episode" \in txn[r].locks,
               s = "guard" => Op(r) # "upload_complete"
        PROVE  Trails'
    <3>1. TrailOf(r)'
      BY <2>1, <2>3 DEF TrailOf, GoesOn, Op, Ep, dbVars
    <3>2. QED
      BY <2>2, <2>3, <3>1 DEF GoesOn
  <2>4. CASE ReadAnnotation(r)
    BY <1>4, <2>1, <2>3, <2>4, ReadAnnotationEffect DEF Step
  <2>5. CASE WriteAnnotation(r)
    <3>1. Op(r) # "upload_complete"
      BY <2>1, <2>5 DEF WriteAnnotation, TypeControl, Control, ControlOf, HumanOperation, Expected
    <3>2. QED
      BY <1>4, <2>1, <2>3, <2>5, <3>1, WriteAnnotationEffect DEF Step
  <2>5a. CASE ReadEpisode(r)
    BY <2>3, <2>5a, ReadEpisodeEffect DEF Step
  <2>6. CASE Attach(r)
    <3>1. /\ GoesOn(r, IF Op(r) = "upload_complete" THEN "apply" ELSE "guard")
          /\ txn'[r].locks = txn[r].locks \cup {"episode"}
          /\ txn'[r].status = SeenStatus(r) /\ txn'[r].records = txn[r].records
      BY <2>6, AttachEffect
    <3>2. WalkEnd(trail[Ep(r)] \o txn[r].records) = SeenStatus(r)
      <4>1. CASE "episode" \in txn[r].locks
        BY <2>1, <4>1 DEF TrailOf, SeenStatus
      <4>2. CASE "episode" \notin txn[r].locks
        <5>1. trail[Ep(r)] \o txn[r].records = trail[Ep(r)]
          BY <2>1, <4>2, ConcatNothing DEF TrailOf
        <5>2. WalkEnd(trail[Ep(r)]) = status[Ep(r)]
          BY <2>1, OperationFacts DEF AuditTrail
        <5>3. QED
          BY <4>2, <5>1, <5>2 DEF SeenStatus
      <4>3. QED
        BY <4>1, <4>2
    <3>3. TrailOf(r)'
      BY <2>1, <3>1, <3>2 DEF TrailOf, GoesOn, Op, Ep, dbVars
    <3>4. QED
      BY <2>2, <3>1, <3>3 DEF GoesOn
  <2>7. CASE Guard(r)
    <3>1. Op(r) # "upload_complete"
      BY <2>1, <2>7 DEF Guard, TrailOf
    <3>2. QED
      BY <1>4, <2>1, <2>3, <2>7, <3>1, GuardEffect DEF Step
  <2>8. CASE ReadForUpdate(r)
    <3>1. Op(r) = "upload_complete" => "episode" \in txn[r].locks
      BY <2>1, <2>8 DEF ReadForUpdate, TrailOf
    <3>2. QED
      BY <2>3, <2>8, <3>1, ReadForUpdateEffect DEF Step
  <2>9. CASE Flush(r)
    <3>1. PICK x \in TransitionRecord :
              x.to = Target[Op(r)] /\ txn'[r].records = Append(txn[r].records, x)
      BY <2>9, FlushEffect
    <3>2. /\ GoesOn(r, IF Op(r) \in DOMAIN EventOf THEN "publish" ELSE "commit")
          /\ txn'[r].locks = txn[r].locks \cup {"episode"}
          /\ txn'[r].status = Target[Op(r)]
      BY <2>9, FlushEffect
    <3>3. WalkEnd(trail[Ep(r)] \o txn'[r].records) = txn'[r].status
      BY <2>1, <3>1, <3>2, WalkEndAfter
    <3>4. TrailOf(r)'
      BY <2>1, <3>2, <3>3 DEF TrailOf, GoesOn, Op, Ep, dbVars
    <3>5. QED
      BY <2>2, <3>2, <3>4 DEF GoesOn
  <2>10. CASE Publish(r)
    <3>1. GoesOn(r, IF Op(r) \in DOMAIN CounterOf THEN "read_counter" ELSE "commit")
      BY <2>10, PublishEffect
    <3>2. CASE txn' = txn
      BY <2>3, <3>1, <3>2 DEF Step
    <3>3. CASE txn' # txn
      <4>1. PICK x \in TransitionRecord :
                x.to = "processing" /\ txn'[r].records = Append(txn[r].records, x)
        BY <2>10, <3>3, PublishEffect
      <4>2. /\ txn'[r].locks = txn[r].locks /\ txn'[r].status = "processing"
            /\ Op(r) = "upload_complete"
        BY <2>10, <3>3, PublishEffect
      <4>3. "episode" \in txn[r].locks
        BY <2>1, <2>10, <4>2 DEF Publish, TrailOf
      <4>4. WalkEnd(trail[Ep(r)] \o txn'[r].records) = txn'[r].status
        BY <2>1, <4>1, <4>2, WalkEndAfter
      <4>5. TrailOf(r)'
        BY <2>1, <3>1, <4>2, <4>3, <4>4 DEF TrailOf, GoesOn, Op, Ep, dbVars
      <4>6. QED
        BY <2>2, <3>1, <4>5 DEF GoesOn
    <3>4. QED
      BY <3>2, <3>3
  <2>11. CASE ReadCounter(r)
    BY <2>3, <2>11, ReadCounterEffect DEF Step
  <2>12. CASE WriteCounter(r)
    BY <2>3, <2>12, WriteCounterEffect DEF Step
  <2>13. QED
    BY <1>5, <2>4, <2>5, <2>5a, <2>6, <2>7, <2>8, <2>9, <2>10, <2>11, <2>12 DEF Statement
<1>6. ASSUME NEW r \in Request, Commit(r) PROVE Trails'
  <2>1. Ends(r) /\ InFlight(r) /\ Ep(r) \in Episode
    BY <1>6, CommitEffect
  <2>2. ASSUME "episode" \notin txn[r].locks
        PROVE  status'[Ep(r)] = status[Ep(r)] /\ trail'[Ep(r)] = trail[Ep(r)]
    <3>1. txn[r].records = <<>> /\ trail[Ep(r)] \in Seq(TransitionRecord)
      BY <2>1, <2>2 DEF Trails, TrailOf, TypeControl, TypeOK
    <3>2. QED
      BY <1>6, <2>2, <3>1, CommitEffect, ConcatNothing
  <2>3. ~InFlight(r)'
    BY <2>1 DEF Ends, InFlight, Idle, Fresh
  <2>4. \A e \in Episode \ {Ep(r)} : status'[e] = status[e] /\ trail'[e] = trail[e]
    BY <1>6, CommitEffect
  <2>5. QED
    BY <2>1, <2>2, <2>3, <2>4, TrailsFrame DEF Ends
<1>7. ASSUME NEW r \in Request, Abort(r) PROVE Trails'
  BY <1>4, <1>7, DiscardEnds DEF Abort, TypeControl
<1>8. QED
  BY <1>1, <1>2, <1>3, <1>5, <1>6, <1>7, NextCases

LEMMA AuditTrailStep ==
    TypeControl /\ Locks /\ Trails /\ AuditTrail /\ [Next]_vars => AuditTrail'
<1> SUFFICES ASSUME TypeControl, Trails, AuditTrail, [Next]_vars PROVE AuditTrail'
  OBVIOUS
<1>1. CASE UNCHANGED dbVars
  BY <1>1 DEF dbVars, AuditTrail
<1>2. ASSUME NEW e \in Episode, CreateEpisode(e) PROVE AuditTrail'
  BY <1>2, OperationFacts
     DEF CreateEpisode, AuditTrail, TypeControl, TypeOK, WalkEnd
<1>3. ASSUME NEW r \in Request, Commit(r) PROVE AuditTrail'
  <2> DEFINE e == Ep(r)
  <2>1. /\ e \in Episode /\ TrailOf(r) /\ status[e] \in Status
        /\ trail[e] \in Seq(TransitionRecord)
    BY <1>3, CommitEffect DEF Trails, TypeControl, TypeOK, Control, ControlOf, Ep
  <2>2. WalkEnd(trail'[e]) = status'[e] /\ status'[e] # Absent
    <3>1. CASE "episode" \in txn[r].locks
      <4>1. status'[e] = txn[r].status /\ trail'[e] = trail[e] \o txn[r].records
        BY <1>3, <3>1, CommitEffect
      <4>2. txn[r].status \in Status
        BY <1>3, <3>1, CommitEffect DEF TypeControl, Control, ControlOf
      <4>3. QED
        BY <2>1, <3>1, <4>1, <4>2, OperationFacts DEF TrailOf
    <3>2. CASE "episode" \notin txn[r].locks
      <4>1. trail[e] \o txn[r].records = trail[e]
        BY <2>1, <3>2, ConcatNothing DEF TrailOf
      <4>2. status'[e] = status[e] /\ trail'[e] = trail[e]
        BY <1>3, <3>2, <4>1, CommitEffect
      <4>3. QED
        BY <2>1, <4>2, OperationFacts DEF AuditTrail
    <3>3. QED
      BY <3>1, <3>2
  <2>3. \A f \in Episode \ {e} : status'[f] = status[f] /\ trail'[f] = trail[f]
    BY <1>3, CommitEffect
  <2>4. QED
    BY <2>1, <2>2, <2>3 DEF AuditTrail
<1>4. ASSUME NEW r \in Request, NEW e \in Episode, Receive(r, e) PROVE UNCHANGED dbVars
  BY <1>4, ArriveEffect DEF dbVars
<1>5. ASSUME NEW r \in Request, Abort(r) \/ Statement(r) PROVE UNCHANGED dbVars
  BY <1>5, StatementEffect DEF Abort
<1>6. UNCHANGED vars => UNCHANGED dbVars
  BY DEF vars, dbVars
<1>7. QED
  BY <1>1, <1>2, <1>3, <1>4, <1>5, <1>6, NextCases

LEMMA TrailsAlways == Spec => [](TypeControl /\ Locks /\ Trails /\ AuditTrail)
<1>1. Init => Locks
  BY DEF Init, Locks, LocksOf, LocksExclude, NoWrites
<1>2. QED
  BY <1>1, TypeControlInit, TrailsInit, TypeControlStep, LocksStep, TrailsStep, AuditTrailStep,
     PTL DEF Spec

\* The status of an Episode is always where its last transition record went: no
\* interleaving of requests, and no failure, commits one without the other.
THEOREM AuditTrailHolds == Spec => []AuditTrail
  BY TrailsAlways, PTL

------------------------------------------------------------------------------
(***************************************************************************)
(* Decisions are on file.                                                  *)
(***************************************************************************)

\* Which operations move an Episode to the two statuses that stand for an approval, and
\* that a rejection is not an edge from either.
LEMMA ApprovalFacts ==
    /\ \A o \in Operation :
           /\ Target[o] = "published" => o = "review_approve"
           /\ Target[o] = "annotation_processing" => o = "verify_approve"
    /\ {"verify_approve", "verify_reject", "annotate", "review_approve", "review_reject"} =
           HumanOperation
    /\ Target["verify_reject"] = "rejected"
    /\ Target["review_reject"] = "annotation_pending"
    /\ ~CanTransition("annotation_processing", "rejected")
    /\ ~CanTransition("published", "annotation_pending")
  BY DEF Operation, Target, HumanOperation, Expected, CanTransition, Transitions

LEMMA AnnotationWrittenColumns ==
    ASSUME TypeControl, Decisions, NEW r \in Request, request[r].step = "write_annotation",
           request[r].revision = 0 => ~(annotation[Ep(r)].revision > 0)
    PROVE  LET row == AnnotationWritten(r) IN
           /\ row.revision > 0
           /\ row.verify = CASE Op(r) = "verify_approve" -> "approve"
                             [] Op(r) = "verify_reject"  -> "reject"
                             [] OTHER                    -> annotation[Ep(r)].verify
           /\ row.review = CASE Op(r) = "review_approve" -> "approve"
                             [] Op(r) = "review_reject"  -> "reject"
                             [] OTHER                    -> annotation[Ep(r)].review
<1> DEFINE row == IF request[r].revision = 0
                  THEN [NoAnnotation EXCEPT !.revision = 1]
                  ELSE annotation[Ep(r)]
<1>1. /\ request[r].revision \in Nat /\ annotation[Ep(r)] \in Annotation
      /\ Op(r) \in HumanOperation /\ InFlight(r) /\ Ep(r) \in Episode
  BY InFlightEpisode DEF InFlight, RequestType, TypeControl, Control, ControlOf
<1>2. /\ row \in Annotation /\ row.revision > 0
      /\ row.verify = annotation[Ep(r)].verify /\ row.review = annotation[Ep(r)].review
  <2>1. FreshRow(annotation[Ep(r)])
        /\ (request[r].revision > 0 => annotation[Ep(r)].revision > 0)
    BY <1>1 DEF Decisions, DecisionsOf
  <2>2. CASE request[r].revision = 0
    <3>1. row = [revision |-> 1, segments |-> NoSegments, verify |-> "none", review |-> "none"]
      BY <2>2 DEF NoAnnotation
    <3>2. annotation[Ep(r)].revision = 0
      BY <1>1, <2>2 DEF Annotation
    <3>3. row.revision = 1 /\ row.verify = "none" /\ row.review = "none"
      BY <3>1
    <3>4. row \in Annotation
      BY <3>1 DEF Annotation, AnySegments, Decision
    <3>5. QED
      BY <2>1, <3>2, <3>3, <3>4 DEF FreshRow
  <2>3. CASE request[r].revision # 0
    BY <1>1, <2>1, <2>3
  <2>4. QED
    BY <2>2, <2>3
<1> HIDE DEF row
<1>3. CASE Op(r) = "verify_approve"
  <2>1. AnnotationWritten(r) = [row EXCEPT !.verify = "approve"]
    BY <1>3 DEF AnnotationWritten, row
  <2>2. QED
    BY <1>2, <1>3, <2>1 DEF Annotation
<1>4. CASE Op(r) = "verify_reject"
  <2>1. AnnotationWritten(r) = [row EXCEPT !.verify = "reject"]
    BY <1>4 DEF AnnotationWritten, row
  <2>2. QED
    BY <1>2, <1>4, <2>1 DEF Annotation
<1>5. CASE Op(r) = "annotate"
  <2>1. AnnotationWritten(r) = [row EXCEPT !.segments = Submitted(r)]
    BY <1>5 DEF AnnotationWritten, row
  <2>2. QED
    BY <1>2, <1>5, <2>1 DEF Annotation
<1>6. CASE Op(r) = "review_approve"
  <2>1. AnnotationWritten(r) = [row EXCEPT !.review = "approve"]
    BY <1>6 DEF AnnotationWritten, row
  <2>2. QED
    BY <1>2, <1>6, <2>1 DEF Annotation
<1>7. CASE Op(r) = "review_reject"
  <2>1. AnnotationWritten(r) =
            [row EXCEPT !.review = "reject", !.revision = request[r].revision + 1]
    BY <1>7 DEF AnnotationWritten, row
  <2>2. request[r].revision + 1 > 0
    BY <1>1
  <2>3. QED
    BY <1>2, <1>7, <2>1, <2>2 DEF Annotation
<1>8. QED
  BY <1>1, <1>3, <1>4, <1>5, <1>6, <1>7 DEF HumanOperation, Expected

\* A step of r, with the database unchanged or changed for its Episode only, in rows it
\* has locked, by what it has decided.
LEMMA DecisionsFrame ==
    ASSUME TypeControl, Locks, Decisions, NEW r \in Request, OnlyOf(r),
           InFlight(r)' => DecisionsOf(r)',
           \A e \in Episode :
               \/ annotation'[e] = annotation[e]
               \/ e = Ep(r) /\ "annotation" \in txn[r].locks /\ annotation'[e].revision > 0,
           \A e \in Episode :
               \/ status'[e] = status[e]
               \/ /\ e = Ep(r) /\ "episode" \in txn[r].locks /\ request[r].step = "commit"
                  /\ status'[e] \in {status[e], Target[Op(r)], "processing"}
    PROVE  Decisions'
<1>1. ASSUME NEW e \in Episode PROVE FreshRow(annotation'[e])
  BY <1>1 DEF Decisions, FreshRow
<1>2. ASSUME NEW q \in Request, q # r, InFlight(q)' PROVE DecisionsOf(q)'
  <2>1. /\ request'[q] = request[q] /\ txn'[q] = txn[q] /\ InFlight(q) /\ DecisionsOf(q)
        /\ Ep(q) \in Episode /\ Op(q) \in Operation
    BY <1>2 DEF OnlyOf, InFlight, Decisions, TypeControl, Control, ControlOf, Ep, Op
  <2>2. "annotation" \in txn[q].locks => annotation'[Ep(q)] = annotation[Ep(q)]
    BY <1>2, <2>1 DEF Locks, LocksExclude, SameRow, Ep
  <2>3. "episode" \in txn[q].locks => status'[Ep(q)] = status[Ep(q)]
    BY <1>2, <2>1 DEF Locks, LocksExclude, SameRow, Ep
  <2>4. request'[q].revision > 0 => annotation'[Ep(q)].revision > 0
    BY <2>1 DEF DecisionsOf
  <2>5. HoldsAnnotation(q)' /\ RejectionUnwritten(q)'
    BY <2>1 DEF DecisionsOf, HoldsAnnotation, RejectionUnwritten, Op
  <2>6. AnnotationColumns(q)'
    BY <2>1, <2>2 DEF DecisionsOf, AnnotationColumns, Op, Ep
  <2>7. StatusColumn(q)'
    BY <2>1, <2>3 DEF DecisionsOf, StatusColumn, Op, Ep
  <2>8. ASSUME request[q].step \in PastGuard, Op(q) \in {"verify_reject", "review_reject"}
        PROVE  \/ status'[Ep(q)] = status[Ep(q)]
               \/ status'[Ep(q)] \notin {"annotation_processing", "published"}
    <3>1. "annotation" \in txn[q].locks
      BY <2>1, <2>8, ApprovalFacts DEF DecisionsOf, HoldsAnnotation
    <3>2. CASE status'[Ep(q)] # status[Ep(q)]
      <4>1. /\ Ep(q) = Ep(r) /\ request[r].step = "commit"
            /\ status'[Ep(q)] \in {Target[Op(r)], "processing"}
        BY <2>1, <3>2
      <4>2. InFlight(r) /\ DecisionsOf(r) /\ Op(r) \in Operation
        BY <4>1 DEF InFlight, Decisions, TypeControl, Control, ControlOf, Op
      <4>3. "annotation" \notin txn[r].locks
        BY <1>2, <3>1, <4>1 DEF Locks, LocksExclude, SameRow, Ep
      <4>4. Op(r) \notin HumanOperation
        BY <4>1, <4>2, <4>3 DEF DecisionsOf, HoldsAnnotation, PastGuard
      <4>5. QED
        BY <4>1, <4>2, <4>4, ApprovalFacts
    <3>3. QED
      BY <3>2
  <2>9. RejectionGuarded(q)'
    BY <2>1, <2>8 DEF DecisionsOf, RejectionGuarded, Op, Ep
  <2>10. QED
    BY <2>1, <2>4, <2>5, <2>6, <2>7, <2>9 DEF DecisionsOf, Ep
<1>3. QED
  BY <1>1, <1>2 DEF Decisions

LEMMA DecisionsStep == TypeControl /\ Locks /\ Decisions /\ [Next]_vars => Decisions'
<1> SUFFICES ASSUME TypeControl, Locks, Decisions, [Next]_vars PROVE Decisions'
  OBVIOUS
<1>1. CASE UNCHANGED vars
  BY <1>1 DEF vars, dbVars, Decisions, InFlight, DecisionsOf, HoldsAnnotation, AnnotationColumns,
              StatusColumn, RejectionUnwritten, RejectionGuarded, Op, Ep
<1>2. ASSUME NEW e \in Episode, CreateEpisode(e) PROVE Decisions'
  <2>1. /\ UNCHANGED <<annotation, request, txn>> /\ \A f \in Episode \ {e} : status'[f] = status[f]
        /\ status[e] = Absent
    BY <1>2 DEF CreateEpisode, TypeControl, TypeOK
  <2>2. ASSUME NEW r \in Request, InFlight(r) PROVE status'[Ep(r)] = status[Ep(r)]
    BY <2>1, <2>2, OperationFacts DEF TypeControl, Control, ControlOf, Ep
  <2>3. QED
    BY <2>1, <2>2 DEF Decisions, InFlight, DecisionsOf, HoldsAnnotation, AnnotationColumns,
                      StatusColumn, RejectionUnwritten, RejectionGuarded, Op, Ep
<1>3. ASSUME NEW r \in Request, OnlyOf(r), InFlight(r)' => DecisionsOf(r)', UNCHANGED dbVars
      PROVE  Decisions'
  BY <1>3, DecisionsFrame DEF dbVars
<1>4. ASSUME NEW r \in Request, NEW e \in Episode, Receive(r, e) PROVE Decisions'
  <2>1. PICK o \in Operation, step \in {"read_annotation", "attach", "apply"} :
            /\ ~InFlight(r) /\ request'[r].step = step /\ request'[r].op = o
            /\ request'[r].revision = 0 /\ OnlyOf(r) /\ txn' = txn /\ UNCHANGED dbVars
            /\ step = "read_annotation" <=> o \in HumanOperation
    BY <1>4, ArriveEffect DEF InFlight
  <2>2. txn'[r].locks = {}
    BY <2>1 DEF TypeControl, Control, NoWrites
  <2>3. DecisionsOf(r)'
    BY <2>1, <2>2, ApprovalFacts
       DEF DecisionsOf, HoldsAnnotation, AnnotationColumns, StatusColumn, RejectionUnwritten,
           RejectionGuarded, PastGuard, Op
  <2>4. QED
    BY <1>3, <2>1, <2>3
<1>5. ASSUME NEW r \in Request, Ends(r), UNCHANGED dbVars PROVE Decisions'
  BY <1>3, <1>5 DEF Ends, InFlight, Idle, Fresh
<1>6. ASSUME NEW r \in Request, Statement(r) PROVE Decisions'
  <2>1. /\ UNCHANGED dbVars /\ InFlight(r) /\ DecisionsOf(r) /\ LocksOf(r)
        /\ Op(r) \in Operation /\ Ep(r) \in Episode
    BY <1>6, StatementEffect, InFlightEpisode DEF Decisions, Locks
  <2>2. status' = status /\ annotation' = annotation
    BY <2>1 DEF dbVars
  <2>3. CASE ReadAnnotation(r)
    <3>1. ASSUME GoesOn(r, "write_annotation"), txn' = txn,
                 request'[r].revision = annotation[Ep(r)].revision
          PROVE  DecisionsOf(r)'
      BY <2>1, <2>2, <2>3, <3>1
         DEF ReadAnnotation, GoesOn, DecisionsOf, HoldsAnnotation, AnnotationColumns, StatusColumn,
             RejectionUnwritten, RejectionGuarded, PastGuard, Op, Ep
    <3>2. QED
      BY <1>3, <1>5, <2>1, <2>3, <3>1, ReadAnnotationEffect DEF GoesOn
  <2>4. CASE WriteAnnotation(r) /\ ~Ends(r)
    <3>1. /\ request[r].revision = 0 => ~(annotation[Ep(r)].revision > 0)
          /\ GoesOn(r, IF Op(r) = "annotate" THEN "read_episode" ELSE "guard")
          /\ request'[r].revision = request[r].revision
          /\ txn'[r].locks = txn[r].locks \cup {"annotation"}
          /\ txn'[r].annotation = AnnotationWritten(r)
      BY <2>4, WriteAnnotationEffect
    <3>2. request[r].step = "write_annotation" /\ "episode" \notin txn[r].locks
      BY <2>1, <2>4 DEF WriteAnnotation, LocksOf, PastGuard
    <3>3. AnnotationColumns(r)'
      BY <2>2, <3>1, <3>2, AnnotationWrittenColumns DEF AnnotationColumns, GoesOn, Op, Ep
    <3>4. DecisionsOf(r)'
      BY <2>1, <2>2, <3>1, <3>2, <3>3
         DEF GoesOn, DecisionsOf, HoldsAnnotation, StatusColumn, RejectionUnwritten,
             RejectionGuarded, PastGuard, Op, Ep
    <3>5. QED
      BY <1>3, <2>1, <3>1, <3>4 DEF GoesOn
  <2>4a. CASE ReadEpisode(r)
    <3>1. /\ GoesOn(r, "attach") /\ txn' = txn /\ request'[r].revision = request[r].revision
          /\ request[r].step = "read_episode"
      BY <2>4a, ReadEpisodeEffect
    <3>2. DecisionsOf(r)'
      BY <2>1, <2>2, <3>1
         DEF GoesOn, DecisionsOf, HoldsAnnotation, AnnotationColumns, StatusColumn,
             RejectionUnwritten, RejectionGuarded, PastGuard, Op, Ep
    <3>3. QED
      BY <1>3, <2>1, <3>1, <3>2 DEF GoesOn
  <2>5. CASE Attach(r)
    <3>1. /\ GoesOn(r, IF Op(r) = "upload_complete" THEN "apply" ELSE "guard")
          /\ request'[r].revision = request[r].revision
          /\ txn'[r].locks = txn[r].locks \cup {"episode"}
          /\ txn'[r].status = SeenStatus(r)
          /\ txn'[r].annotation = txn[r].annotation
      BY <2>5, AttachEffect
    <3>2. request[r].step = "attach"
      BY <2>5 DEF Attach
    <3>3. SeenStatus(r) \in {status[Ep(r)], Target[Op(r)], "processing"}
      BY <2>1 DEF SeenStatus, DecisionsOf, StatusColumn
    <3>4. DecisionsOf(r)'
      BY <2>1, <2>2, <3>1, <3>2, <3>3
         DEF GoesOn, DecisionsOf, HoldsAnnotation, AnnotationColumns, StatusColumn,
             RejectionUnwritten, RejectionGuarded, PastGuard, Op, Ep
    <3>5. QED
      BY <1>3, <2>1, <3>1, <3>4 DEF GoesOn
  <2>6. CASE Guard(r) /\ ~Ends(r)
    <3>1. PICK s \in {"commit", "apply"} :
              /\ GoesOn(r, s) /\ txn' = txn /\ request'[r].revision = request[r].revision
              /\ \/ SeenStatus(r) = Target[Op(r)]
                 \/ CanTransition(SeenStatus(r), Target[Op(r)])
      BY <2>6, GuardEffect
    <3>2. request[r].step = "guard"
      BY <2>6 DEF Guard
    <3>3. /\ Op(r) = "verify_reject" => status[Ep(r)] # "annotation_processing"
          /\ Op(r) = "review_reject" => status[Ep(r)] # "published"
      BY <2>1, <3>1, <3>2, ApprovalFacts DEF SeenStatus, DecisionsOf, RejectionUnwritten
    <3>4. DecisionsOf(r)'
      BY <2>1, <2>2, <3>1, <3>2, <3>3
         DEF GoesOn, DecisionsOf, HoldsAnnotation, AnnotationColumns, StatusColumn,
             RejectionUnwritten, RejectionGuarded, PastGuard, Op, Ep
    <3>5. QED
      BY <1>3, <2>1, <3>1, <3>4 DEF GoesOn
  <2>7. ASSUME NEW s \in PastGuard, request[r].step \in PastGuard, GoesOn(r, s),
               request'[r].revision = request[r].revision,
               txn'[r].annotation = txn[r].annotation,
               "annotation" \in txn'[r].locks <=> "annotation" \in txn[r].locks,
               "episode" \in txn'[r].locks =>
                   \/ "episode" \in txn[r].locks /\ txn'[r].status = txn[r].status
                   \/ txn'[r].status \in {Target[Op(r)], "processing"}
        PROVE  Decisions'
    <3>1. DecisionsOf(r)'
      BY <2>1, <2>2, <2>7
         DEF GoesOn, DecisionsOf, HoldsAnnotation, AnnotationColumns, StatusColumn,
             RejectionUnwritten, RejectionGuarded, PastGuard, Op, Ep
    <3>2. QED
      BY <1>3, <2>1, <2>7, <3>1 DEF GoesOn
  <2>8. CASE ReadForUpdate(r)
    <3>1. request[r].step \in PastGuard
      BY <2>8 DEF ReadForUpdate, PastGuard
    <3>2. QED
      BY <2>7, <2>8, <3>1, ReadForUpdateEffect DEF PastGuard
  <2>9. CASE Flush(r)
    <3>1. request[r].step \in PastGuard
      BY <2>9 DEF Flush, PastGuard
    <3>2. QED
      BY <2>7, <2>9, <3>1, FlushEffect DEF PastGuard
  <2>10. CASE Publish(r)
    <3>1. request[r].step \in PastGuard
      BY <2>10 DEF Publish, PastGuard
    <3>2. QED
      BY <2>7, <2>10, <3>1, PublishEffect DEF PastGuard
  <2>11. CASE ReadCounter(r)
    <3>1. request[r].step \in PastGuard
      BY <2>11 DEF ReadCounter, PastGuard
    <3>2. QED
      BY <2>7, <2>11, <3>1, ReadCounterEffect DEF PastGuard
  <2>12. CASE WriteCounter(r)
    <3>1. request[r].step \in PastGuard
      BY <2>12 DEF WriteCounter, PastGuard
    <3>2. QED
      BY <2>7, <2>12, <3>1, WriteCounterEffect DEF PastGuard
  <2>13. QED
    BY <1>5, <1>6, <2>1, <2>3, <2>4, <2>4a, <2>5, <2>6, <2>8, <2>9, <2>10, <2>11, <2>12
       DEF Statement
<1>7. ASSUME NEW r \in Request, Commit(r) PROVE Decisions'
  <2>1. Ends(r) /\ ~InFlight(r)' /\ DecisionsOf(r)
    <3>1. Ends(r) /\ InFlight(r)
      BY <1>7, CommitEffect
    <3>2. QED
      BY <3>1 DEF Ends, InFlight, Idle, Fresh, Decisions
  <2>2. ASSUME NEW e \in Episode
        PROVE  \/ annotation'[e] = annotation[e]
               \/ e = Ep(r) /\ "annotation" \in txn[r].locks /\ annotation'[e].revision > 0
    <3>1. "annotation" \in txn[r].locks => txn[r].annotation.revision > 0
      BY <2>1 DEF DecisionsOf, AnnotationColumns
    <3>2. annotation'[Ep(r)] =
              IF "annotation" \in txn[r].locks THEN txn[r].annotation ELSE annotation[Ep(r)]
      BY <1>7, CommitEffect
    <3>3. \A f \in Episode \ {Ep(r)} : annotation'[f] = annotation[f]
      BY <1>7, CommitEffect
    <3>4. QED
      BY <3>1, <3>2, <3>3
  <2>3. ASSUME NEW e \in Episode
        PROVE  \/ status'[e] = status[e]
               \/ /\ e = Ep(r) /\ "episode" \in txn[r].locks /\ request[r].step = "commit"
                  /\ status'[e] \in {status[e], Target[Op(r)], "processing"}
    <3>1. request[r].step = "commit"
      BY <1>7 DEF Commit
    <3>2. QED
      BY <1>7, <2>1, <3>1, CommitEffect DEF DecisionsOf, StatusColumn
  <2>4. QED
    BY <2>1, <2>2, <2>3, DecisionsFrame DEF Ends
<1>8. ASSUME NEW r \in Request, Abort(r) PROVE Decisions'
  BY <1>5, <1>8, DiscardEnds DEF Abort, TypeControl
<1>9. QED
  BY <1>1, <1>2, <1>4, <1>6, <1>7, <1>8, NextCases

LEMMA DecisionOnFileStep ==
    TypeControl /\ Locks /\ Decisions /\ DecisionOnFile /\ [Next]_vars => DecisionOnFile'
<1> SUFFICES ASSUME TypeControl, Decisions, DecisionOnFile, [Next]_vars PROVE DecisionOnFile'
  OBVIOUS
<1>1. CASE UNCHANGED dbVars
  BY <1>1 DEF dbVars, DecisionOnFile
<1>2. ASSUME NEW e \in Episode, CreateEpisode(e) PROVE DecisionOnFile'
  <2>1. /\ annotation' = annotation /\ status'[e] = "recording"
        /\ \A f \in Episode \ {e} : status'[f] = status[f]
    BY <1>2 DEF CreateEpisode, TypeControl, TypeOK, InitialState
  <2>2. QED
    BY <2>1 DEF DecisionOnFile
<1>3. ASSUME NEW r \in Request, Commit(r) PROVE DecisionOnFile'
  <2> DEFINE e == Ep(r)
  <2>1. /\ DecisionsOf(r) /\ e \in Episode /\ Op(r) \in Operation /\ request[r].step = "commit"
    <3>1. InFlight(r) /\ request[r].step = "commit"
      BY <1>3, CommitEffect DEF Commit
    <3>2. QED
      BY <3>1, InFlightEpisode DEF Decisions
  <2>2. status'[e] \in {status[e], Target[Op(r)], "processing"}
    BY <1>3, <2>1, CommitEffect DEF DecisionsOf, StatusColumn
  <2>3. annotation'[e] =
            IF "annotation" \in txn[r].locks THEN txn[r].annotation ELSE annotation[e]
    BY <1>3, CommitEffect
  <2>4. ASSUME status'[e] = "published" PROVE annotation'[e].review = "approve"
    <3>1. CASE Op(r) = "review_approve"
      <4>1. "annotation" \in txn[r].locks
        BY <2>1, <3>1, ApprovalFacts DEF DecisionsOf, HoldsAnnotation, PastGuard
      <4>2. QED
        BY <2>1, <2>3, <3>1, <4>1 DEF DecisionsOf, AnnotationColumns
    <3>2. CASE Op(r) # "review_approve"
      <4>1. status[e] = "published" /\ annotation[e].review = "approve"
        BY <2>1, <2>2, <2>4, <3>2, ApprovalFacts DEF DecisionOnFile
      <4>2. Op(r) # "review_reject"
        BY <2>1, <4>1 DEF DecisionsOf, RejectionGuarded, PastGuard
      <4>3. QED
        BY <2>1, <2>3, <3>2, <4>1, <4>2 DEF DecisionsOf, AnnotationColumns, Ep
    <3>3. QED
      BY <3>1, <3>2
  <2>5. ASSUME status'[e] = "annotation_processing" PROVE annotation'[e].verify = "approve"
    <3>1. CASE Op(r) = "verify_approve"
      <4>1. "annotation" \in txn[r].locks
        BY <2>1, <3>1, ApprovalFacts DEF DecisionsOf, HoldsAnnotation, PastGuard
      <4>2. QED
        BY <2>1, <2>3, <3>1, <4>1 DEF DecisionsOf, AnnotationColumns
    <3>2. CASE Op(r) # "verify_approve"
      <4>1. status[e] = "annotation_processing" /\ annotation[e].verify = "approve"
        BY <2>1, <2>2, <2>5, <3>2, ApprovalFacts DEF DecisionOnFile
      <4>2. Op(r) # "verify_reject"
        BY <2>1, <4>1 DEF DecisionsOf, RejectionGuarded, PastGuard
      <4>3. QED
        BY <2>1, <2>3, <3>2, <4>1, <4>2 DEF DecisionsOf, AnnotationColumns, Ep
    <3>3. QED
      BY <3>1, <3>2
  <2>6. \A f \in Episode \ {e} : status'[f] = status[f] /\ annotation'[f] = annotation[f]
    BY <1>3, CommitEffect
  <2>7. QED
    BY <2>1, <2>4, <2>5, <2>6 DEF DecisionOnFile
<1>4. ASSUME NEW r \in Request, NEW e \in Episode, Receive(r, e) PROVE UNCHANGED dbVars
  BY <1>4, ArriveEffect DEF dbVars
<1>5. ASSUME NEW r \in Request, Abort(r) \/ Statement(r) PROVE UNCHANGED dbVars
  BY <1>5, StatementEffect DEF Abort
<1>6. UNCHANGED vars => UNCHANGED dbVars
  BY DEF vars, dbVars
<1>7. QED
  BY <1>1, <1>2, <1>3, <1>4, <1>5, <1>6, NextCases

\* However many reviewers race, an Episode is only ever published with an approving
\* review in its annotations row, and only ever in preparation with an approving
\* verification: the row is written under a lock that is held until the guard of
\* lifecycle.transition has judged the status and the transaction has committed.
THEOREM DecisionAlwaysOnFile == Spec => []DecisionOnFile
<1>1. Init => Locks /\ Decisions /\ DecisionOnFile
  BY DEF Init, Locks, LocksOf, LocksExclude, NoWrites, Decisions, FreshRow, NoAnnotation,
         InFlight, Idle, Fresh, DecisionOnFile, Absent
<1>2. QED
  BY <1>1, TypeControlInit, TypeControlStep, LocksStep, DecisionsStep, DecisionOnFileStep,
     PTL DEF Spec
------------------------------------------------------------------------------
(***************************************************************************)
(* Announcements: what a transaction is about to commit, it has published. *)
(***************************************************************************)

Announcing == {"read_counter", "write_counter", "commit"}

\* A transaction's records: its target comes first, and at most once; and past the
\* publication there is an event that no committed record stands for.
AnnouncedOf(r) ==
    LET w == txn[r].records
    IN  /\ "episode" \notin txn[r].locks => w = <<>>
        /\ request[r].step \notin Announcing \cup {"publish"} => w = <<>>
        /\ \A i \in DOMAIN w : w[i].to \in {Target[Op(r)], "processing"}
        /\ \A i \in DOMAIN w : w[i].to = Target[Op(r)] => i = 1
        /\ request[r].step \in Announcing /\ w # <<>> /\ Op(r) \in DOMAIN EventOf =>
               Cardinality(RecordsTo(Ep(r), Target[Op(r)])) < events[Ep(r)][EventOf[Op(r)]]

Announced == \A r \in Request : InFlight(r) => AnnouncedOf(r)

\* Each event belongs to one operation and each of their targets to that operation alone.
LEMMA EventFacts ==
    /\ \A o \in DOMAIN EventOf, p \in Operation : o # p => Target[o] # Target[p]
    /\ \A o, p \in DOMAIN EventOf : o # p => EventOf[o] # EventOf[p]
    /\ \A o \in Operation : Target[o] # "processing"
    /\ DOMAIN EventOf \subseteq Operation
  BY DEF EventOf, Operation, Target

RecordsIn(t, to) == {i \in DOMAIN t : t[i].to = to}

\* What a transaction's records add to those of one target.
LEMMA RecordsGrow ==
    ASSUME NEW t \in Seq(TransitionRecord), NEW w \in Seq(TransitionRecord), NEW to,
           \A i \in DOMAIN w : w[i].to = to => i = 1
    PROVE  /\ Cardinality(RecordsIn(t, to)) \in Nat
           /\ Cardinality(RecordsIn(t \o w, to)) \in Nat
           /\ Cardinality(RecordsIn(t \o w, to)) <= Cardinality(RecordsIn(t, to)) + 1
           /\ (\A i \in DOMAIN w : w[i].to # to) => RecordsIn(t \o w, to) = RecordsIn(t, to)
<1> DEFINE Old == RecordsIn(t, to)
           New == RecordsIn(t \o w, to)
<1> USE DEF RecordsIn
<1>1. /\ Len(t) \in Nat /\ Len(w) \in Nat /\ DOMAIN t = 1 .. Len(t) /\ DOMAIN w = 1 .. Len(w)
      /\ DOMAIN (t \o w) = 1 .. Len(t) + Len(w)
      /\ \A i \in 1 .. Len(t) : (t \o w)[i] = t[i]
      /\ \A i \in 1 .. Len(t) + Len(w) : i > Len(t) =>
             i - Len(t) \in DOMAIN w /\ (t \o w)[i] = w[i - Len(t)]
  OBVIOUS
<1>2. IsFiniteSet(Old) /\ Cardinality(Old) \in Nat
  <2>1. IsFiniteSet(1 .. Len(t)) /\ Old \in SUBSET (1 .. Len(t))
    BY <1>1, FS_Interval
  <2> HIDE DEF Old
  <2>2. QED
    BY <2>1, FS_Subset, FS_CardinalityType
<1>3. New \in SUBSET (Old \cup {Len(t) + 1})
  <2> SUFFICES ASSUME NEW i \in New PROVE i \in Old \cup {Len(t) + 1}
    OBVIOUS
  <2>1. CASE i \in 1 .. Len(t)
    BY <1>1, <2>1
  <2>2. CASE i \notin 1 .. Len(t)
    <3>1. i - Len(t) \in DOMAIN w /\ w[i - Len(t)].to = to
      BY <1>1, <2>2
    <3>2. i - Len(t) = 1 /\ i \in Int
      BY <1>1, <3>1
    <3>3. QED
      BY <1>1, <3>2
  <2>3. QED
    BY <2>1, <2>2
<1>4. (\A i \in DOMAIN w : w[i].to # to) => New = Old
  <2> SUFFICES ASSUME \A i \in DOMAIN w : w[i].to # to PROVE New = Old
    OBVIOUS
  <2>1. Old \subseteq New
    BY <1>1
  <2>2. New \subseteq Old
    BY <1>1
  <2>3. QED
    BY <2>1, <2>2
<1> DEFINE next == Len(t) + 1
<1> HIDE DEF Old, New, next
<1>5. /\ IsFiniteSet(Old \cup {next})
      /\ Cardinality(Old \cup {next}) \in Nat
      /\ Cardinality(Old \cup {next}) <= Cardinality(Old) + 1
  <2>1. /\ IsFiniteSet(Old \cup {next})
        /\ Cardinality(Old \cup {next}) =
               IF next \in Old THEN Cardinality(Old) ELSE Cardinality(Old) + 1
    BY <1>2, FS_AddElement
  <2>2. QED
    BY <1>2, <2>1
<1>6. Cardinality(New) \in Nat /\ Cardinality(New) <= Cardinality(Old \cup {next})
  <2>1. New \in SUBSET (Old \cup {next})
    BY <1>3 DEF next
  <2>2. QED
    BY <1>5, <2>1, FS_Subset, FS_CardinalityType
<1>7. Cardinality(New) <= Cardinality(Old) + 1
  <2> DEFINE c == Cardinality(Old \cup {next})
             a == Cardinality(New)
             b == Cardinality(Old)
  <2>1. c \in Nat /\ a \in Nat /\ b \in Nat /\ a <= c /\ c <= b + 1
    BY <1>2, <1>5, <1>6
  <2> HIDE DEF a, b, c
  <2>2. a <= b + 1
    BY <2>1
  <2>3. QED
    BY <2>2 DEF a, b
<1>8. QED
  BY <1>2, <1>4, <1>6, <1>7 DEF Old, New

\* Publishing adds one event, and takes none away.
LEMMA EventsGrow ==
    ASSUME TypeControl, NEW r \in Request, Publish(r)
    PROVE  /\ Op(r) \in DOMAIN EventOf /\ Ep(r) \in Episode
           /\ events'[Ep(r)][EventOf[Op(r)]] = events[Ep(r)][EventOf[Op(r)]] + 1
           /\ \A e \in Episode, k \in EventKey :
                  /\ events[e][k] \in Nat /\ events'[e][k] \in Nat
                  /\ events[e][k] <= events'[e][k]
<1>1. Op(r) \in DOMAIN EventOf /\ Ep(r) \in Episode
  BY InFlightEpisode DEF Publish, InFlight, TypeControl, Control, ControlOf
<1>2. EventOf[Op(r)] \in EventKey
  BY <1>1, OperationFacts
<1> DEFINE e == Ep(r)
           k == EventOf[Op(r)]
           bumped == [events[e] EXCEPT ![k] = @ + 1]
<1>3. events \in [Episode -> [EventKey -> Nat]]
  BY DEF TypeControl, TypeOK
<1>4. events' = [events EXCEPT ![e] = bumped]
  BY DEF Publish
<1> HIDE DEF e, k
<1>5. e \in Episode /\ k \in EventKey
  BY <1>1, <1>2 DEF e, k
<1>6. bumped \in [EventKey -> Nat] /\ bumped[k] = events[e][k] + 1
      /\ \A j \in EventKey : events[e][j] <= bumped[j]
  BY <1>3, <1>5
<1> HIDE DEF bumped
<1>7. QED
  BY <1>1, <1>3, <1>4, <1>5, <1>6 DEF e, k

\* A request's part of the invariant, when only others have moved.
LEMMA AnnouncedFrame ==
    ASSUME TypeControl, Announced, NEW r \in Request, OnlyOf(r), InFlight(r)' => AnnouncedOf(r)',
           \A q \in Request \ {r} : InFlight(q) /\ txn[q].records # <<>> =>
               trail'[Ep(q)] = trail[Ep(q)],
           \A e \in Episode, k \in EventKey :
               events[e][k] \in Nat /\ events'[e][k] \in Nat /\ events[e][k] <= events'[e][k],
           \A e \in Episode, o \in DOMAIN EventOf :
               Cardinality(RecordsTo(e, Target[o])) \in Nat
    PROVE  Announced'
<1> SUFFICES ASSUME NEW q \in Request, InFlight(q)', q # r PROVE AnnouncedOf(q)'
  BY DEF Announced
<1>1. request'[q] = request[q] /\ txn'[q] = txn[q] /\ InFlight(q) /\ AnnouncedOf(q)
  BY DEF OnlyOf, InFlight, Announced
<1>2. Ep(q)' = Ep(q) /\ Op(q)' = Op(q) /\ Ep(q) \in Episode
  BY <1>1, InFlightEpisode DEF Ep, Op
<1>3. ASSUME txn[q].records # <<>>, Op(q) \in DOMAIN EventOf, request[q].step \in Announcing
      PROVE  Cardinality(RecordsTo(Ep(q), Target[Op(q)]))' < events'[Ep(q)][EventOf[Op(q)]]
  <2>1. RecordsTo(Ep(q), Target[Op(q)])' = RecordsTo(Ep(q), Target[Op(q)])
    BY <1>1, <1>2, <1>3 DEF RecordsTo
  <2>2. Cardinality(RecordsTo(Ep(q), Target[Op(q)])) < events[Ep(q)][EventOf[Op(q)]]
    BY <1>1, <1>3 DEF AnnouncedOf
  <2>3. EventOf[Op(q)] \in EventKey
    BY <1>3, OperationFacts
  <2>4. QED
    BY <1>2, <1>3, <2>1, <2>2, <2>3
<1>4. QED
  BY <1>1, <1>2, <1>3 DEF AnnouncedOf

LEMMA TrailsCounted ==
    ASSUME TypeOK
    PROVE  \A e \in Episode, o \in DOMAIN EventOf :
               Cardinality(RecordsTo(e, Target[o])) \in Nat
<1> SUFFICES ASSUME NEW e \in Episode, NEW o \in DOMAIN EventOf
             PROVE  Cardinality(RecordsTo(e, Target[o])) \in Nat
  OBVIOUS
<1>1. trail[e] \in Seq(TransitionRecord)
  BY DEF TypeOK
<1>2. IsFiniteSet(1 .. Len(trail[e])) /\ RecordsTo(e, Target[o]) \in SUBSET (1 .. Len(trail[e]))
  BY <1>1, FS_Interval DEF RecordsTo
<1>3. QED
  BY <1>2, FS_Subset, FS_CardinalityType

LEMMA AnnouncedStep ==
    TypeControl /\ Locks /\ Trails /\ Announced /\ NoMoveWithoutEvent /\ [Next]_vars
        => Announced'
<1> SUFFICES ASSUME TypeControl, Locks, Trails, Announced, NoMoveWithoutEvent, [Next]_vars
             PROVE  Announced'
  OBVIOUS
<1>1. \A e \in Episode, k \in EventKey : events[e][k] \in Nat
  BY DEF TypeControl, TypeOK
<1>2. \A e \in Episode, o \in DOMAIN EventOf : Cardinality(RecordsTo(e, Target[o])) \in Nat
  BY TrailsCounted DEF TypeControl
<1>3. CASE UNCHANGED <<trail, events, request, txn>>
  BY <1>3 DEF Announced, InFlight, AnnouncedOf, RecordsTo, Op, Ep
<1>4. ASSUME NEW r \in Request, OnlyOf(r), InFlight(r)' => AnnouncedOf(r)',
             UNCHANGED <<trail, events>>
      PROVE  Announced'
  BY <1>1, <1>2, <1>4, AnnouncedFrame
<1>5. ASSUME NEW r \in Request, Ends(r), UNCHANGED <<trail, events>> PROVE Announced'
  BY <1>4, <1>5 DEF Ends, InFlight, Idle, Fresh
<1>6. ASSUME NEW r \in Request, NEW e \in Episode, Receive(r, e) PROVE Announced'
  <2>1. PICK o \in Operation, step \in {"read_annotation", "attach", "apply"} :
            /\ ~InFlight(r) /\ request'[r].step = step
            /\ OnlyOf(r) /\ txn' = txn /\ UNCHANGED <<trail, events>>
    BY <1>6, ArriveEffect DEF InFlight, dbVars
  <2>2. txn'[r].records = <<>> /\ request'[r].step \notin Announcing
    BY <2>1 DEF TypeControl, Control, NoWrites, Announcing
  <2>3. AnnouncedOf(r)'
    BY <2>2 DEF AnnouncedOf
  <2>4. QED
    BY <1>4, <2>1, <2>3
<1>7. ASSUME NEW r \in Request, Statement(r) PROVE Announced'
  <2>1. /\ InFlight(r) /\ AnnouncedOf(r) /\ LocksOf(r)
        /\ Op(r) \in Operation /\ Ep(r) \in Episode
        /\ trail' = trail /\ (~Publish(r) => events' = events)
    BY <1>7, StatementEffect, InFlightEpisode DEF Announced, Locks, dbVars
  <2>2. ASSUME NEW s, GoesOn(r, s), txn'[r].records = <<>>, events' = events PROVE Announced'
    <3>1. AnnouncedOf(r)'
      BY <2>2 DEF AnnouncedOf
    <3>2. QED
      BY <1>4, <2>1, <2>2, <3>1 DEF GoesOn
  <2>3. CASE \/ ReadAnnotation(r) \/ WriteAnnotation(r) \/ ReadEpisode(r) \/ Attach(r)
             \/ Guard(r) \/ ReadForUpdate(r)
    <3>1. request[r].step \notin Announcing \cup {"publish"}
      BY <2>3
         DEF ReadAnnotation, WriteAnnotation, ReadEpisode, Attach, Guard, ReadForUpdate, Announcing
    <3>2. txn[r].records = <<>>
      BY <2>1, <3>1 DEF AnnouncedOf
    <3>3. ~Publish(r)
      BY <3>1 DEF Publish
    <3>4. \/ Ends(r)
          \/ \E s \in Step : GoesOn(r, s) /\ txn'[r].records = txn[r].records
      BY <2>3, ReadAnnotationEffect, WriteAnnotationEffect, ReadEpisodeEffect, AttachEffect,
         GuardEffect, ReadForUpdateEffect DEF Step
    <3>5. QED
      BY <1>5, <2>1, <2>2, <3>2, <3>3, <3>4
  <2>4. CASE Flush(r)
    <3>1. request[r].step = "flush" /\ ~Publish(r)
      BY <2>4 DEF Flush, Publish
    <3>2. txn[r].records = <<>>
      BY <2>1, <3>1 DEF AnnouncedOf, Announcing
    <3>3. PICK x \in TransitionRecord :
              x.to = Target[Op(r)] /\ txn'[r].records = Append(txn[r].records, x)
      BY <2>4, FlushEffect
    <3>4. txn'[r].records = <<x>>
      BY <3>2, <3>3
    <3>5. /\ GoesOn(r, IF Op(r) \in DOMAIN EventOf THEN "publish" ELSE "commit")
          /\ "episode" \in txn'[r].locks
      BY <2>4, FlushEffect
    <3>6. AnnouncedOf(r)'
      BY <3>3, <3>4, <3>5 DEF AnnouncedOf, GoesOn, Op, Announcing
    <3>7. QED
      BY <1>4, <2>1, <3>1, <3>5, <3>6 DEF GoesOn
  <2>5. CASE Publish(r)
    <3> DEFINE w == txn[r].records
    <3>1. /\ GoesOn(r, IF Op(r) \in DOMAIN CounterOf THEN "read_counter" ELSE "commit")
          /\ \/ txn' = txn /\ Op(r) # "upload_complete"
             \/ /\ Op(r) = "upload_complete" /\ txn'[r].locks = txn[r].locks
                /\ \E x \in TransitionRecord :
                       x.to = "processing" /\ txn'[r].records = Append(w, x)
      BY <2>5, PublishEffect
    <3>2. Op(r)' = Op(r) /\ Ep(r)' = Ep(r) /\ request'[r].step \in Announcing
      BY <3>1 DEF GoesOn, Op, Ep, Announcing
    <3>3. /\ \A i \in DOMAIN w : w[i].to \in {Target[Op(r)], "processing"}
          /\ \A i \in DOMAIN w : w[i].to = Target[Op(r)] => i = 1
          /\ "episode" \notin txn[r].locks => w = <<>>
      BY <2>1 DEF AnnouncedOf
    <3>4. w \in Seq(TransitionRecord)
      BY <2>1, InFlightEpisode DEF WritesType
    <3>5. /\ \A i \in DOMAIN txn'[r].records :
                 txn'[r].records[i].to \in {Target[Op(r)], "processing"}
          /\ \A i \in DOMAIN txn'[r].records :
                 txn'[r].records[i].to = Target[Op(r)] => i = 1
      <4>1. CASE txn' = txn
        BY <3>3, <4>1
      <4>2. ASSUME NEW x \in TransitionRecord, x.to = "processing", txn'[r].records = Append(w, x)
            PROVE  <3>5!1 /\ <3>5!2
        <5>1. /\ DOMAIN txn'[r].records = 1 .. Len(w) + 1 /\ DOMAIN w = 1 .. Len(w)
              /\ Len(w) \in Nat
              /\ txn'[r].records[Len(w) + 1].to = "processing"
              /\ \A i \in 1 .. Len(w) : txn'[r].records[i] = w[i]
          BY <3>4, <4>2
        <5>2. Target[Op(r)] # "processing"
          BY <2>1, EventFacts
        <5> HIDE DEF w
        <5>3. QED
          BY <3>3, <5>1, <5>2
      <4>3. QED
        BY <3>1, <4>1, <4>2
    <3>6. "episode" \notin txn'[r].locks => txn'[r].records = <<>>
      <4>1. Op(r) = "upload_complete" => "episode" \in txn[r].locks
        BY <2>1, <2>5 DEF Publish, Trails, TrailOf
      <4>2. QED
        BY <3>1, <3>3, <4>1
    <3>7. Cardinality(RecordsTo(Ep(r), Target[Op(r)]))' < events'[Ep(r)][EventOf[Op(r)]]
      <4>1. /\ Op(r) \in DOMAIN EventOf
            /\ events'[Ep(r)][EventOf[Op(r)]] = events[Ep(r)][EventOf[Op(r)]] + 1
            /\ EventOf[Op(r)] \in EventKey
        BY <2>5, EventsGrow, OperationFacts
      <4>2. RecordsTo(Ep(r), Target[Op(r)])' = RecordsTo(Ep(r), Target[Op(r)])
        BY <2>1, <3>2 DEF RecordsTo
      <4>3. Cardinality(RecordsTo(Ep(r), Target[Op(r)])) <= events[Ep(r)][EventOf[Op(r)]]
        BY <2>1, <4>1 DEF NoMoveWithoutEvent
      <4>4. QED
        BY <1>1, <1>2, <2>1, <3>2, <4>1, <4>2, <4>3
    <3>8. AnnouncedOf(r)'
      BY <3>2, <3>5, <3>6, <3>7 DEF AnnouncedOf
    <3>9. \A e \in Episode, k \in EventKey :
              events[e][k] \in Nat /\ events'[e][k] \in Nat /\ events[e][k] <= events'[e][k]
      BY <2>5, EventsGrow
    <3>10. OnlyOf(r)
      BY <3>1 DEF GoesOn
    <3>11. QED
      BY <1>2, <2>1, <3>8, <3>9, <3>10, AnnouncedFrame
  <2>6. CASE ReadCounter(r) \/ WriteCounter(r)
    <3>1. request[r].step \in Announcing /\ ~Publish(r)
      BY <2>6 DEF ReadCounter, WriteCounter, Announcing, Publish
    <3>2. PICK s \in {"write_counter", "commit"} : GoesOn(r, s)
      BY <2>6, ReadCounterEffect, WriteCounterEffect
    <3>3. /\ txn'[r].records = txn[r].records
          /\ "episode" \in txn'[r].locks <=> "episode" \in txn[r].locks
      BY <2>6, ReadCounterEffect, WriteCounterEffect
    <3>4. AnnouncedOf(r)'
      BY <2>1, <3>1, <3>2, <3>3 DEF AnnouncedOf, GoesOn, RecordsTo, Op, Ep, Announcing
    <3>5. QED
      BY <1>4, <2>1, <3>1, <3>2, <3>4 DEF GoesOn
  <2>7. QED
    BY <1>7, <2>3, <2>4, <2>5, <2>6 DEF Statement
<1>8. ASSUME NEW r \in Request, Commit(r) PROVE Announced'
  <2>1. /\ Ends(r) /\ InFlight(r) /\ Ep(r) \in Episode /\ events' = events
        /\ \A e \in Episode \ {Ep(r)} : trail'[e] = trail[e]
        /\ trail'[Ep(r)] = trail[Ep(r)] \o txn[r].records
    BY <1>8, CommitEffect
  <2>2. ASSUME NEW q \in Request \ {r}, InFlight(q), txn[q].records # <<>>
        PROVE  trail'[Ep(q)] = trail[Ep(q)]
    <3>1. AnnouncedOf(q) /\ AnnouncedOf(r) /\ Ep(q) \in Episode
      BY <2>1, <2>2, InFlightEpisode DEF Announced
    <3>2. "episode" \in txn[q].locks
      BY <2>2, <3>1 DEF AnnouncedOf
    <3>3. CASE Ep(q) = Ep(r)
      <4>1. "episode" \notin txn[r].locks
        BY <3>2, <3>3 DEF Locks, LocksExclude, SameRow, Ep
      <4>2. txn[r].records = <<>>
        BY <3>1, <4>1 DEF AnnouncedOf
      <4>3. trail[Ep(r)] \in Seq(TransitionRecord)
        BY <2>1 DEF TypeControl, TypeOK
      <4>4. QED
        BY <2>1, <3>3, <4>2, <4>3
    <3>4. QED
      BY <2>1, <3>1, <3>3
  <2>3. OnlyOf(r) /\ ~InFlight(r)'
    BY <2>1 DEF Ends, InFlight, Idle, Fresh
  <2>4. QED
    BY <1>1, <1>2, <2>1, <2>2, <2>3, AnnouncedFrame
<1>9. ASSUME NEW r \in Request, Abort(r) PROVE Announced'
  BY <1>5, <1>9, DiscardEnds DEF Abort, TypeControl, dbVars
<1>10. ASSUME NEW e \in Episode, CreateEpisode(e) PROVE Announced'
  BY <1>3, <1>10 DEF CreateEpisode
<1>11. UNCHANGED vars => UNCHANGED <<trail, events, request, txn>>
  BY DEF vars
<1>12. QED
  BY <1>3, <1>6, <1>7, <1>8, <1>9, <1>10, <1>11, NextCases

LEMMA NoMoveWithoutEventStep ==
    TypeControl /\ Announced /\ NoMoveWithoutEvent /\ [Next]_vars => NoMoveWithoutEvent'
<1> SUFFICES ASSUME TypeControl, Announced, NoMoveWithoutEvent, [Next]_vars
             PROVE  NoMoveWithoutEvent'
  OBVIOUS
<1>1. CASE UNCHANGED <<trail, events>>
  BY <1>1 DEF NoMoveWithoutEvent, RecordsTo
<1>2. ASSUME NEW r \in Request, Publish(r), UNCHANGED trail PROVE NoMoveWithoutEvent'
  <2> SUFFICES ASSUME NEW e \in Episode, NEW o \in DOMAIN EventOf
               PROVE  Cardinality(RecordsTo(e, Target[o]))' <= events'[e][EventOf[o]]
    BY DEF NoMoveWithoutEvent
  <2>1. RecordsTo(e, Target[o])' = RecordsTo(e, Target[o])
    BY <1>2 DEF RecordsTo
  <2>2. /\ Cardinality(RecordsTo(e, Target[o])) \in Nat
        /\ Cardinality(RecordsTo(e, Target[o])) <= events[e][EventOf[o]]
    BY TrailsCounted DEF NoMoveWithoutEvent, TypeControl
  <2>3. /\ events[e][EventOf[o]] \in Nat /\ events'[e][EventOf[o]] \in Nat
        /\ events[e][EventOf[o]] <= events'[e][EventOf[o]]
    BY <1>2, EventsGrow, OperationFacts
  <2>4. QED
    BY <2>1, <2>2, <2>3
<1>3. ASSUME NEW r \in Request, Commit(r) PROVE NoMoveWithoutEvent'
  <2> SUFFICES ASSUME NEW e \in Episode, NEW o \in DOMAIN EventOf
               PROVE  Cardinality(RecordsTo(e, Target[o]))' <= events'[e][EventOf[o]]
    BY DEF NoMoveWithoutEvent
  <2> DEFINE w == txn[r].records
  <2>1. /\ InFlight(r) /\ Ep(r) \in Episode /\ events' = events
        /\ \A f \in Episode \ {Ep(r)} : trail'[f] = trail[f]
        /\ trail'[Ep(r)] = trail[Ep(r)] \o w
        /\ request[r].step \in Announcing
    <3>1. request[r].step \in Announcing
      BY <1>3 DEF Commit, Announcing
    <3>2. QED
      BY <1>3, <3>1, CommitEffect
  <2>2. AnnouncedOf(r) /\ Op(r) \in Operation /\ w \in Seq(TransitionRecord)
    BY <2>1, InFlightEpisode DEF Announced, WritesType
  <2>3. Cardinality(RecordsTo(e, Target[o])) <= events[e][EventOf[o]]
    BY DEF NoMoveWithoutEvent
  <2>4. CASE e # Ep(r)
    BY <2>1, <2>3, <2>4 DEF RecordsTo
  <2>5. CASE e = Ep(r) /\ (w = <<>> \/ o # Op(r))
    <3>1. \A i \in DOMAIN w : w[i].to # Target[o]
      BY <2>2, <2>5, EventFacts DEF AnnouncedOf
    <3>2. trail[e] \in Seq(TransitionRecord)
      BY DEF TypeControl, TypeOK
    <3> HIDE DEF w
    <3>3. RecordsIn(trail[e] \o w, Target[o]) = RecordsIn(trail[e], Target[o])
      BY <2>2, <3>1, <3>2, RecordsGrow
    <3>4. RecordsTo(e, Target[o])' = RecordsTo(e, Target[o])
      BY <2>1, <2>5, <3>3 DEF RecordsTo, RecordsIn
    <3>5. QED
      BY <2>1, <2>3, <3>4
  <2>6. CASE e = Ep(r) /\ w # <<>> /\ o = Op(r)
    <3>1. /\ \A i \in DOMAIN w : w[i].to = Target[o] => i = 1
          /\ Cardinality(RecordsTo(e, Target[o])) < events[e][EventOf[o]]
      BY <2>1, <2>2, <2>6 DEF AnnouncedOf
    <3>2. trail[e] \in Seq(TransitionRecord)
      BY DEF TypeControl, TypeOK
    <3> HIDE DEF w
    <3> DEFINE Old == RecordsIn(trail[e], Target[o])
               New == RecordsIn(trail[e] \o w, Target[o])
    <3>3. /\ Cardinality(Old) \in Nat /\ Cardinality(New) \in Nat
          /\ Cardinality(New) <= Cardinality(Old) + 1
      BY <2>2, <3>1, <3>2, RecordsGrow
    <3>4. RecordsTo(e, Target[o]) = Old /\ RecordsTo(e, Target[o])' = New
      BY <2>1, <2>6 DEF RecordsTo, RecordsIn
    <3>5. Cardinality(RecordsTo(e, Target[o]))' = Cardinality(New)
      BY <3>4
    <3>6. events[e][EventOf[o]] \in Nat
      BY OperationFacts DEF TypeControl, TypeOK
    <3> HIDE DEF Old, New
    <3>7. QED
      BY <2>1, <3>1, <3>3, <3>4, <3>5, <3>6
  <2>7. QED
    BY <2>4, <2>5, <2>6
<1>4. ASSUME NEW r \in Request, NEW e \in Episode, Receive(r, e) PROVE UNCHANGED <<trail, events>>
  BY <1>4, ArriveEffect DEF dbVars
<1>5. ASSUME NEW r \in Request, Abort(r) PROVE UNCHANGED <<trail, events>>
  BY <1>5 DEF Abort, dbVars
<1>6. ASSUME NEW r \in Request, Statement(r) PROVE NoMoveWithoutEvent'
  BY <1>1, <1>2, <1>6, StatementEffect DEF dbVars
<1>7. ASSUME NEW e \in Episode, CreateEpisode(e) PROVE UNCHANGED <<trail, events>>
  BY <1>7 DEF CreateEpisode
<1>8. UNCHANGED vars => UNCHANGED <<trail, events>>
  BY DEF vars
<1>9. QED
  BY <1>1, <1>3, <1>4, <1>5, <1>6, <1>7, <1>8, NextCases

\* No committed move that has an event goes unannounced, whatever fails and however requests
\* overlap: lifecycle.transition publishes before the route commits, and the lock of the
\* episodes row keeps two such moves of one Episode from being pending at once.
THEOREM EveryMoveAnnounced == Spec => []NoMoveWithoutEvent
<1>1. Init => Announced
  BY DEF Init, Announced, InFlight, Idle, Fresh
<1>2. Init => NoMoveWithoutEvent
  <2> SUFFICES ASSUME Init, NEW e \in Episode, NEW o \in DOMAIN EventOf
               PROVE  Cardinality(RecordsTo(e, Target[o])) <= events[e][EventOf[o]]
    BY DEF NoMoveWithoutEvent
  <2>1. trail[e] = <<>> /\ events[e][EventOf[o]] = 0
    BY OperationFacts DEF Init
  <2>2. RecordsTo(e, Target[o]) = {}
    BY <2>1 DEF RecordsTo
  <2>3. QED
    BY <2>1, <2>2, FS_EmptySet
<1>3. QED
  BY <1>1, <1>2, TrailsAlways, AnnouncedStep, NoMoveWithoutEventStep, PTL DEF Spec
------------------------------------------------------------------------------
(***************************************************************************)
(* The two copies of the segments.                                         *)
(***************************************************************************)

\* Steps at which a transaction that has written the status has written its last one.
Arrived == {"publish", "read_counter", "write_counter", "commit"}

\* What r writes to both rows: a submission to both, except where the row r loaded had it
\* already, and no other request to the annotation's.
CopiesOf(r) ==
    /\ "annotation" \in txn[r].locks =>
           IF Op(r) = "annotate"
           THEN txn[r].annotation.segments = request[r].payload
                    \/ request[r].noted = request[r].payload
           ELSE txn[r].annotation.segments = annotation[Ep(r)].segments
    /\ Op(r) = "annotate" =>
         /\ request[r].step \in PastGuard \cup {"guard"} => "episode" \in txn[r].locks
         /\ "episode" \in txn[r].locks => txn[r].segments = request[r].payload
                                              \/ request[r].found = request[r].payload
    /\ request[r].step \in Arrived /\ "episode" \in txn[r].locks =>
           txn[r].status \in {Target[Op(r)], "processing"}

Copies ==
    /\ \A e \in Episode : annotation[e].revision = 0 => annotation[e].segments = NoSegments
    /\ \A r \in Request : InFlight(r) => CopiesOf(r)

\* Only an annotator takes an Episode to review.
LEMMA ReviewFacts ==
    /\ \A o \in Operation : Target[o] = "annotation_review" => o = "annotate"
    /\ "annotate" \in HumanOperation /\ "annotate" \in Operation
  BY DEF Operation, Target, HumanOperation, Expected

\* The row as r writes it has what a submission leaves, and without one the row's segments.
LEMMA AnnotationWrittenSegments ==
    ASSUME TypeControl, Copies, NEW r \in Request, request[r].step = "write_annotation",
           request[r].revision = 0 => ~(annotation[Ep(r)].revision > 0)
    PROVE  IF Op(r) = "annotate"
           THEN AnnotationWritten(r).segments = Submitted(r)
           ELSE AnnotationWritten(r).segments = annotation[Ep(r)].segments
<1> DEFINE row == IF request[r].revision = 0
                  THEN [NoAnnotation EXCEPT !.revision = 1]
                  ELSE annotation[Ep(r)]
<1>1. /\ request[r].revision \in Nat /\ annotation[Ep(r)] \in Annotation
      /\ Op(r) \in HumanOperation /\ Ep(r) \in Episode
  BY InFlightEpisode DEF InFlight, RequestType, TypeControl, Control, ControlOf
<1>2. row \in Annotation /\ row.segments = annotation[Ep(r)].segments
  <2>1. CASE request[r].revision = 0
    <3>1. row = [revision |-> 1, segments |-> NoSegments, verify |-> "none", review |-> "none"]
      BY <2>1 DEF NoAnnotation
    <3>2. annotation[Ep(r)].segments = NoSegments
      BY <1>1, <2>1 DEF Annotation, Copies
    <3>3. row \in Annotation /\ row.segments = NoSegments
      BY <3>1 DEF Annotation, AnySegments, Decision
    <3>4. QED
      BY <3>2, <3>3
  <2>2. CASE request[r].revision # 0
    BY <1>1, <2>2
  <2>3. QED
    BY <2>1, <2>2
<1> HIDE DEF row
<1>3. CASE Op(r) = "verify_approve"
  <2>1. AnnotationWritten(r) = [row EXCEPT !.verify = "approve"]
    BY <1>3 DEF AnnotationWritten, row
  <2>2. QED
    BY <1>2, <1>3, <2>1 DEF Annotation
<1>4. CASE Op(r) = "verify_reject"
  <2>1. AnnotationWritten(r) = [row EXCEPT !.verify = "reject"]
    BY <1>4 DEF AnnotationWritten, row
  <2>2. QED
    BY <1>2, <1>4, <2>1 DEF Annotation
<1>5. CASE Op(r) = "annotate"
  <2>1. AnnotationWritten(r) = [row EXCEPT !.segments = Submitted(r)]
    BY <1>5 DEF AnnotationWritten, row
  <2>2. QED
    BY <1>2, <1>5, <2>1 DEF Annotation
<1>6. CASE Op(r) = "review_approve"
  <2>1. AnnotationWritten(r) = [row EXCEPT !.review = "approve"]
    BY <1>6 DEF AnnotationWritten, row
  <2>2. QED
    BY <1>2, <1>6, <2>1 DEF Annotation
<1>7. CASE Op(r) = "review_reject"
  <2>1. AnnotationWritten(r) =
            [row EXCEPT !.review = "reject", !.revision = request[r].revision + 1]
    BY <1>7 DEF AnnotationWritten, row
  <2>2. QED
    BY <1>2, <1>7, <2>1 DEF Annotation
<1>8. QED
  BY <1>1, <1>3, <1>4, <1>5, <1>6, <1>7, ApprovalFacts

\* What a statement that does not end the request does to its payload, to the segments it
\* has loaded and to those it would write.
LEMMA SegmentsEffect ==
    ASSUME TypeControl, NEW r \in Request, Statement(r)
    PROVE  \/ Ends(r)
           \/ /\ request'[r].payload = request[r].payload
              /\ request'[r].noted =
                     IF ReadAnnotation(r) THEN annotation[Ep(r)].segments ELSE request[r].noted
              /\ request'[r].found =
                     IF ReadEpisode(r) THEN SeenSegments(r) ELSE request[r].found
              /\ txn'[r].segments =
                     IF Attach(r) THEN Attached(r)
                     ELSE IF Flush(r) THEN SeenSegments(r)
                     ELSE txn[r].segments
<1>1. request[r] \in RequestType /\ txn[r] \in WritesType /\ r \in DOMAIN request /\ r \in DOMAIN txn
  BY StatementEffect, InFlightEpisode DEF TypeControl, TypeOK
<1>2. ASSUME Discard(r) PROVE Ends(r)
  BY <1>2, DiscardEnds DEF TypeControl
<1>3. ASSUME NEW s, Proceed(r, s)
      PROVE  /\ request'[r].payload = request[r].payload
             /\ request'[r].noted = request[r].noted /\ request'[r].found = request[r].found
  BY <1>1, <1>3 DEF Proceed, RequestType
<1>4. CASE ReadAnnotation(r)
  <2>1. ~Attach(r) /\ ~Flush(r) /\ ~ReadEpisode(r)
    BY <1>4 DEF ReadAnnotation, ReadEpisode, Attach, Flush
  <2>2. CASE /\ request' = [request EXCEPT ![r].step = "write_annotation",
                                          ![r].revision = annotation[Ep(r)].revision,
                                          ![r].noted = annotation[Ep(r)].segments]
             /\ UNCHANGED txn
    <3>1. /\ request'[r].payload = request[r].payload /\ request'[r].found = request[r].found
          /\ request'[r].noted = annotation[Ep(r)].segments /\ txn'[r] = txn[r]
      BY <1>1, <2>2 DEF RequestType
    <3>2. QED
      BY <1>4, <2>1, <3>1
  <2>3. QED
    BY <1>2, <1>4, <2>2 DEF ReadAnnotation
<1>5. CASE WriteAnnotation(r)
  <2>1. ~Attach(r) /\ ~Flush(r) /\ ~ReadAnnotation(r) /\ ~ReadEpisode(r)
    BY <1>5 DEF WriteAnnotation, ReadAnnotation, ReadEpisode, Attach, Flush
  <2>2. QED
    BY <1>1, <1>2, <1>3, <1>5, <2>1 DEF WriteAnnotation, WritesType
<1>5a. CASE ReadEpisode(r)
  <2>1. ~Attach(r) /\ ~Flush(r) /\ ~ReadAnnotation(r)
    BY <1>5a DEF ReadEpisode, ReadAnnotation, Attach, Flush
  <2>2. QED
    BY <1>1, <1>5a, <2>1 DEF ReadEpisode, RequestType
<1>6. CASE Attach(r)
  <2>1. ~ReadAnnotation(r) /\ ~ReadEpisode(r)
    BY <1>6 DEF Attach, ReadAnnotation, ReadEpisode
  <2>2. txn'[r].segments = Attached(r)
    BY <1>1, <1>6 DEF Attach, WritesType
  <2>3. QED
    BY <1>3, <1>6, <2>1, <2>2 DEF Attach
<1>7. CASE Guard(r)
  <2>1. ~Attach(r) /\ ~Flush(r) /\ ~ReadAnnotation(r) /\ ~ReadEpisode(r)
    BY <1>7 DEF Guard, ReadAnnotation, ReadEpisode, Attach, Flush
  <2>2. QED
    BY <1>1, <1>2, <1>3, <1>7, <2>1 DEF Guard
<1>8. CASE ReadForUpdate(r)
  <2>1. ~Attach(r) /\ ~Flush(r) /\ ~ReadAnnotation(r) /\ ~ReadEpisode(r)
    BY <1>8 DEF ReadForUpdate, ReadAnnotation, ReadEpisode, Attach, Flush
  <2>2. QED
    BY <1>1, <1>8, <2>1 DEF ReadForUpdate, RequestType
<1>9. CASE Flush(r)
  <2>1. ~Attach(r) /\ ~ReadAnnotation(r) /\ ~ReadEpisode(r)
    BY <1>9 DEF Flush, ReadAnnotation, ReadEpisode, Attach
  <2>2. txn'[r].segments = SeenSegments(r)
    BY <1>1, <1>9 DEF Flush, WritesType
  <2>3. QED
    BY <1>3, <1>9, <2>1, <2>2 DEF Flush
<1>10. CASE Publish(r)
  <2>1. ~Attach(r) /\ ~Flush(r) /\ ~ReadAnnotation(r) /\ ~ReadEpisode(r)
    BY <1>10 DEF Publish, ReadAnnotation, ReadEpisode, Attach, Flush
  <2>2. QED
    BY <1>1, <1>3, <1>10, <2>1 DEF Publish, WritesType
<1>11. CASE ReadCounter(r)
  <2>1. ~Attach(r) /\ ~Flush(r) /\ ~ReadAnnotation(r) /\ ~ReadEpisode(r)
    BY <1>11 DEF ReadCounter, ReadAnnotation, ReadEpisode, Attach, Flush
  <2>2. QED
    BY <1>1, <1>11, <2>1 DEF ReadCounter, RequestType
<1>12. CASE WriteCounter(r)
  <2>1. ~Attach(r) /\ ~Flush(r) /\ ~ReadAnnotation(r) /\ ~ReadEpisode(r)
    BY <1>12 DEF WriteCounter, ReadAnnotation, ReadEpisode, Attach, Flush
  <2>2. QED
    BY <1>1, <1>3, <1>12, <2>1 DEF WriteCounter, WritesType
<1>13. QED
  BY <1>4, <1>5, <1>5a, <1>6, <1>7, <1>8, <1>9, <1>10, <1>11, <1>12 DEF Statement

\* A request's part of the invariant, when only others have moved.
LEMMA CopiesFrame ==
    ASSUME TypeControl, Locks, Copies, NEW r \in Request, OnlyOf(r),
           InFlight(r)' => CopiesOf(r)',
           \A e \in Episode :
               \/ annotation'[e] = annotation[e]
               \/ e = Ep(r) /\ "annotation" \in txn[r].locks /\ annotation'[e].revision > 0
    PROVE  Copies'
<1>1. \A e \in Episode : annotation'[e].revision = 0 => annotation'[e].segments = NoSegments
  BY DEF Copies
<1>2. ASSUME NEW q \in Request, InFlight(q)', q # r PROVE CopiesOf(q)'
  <2>1. request'[q] = request[q] /\ txn'[q] = txn[q] /\ InFlight(q) /\ CopiesOf(q)
    BY <1>2 DEF OnlyOf, InFlight, Copies
  <2>2. Ep(q)' = Ep(q) /\ Op(q)' = Op(q) /\ Ep(q) \in Episode
    BY <2>1, InFlightEpisode DEF Ep, Op
  <2>3. "annotation" \in txn[q].locks => annotation'[Ep(q)] = annotation[Ep(q)]
    BY <1>2, <2>2 DEF Locks, LocksExclude, SameRow, Ep
  <2>4. QED
    BY <2>1, <2>2, <2>3 DEF CopiesOf
<1>3. QED
  BY <1>1, <1>2 DEF Copies

LEMMA CopiesStep ==
    TypeControl /\ Locks /\ Decisions /\ Copies /\ [Next]_vars => Copies'
<1> SUFFICES ASSUME TypeControl, Locks, Decisions, Copies, [Next]_vars PROVE Copies'
  OBVIOUS
<1>1. CASE UNCHANGED <<annotation, request, txn>>
  BY <1>1 DEF Copies, InFlight, CopiesOf, Op, Ep
<1>2. ASSUME NEW r \in Request, OnlyOf(r), InFlight(r)' => CopiesOf(r)', UNCHANGED annotation
      PROVE  Copies'
  BY <1>2, CopiesFrame
<1>3. ASSUME NEW r \in Request, Ends(r), UNCHANGED annotation PROVE Copies'
  BY <1>2, <1>3 DEF Ends, InFlight, Idle, Fresh
<1>4. ASSUME NEW r \in Request, NEW e \in Episode, Receive(r, e) PROVE Copies'
  <2>1. PICK o \in Operation, step \in {"read_annotation", "attach", "apply"} :
            /\ ~InFlight(r) /\ request'[r].step = step /\ request'[r].op = o
            /\ OnlyOf(r) /\ txn' = txn /\ annotation' = annotation
            /\ step = "read_annotation" <=> o \in HumanOperation
    BY <1>4, ArriveEffect DEF InFlight, dbVars
  <2>2. txn'[r].locks = {}
    BY <2>1 DEF TypeControl, Control, NoWrites
  <2>3. CopiesOf(r)'
    BY <2>1, <2>2, ReviewFacts DEF CopiesOf, PastGuard, Op
  <2>4. QED
    BY <1>2, <2>1, <2>3
<1>5. ASSUME NEW r \in Request, Statement(r) PROVE Copies'
  <2>1. /\ annotation' = annotation /\ InFlight(r) /\ CopiesOf(r) /\ LocksOf(r)
        /\ Op(r) \in Operation /\ Ep(r) \in Episode
    BY <1>5, StatementEffect, InFlightEpisode DEF Copies, Locks, dbVars
  <2>2. \/ Ends(r)
        \/ /\ request'[r].payload = request[r].payload
           /\ request'[r].noted =
                  IF ReadAnnotation(r) THEN annotation[Ep(r)].segments ELSE request[r].noted
           /\ request'[r].found =
                  IF ReadEpisode(r) THEN SeenSegments(r) ELSE request[r].found
           /\ txn'[r].segments =
                  IF Attach(r) THEN Attached(r)
                  ELSE IF Flush(r) THEN SeenSegments(r)
                  ELSE txn[r].segments
    BY <1>5, SegmentsEffect
  <2>3. CASE ReadAnnotation(r) /\ ~Ends(r)
    <3>1. /\ GoesOn(r, "write_annotation") /\ txn' = txn
          /\ request[r].step = "read_annotation"
      BY <2>3, ReadAnnotationEffect DEF ReadAnnotation
    <3>2. CopiesOf(r)'
      BY <2>1, <3>1 DEF CopiesOf, GoesOn, LocksOf, PastGuard, Arrived, Op, Ep
    <3>3. QED
      BY <1>2, <2>1, <3>1, <3>2 DEF GoesOn
  <2>4. CASE WriteAnnotation(r) /\ ~Ends(r)
    <3>1. /\ request[r].revision = 0 => ~(annotation[Ep(r)].revision > 0)
          /\ GoesOn(r, IF Op(r) = "annotate" THEN "read_episode" ELSE "guard")
          /\ txn'[r].locks = txn[r].locks \cup {"annotation"}
          /\ txn'[r].annotation = AnnotationWritten(r)
      BY <2>4, WriteAnnotationEffect
    <3>2. request[r].step = "write_annotation" /\ "episode" \notin txn[r].locks
      BY <2>1, <2>4 DEF WriteAnnotation, LocksOf, PastGuard
    <3>3. IF Op(r) = "annotate"
          THEN AnnotationWritten(r).segments = request[r].payload
                   \/ request[r].noted = request[r].payload
          ELSE AnnotationWritten(r).segments = annotation[Ep(r)].segments
      BY <3>1, <3>2, AnnotationWrittenSegments DEF Submitted, Updated
    <3>4. request'[r].payload = request[r].payload /\ request'[r].noted = request[r].noted
      <4>1. ~ReadAnnotation(r)
        BY <3>2 DEF ReadAnnotation
      <4>2. QED
        BY <2>2, <2>4, <4>1
    <3>5. CopiesOf(r)'
      BY <2>1, <3>1, <3>2, <3>3, <3>4 DEF CopiesOf, GoesOn, PastGuard, Arrived, Op, Ep
    <3>6. QED
      BY <1>2, <2>1, <3>1, <3>5 DEF GoesOn
  <2>4a. CASE ReadEpisode(r)
    <3>1. /\ GoesOn(r, "attach") /\ txn' = txn /\ request[r].step = "read_episode"
      BY <2>4a, ReadEpisodeEffect
    <3>2. ~Ends(r) /\ ~ReadAnnotation(r) /\ "episode" \notin txn[r].locks
      BY <2>1, <3>1 DEF Ends, GoesOn, Idle, Fresh, ReadAnnotation, LocksOf, PastGuard
    <3>3. request'[r].payload = request[r].payload /\ request'[r].noted = request[r].noted
      BY <2>2, <3>2
    <3>4. CopiesOf(r)'
      BY <2>1, <3>1, <3>2, <3>3 DEF CopiesOf, GoesOn, PastGuard, Arrived, Op, Ep
    <3>5. QED
      BY <1>2, <2>1, <3>1, <3>4 DEF GoesOn
  <2>5. CASE Attach(r)
    <3>1. /\ GoesOn(r, IF Op(r) = "upload_complete" THEN "apply" ELSE "guard")
          /\ txn'[r].locks = txn[r].locks \cup {"episode"}
          /\ txn'[r].annotation = txn[r].annotation
      BY <2>5, AttachEffect
    <3>2. /\ request[r].step = "attach" /\ ~Ends(r)
      BY <2>5, <3>1 DEF Attach, Ends, GoesOn, Idle, Fresh
    <3>3. /\ request'[r].payload = request[r].payload
          /\ request'[r].noted = request[r].noted /\ request'[r].found = request[r].found
          /\ Op(r) = "annotate" => txn'[r].segments = request[r].payload
                                      \/ request[r].found = request[r].payload
      <4>1. ~ReadAnnotation(r) /\ ~ReadEpisode(r)
        BY <3>2 DEF ReadAnnotation, ReadEpisode
      <4>2. QED
        BY <2>2, <2>5, <3>2, <4>1 DEF Attached, Updated
    <3>4. CopiesOf(r)'
      BY <2>1, <3>1, <3>3 DEF CopiesOf, GoesOn, Arrived, Op, Ep
    <3>5. QED
      BY <1>2, <2>1, <3>1, <3>4 DEF GoesOn
  <2>6. CASE Guard(r) /\ ~Ends(r)
    <3>1. PICK s \in {"commit", "apply"} :
              /\ GoesOn(r, s) /\ txn' = txn
              /\ s = "commit" => SeenStatus(r) = Target[Op(r)]
      BY <2>6, GuardEffect
    <3>2. /\ request[r].step = "guard" /\ request'[r].payload = request[r].payload
          /\ request'[r].noted = request[r].noted /\ request'[r].found = request[r].found
      BY <2>2, <2>6 DEF Guard, ReadAnnotation, ReadEpisode
    <3>3. CopiesOf(r)'
      BY <2>1, <3>1, <3>2 DEF CopiesOf, GoesOn, PastGuard, Arrived, SeenStatus, Op, Ep
    <3>4. QED
      BY <1>2, <2>1, <3>1, <3>3 DEF GoesOn
  <2>7. CASE ReadForUpdate(r)
    <3>1. /\ GoesOn(r, IF SeenStatus(r) # Target[Op(r)] THEN "flush"
                       ELSE IF Op(r) = "upload_complete" THEN "publish" ELSE "commit")
          /\ txn' = txn
      BY <2>7, ReadForUpdateEffect
    <3>2. /\ request[r].step = "apply" /\ ~Ends(r)
      <4>1. request'[r].step \in {"flush", "publish", "commit"}
        BY <3>1 DEF GoesOn
      <4>2. request[r].step = "apply"
        BY <2>7 DEF ReadForUpdate
      <4>3. Ends(r) => request'[r].step = "idle"
        BY DEF Ends, Idle, Fresh
      <4>4. QED
        BY <4>1, <4>2, <4>3
    <3>3. /\ request'[r].payload = request[r].payload
          /\ request'[r].noted = request[r].noted /\ request'[r].found = request[r].found
      BY <2>2, <3>2 DEF ReadAnnotation, ReadEpisode
    <3>4. CopiesOf(r)'
      BY <2>1, <3>1, <3>2, <3>3 DEF CopiesOf, GoesOn, PastGuard, Arrived, SeenStatus, Op, Ep
    <3>5. QED
      BY <1>2, <2>1, <3>1, <3>4 DEF GoesOn
  <2>8. CASE Flush(r)
    <3>1. /\ GoesOn(r, IF Op(r) \in DOMAIN EventOf THEN "publish" ELSE "commit")
          /\ txn'[r].locks = txn[r].locks \cup {"episode"}
          /\ txn'[r].status = Target[Op(r)]
          /\ txn'[r].annotation = txn[r].annotation
      BY <2>8, FlushEffect
    <3>2. request[r].step = "flush" /\ ~Ends(r) /\ ~Attach(r)
      BY <2>8, <3>1 DEF Flush, Attach, Ends, GoesOn, Idle, Fresh
    <3>3. /\ request'[r].payload = request[r].payload /\ txn'[r].segments = SeenSegments(r)
          /\ request'[r].noted = request[r].noted /\ request'[r].found = request[r].found
      BY <2>2, <2>8, <3>2 DEF ReadAnnotation, ReadEpisode
    <3>4. CopiesOf(r)'
      BY <2>1, <3>1, <3>2, <3>3 DEF CopiesOf, GoesOn, PastGuard, SeenSegments, Op, Ep
    <3>5. QED
      BY <1>2, <2>1, <3>1, <3>4 DEF GoesOn
  <2>9. ASSUME NEW s \in Arrived, GoesOn(r, s), request[r].step \in Arrived,
               txn'[r].annotation = txn[r].annotation,
               "annotation" \in txn'[r].locks <=> "annotation" \in txn[r].locks,
               "episode" \in txn'[r].locks <=> "episode" \in txn[r].locks,
               txn'[r].status \in {txn[r].status, "processing"},
               ~Attach(r), ~Flush(r)
        PROVE  Copies'
    <3>1. ~Ends(r)
      BY <2>9 DEF Ends, GoesOn, Idle, Fresh, Arrived
    <3>2. /\ request'[r].payload = request[r].payload /\ txn'[r].segments = txn[r].segments
          /\ request'[r].noted = request[r].noted /\ request'[r].found = request[r].found
      BY <2>2, <2>9, <3>1 DEF ReadAnnotation, ReadEpisode, Arrived
    <3>3. CopiesOf(r)'
      BY <2>1, <2>9, <3>2 DEF CopiesOf, GoesOn, PastGuard, Arrived, Op, Ep
    <3>4. QED
      BY <1>2, <2>1, <2>9, <3>3 DEF GoesOn
  <2>10. CASE Publish(r)
    <3>1. request[r].step \in Arrived /\ ~Attach(r) /\ ~Flush(r)
      BY <2>10 DEF Publish, Attach, Flush, Arrived
    <3>2. PICK s \in {"read_counter", "commit"} : GoesOn(r, s)
      BY <2>10, PublishEffect
    <3>3. /\ txn'[r].annotation = txn[r].annotation /\ txn'[r].locks = txn[r].locks
          /\ txn'[r].status \in {txn[r].status, "processing"}
      BY <2>10, PublishEffect
    <3>4. QED
      BY <2>9, <3>1, <3>2, <3>3 DEF Arrived
  <2>11. CASE ReadCounter(r) \/ WriteCounter(r)
    <3>1. request[r].step \in Arrived /\ ~Attach(r) /\ ~Flush(r)
      BY <2>11 DEF ReadCounter, WriteCounter, Attach, Flush, Arrived
    <3>2. PICK s \in {"write_counter", "commit"} : GoesOn(r, s)
      BY <2>11, ReadCounterEffect, WriteCounterEffect
    <3>3. /\ txn'[r].annotation = txn[r].annotation /\ txn'[r].status = txn[r].status
          /\ "annotation" \in txn'[r].locks <=> "annotation" \in txn[r].locks
          /\ "episode" \in txn'[r].locks <=> "episode" \in txn[r].locks
      BY <2>11, ReadCounterEffect, WriteCounterEffect
    <3>4. QED
      BY <2>9, <3>1, <3>2, <3>3 DEF Arrived
  <2>12. QED
    BY <1>3, <1>5, <2>1, <2>3, <2>4, <2>4a, <2>5, <2>6, <2>7, <2>8, <2>10, <2>11 DEF Statement
<1>6. ASSUME NEW r \in Request, Commit(r) PROVE Copies'
  <2>1. Ends(r) /\ InFlight(r) /\ DecisionsOf(r)
    BY <1>6, CommitEffect DEF Decisions
  <2>2. OnlyOf(r) /\ ~InFlight(r)'
    BY <2>1 DEF Ends, InFlight, Idle, Fresh
  <2>3. /\ \A e \in Episode \ {Ep(r)} : annotation'[e] = annotation[e]
        /\ annotation'[Ep(r)] =
               IF "annotation" \in txn[r].locks THEN txn[r].annotation ELSE annotation[Ep(r)]
    BY <1>6, CommitEffect
  <2>4. "annotation" \in txn[r].locks => txn[r].annotation.revision > 0
    BY <2>1 DEF DecisionsOf, AnnotationColumns
  <2>5. \A e \in Episode :
            \/ annotation'[e] = annotation[e]
            \/ e = Ep(r) /\ "annotation" \in txn[r].locks /\ annotation'[e].revision > 0
    BY <2>3, <2>4
  <2>6. QED
    BY <2>2, <2>5, CopiesFrame
<1>7. ASSUME NEW r \in Request, Abort(r) PROVE Copies'
  BY <1>3, <1>7, DiscardEnds DEF Abort, TypeControl, dbVars
<1>8. ASSUME NEW e \in Episode, CreateEpisode(e) PROVE Copies'
  BY <1>1, <1>8 DEF CreateEpisode
<1>9. UNCHANGED vars => UNCHANGED <<annotation, request, txn>>
  BY DEF vars, dbVars
<1>10. QED
  BY <1>1, <1>4, <1>5, <1>6, <1>7, <1>8, <1>9, NextCases

LEMMA ReviewSeesStep ==
    TypeControl /\ Decisions /\ Copies /\ ReviewSeesEpisodeSegments /\ [Next]_vars
        => ReviewSeesEpisodeSegments'
<1> SUFFICES ASSUME TypeControl, Decisions, Copies, ReviewSeesEpisodeSegments, [Next]_vars
             PROVE  ReviewSeesEpisodeSegments'
  OBVIOUS
<1>1. CASE UNCHANGED dbVars
  BY <1>1 DEF dbVars, ReviewSeesEpisodeSegments
<1>2. ASSUME NEW e \in Episode, CreateEpisode(e) PROVE ReviewSeesEpisodeSegments'
  <2>1. /\ annotation' = annotation /\ segments' = segments /\ overtaken' = overtaken
        /\ status'[e] = "recording"
        /\ \A f \in Episode \ {e} : status'[f] = status[f]
    BY <1>2 DEF CreateEpisode, TypeControl, TypeOK, InitialState
  <2>2. QED
    BY <2>1 DEF ReviewSeesEpisodeSegments
<1>3. ASSUME NEW r \in Request, Commit(r) PROVE ReviewSeesEpisodeSegments'
  <2> DEFINE e == Ep(r)
  <2>1. /\ e \in Episode /\ Op(r) \in Operation /\ request[r].step = "commit"
        /\ CopiesOf(r) /\ HoldsAnnotation(r)
    <3>1. InFlight(r) /\ request[r].step = "commit"
      BY <1>3, CommitEffect DEF Commit
    <3>2. QED
      BY <3>1, InFlightEpisode DEF Copies, Decisions, DecisionsOf
  <2>2. /\ segments'[e] = IF "episode" \in txn[r].locks THEN txn[r].segments ELSE segments[e]
        /\ \A f \in Episode \ {e} : segments'[f] = segments[f]
    BY <1>3, <2>1 DEF Commit, TypeControl, TypeOK
  <2>3. /\ \A f \in Episode \ {e} : status'[f] = status[f] /\ annotation'[f] = annotation[f]
        /\ status'[e] = IF "episode" \in txn[r].locks THEN txn[r].status ELSE status[e]
        /\ annotation'[e] =
               IF "annotation" \in txn[r].locks THEN txn[r].annotation ELSE annotation[e]
    BY <1>3, CommitEffect
  <2>3a. /\ \A f \in Episode \ {e} : f \in overtaken' <=> f \in overtaken
         /\ e \in overtaken' <=> IF Op(r) = "annotate" THEN LeavesOut(r) ELSE e \in overtaken
    BY <1>3 DEF Commit
  <2>4. ASSUME status'[e] = "annotation_review"
        PROVE  segments'[e] = annotation'[e].segments \/ e \in overtaken'
    <3>1. CASE "episode" \in txn[r].locks
      <4>1. Target[Op(r)] = "annotation_review"
        BY <2>1, <2>3, <2>4, <3>1 DEF CopiesOf, Arrived
      <4>2. Op(r) = "annotate" /\ Op(r) \in HumanOperation
        BY <2>1, <4>1, ReviewFacts
      <4>3. "annotation" \in txn[r].locks
        BY <2>1, <4>2 DEF HoldsAnnotation, PastGuard
      <4>4. segments'[e] = txn[r].segments /\ annotation'[e].segments = txn[r].annotation.segments
        BY <2>2, <2>3, <3>1, <4>3
      <4>5. ~LeavesOut(r) => /\ txn[r].segments = request[r].payload
                            /\ txn[r].annotation.segments = request[r].payload
        BY <2>1, <3>1, <4>2, <4>3 DEF CopiesOf, LeavesOut
      <4>6. QED
        BY <2>3a, <4>2, <4>4, <4>5
    <3>2. CASE "episode" \notin txn[r].locks
      <4>1. Op(r) # "annotate"
        BY <2>1, <3>2 DEF CopiesOf, PastGuard
      <4>2. annotation'[e].segments = annotation[e].segments
        BY <2>1, <2>3, <4>1 DEF CopiesOf
      <4>3. status[e] = "annotation_review" /\ segments'[e] = segments[e]
        BY <2>2, <2>3, <2>4, <3>2
      <4>4. QED
        BY <2>1, <2>3a, <4>1, <4>2, <4>3 DEF ReviewSeesEpisodeSegments
    <3>3. QED
      BY <3>1, <3>2
  <2>5. QED
    BY <2>1, <2>2, <2>3, <2>3a, <2>4 DEF ReviewSeesEpisodeSegments
<1>4. ASSUME NEW r \in Request, NEW e \in Episode, Receive(r, e) PROVE UNCHANGED dbVars
  BY <1>4, ArriveEffect DEF dbVars
<1>5. ASSUME NEW r \in Request, Abort(r) \/ Statement(r) PROVE UNCHANGED dbVars
  BY <1>5, StatementEffect DEF Abort
<1>6. UNCHANGED vars => UNCHANGED dbVars
  BY DEF vars, dbVars
<1>7. QED
  BY <1>1, <1>2, <1>3, <1>4, <1>5, <1>6, NextCases

\* What waits for review is what the annotator submitted, however submissions, reviews and
\* late algo results overlap: submit_annotation assigns both copies of the segments under
\* the locks of both rows, and whoever else writes the Episode's copy then has no edge out of
\* annotation_review to commit it with.  The one exception is the statement's own: a
\* resubmission of what it loaded from a row that was overtaken by another submission.
THEOREM ReviewAlwaysSeesSubmission == Spec => []ReviewSeesEpisodeSegments
<1>1. Init => Locks /\ Decisions /\ Copies /\ ReviewSeesEpisodeSegments
  BY DEF Init, Locks, LocksOf, LocksExclude, NoWrites, Decisions, FreshRow, NoAnnotation,
         InFlight, Idle, Fresh, Copies, ReviewSeesEpisodeSegments, Absent
<1>2. QED
  BY <1>1, TypeControlInit, TypeControlStep, LocksStep, DecisionsStep, CopiesStep,
     ReviewSeesStep, PTL DEF Spec

------------------------------------------------------------------------------
(***************************************************************************)
(* Requests that do not overlap.  What such a request has read of its      *)
(* Episode is still true when it writes: nobody else commits to it before. *)
(***************************************************************************)

\* Requests in flight are about different Episodes.
Lone == \A r, q \in Request : r # q /\ InFlight(r) /\ InFlight(q) => Ep(r) # Ep(q)

\* The records that r writes.
RecordOf(r) == [from |-> status[Ep(r)], to |-> Target[Op(r)], by |-> Actor(Op(r))]
Ingestion(r) == [from |-> "uploaded", to |-> "processing", by |-> Actor(Op(r))]

\* r's transaction has moved its Episode not at all, along one edge, or along two.
Unmoved(r) ==
    /\ txn[r].records = <<>>
    /\ "episode" \in txn[r].locks => txn[r].status = status[Ep(r)]

Moved(r) ==
    /\ "episode" \in txn[r].locks
    /\ CanTransition(status[Ep(r)], Target[Op(r)])
    /\ txn[r].status = Target[Op(r)]
    /\ txn[r].records = <<RecordOf(r)>>

Ingested(r) ==
    /\ "episode" \in txn[r].locks
    /\ txn[r].status = "processing"
    /\ txn[r].records = <<RecordOf(r), Ingestion(r)>>

\* Steps up to the write of the status.
Unflushed ==
    {"read_annotation", "write_annotation", "read_episode", "attach", "guard", "apply", "flush"}

\* A request that commits has moved, or is a replay that finds its target reached.
ProgressOf(r) ==
    /\ request[r].step \in Unflushed => Unmoved(r)
    /\ request[r].step \in {"apply", "flush"} => CanTransition(status[Ep(r)], Target[Op(r)])
    /\ request[r].step = "flush" => request[r].from = status[Ep(r)]
    /\ request[r].step = "publish" => Moved(r)
    /\ request[r].step \in {"read_counter", "write_counter", "commit"} =>
           \/ Op(r) = "upload_complete" /\ Ingested(r)
           \/ Op(r) # "upload_complete" /\ Moved(r)
           \/ Unmoved(r) /\ status[Ep(r)] = Target[Op(r)] /\ request[r].step = "commit"

\* The status that r's first statement found is there as long as r is.
JudgedOf(r) ==
    /\ Op(r) \in HumanOperation => status[Ep(r)] = Expected[Op(r)]
    /\ request[r].step = "attach" /\ Op(r) \in HumanOperation => Op(r) = "annotate"
    /\ Op(r) = "upload_complete" =>
           /\ status[Ep(r)] = "uploading"
           /\ request[r].step \notin {"read_annotation", "write_annotation", "guard"}

Undisturbed == \A r \in Request : InFlight(r) => ProgressOf(r) /\ JudgedOf(r)

LEMMA EdgeFacts ==
    /\ \A s \in Status : ~CanTransition(s, s)
    /\ \A o \in HumanOperation : Expected[o] # Target[o]
    /\ CanTransition("uploading", Target["upload_complete"])
    /\ Target["upload_complete"] = "uploaded"
    /\ "upload_complete" \notin HumanOperation
  BY DEF Status, Transitions, CanTransition, HumanOperation, Expected, Target

\* What a request has been admitted on.
LEMMA ArriveJudged ==
    ASSUME TypeControl, ~Overlap, NEW r \in Request, NEW e \in Episode, Receive(r, e)
    PROVE  /\ \A q \in Request : Ep(q) # e
           /\ request'[r].step = "apply" => CanTransition(status[e], Target[request'[r].op])
           /\ request'[r].op \in HumanOperation =>
                  status[e] = Expected[request'[r].op] /\ request'[r].step = "read_annotation"
           /\ request'[r].op = "upload_complete" =>
                  status[e] = "uploading" /\ request'[r].step = "attach"
<1>1. ASSUME NEW o, NEW p, NEW found, NEW step, Arrive(r, o, e, p, found, step)
      PROVE  /\ request'[r].op = o /\ request'[r].step = step
             /\ \A q \in Request : Ep(q) # e
  BY <1>1 DEF Arrive, Admitted, Fresh, TypeControl, TypeOK
<1>2. ASSUME NEW o \in HumanOperation, NEW p \in AnySegments, SubmitDecision(r, o, e, p)
      PROVE  Arrive(r, o, e, p, NoSegments, "read_annotation") /\ status[e] = Expected[o]
  BY <1>2 DEF SubmitDecision
<1>3. ASSUME UploadComplete(r, e)
      PROVE  Arrive(r, "upload_complete", e, NoSegments, NoSegments, "attach") /\ status[e] = "uploading"
  BY <1>3 DEF UploadComplete
<1>4. ASSUME NEW o \in {"algo_succeeded", "algo_failed"}, NEW p \in AnySegments,
             AlgoResult(r, o, e, p)
      PROVE  Arrive(r, o, e, p, segments[e], "attach")
  BY <1>4 DEF AlgoResult
<1>5. ASSUME NEW o \in Operation, RequestTransition(r, o, e)
      PROVE  /\ Arrive(r, o, e, NoSegments, NoSegments, "apply")
             /\ o \notin HumanOperation \cup {"upload_complete"}
             /\ CanTransition(status[e], Target[o])
  BY <1>5 DEF RequestTransition, HumanOperation, Expected
<1>6. {"algo_succeeded", "algo_failed"} \cap (HumanOperation \cup {"upload_complete"}) = {}
  BY DEF HumanOperation, Expected
<1>7. QED
  BY <1>1, <1>2, <1>3, <1>4, <1>5, <1>6, EdgeFacts DEF Receive

LEMMA LoneStep == ASSUME ~Overlap PROVE TypeControl /\ Lone /\ [Next]_vars => Lone'
<1> SUFFICES ASSUME TypeControl, Lone, [Next]_vars PROVE Lone'
  OBVIOUS
<1>1. CASE UNCHANGED request
  BY <1>1 DEF Lone, InFlight, Ep
<1>2. ASSUME NEW r \in Request, OnlyOf(r), InFlight(r)' => InFlight(r) /\ Ep(r)' = Ep(r)
      PROVE  Lone'
  BY <1>2 DEF Lone, OnlyOf, InFlight, Ep
<1>3. ASSUME NEW r \in Request, NEW e \in Episode, Receive(r, e) PROVE Lone'
  <2>1. OnlyOf(r) /\ request'[r].episode = e /\ \A q \in Request : request[q].episode # e
    BY <1>3, ArriveEffect, ArriveJudged DEF Ep
  <2>2. QED
    BY <2>1 DEF Lone, OnlyOf, InFlight, Ep
<1>4. ASSUME NEW r \in Request, Ends(r) PROVE Lone'
  BY <1>2, <1>4 DEF Ends, InFlight, Idle, Fresh
<1>5. ASSUME NEW r \in Request, NEW s, GoesOn(r, s), InFlight(r) PROVE Lone'
  BY <1>2, <1>5 DEF GoesOn, Ep
<1>6. ASSUME NEW r \in Request, Statement(r) PROVE Lone'
  <2>1. InFlight(r) /\ (Ends(r) \/ \E s \in Step : GoesOn(r, s))
    BY <1>6, StatementEffect, ReadAnnotationEffect, WriteAnnotationEffect, ReadEpisodeEffect,
       AttachEffect, GuardEffect, ReadForUpdateEffect, FlushEffect, PublishEffect, ReadCounterEffect, WriteCounterEffect
       DEF Statement, Step
  <2>2. QED
    BY <1>4, <1>5, <2>1
<1>7. ASSUME NEW r \in Request, Commit(r) \/ Abort(r) PROVE Lone'
  BY <1>4, <1>7, CommitEffect, DiscardEnds DEF Abort, TypeControl
<1>8. QED
  BY <1>1, <1>3, <1>6, <1>7, NextCases DEF vars, CreateEpisode

LEMMA AppendToOne == ASSUME NEW S, NEW a \in S, NEW b \in S PROVE Append(<<a>>, b) = <<a, b>>
<1> DEFINE s == Append(<<a>>, b)
           t == <<a, b>>
<1>1. <<a>> \in Seq(S) /\ Len(<<a>>) = 1 /\ <<a>>[1] = a
  OBVIOUS
<1>2. s \in Seq(S) /\ Len(s) = 2 /\ s[1] = a /\ s[2] = b
  BY <1>1
<1>3. t \in Seq(S) /\ Len(t) = 2 /\ t[1] = a /\ t[2] = b
  OBVIOUS
<1> HIDE DEF s, t
<1>4. \A i \in 1 .. 2 : i = 1 \/ i = 2
  OBVIOUS
<1>5. s = t
  BY <1>2, <1>3, <1>4, SeqEqual
<1>6. QED
  BY <1>5 DEF s, t

LEMMA RecordsTyped ==
    ASSUME TypeControl, NEW r \in Request, InFlight(r)
    PROVE  RecordOf(r) \in TransitionRecord /\ Ingestion(r) \in TransitionRecord
<1>1. Op(r) \in Operation /\ status[Ep(r)] \in Status
  BY DEF TypeControl, Control, ControlOf, Op
<1>2. QED
  BY <1>1, OperationFacts DEF RecordOf, Ingestion, TransitionRecord

\* The record that a flush writes, and the one of an ingestion.
LEMMA FlushRecord ==
    ASSUME TypeControl, NEW r \in Request, Flush(r)
    PROVE  txn'[r].records =
               Append(txn[r].records, [from |-> request[r].from, to |-> Target[Op(r)], by |-> Actor(Op(r))])
<1> DEFINE record == [from |-> request[r].from, to |-> Target[Op(r)], by |-> Actor(Op(r))]
<1>1. txn[r] \in WritesType
  BY InFlightEpisode DEF Flush, InFlight
<1>2. txn' = [txn EXCEPT ![r].locks = @ \cup {"episode"},
                         ![r].status = Target[Op(r)],
                         ![r].segments = SeenSegments(r),
                         ![r].records = Append(@, record)]
  BY DEF Flush
<1> HIDE DEF record
<1>3. txn'[r].records = Append(txn[r].records, record)
  BY <1>1, <1>2 DEF TypeControl, TypeOK, WritesType
<1>4. QED
  BY <1>3 DEF record

LEMMA PublishRecord ==
    ASSUME TypeControl, NEW r \in Request, Publish(r), Op(r) = "upload_complete"
    PROVE  txn'[r].records = Append(txn[r].records, Ingestion(r))
<1>1. txn[r] \in WritesType
  BY InFlightEpisode DEF Publish, InFlight
<1>2. txn' = [txn EXCEPT ![r].status = "processing", ![r].records = Append(@, Ingestion(r))]
  BY DEF Publish, Ingestion
<1>3. QED
  BY <1>1, <1>2 DEF TypeControl, TypeOK, WritesType

\* A step of r touches the status of no other request's Episode.
LEMMA UndisturbedFrame ==
    ASSUME TypeControl, Lone, Undisturbed, NEW r \in Request, OnlyOf(r),
           InFlight(r)' => ProgressOf(r)' /\ JudgedOf(r)',
           \A e \in Episode : status'[e] = status[e] \/ (InFlight(r) /\ e = Ep(r))
    PROVE  Undisturbed'
<1> SUFFICES ASSUME NEW q \in Request, q # r, InFlight(q)' PROVE ProgressOf(q)' /\ JudgedOf(q)'
  BY DEF Undisturbed
<1>1. request'[q] = request[q] /\ txn'[q] = txn[q] /\ InFlight(q) /\ ProgressOf(q) /\ JudgedOf(q)
  BY DEF OnlyOf, InFlight, Undisturbed
<1>2. status'[Ep(q)] = status[Ep(q)]
  BY <1>1, InFlightEpisode DEF Lone
<1>3. QED
  BY <1>1, <1>2 DEF ProgressOf, JudgedOf, Unmoved, Moved, Ingested, RecordOf, Ingestion, Op, Ep

LEMMA UndisturbedStep ==
    ASSUME ~Overlap PROVE TypeControl /\ Lone /\ Undisturbed /\ [Next]_vars => Undisturbed'
<1> SUFFICES ASSUME TypeControl, Lone, Undisturbed, [Next]_vars PROVE Undisturbed'
  OBVIOUS
<1>1. CASE UNCHANGED <<status, request, txn>>
  BY <1>1 DEF Undisturbed, InFlight, ProgressOf, JudgedOf, Unmoved, Moved, Ingested, RecordOf,
              Ingestion, Op, Ep
<1>2. ASSUME NEW r \in Request, OnlyOf(r), InFlight(r)' => ProgressOf(r)' /\ JudgedOf(r)',
             UNCHANGED status
      PROVE  Undisturbed'
  <2>1. \A e \in Episode : status'[e] = status[e] \/ (InFlight(r) /\ e = Ep(r))
    BY <1>2
  <2>2. QED
    BY <1>2, <2>1, UndisturbedFrame
<1>3. ASSUME NEW r \in Request, Ends(r), UNCHANGED status PROVE Undisturbed'
  BY <1>2, <1>3 DEF Ends, InFlight, Idle, Fresh
<1>4. ASSUME NEW e \in Episode, CreateEpisode(e) PROVE Undisturbed'
  <2>1. /\ UNCHANGED <<request, txn>> /\ status[e] = Absent
        /\ \A f \in Episode \ {e} : status'[f] = status[f]
    BY <1>4 DEF CreateEpisode, TypeControl, TypeOK
  <2>2. ASSUME NEW r \in Request, InFlight(r)' PROVE ProgressOf(r)' /\ JudgedOf(r)'
    <3>1. InFlight(r) /\ ProgressOf(r) /\ JudgedOf(r)
      BY <2>1, <2>2 DEF InFlight, Undisturbed
    <3>2. Ep(r) \in Episode /\ status[Ep(r)] \in Status
      BY <3>1 DEF TypeControl, Control, ControlOf, Ep
    <3>3. status'[Ep(r)] = status[Ep(r)]
      BY <2>1, <3>2, OperationFacts
    <3>4. QED
      BY <2>1, <3>1, <3>3
         DEF ProgressOf, JudgedOf, Unmoved, Moved, Ingested, RecordOf, Ingestion, Op, Ep
  <2>3. QED
    BY <2>2 DEF Undisturbed
<1>5. ASSUME NEW r \in Request, NEW e \in Episode, Receive(r, e) PROVE Undisturbed'
  <2>1. PICK o \in Operation, step \in {"read_annotation", "attach", "apply"} :
            /\ ~InFlight(r) /\ request'[r].step = step /\ request'[r].op = o
            /\ request'[r].episode = e /\ OnlyOf(r) /\ txn' = txn /\ status' = status
    BY <1>5, ArriveEffect DEF InFlight, dbVars
  <2>2. txn'[r].locks = {} /\ txn'[r].records = <<>>
    BY <2>1 DEF TypeControl, Control, NoWrites
  <2>3. /\ step = "apply" => CanTransition(status[e], Target[o])
        /\ o \in HumanOperation => status[e] = Expected[o] /\ step = "read_annotation"
        /\ o = "upload_complete" => status[e] = "uploading" /\ step = "attach"
    BY <1>5, <2>1, ArriveJudged
  <2>4. ProgressOf(r)'
    BY <2>1, <2>2, <2>3 DEF ProgressOf, Unmoved, Op, Ep
  <2>5. JudgedOf(r)'
    BY <2>1, <2>3 DEF JudgedOf, Op, Ep
  <2>6. QED
    BY <1>2, <2>1, <2>4, <2>5
<1>6. ASSUME NEW r \in Request, Statement(r) PROVE Undisturbed'
  <2>1. /\ InFlight(r) /\ ProgressOf(r) /\ JudgedOf(r) /\ status' = status
        /\ Ep(r) \in Episode /\ Op(r) \in Operation /\ status[Ep(r)] \in Status
        /\ txn[r].records \in Seq(TransitionRecord)
    BY <1>6, StatementEffect, InFlightEpisode
       DEF Undisturbed, dbVars, WritesType, TypeControl, Control, ControlOf
  <2>2. ASSUME NEW s, GoesOn(r, s), ProgressOf(r)',
               s = "attach" /\ Op(r) \in HumanOperation => Op(r) = "annotate",
               Op(r) = "upload_complete" => s \notin {"read_annotation", "write_annotation", "guard"}
        PROVE  Undisturbed'
    <3>1. JudgedOf(r)'
      BY <2>1, <2>2 DEF JudgedOf, GoesOn, Op, Ep
    <3>2. QED
      BY <1>2, <2>1, <2>2, <3>1 DEF GoesOn
  \* Up to the guard.
  <2>3. ASSUME NEW s \in Unflushed \ {"apply", "flush"}, GoesOn(r, s), request[r].step \in Unflushed,
               txn'[r].records = txn[r].records,
               "episode" \in txn'[r].locks => txn'[r].status = SeenStatus(r),
               s = "attach" /\ Op(r) \in HumanOperation => Op(r) = "annotate",
               Op(r) # "upload_complete"
        PROVE  Undisturbed'
    <3>1. SeenStatus(r) = status[Ep(r)] /\ txn[r].records = <<>>
      BY <2>1, <2>3 DEF ProgressOf, Unmoved, SeenStatus
    <3>2. ProgressOf(r)'
      BY <2>1, <2>3, <3>1 DEF ProgressOf, Unmoved, GoesOn, Unflushed, Op, Ep
    <3>3. QED
      BY <2>2, <2>3, <3>2
  <2>4. CASE ReadAnnotation(r) /\ ~Ends(r)
    <3>1. /\ GoesOn(r, "write_annotation") /\ txn' = txn
          /\ request[r].step = "read_annotation"
      BY <2>4, ReadAnnotationEffect DEF ReadAnnotation
    <3>2. Op(r) # "upload_complete"
      BY <2>1, <3>1 DEF JudgedOf
    <3>3. QED
      BY <2>3, <3>1, <3>2 DEF Unflushed, SeenStatus
  <2>5. CASE WriteAnnotation(r) /\ ~Ends(r)
    <3>1. /\ GoesOn(r, IF Op(r) = "annotate" THEN "read_episode" ELSE "guard")
          /\ txn'[r].locks = txn[r].locks \cup {"annotation"}
          /\ txn'[r].status = txn[r].status /\ txn'[r].records = txn[r].records
          /\ request[r].step = "write_annotation"
      BY <2>5, WriteAnnotationEffect DEF WriteAnnotation
    <3>2. Op(r) # "upload_complete"
      BY <2>1, <3>1 DEF JudgedOf
    <3>3. QED
      BY <2>3, <3>1, <3>2 DEF Unflushed, SeenStatus
  <2>5a. CASE ReadEpisode(r)
    <3>1. /\ GoesOn(r, "attach") /\ txn' = txn
          /\ request[r].step = "read_episode" /\ Op(r) = "annotate"
      BY <2>5a, ReadEpisodeEffect
    <3>2. QED
      BY <2>3, <3>1 DEF Unflushed, SeenStatus
  <2>6. CASE Attach(r)
    <3>1. /\ GoesOn(r, IF Op(r) = "upload_complete" THEN "apply" ELSE "guard")
          /\ txn'[r].locks = txn[r].locks \cup {"episode"}
          /\ txn'[r].status = SeenStatus(r) /\ txn'[r].records = txn[r].records
          /\ request[r].step = "attach"
      BY <2>6, AttachEffect DEF Attach
    <3>2. CASE Op(r) # "upload_complete"
      BY <2>3, <3>1, <3>2 DEF Unflushed
    <3>3. CASE Op(r) = "upload_complete"
      <4>1. SeenStatus(r) = status[Ep(r)] /\ txn[r].records = <<>>
        BY <2>1, <3>1 DEF ProgressOf, Unmoved, Unflushed, SeenStatus
      <4>2. CanTransition(status[Ep(r)], Target[Op(r)])
        BY <2>1, <3>3, EdgeFacts DEF JudgedOf
      <4>3. ProgressOf(r)'
        BY <2>1, <3>1, <3>3, <4>1, <4>2 DEF ProgressOf, Unmoved, GoesOn, Op, Ep
      <4>4. QED
        BY <2>2, <3>1, <3>3, <4>3
    <3>4. QED
      BY <3>2, <3>3
  <2>7. CASE Guard(r) /\ ~Ends(r)
    <3>1. request[r].step = "guard" /\ Unmoved(r) /\ Op(r) # "upload_complete" /\ txn' = txn
      BY <2>1, <2>7, GuardEffect DEF Guard, ProgressOf, JudgedOf, Unflushed
    <3>2. SeenStatus(r) = status[Ep(r)]
      BY <3>1 DEF Unmoved, SeenStatus
    <3>3. PICK s \in {"commit", "apply"} :
              /\ GoesOn(r, s)
              /\ s = "commit" => status[Ep(r)] = Target[Op(r)]
              /\ s = "apply" => CanTransition(status[Ep(r)], Target[Op(r)])
      BY <2>7, <3>2, GuardEffect
    <3>4. ProgressOf(r)'
      BY <2>1, <3>1, <3>3 DEF ProgressOf, Unmoved, GoesOn, Op, Ep
    <3>5. QED
      BY <2>2, <3>1, <3>3, <3>4
  <2>8. CASE ReadForUpdate(r)
    <3>1. /\ request[r].step = "apply" /\ Unmoved(r)
          /\ CanTransition(status[Ep(r)], Target[Op(r)])
      BY <2>1, <2>8 DEF ReadForUpdate, ProgressOf, Unflushed
    <3>2. SeenStatus(r) = status[Ep(r)] /\ status[Ep(r)] # Target[Op(r)]
      BY <2>1, <3>1, EdgeFacts DEF Unmoved, SeenStatus
    <3>3. GoesOn(r, "flush") /\ request'[r].from = status[Ep(r)] /\ txn' = txn
      BY <2>8, <3>2, ReadForUpdateEffect
    <3>4. ProgressOf(r)'
      BY <2>1, <3>1, <3>3 DEF ProgressOf, Unmoved, GoesOn, Op, Ep
    <3>5. QED
      BY <2>2, <3>3, <3>4
  <2>9. CASE Flush(r)
    <3>1. /\ request[r].step = "flush" /\ txn[r].records = <<>> /\ request[r].from = status[Ep(r)]
          /\ CanTransition(status[Ep(r)], Target[Op(r)])
      BY <2>1, <2>9 DEF Flush, ProgressOf, Unmoved, Unflushed
    <3>2. /\ GoesOn(r, IF Op(r) \in DOMAIN EventOf THEN "publish" ELSE "commit")
          /\ "episode" \in txn'[r].locks /\ txn'[r].status = Target[Op(r)]
      BY <2>9, FlushEffect
    <3>3. txn'[r].records = <<RecordOf(r)>>
      BY <2>9, <3>1, FlushRecord DEF RecordOf
    <3>4. Moved(r)'
      BY <2>1, <3>1, <3>2, <3>3 DEF Moved, RecordOf, GoesOn, Op, Ep
    <3>5. Op(r) = "upload_complete" => request'[r].step = "publish"
      BY <3>2, OperationFacts DEF GoesOn
    <3>6. ProgressOf(r)'
      BY <3>2, <3>4, <3>5 DEF ProgressOf, GoesOn, Unflushed, Op
    <3>7. QED
      BY <2>2, <3>2, <3>6
  <2>10. CASE Publish(r)
    <3>1. Moved(r)
      BY <2>1, <2>10 DEF Publish, ProgressOf
    <3>2. GoesOn(r, IF Op(r) \in DOMAIN CounterOf THEN "read_counter" ELSE "commit")
      BY <2>10, PublishEffect
    <3>3. CASE Op(r) # "upload_complete"
      <4>1. txn' = txn
        BY <2>10, <3>3, PublishEffect
      <4>2. Moved(r)'
        BY <2>1, <3>1, <3>2, <4>1 DEF Moved, RecordOf, GoesOn, Op, Ep
      <4>3. ProgressOf(r)'
        BY <3>2, <3>3, <4>2 DEF ProgressOf, GoesOn, Unflushed, Op
      <4>4. QED
        BY <2>2, <3>2, <4>3
    <3>4. CASE Op(r) = "upload_complete"
      <4>1. /\ txn'[r].locks = txn[r].locks /\ txn'[r].status = "processing"
            /\ txn'[r].records = <<RecordOf(r), Ingestion(r)>>
        <5>1. txn'[r].records = Append(<<RecordOf(r)>>, Ingestion(r))
          BY <2>10, <3>1, <3>4, PublishRecord DEF Moved
        <5>2. QED
          BY <2>1, <2>10, <3>4, <5>1, PublishEffect, RecordsTyped, AppendToOne
      <4>2. Ingested(r)'
        BY <2>1, <3>1, <3>2, <4>1 DEF Moved, Ingested, RecordOf, Ingestion, GoesOn, Op, Ep
      <4>3. ProgressOf(r)'
        BY <3>2, <3>4, <4>2 DEF ProgressOf, GoesOn, Unflushed, Op
      <4>4. QED
        BY <2>2, <3>2, <4>3
    <3>5. QED
      BY <3>3, <3>4
  <2>11. CASE ReadCounter(r) \/ WriteCounter(r)
    <3>1. request[r].step \in {"read_counter", "write_counter"}
      BY <2>11 DEF ReadCounter, WriteCounter
    <3>2. PICK s \in {"write_counter", "commit"} : GoesOn(r, s)
      BY <2>11, ReadCounterEffect, WriteCounterEffect
    <3>3. /\ "episode" \in txn'[r].locks <=> "episode" \in txn[r].locks
          /\ txn'[r].status = txn[r].status /\ txn'[r].records = txn[r].records
      BY <2>11, ReadCounterEffect, WriteCounterEffect
    <3>4. Moved(r) => Moved(r)'
      BY <2>1, <3>2, <3>3 DEF Moved, RecordOf, GoesOn, Op, Ep
    <3>5. Ingested(r) => Ingested(r)'
      BY <2>1, <3>2, <3>3 DEF Ingested, RecordOf, Ingestion, GoesOn, Op, Ep
    <3>6. ProgressOf(r)'
      BY <2>1, <3>1, <3>2, <3>4, <3>5 DEF ProgressOf, GoesOn, Unflushed, Op
    <3>7. QED
      BY <2>2, <3>2, <3>6
  <2>12. QED
    BY <1>3, <1>6, <2>1, <2>4, <2>5, <2>5a, <2>6, <2>7, <2>8, <2>9, <2>10, <2>11 DEF Statement
<1>7. ASSUME NEW r \in Request, Commit(r) PROVE Undisturbed'
  <2>1. Ends(r) /\ InFlight(r) /\ \A e \in Episode \ {Ep(r)} : status'[e] = status[e]
    BY <1>7, CommitEffect
  <2>2. OnlyOf(r) /\ ~InFlight(r)'
    BY <2>1 DEF Ends, InFlight, Idle, Fresh
  <2>3. \A e \in Episode : status'[e] = status[e] \/ (InFlight(r) /\ e = Ep(r))
    BY <2>1
  <2>4. InFlight(r)' => ProgressOf(r)' /\ JudgedOf(r)'
    BY <2>2
  <2>5. QED
    BY <2>2, <2>3, <2>4, UndisturbedFrame
<1>8. ASSUME NEW r \in Request, Abort(r) PROVE Undisturbed'
  BY <1>3, <1>8, DiscardEnds DEF Abort, TypeControl, dbVars
<1>9. QED
  BY <1>1, <1>4, <1>5, <1>6, <1>7, <1>8, NextCases DEF vars

LEMMA UndisturbedAlways ==
    ASSUME ~Overlap PROVE Spec => [](TypeControl /\ Lone /\ Undisturbed)
<1>1. Init => Lone /\ Undisturbed
  BY DEF Init, Lone, Undisturbed, InFlight, Idle, Fresh
<1>2. TypeControl /\ Lone /\ Undisturbed /\ [Next]_vars => (TypeControl /\ Lone /\ Undisturbed)'
  BY TypeControlStep, LoneStep, UndisturbedStep
<1>3. QED
  BY <1>1, <1>2, TypeControlInit, PTL DEF Spec

\* What a transaction does to status and trail when it commits.
LEMMA CommitMoves ==
    ASSUME TypeControl, Undisturbed, NEW r \in Request, Commit(r)
    PROVE  /\ JudgedOf(r) /\ Ep(r) \in Episode /\ Op(r) \in Operation
           /\ status[Ep(r)] \in Status
           /\ \/ /\ Op(r) = "upload_complete" /\ Ingested(r)
                 /\ status'[Ep(r)] = "processing"
                 /\ trail'[Ep(r)] = trail[Ep(r)] \o <<RecordOf(r), Ingestion(r)>>
              \/ /\ Op(r) # "upload_complete" /\ Moved(r)
                 /\ status'[Ep(r)] = Target[Op(r)]
                 /\ trail'[Ep(r)] = Append(trail[Ep(r)], RecordOf(r))
              \/ /\ Op(r) \notin HumanOperation \cup {"upload_complete"}
                 /\ Unmoved(r) /\ status[Ep(r)] = Target[Op(r)]
                 /\ status'[Ep(r)] = status[Ep(r)] /\ trail'[Ep(r)] = trail[Ep(r)]
<1>1. /\ InFlight(r) /\ request[r].step = "commit" /\ ProgressOf(r) /\ JudgedOf(r)
      /\ Ep(r) \in Episode /\ Op(r) \in Operation /\ status[Ep(r)] \in Status
      /\ trail[Ep(r)] \in Seq(TransitionRecord)
  <2>1. InFlight(r) /\ request[r].step = "commit"
    BY CommitEffect DEF Commit
  <2>2. QED
    BY <2>1, InFlightEpisode DEF Undisturbed, TypeControl, TypeOK, Control, ControlOf
<1>2. /\ status'[Ep(r)] = IF "episode" \in txn[r].locks THEN txn[r].status ELSE status[Ep(r)]
      /\ trail'[Ep(r)] = trail[Ep(r)] \o txn[r].records
  BY CommitEffect
<1>3. CASE Op(r) = "upload_complete" /\ Ingested(r)
  BY <1>1, <1>2, <1>3 DEF Ingested
<1>4. CASE Op(r) # "upload_complete" /\ Moved(r)
  <2>1. trail'[Ep(r)] = Append(trail[Ep(r)], RecordOf(r))
    <3>1. trail'[Ep(r)] = trail[Ep(r)] \o <<RecordOf(r)>>
      BY <1>2, <1>4 DEF Moved
    <3>2. RecordOf(r) \in TransitionRecord
      BY <1>1, OperationFacts DEF RecordOf, TransitionRecord
    <3>3. QED
      BY <1>1, <3>1, <3>2
  <2>2. QED
    BY <1>1, <1>2, <1>4, <2>1 DEF Moved
<1>5. CASE Unmoved(r) /\ status[Ep(r)] = Target[Op(r)]
  <2>1. Op(r) \notin HumanOperation \cup {"upload_complete"}
    BY <1>1, <1>5, EdgeFacts DEF JudgedOf
  <2>2. trail'[Ep(r)] = trail[Ep(r)]
    BY <1>1, <1>2, <1>5, ConcatNothing DEF Unmoved
  <2>3. QED
    BY <1>1, <1>2, <1>5, <2>1, <2>2 DEF Unmoved
<1>6. QED
  BY <1>1, <1>3, <1>4, <1>5 DEF ProgressOf

------------------------------------------------------------------------------
(***************************************************************************)
(* Without overlap the committed database follows the abstract machine.    *)
(***************************************************************************)
EdgesOf(t) == [i \in DOMAIN t |-> EdgeOf(t[i])]

LEMMA EdgesTyped == \A t \in Seq(TransitionRecord) : EdgesOf(t) \in Seq(Edge) /\ Len(EdgesOf(t)) = Len(t)
<1> TAKE t \in Seq(TransitionRecord)
<1>1. DOMAIN t = 1 .. Len(t) /\ Len(t) \in Nat /\ \A i \in 1 .. Len(t) : t[i] \in TransitionRecord
  OBVIOUS
<1>2. \A x \in TransitionRecord : EdgeOf(x) \in Edge
  BY DEF EdgeOf, TransitionRecord, Edge
<1>3. EdgesOf(t) = [i \in 1 .. Len(t) |-> EdgeOf(t[i])]
  BY <1>1 DEF EdgesOf
<1>4. \A i \in 1 .. Len(t) : EdgeOf(t[i]) \in Edge
  BY <1>1, <1>2
<1> DEFINE u == [i \in 1 .. Len(t) |-> EdgeOf(t[i])]
<1>5. u \in [1 .. Len(t) -> Edge]
  BY <1>4
<1>6. \A v \in [1 .. Len(t) -> Edge] : v \in Seq(Edge) /\ Len(v) = Len(t)
  BY <1>1
<1>7. QED
  BY <1>3, <1>5, <1>6

LEMMA EdgesAppend ==
    ASSUME NEW t \in Seq(TransitionRecord), NEW x \in TransitionRecord
    PROVE  EdgesOf(Append(t, x)) = Append(EdgesOf(t), EdgeOf(x))
<1> DEFINE u == Append(t, x)
           v == Append(EdgesOf(t), EdgeOf(x))
<1>1. u \in Seq(TransitionRecord) /\ Len(u) = Len(t) + 1 /\ u[Len(t) + 1] = x
  OBVIOUS
<1>2. \A i \in 1 .. Len(t) : u[i] = t[i]
  OBVIOUS
<1>3. EdgesOf(t) \in Seq(Edge) /\ Len(EdgesOf(t)) = Len(t) /\ EdgeOf(x) \in Edge
  BY EdgesTyped DEF EdgeOf, TransitionRecord, Edge
<1>4. v \in Seq(Edge) /\ Len(v) = Len(t) + 1 /\ v[Len(t) + 1] = EdgeOf(x)
  BY <1>3
<1>5. \A i \in 1 .. Len(t) : v[i] = EdgesOf(t)[i]
  BY <1>3
<1>6. \A i \in 1 .. Len(t) : EdgesOf(t)[i] = EdgeOf(t[i])
  BY DEF EdgesOf
<1> HIDE DEF u, v
<1>7. EdgesOf(u) \in Seq(Edge) /\ Len(EdgesOf(u)) = Len(t) + 1
  BY <1>1, EdgesTyped
<1>8. \A i \in 1 .. Len(t) + 1 : EdgesOf(u)[i] = EdgeOf(u[i])
  BY <1>1 DEF EdgesOf
<1>9. \A i \in 1 .. Len(t) + 1 : EdgesOf(u)[i] = v[i]
  <2> TAKE i \in 1 .. Len(t) + 1
  <2>1. CASE i \in 1 .. Len(t)
    BY <1>2, <1>5, <1>6, <1>8, <2>1
  <2>2. CASE i = Len(t) + 1
    BY <1>1, <1>4, <1>8, <2>2
  <2>3. i \in 1 .. Len(t) \/ i = Len(t) + 1
    OBVIOUS
  <2>4. QED
    BY <2>1, <2>2, <2>3
<1>10. EdgesOf(u) = v
  BY <1>4, <1>7, <1>9, SeqEqual
<1>11. QED
  BY <1>10 DEF u, v

LEMMA ConcatTwo ==
    ASSUME NEW S, NEW t \in Seq(S), NEW x \in S, NEW y \in S
    PROVE  t \o <<x, y>> = Append(Append(t, x), y)
  OBVIOUS

LEMMA EdgesIngest ==
    ASSUME NEW t \in Seq(TransitionRecord), NEW x \in TransitionRecord, NEW y \in TransitionRecord
    PROVE  EdgesOf(t \o <<x, y>>) = EdgesOf(t) \o <<EdgeOf(x), EdgeOf(y)>>
<1>1. t \o <<x, y>> = Append(Append(t, x), y)
  BY ConcatTwo
<1>2. Append(t, x) \in Seq(TransitionRecord)
  OBVIOUS
<1>3. EdgesOf(t) \in Seq(Edge) /\ EdgeOf(x) \in Edge /\ EdgeOf(y) \in Edge
  BY EdgesTyped DEF EdgeOf, TransitionRecord, Edge
<1>4. EdgesOf(Append(Append(t, x), y)) = Append(Append(EdgesOf(t), EdgeOf(x)), EdgeOf(y))
  BY <1>2, EdgesAppend
<1>5. EdgesOf(t) \o <<EdgeOf(x), EdgeOf(y)>> = Append(Append(EdgesOf(t), EdgeOf(x)), EdgeOf(y))
  BY <1>3, ConcatTwo
<1>6. QED
  BY <1>1, <1>4, <1>5

\* The abstract machine's view of the trails.
Paths == [e \in Episode |-> EdgesOf(trail[e])]

LEMMA MachineConstants ==
    /\ Machine!Status = Status /\ Machine!Absent = Absent /\ Machine!InitialState = InitialState
    /\ \A s, t : Machine!CanTransition(s, t) <=> CanTransition(s, t)
<1>1. Machine!Transitions = Transitions
  BY DEF Machine!Transitions, Transitions
<1>2. QED
  BY <1>1 DEF Machine!Status, Status, Machine!Absent, Absent, Machine!InitialState, InitialState,
              Machine!CanTransition, CanTransition

LEMMA MachineStep ==
    TypeControl /\ Undisturbed /\ [Next]_vars => [Machine!Next]_(Machine!vars)
<1> SUFFICES ASSUME TypeControl, Undisturbed, [Next]_vars PROVE [Machine!Next]_(Machine!vars)
  OBVIOUS
<1>1. CASE UNCHANGED dbVars
  BY <1>1 DEF dbVars, Machine!vars
<1>2. ASSUME NEW e \in Episode, CreateEpisode(e) PROVE Machine!Next
  <2>1. Machine!Create(e)
    BY <1>2, MachineConstants DEF CreateEpisode, Machine!Create
  <2>2. QED
    BY <2>1 DEF Machine!Next
<1>3. ASSUME NEW r \in Request, Commit(r) PROVE [Machine!Next]_(Machine!vars)
  <2>0. PICK e \in Episode : e = Ep(r)
    BY <1>3, CommitEffect
  <2>1. /\ Op(r) \in Operation /\ status[e] \in Status /\ JudgedOf(r)
        /\ trail[e] \in Seq(TransitionRecord) /\ InFlight(r)
    BY <1>3, <2>0, CommitMoves, CommitEffect DEF TypeControl, TypeOK
  <2>2. RecordOf(r) \in TransitionRecord /\ Ingestion(r) \in TransitionRecord
    BY <2>1, RecordsTyped
  <2>3. /\ \A f \in Episode \ {e} : status'[f] = status[f] /\ trail'[f] = trail[f]
        /\ status' \in [Episode -> Status \cup {Absent}]
        /\ trail' \in [Episode -> Seq(TransitionRecord)]
    BY <1>3, <2>0, CommitEffect
  <2>4. \A s : status'[e] = s => status' = [status EXCEPT ![e] = s]
    BY <2>1, <2>3 DEF TypeControl, TypeOK
  <2>5. ASSUME NEW p, EdgesOf(trail'[e]) = p PROVE Paths' = [Paths EXCEPT ![e] = p]
    BY <2>1, <2>3, <2>5 DEF Paths
  <2>6. Paths[e] = EdgesOf(trail[e])
    BY <2>1 DEF Paths
  <2>7. EdgeOf(RecordOf(r)) = [from |-> status[e], to |-> Target[Op(r)]]
    BY <2>0 DEF EdgeOf, RecordOf
  <2>8. CASE /\ Op(r) = "upload_complete"
             /\ status'[e] = "processing"
             /\ trail'[e] = trail[e] \o <<RecordOf(r), Ingestion(r)>>
    <3>1. status[e] = "uploading" /\ status' = [status EXCEPT ![e] = "processing"]
      BY <2>0, <2>1, <2>4, <2>8 DEF JudgedOf
    <3>2. EdgesOf(trail'[e]) = Paths[e] \o <<EdgeOf(RecordOf(r)), EdgeOf(Ingestion(r))>>
      BY <2>1, <2>2, <2>6, <2>8, EdgesIngest
    <3>3. /\ EdgeOf(RecordOf(r)) = [from |-> "uploading", to |-> "uploaded"]
          /\ EdgeOf(Ingestion(r)) = [from |-> "uploaded", to |-> "processing"]
      BY <2>7, <2>8, <3>1, EdgeFacts DEF EdgeOf, Ingestion
    <3>4. Paths' = [Paths EXCEPT ![e] = Paths[e] \o << [from |-> "uploading", to |-> "uploaded"],
                                                      [from |-> "uploaded", to |-> "processing"] >>]
      BY <2>5, <3>2, <3>3
    <3>5. Machine!Ingest(e)
      BY <3>1, <3>4 DEF Machine!Ingest, Paths, EdgesOf
    <3>6. Machine!Next
      BY <3>5 DEF Machine!Next
    <3>7. QED
      BY <3>6
  <2>9. CASE /\ Moved(r)
             /\ status'[e] = Target[Op(r)]
             /\ trail'[e] = Append(trail[e], RecordOf(r))
    <3>1. CanTransition(status[e], Target[Op(r)]) /\ status' = [status EXCEPT ![e] = Target[Op(r)]]
      BY <2>0, <2>4, <2>9 DEF Moved
    <3>2. EdgesOf(trail'[e]) = Append(Paths[e], EdgeOf(RecordOf(r)))
      BY <2>1, <2>2, <2>6, <2>9, EdgesAppend
    <3>3. Paths' = [Paths EXCEPT ![e] = Append(Paths[e], [from |-> status[e], to |-> Target[Op(r)]])]
      BY <2>5, <2>7, <3>2
    <3>4. PICK s \in Status : s = Target[Op(r)]
      BY <2>1, OperationFacts
    <3>5. Machine!Move(e, s)
      BY <2>1, <3>1, <3>3, <3>4, MachineConstants DEF Machine!Move, Paths, EdgesOf
    <3>6. Machine!Next
      BY <3>5, MachineConstants DEF Machine!Next
    <3>7. QED
      BY <3>6
  <2>10. CASE status'[e] = status[e] /\ trail'[e] = trail[e]
    <3>1. status' = status /\ trail' = trail
      BY <2>3, <2>10 DEF TypeControl, TypeOK
    <3>2. QED
      BY <3>1 DEF Machine!vars
  <2>11. QED
    BY <1>3, <2>0, <2>8, <2>9, <2>10, CommitMoves
<1>4. ASSUME NEW r \in Request, NEW e \in Episode, Receive(r, e) PROVE UNCHANGED dbVars
  BY <1>4, ArriveEffect DEF dbVars
<1>5. ASSUME NEW r \in Request, Abort(r) \/ Statement(r) PROVE UNCHANGED dbVars
  BY <1>5, StatementEffect DEF Abort
<1>6. UNCHANGED vars => UNCHANGED dbVars
  BY DEF vars, dbVars
<1>7. QED
  BY <1>1, <1>2, <1>3, <1>4, <1>5, <1>6, NextCases

\* As long as requests on one Episode do not overlap, whatever is committed is a walk along
\* the contract's edges, each record beginning where the one before ended: replayed and late
\* callbacks, errors and crashes at any statement included.
THEOREM FollowsStateMachine == ASSUME ~Overlap PROVE Spec => ImplementsStateMachine
<1>1. Init => Machine!Init
  BY MachineConstants DEF Init, Machine!Init
<1>2. QED
  BY <1>1, MachineStep, UndisturbedAlways, PTL DEF Spec, ImplementsStateMachine, Machine!Spec

------------------------------------------------------------------------------
(***************************************************************************)
(* Without overlap the revision of an annotation counts its returns.       *)
(***************************************************************************)

\* The records by which a reviewer sent an Episode back.
UserReturns(t) == {i \in DOMAIN t : t[i].to = "annotation_pending" /\ t[i].by = "user"}

\* The revision of a row once r has written it.
NextRevision(r) ==
    IF Op(r) = "review_reject" THEN annotation[Ep(r)].revision + 1
    ELSE IF annotation[Ep(r)].revision = 0 THEN 1
    ELSE annotation[Ep(r)].revision

\* What r has read of the annotations row is still there, and what it writes counts on.
RowOf(r) ==
    /\ request[r].step = "write_annotation" =>
           /\ request[r].revision = annotation[Ep(r)].revision
           /\ Op(r) = "review_reject" => annotation[Ep(r)].revision > 0
    /\ "annotation" \in txn[r].locks =>
           /\ Op(r) \in HumanOperation
           /\ Op(r) = "review_reject" => annotation[Ep(r)].revision > 0
           /\ txn[r].annotation.revision = NextRevision(r)

Rows == \A r \in Request : InFlight(r) => RowOf(r)

CountsReturns(e) ==
    IF annotation[e].revision = 0 THEN UserReturns(trail[e]) = {}
    ELSE annotation[e].revision = 1 + Cardinality(UserReturns(trail[e]))

Returned == \A e \in Episode : CountsReturns(e)

\* Only a rejected review is a return by a user.
LEMMA ReturnFacts ==
    /\ \A o \in Operation :
           Target[o] = "annotation_pending" /\ Actor(o) = "user" <=> o = "review_reject"
    /\ "review_reject" \in HumanOperation /\ "upload_complete" \notin HumanOperation
    /\ "review_reject" # "upload_complete"
<1>1. \A o \in Operation : Target[o] = "annotation_pending" <=> o \in {"prepared", "review_reject"}
  BY DEF Operation, Target
<1>2. Actor("prepared") = "scheduler"
  BY DEF Actor, TriggeredBy, HumanOperation, Expected
<1>3. Actor("review_reject") = "user"
  BY DEF Actor, TriggeredBy, HumanOperation, Expected
<1>4. "prepared" # "review_reject"
  OBVIOUS
<1>5. "review_reject" \in HumanOperation /\ "upload_complete" \notin HumanOperation
  BY DEF HumanOperation, Expected
<1>6. QED
  BY <1>1, <1>2, <1>3, <1>4, <1>5

LEMMA ReturnsAppend ==
    ASSUME NEW t \in Seq(TransitionRecord), NEW x \in TransitionRecord
    PROVE  /\ IsFiniteSet(UserReturns(t)) /\ Cardinality(UserReturns(t)) \in Nat
           /\ x.to = "annotation_pending" /\ x.by = "user" =>
                  Cardinality(UserReturns(Append(t, x))) = Cardinality(UserReturns(t)) + 1
           /\ ~(x.to = "annotation_pending" /\ x.by = "user") =>
                  UserReturns(Append(t, x)) = UserReturns(t)
<1> DEFINE Old == UserReturns(t)
           New == UserReturns(Append(t, x))
           next == Len(t) + 1
<1>1. /\ Len(t) \in Nat /\ DOMAIN t = 1 .. Len(t) /\ DOMAIN Append(t, x) = 1 .. Len(t) + 1
      /\ \A i \in 1 .. Len(t) : Append(t, x)[i] = t[i]
      /\ Append(t, x)[Len(t) + 1] = x
  OBVIOUS
<1>2. IsFiniteSet(Old) /\ Cardinality(Old) \in Nat /\ next \notin Old
  <2>1. IsFiniteSet(1 .. Len(t)) /\ Old \in SUBSET (1 .. Len(t)) /\ next \notin 1 .. Len(t)
    BY <1>1, FS_Interval DEF UserReturns
  <2> HIDE DEF Old, next
  <2>2. QED
    BY <2>1, FS_Subset, FS_CardinalityType
<1>3. CASE x.to = "annotation_pending" /\ x.by = "user"
  <2>1. New = Old \cup {next}
    BY <1>1, <1>3 DEF UserReturns
  <2> HIDE DEF New, Old, next
  <2>2. Cardinality(Old \cup {next}) = Cardinality(Old) + 1
    BY <1>2, FS_AddElement
  <2>3. QED
    BY <1>2, <1>3, <2>1, <2>2 DEF New, Old
<1>4. CASE ~(x.to = "annotation_pending" /\ x.by = "user")
  <2>1. New = Old
    BY <1>1, <1>4 DEF UserReturns
  <2>2. QED
    BY <1>2, <1>4, <2>1
<1>5. QED
  BY <1>3, <1>4

LEMMA AnnotationWrittenRevision ==
    ASSUME TypeControl, NEW r \in Request, request[r].step = "write_annotation", RowOf(r)
    PROVE  AnnotationWritten(r).revision = NextRevision(r)
<1> DEFINE row == IF request[r].revision = 0
                  THEN [NoAnnotation EXCEPT !.revision = 1]
                  ELSE annotation[Ep(r)]
<1>1. /\ request[r].revision = annotation[Ep(r)].revision /\ annotation[Ep(r)] \in Annotation
      /\ Op(r) \in HumanOperation
      /\ Op(r) = "review_reject" => annotation[Ep(r)].revision > 0
  BY InFlightEpisode DEF InFlight, TypeControl, Control, ControlOf, RowOf
<1>2. /\ row \in Annotation
      /\ row.revision = IF annotation[Ep(r)].revision = 0 THEN 1 ELSE annotation[Ep(r)].revision
  BY <1>1 DEF Annotation, NoAnnotation, AnySegments, Decision
<1> HIDE DEF row
<1>3. CASE Op(r) = "verify_approve"
  <2>1. AnnotationWritten(r) = [row EXCEPT !.verify = "approve"]
    BY <1>3 DEF AnnotationWritten, row
  <2>2. QED
    BY <1>2, <1>3, <2>1 DEF Annotation, NextRevision
<1>4. CASE Op(r) = "verify_reject"
  <2>1. AnnotationWritten(r) = [row EXCEPT !.verify = "reject"]
    BY <1>4 DEF AnnotationWritten, row
  <2>2. QED
    BY <1>2, <1>4, <2>1 DEF Annotation, NextRevision
<1>5. CASE Op(r) = "annotate"
  <2>1. AnnotationWritten(r) = [row EXCEPT !.segments = Submitted(r)]
    BY <1>5 DEF AnnotationWritten, row
  <2>2. QED
    BY <1>2, <1>5, <2>1 DEF Annotation, NextRevision
<1>6. CASE Op(r) = "review_approve"
  <2>1. AnnotationWritten(r) = [row EXCEPT !.review = "approve"]
    BY <1>6 DEF AnnotationWritten, row
  <2>2. QED
    BY <1>2, <1>6, <2>1 DEF Annotation, NextRevision
<1>7. CASE Op(r) = "review_reject"
  <2>1. AnnotationWritten(r) =
            [row EXCEPT !.review = "reject", !.revision = request[r].revision + 1]
    BY <1>7 DEF AnnotationWritten, row
  <2>2. QED
    BY <1>1, <1>2, <1>7, <2>1 DEF Annotation, NextRevision
<1>8. QED
  BY <1>1, <1>3, <1>4, <1>5, <1>6, <1>7, ApprovalFacts

\* A step of r touches the annotations row of no other request's Episode.
LEMMA RowsFrame ==
    ASSUME TypeControl, Lone, Rows, NEW r \in Request, OnlyOf(r), InFlight(r)' => RowOf(r)',
           \A e \in Episode : annotation'[e] = annotation[e] \/ (InFlight(r) /\ e = Ep(r))
    PROVE  Rows'
<1> SUFFICES ASSUME NEW q \in Request, q # r, InFlight(q)' PROVE RowOf(q)'
  BY DEF Rows
<1>1. request'[q] = request[q] /\ txn'[q] = txn[q] /\ InFlight(q) /\ RowOf(q)
  BY DEF OnlyOf, InFlight, Rows
<1>2. annotation'[Ep(q)] = annotation[Ep(q)]
  BY <1>1, InFlightEpisode DEF Lone
<1>3. QED
  BY <1>1, <1>2 DEF RowOf, NextRevision, Op, Ep

LEMMA RowsStep ==
    TypeControl /\ Lone /\ Locks /\ Rows /\ [Next]_vars => Rows'
<1> SUFFICES ASSUME TypeControl, Lone, Locks, Rows, [Next]_vars PROVE Rows'
  OBVIOUS
<1>1. CASE UNCHANGED <<annotation, request, txn>>
  BY <1>1 DEF Rows, RowOf, NextRevision, InFlight, Op, Ep
<1>2. ASSUME NEW r \in Request, OnlyOf(r), InFlight(r)' => RowOf(r)', annotation' = annotation
      PROVE  Rows'
  <2>1. \A e \in Episode : annotation'[e] = annotation[e] \/ (InFlight(r) /\ e = Ep(r))
    BY <1>2
  <2>2. QED
    BY <1>2, <2>1, RowsFrame
<1>3. ASSUME NEW r \in Request, Ends(r), annotation' = annotation PROVE Rows'
  BY <1>2, <1>3 DEF Ends, InFlight, Idle, Fresh
<1>4. ASSUME NEW r \in Request, NEW e \in Episode, Receive(r, e) PROVE Rows'
  <2>1. PICK step \in {"read_annotation", "attach", "apply"} :
            /\ ~InFlight(r) /\ request'[r].step = step /\ OnlyOf(r) /\ txn' = txn
            /\ annotation' = annotation
    BY <1>4, ArriveEffect DEF InFlight, dbVars
  <2>2. txn'[r].locks = {}
    BY <2>1 DEF TypeControl, Control, NoWrites
  <2>3. RowOf(r)'
    BY <2>1, <2>2 DEF RowOf
  <2>4. QED
    BY <1>2, <2>1, <2>3
<1>5. ASSUME NEW r \in Request, Statement(r) PROVE Rows'
  <2>1. InFlight(r) /\ RowOf(r) /\ annotation' = annotation /\ LocksOf(r)
    BY <1>5, StatementEffect DEF Rows, dbVars, Locks
  <2>2. ASSUME NEW s \in Step \ {"write_annotation"}, GoesOn(r, s),
               "annotation" \in txn'[r].locks => "annotation" \in txn[r].locks,
               "annotation" \in txn[r].locks => txn'[r].annotation = txn[r].annotation
        PROVE  Rows'
    <3>1. RowOf(r)'
      BY <2>1, <2>2 DEF RowOf, NextRevision, GoesOn, Op, Ep
    <3>2. QED
      BY <1>2, <2>1, <2>2, <3>1 DEF GoesOn
  <2>3. CASE ReadAnnotation(r) /\ ~Ends(r)
    <3>1. /\ GoesOn(r, "write_annotation") /\ txn' = txn
          /\ request'[r].revision = annotation[Ep(r)].revision
          /\ request[r].step = "read_annotation"
      BY <2>3, ReadAnnotationEffect DEF ReadAnnotation
    <3>2. "annotation" \notin txn[r].locks
      BY <2>1, <3>1 DEF LocksOf, PastGuard
    <3>3. ~Discard(r)
      BY <2>3, DiscardEnds DEF TypeControl
    <3>4. Op(r) = "review_reject" => annotation[Ep(r)].revision # 0
      BY <2>3, <3>3 DEF ReadAnnotation
    <3>5. annotation[Ep(r)].revision \in Nat
      BY <2>1, InFlightEpisode DEF Annotation
    <3>6. RowOf(r)'
      BY <2>1, <3>1, <3>2, <3>4, <3>5 DEF RowOf, GoesOn, Op, Ep
    <3>7. QED
      BY <1>2, <2>1, <3>1, <3>6 DEF GoesOn
  <2>4. CASE WriteAnnotation(r) /\ ~Ends(r)
    <3>1. /\ GoesOn(r, IF Op(r) = "annotate" THEN "read_episode" ELSE "guard")
          /\ txn'[r].annotation = AnnotationWritten(r)
          /\ request[r].step = "write_annotation"
      BY <2>4, WriteAnnotationEffect DEF WriteAnnotation
    <3>2. Op(r) \in HumanOperation
      BY <2>1, <3>1 DEF TypeControl, Control, ControlOf
    <3>3. AnnotationWritten(r).revision = NextRevision(r)
      BY <2>1, <3>1, AnnotationWrittenRevision
    <3>4. NextRevision(r)' = NextRevision(r)
      BY <2>1, <3>1 DEF NextRevision, GoesOn, Op, Ep
    <3>5. RowOf(r)'
      BY <2>1, <3>1, <3>2, <3>3, <3>4 DEF RowOf, GoesOn, Op, Ep
    <3>6. QED
      BY <1>2, <2>1, <3>1, <3>5 DEF GoesOn
  <2>4a. CASE ReadEpisode(r)
    BY <2>2, <2>4a, ReadEpisodeEffect DEF Step
  <2>5. CASE Attach(r)
    BY <2>2, <2>5, AttachEffect DEF Step
  <2>6. CASE Guard(r) /\ ~Ends(r)
    BY <2>2, <2>6, GuardEffect DEF Step
  <2>7. CASE ReadForUpdate(r)
    BY <2>2, <2>7, ReadForUpdateEffect DEF Step
  <2>8. CASE Flush(r)
    BY <2>2, <2>8, FlushEffect DEF Step
  <2>9. CASE Publish(r)
    BY <2>2, <2>9, PublishEffect DEF Step
  <2>10. CASE ReadCounter(r) \/ WriteCounter(r)
    BY <2>2, <2>10, ReadCounterEffect, WriteCounterEffect DEF Step
  <2>11. QED
    BY <1>3, <1>5, <2>1, <2>3, <2>4, <2>4a, <2>5, <2>6, <2>7, <2>8, <2>9, <2>10 DEF Statement
<1>6. ASSUME NEW r \in Request, Commit(r) PROVE Rows'
  <2>1. Ends(r) /\ InFlight(r) /\ \A e \in Episode \ {Ep(r)} : annotation'[e] = annotation[e]
    BY <1>6, CommitEffect
  <2>2. OnlyOf(r) /\ ~InFlight(r)'
    BY <2>1 DEF Ends, InFlight, Idle, Fresh
  <2>3. \A e \in Episode : annotation'[e] = annotation[e] \/ (InFlight(r) /\ e = Ep(r))
    BY <2>1
  <2>4. InFlight(r)' => RowOf(r)'
    BY <2>2
  <2>5. QED
    BY <2>2, <2>3, <2>4, RowsFrame
<1>7. ASSUME NEW r \in Request, Abort(r) PROVE Rows'
  BY <1>3, <1>7, DiscardEnds DEF Abort, TypeControl, dbVars
<1>8. ASSUME NEW e \in Episode, CreateEpisode(e) PROVE UNCHANGED <<annotation, request, txn>>
  BY <1>8 DEF CreateEpisode
<1>9. QED
  BY <1>1, <1>4, <1>5, <1>6, <1>7, <1>8, NextCases DEF vars

LEMMA ReturnedStep ==
    TypeControl /\ Decisions /\ Undisturbed /\ Rows /\ Returned /\ [Next]_vars => Returned'
<1> SUFFICES ASSUME TypeControl, Decisions, Undisturbed, Rows, Returned, [Next]_vars
             PROVE  Returned'
  OBVIOUS
<1>1. CASE UNCHANGED <<trail, annotation>>
  BY <1>1 DEF Returned, CountsReturns
<1>2. ASSUME NEW r \in Request, Commit(r) PROVE Returned'
  <2>1. /\ Op(r) \in Operation /\ Ep(r) \in Episode /\ RowOf(r) /\ HoldsAnnotation(r)
        /\ request[r].step = "commit" /\ trail[Ep(r)] \in Seq(TransitionRecord)
        /\ annotation[Ep(r)].revision \in Nat
        /\ RecordOf(r) \in TransitionRecord /\ Ingestion(r) \in TransitionRecord
    <3>1. InFlight(r) /\ request[r].step = "commit"
      BY <1>2, CommitEffect DEF Commit
    <3>2. QED
      BY <3>1, InFlightEpisode, RecordsTyped
         DEF Rows, Decisions, DecisionsOf, TypeControl, TypeOK, Annotation
  <2>2. \A f \in Episode \ {Ep(r)} : CountsReturns(f)'
    <3>1. \A f \in Episode \ {Ep(r)} : trail'[f] = trail[f] /\ annotation'[f] = annotation[f]
      BY <1>2, CommitEffect
    <3>2. QED
      BY <3>1 DEF Returned, CountsReturns
  <2>3. annotation'[Ep(r)].revision =
            IF Op(r) \in HumanOperation THEN NextRevision(r) ELSE annotation[Ep(r)].revision
    <3>1. annotation'[Ep(r)] =
              IF "annotation" \in txn[r].locks THEN txn[r].annotation ELSE annotation[Ep(r)]
      BY <1>2, CommitEffect
    <3>2. Op(r) \in HumanOperation <=> "annotation" \in txn[r].locks
      BY <2>1 DEF RowOf, HoldsAnnotation, PastGuard
    <3>3. QED
      BY <2>1, <3>1, <3>2 DEF RowOf
  <2>4. CountsReturns(Ep(r))
    BY <2>1 DEF Returned
  <2>5. Cardinality(UserReturns(trail[Ep(r)])) \in Nat
    BY <2>1, ReturnsAppend
  <2>6. CASE Op(r) = "review_reject"
    <3>1. annotation[Ep(r)].revision > 0
      BY <2>1, <2>6, ReturnFacts DEF RowOf, HoldsAnnotation, PastGuard
    <3>2. trail'[Ep(r)] = Append(trail[Ep(r)], RecordOf(r))
      BY <1>2, <2>6, CommitMoves, ReturnFacts
    <3>3. RecordOf(r).to = "annotation_pending" /\ RecordOf(r).by = "user"
      BY <2>1, <2>6, ReturnFacts DEF RecordOf
    <3>4. Cardinality(UserReturns(trail'[Ep(r)])) = Cardinality(UserReturns(trail[Ep(r)])) + 1
      BY <2>1, <3>2, <3>3, ReturnsAppend
    <3>5. annotation'[Ep(r)].revision = annotation[Ep(r)].revision + 1
      BY <2>3, <2>6, ReturnFacts DEF NextRevision
    <3>6. annotation'[Ep(r)].revision # 0
          /\ annotation'[Ep(r)].revision = 1 + Cardinality(UserReturns(trail'[Ep(r)]))
      BY <2>1, <2>4, <2>5, <3>1, <3>4, <3>5 DEF CountsReturns
    <3>7. \A e \in Episode : e = Ep(r) => CountsReturns(e)'
      BY <3>6 DEF CountsReturns
    <3>8. QED
      BY <2>2, <3>7 DEF Returned
  <2>7. CASE Op(r) # "review_reject"
    <3>1. UserReturns(trail'[Ep(r)]) = UserReturns(trail[Ep(r)])
      <4>1. ~(RecordOf(r).to = "annotation_pending" /\ RecordOf(r).by = "user")
        BY <2>1, <2>7, ReturnFacts DEF RecordOf
      <4>2. CASE trail'[Ep(r)] = trail[Ep(r)]
        BY <4>2
      <4>3. CASE trail'[Ep(r)] = Append(trail[Ep(r)], RecordOf(r))
        BY <2>1, <4>1, <4>3, ReturnsAppend
      <4>4. CASE trail'[Ep(r)] = trail[Ep(r)] \o <<RecordOf(r), Ingestion(r)>>
        <5>1. trail'[Ep(r)] = Append(Append(trail[Ep(r)], RecordOf(r)), Ingestion(r))
          BY <2>1, <4>4, ConcatTwo
        <5>2. Append(trail[Ep(r)], RecordOf(r)) \in Seq(TransitionRecord)
          BY <2>1
        <5>3. Ingestion(r).to # "annotation_pending"
          BY DEF Ingestion
        <5>4. UserReturns(Append(trail[Ep(r)], RecordOf(r))) = UserReturns(trail[Ep(r)])
          BY <2>1, <4>1, ReturnsAppend
        <5>5. QED
          BY <2>1, <5>1, <5>2, <5>3, <5>4, ReturnsAppend
      <4>5. QED
        BY <1>2, <4>2, <4>3, <4>4, CommitMoves
    <3>2. annotation'[Ep(r)].revision \in
              {annotation[Ep(r)].revision,
               IF annotation[Ep(r)].revision = 0 THEN 1 ELSE annotation[Ep(r)].revision}
      BY <2>3, <2>7 DEF NextRevision
    <3>3. UserReturns(trail[Ep(r)]) = {} => Cardinality(UserReturns(trail[Ep(r)])) = 0
      BY FS_EmptySet
    <3>4. IF annotation'[Ep(r)].revision = 0 THEN UserReturns(trail'[Ep(r)]) = {}
          ELSE annotation'[Ep(r)].revision = 1 + Cardinality(UserReturns(trail'[Ep(r)]))
      BY <2>1, <2>4, <2>5, <3>1, <3>2, <3>3 DEF CountsReturns
    <3>5. \A e \in Episode : e = Ep(r) => CountsReturns(e)'
      BY <3>4 DEF CountsReturns
    <3>6. QED
      BY <2>2, <3>5 DEF Returned
  <2>8. QED
    BY <2>6, <2>7
<1>3. ASSUME NEW e \in Episode, CreateEpisode(e) PROVE UNCHANGED <<trail, annotation>>
  BY <1>3 DEF CreateEpisode
<1>4. ASSUME NEW r \in Request, NEW e \in Episode, Receive(r, e) PROVE UNCHANGED <<trail, annotation>>
  BY <1>4, ArriveEffect DEF dbVars
<1>5. ASSUME NEW r \in Request, Abort(r) \/ Statement(r) PROVE UNCHANGED <<trail, annotation>>
  BY <1>5, StatementEffect DEF Abort, dbVars
<1>6. QED
  BY <1>1, <1>2, <1>3, <1>4, <1>5, NextCases DEF vars, dbVars

\* While requests on one Episode come one after another, the revision of an annotation is one
\* more than the times a reviewer sent it back, through any number of rounds and of requests
\* that failed on the way: ReviewService reads the revision it increments, and nobody commits
\* another row before it does.
THEOREM RevisionAlwaysCountsReturns == ASSUME ~Overlap PROVE Spec => []RevisionCountsReturns
<1>1. Init => Locks /\ Decisions /\ Rows /\ Returned
  <2> SUFFICES ASSUME Init PROVE Locks /\ Decisions /\ Rows /\ Returned
    OBVIOUS
  <2>1. \A e \in Episode : annotation[e].revision = 0 /\ trail[e] = <<>>
    BY DEF Init, NoAnnotation
  <2>2. Returned
    BY <2>1 DEF Returned, CountsReturns, UserReturns
  <2>3. QED
    BY <2>2 DEF Init, Locks, LocksOf, LocksExclude, NoWrites, Decisions, FreshRow, NoAnnotation,
           InFlight, Idle, Fresh, Rows
<1>2. Returned => RevisionCountsReturns
  <2> SUFFICES ASSUME Returned, NEW e \in Episode, annotation[e].revision > 0
               PROVE  annotation[e].revision = 1 + Cardinality(
                          {i \in RecordsTo(e, "annotation_pending") : trail[e][i].by = "user"})
    BY DEF RevisionCountsReturns
  <2>1. {i \in RecordsTo(e, "annotation_pending") : trail[e][i].by = "user"} = UserReturns(trail[e])
    BY DEF RecordsTo, UserReturns
  <2>2. annotation[e].revision = 1 + Cardinality(UserReturns(trail[e]))
    BY DEF Returned, CountsReturns
  <2>3. QED
    BY <2>1, <2>2
<1>3. QED
  BY <1>1, <1>2, UndisturbedAlways, LocksStep, DecisionsStep, RowsStep, ReturnedStep, PTL DEF Spec

------------------------------------------------------------------------------
(***************************************************************************)
(* Without overlap what is published is what was reviewed.                 *)
(***************************************************************************)

\* An approval leaves the Episode's segments as they were reviewed.
ApprovalOf(r) ==
    Op(r) = "review_approve" /\ "episode" \in txn[r].locks =>
        txn[r].segments = segments[Ep(r)]

Approvals == \A r \in Request : InFlight(r) => ApprovalOf(r)

LEMMA ApprovalsStep ==
    TypeControl /\ Lone /\ Undisturbed /\ Approvals /\ [Next]_vars => Approvals'
<1> SUFFICES ASSUME TypeControl, Lone, Undisturbed, Approvals, [Next]_vars PROVE Approvals'
  OBVIOUS
<1>1. CASE UNCHANGED <<segments, request, txn>>
  BY <1>1 DEF Approvals, ApprovalOf, InFlight, Op, Ep
<1>2. ASSUME NEW r \in Request, OnlyOf(r), InFlight(r)' => ApprovalOf(r)',
             \A e \in Episode : segments'[e] = segments[e] \/ (InFlight(r) /\ e = Ep(r))
      PROVE  Approvals'
  <2> SUFFICES ASSUME NEW q \in Request, q # r, InFlight(q)' PROVE ApprovalOf(q)'
    BY <1>2 DEF Approvals
  <2>1. request'[q] = request[q] /\ txn'[q] = txn[q] /\ InFlight(q) /\ ApprovalOf(q)
    BY <1>2 DEF OnlyOf, InFlight, Approvals
  <2>2. segments'[Ep(q)] = segments[Ep(q)]
    BY <1>2, <2>1, InFlightEpisode DEF Lone
  <2>3. QED
    BY <2>1, <2>2 DEF ApprovalOf, Op, Ep
<1>3. ASSUME NEW r \in Request, Ends(r), segments' = segments PROVE Approvals'
  <2>1. OnlyOf(r) /\ ~InFlight(r)'
    BY <1>3 DEF Ends, InFlight, Idle, Fresh
  <2>2. QED
    BY <1>2, <1>3, <2>1
<1>4. ASSUME NEW r \in Request, NEW e \in Episode, Receive(r, e) PROVE Approvals'
  <2>1. ~InFlight(r) /\ OnlyOf(r) /\ txn' = txn /\ segments' = segments
    BY <1>4, ArriveEffect DEF InFlight, dbVars
  <2>2. txn'[r].locks = {}
    BY <2>1 DEF TypeControl, Control, NoWrites
  <2>3. ApprovalOf(r)'
    BY <2>2 DEF ApprovalOf
  <2>4. QED
    BY <1>2, <2>1, <2>3
<1>5. ASSUME NEW r \in Request, Statement(r) PROVE Approvals'
  <2>1. InFlight(r) /\ ApprovalOf(r) /\ JudgedOf(r) /\ segments' = segments
    BY <1>5, StatementEffect DEF Approvals, Undisturbed, dbVars
  <2>2. ASSUME NEW s, GoesOn(r, s),
               Op(r) = "review_approve" => \/ "episode" \notin txn'[r].locks
                                           \/ txn'[r].segments = SeenSegments(r)
        PROVE  Approvals'
    <3>1. ApprovalOf(r)'
      BY <2>1, <2>2 DEF ApprovalOf, GoesOn, SeenSegments, Op, Ep
    <3>2. QED
      BY <1>2, <2>1, <2>2, <3>1 DEF GoesOn
  <2>3. ASSUME NEW s, GoesOn(r, s), ~Ends(r), ~Attach(r), ~Flush(r),
               "episode" \in txn'[r].locks => "episode" \in txn[r].locks
        PROVE  Approvals'
    <3>1. txn'[r].segments = txn[r].segments
      BY <1>5, <2>3, SegmentsEffect
    <3>2. QED
      BY <2>2, <2>3, <3>1 DEF SeenSegments
  <2>4. CASE Attach(r)
    <3>1. Op(r) # "review_approve"
      BY <2>1, <2>4, ApprovalFacts DEF Attach, JudgedOf
    <3>2. QED
      BY <2>2, <2>4, <3>1, AttachEffect
  <2>5. CASE Flush(r)
    <3>1. request[r].step = "flush" /\ request'[r].step # "idle"
      BY <2>5, FlushEffect DEF Flush, GoesOn
    <3>2. ~Attach(r) /\ ~Ends(r)
      BY <3>1 DEF Attach, Ends, Idle, Fresh
    <3>3. txn'[r].segments = SeenSegments(r)
      BY <1>5, <2>5, <3>2, SegmentsEffect
    <3>4. QED
      BY <2>2, <2>5, <3>3, FlushEffect
  <2>6. CASE ~Ends(r) /\ ~Attach(r) /\ ~Flush(r)
    <3>1. PICK s : GoesOn(r, s) /\ ("episode" \in txn'[r].locks => "episode" \in txn[r].locks)
      <4>1. CASE ReadAnnotation(r)
        BY <2>6, <4>1, ReadAnnotationEffect
      <4>2. CASE WriteAnnotation(r)
        BY <2>6, <4>2, WriteAnnotationEffect
      <4>2a. CASE ReadEpisode(r)
        BY <4>2a, ReadEpisodeEffect
      <4>3. CASE Guard(r)
        BY <2>6, <4>3, GuardEffect
      <4>4. CASE ReadForUpdate(r)
        BY <4>4, ReadForUpdateEffect
      <4>5. CASE Publish(r)
        BY <4>5, PublishEffect
      <4>6. CASE ReadCounter(r) \/ WriteCounter(r)
        BY <4>6, ReadCounterEffect, WriteCounterEffect
      <4>7. QED
        BY <1>5, <2>6, <4>1, <4>2, <4>2a, <4>3, <4>4, <4>5, <4>6 DEF Statement
    <3>2. QED
      BY <2>3, <2>6, <3>1
  <2>7. QED
    BY <1>3, <2>1, <2>4, <2>5, <2>6
<1>6. ASSUME NEW r \in Request, Commit(r) PROVE Approvals'
  <2>1. Ends(r) /\ InFlight(r) /\ Ep(r) \in Episode
    BY <1>6, CommitEffect
  <2>2. \A e \in Episode \ {Ep(r)} : segments'[e] = segments[e]
    BY <1>6, <2>1 DEF Commit, TypeControl, TypeOK
  <2>3. OnlyOf(r) /\ ~InFlight(r)'
    BY <2>1 DEF Ends, InFlight, Idle, Fresh
  <2>4. \A e \in Episode : segments'[e] = segments[e] \/ (InFlight(r) /\ e = Ep(r))
    BY <2>1, <2>2
  <2>5. QED
    BY <1>2, <2>3, <2>4
<1>7. ASSUME NEW r \in Request, Abort(r) PROVE Approvals'
  BY <1>3, <1>7, DiscardEnds DEF Abort, TypeControl, dbVars
<1>8. ASSUME NEW e \in Episode, CreateEpisode(e) PROVE UNCHANGED <<segments, request, txn>>
  BY <1>8 DEF CreateEpisode
<1>9. QED
  BY <1>1, <1>4, <1>5, <1>6, <1>7, <1>8, NextCases DEF vars, dbVars

\* Nobody else changes what an annotator's request has loaded, so that it writes both copies.
LatestOf(r) ==
    Op(r) = "annotate" =>
        /\ request[r].step # "read_annotation" =>
               request[r].noted = annotation[Ep(r)].segments
        /\ request[r].step \notin {"read_annotation", "write_annotation", "read_episode"} =>
               request[r].found = segments[Ep(r)]
        /\ "annotation" \in txn[r].locks => txn[r].annotation.segments = request[r].payload
        /\ "episode" \in txn[r].locks => txn[r].segments = request[r].payload

Latest == overtaken = {} /\ \A r \in Request : InFlight(r) => LatestOf(r)

\* r changes neither copy of another Episode.
ApartFrom(r) ==
    \A e \in Episode : \/ segments'[e] = segments[e] /\ annotation'[e] = annotation[e]
                       \/ InFlight(r) /\ e = Ep(r)

LEMMA LatestStep ==
    TypeControl /\ Locks /\ Decisions /\ Copies /\ Lone /\ Latest /\ [Next]_vars => Latest'
<1> SUFFICES ASSUME TypeControl, Locks, Decisions, Copies, Lone, Latest, [Next]_vars PROVE Latest'
  OBVIOUS
<1>1. CASE UNCHANGED <<segments, annotation, overtaken, request, txn>>
  BY <1>1 DEF Latest, LatestOf, InFlight, Op, Ep
<1>2. ASSUME NEW r \in Request, OnlyOf(r), InFlight(r)' => LatestOf(r)', overtaken' = {}, ApartFrom(r)
      PROVE  Latest'
  <2> SUFFICES ASSUME NEW q \in Request, q # r, InFlight(q)' PROVE LatestOf(q)'
    BY <1>2 DEF Latest
  <2>1. request'[q] = request[q] /\ txn'[q] = txn[q] /\ InFlight(q) /\ LatestOf(q)
    BY <1>2 DEF OnlyOf, InFlight, Latest
  <2>2. segments'[Ep(q)] = segments[Ep(q)] /\ annotation'[Ep(q)] = annotation[Ep(q)]
    BY <1>2, <2>1, InFlightEpisode DEF Lone, ApartFrom
  <2>3. QED
    BY <2>1, <2>2 DEF LatestOf, Op, Ep
<1>3. ASSUME NEW r \in Request, OnlyOf(r), InFlight(r)' => LatestOf(r)', UNCHANGED dbVars
      PROVE  Latest'
  <2>1. ApartFrom(r) /\ overtaken' = {}
    BY <1>3 DEF Latest, dbVars, ApartFrom
  <2>2. QED
    BY <1>2, <1>3, <2>1
<1>4. ASSUME NEW r \in Request, Ends(r), UNCHANGED dbVars PROVE Latest'
  BY <1>3, <1>4 DEF Ends, InFlight, Idle, Fresh
<1>5. ASSUME NEW r \in Request, NEW e \in Episode, Receive(r, e) PROVE Latest'
  <2>1. PICK o \in Operation, step \in {"read_annotation", "attach", "apply"} :
            /\ ~InFlight(r) /\ request'[r].step = step /\ request'[r].op = o
            /\ OnlyOf(r) /\ txn' = txn /\ UNCHANGED dbVars
            /\ step = "read_annotation" <=> o \in HumanOperation
    BY <1>5, ArriveEffect DEF InFlight
  <2>2. txn'[r].locks = {}
    BY <2>1 DEF TypeControl, Control, NoWrites
  <2>3. LatestOf(r)'
    BY <2>1, <2>2, ReviewFacts DEF LatestOf, Op
  <2>4. QED
    BY <1>3, <2>1, <2>3
<1>6. ASSUME NEW r \in Request, Statement(r) PROVE Latest'
  <2>1. /\ UNCHANGED dbVars /\ InFlight(r) /\ LatestOf(r) /\ LocksOf(r) /\ CopiesOf(r)
        /\ segments' = segments /\ annotation' = annotation
    BY <1>6, StatementEffect DEF Latest, Locks, Copies, dbVars
  <2>2. \/ Ends(r)
        \/ /\ request'[r].payload = request[r].payload
           /\ request'[r].noted =
                  IF ReadAnnotation(r) THEN annotation[Ep(r)].segments ELSE request[r].noted
           /\ request'[r].found =
                  IF ReadEpisode(r) THEN SeenSegments(r) ELSE request[r].found
           /\ txn'[r].segments =
                  IF Attach(r) THEN Attached(r)
                  ELSE IF Flush(r) THEN SeenSegments(r)
                  ELSE txn[r].segments
    BY <1>6, SegmentsEffect
  <2>3. ASSUME NEW s, GoesOn(r, s), LatestOf(r)' PROVE Latest'
    BY <1>3, <2>1, <2>3 DEF GoesOn
  <2>4. CASE ReadAnnotation(r) /\ ~Ends(r)
    <3>1. /\ GoesOn(r, "write_annotation") /\ txn' = txn /\ request[r].step = "read_annotation"
      BY <2>4, ReadAnnotationEffect DEF ReadAnnotation
    <3>2. LatestOf(r)'
      BY <2>1, <2>2, <2>4, <3>1 DEF LatestOf, LocksOf, PastGuard, GoesOn, Op, Ep
    <3>3. QED
      BY <2>3, <3>1, <3>2
  <2>5. CASE WriteAnnotation(r) /\ ~Ends(r)
    <3>1. /\ request[r].revision = 0 => ~(annotation[Ep(r)].revision > 0)
          /\ GoesOn(r, IF Op(r) = "annotate" THEN "read_episode" ELSE "guard")
          /\ txn'[r].locks = txn[r].locks \cup {"annotation"}
          /\ txn'[r].annotation = AnnotationWritten(r)
      BY <2>5, WriteAnnotationEffect
    <3>2. /\ request[r].step = "write_annotation" /\ "episode" \notin txn[r].locks
          /\ ~ReadAnnotation(r)
      BY <2>1, <2>5 DEF WriteAnnotation, ReadAnnotation, LocksOf, PastGuard
    <3>3. Op(r) = "annotate" => AnnotationWritten(r).segments = request[r].payload
      BY <2>1, <3>1, <3>2, AnnotationWrittenSegments DEF Submitted, Updated, LatestOf
    <3>4. request'[r].payload = request[r].payload /\ request'[r].noted = request[r].noted
      BY <2>2, <2>5, <3>2
    <3>5. LatestOf(r)'
      BY <2>1, <3>1, <3>2, <3>3, <3>4 DEF LatestOf, GoesOn, Op, Ep
    <3>6. QED
      BY <2>3, <3>1, <3>5
  <2>6. CASE ReadEpisode(r)
    <3>1. GoesOn(r, "attach") /\ txn' = txn /\ request[r].step = "read_episode"
      BY <2>6, ReadEpisodeEffect
    <3>2. ~Ends(r) /\ ~ReadAnnotation(r) /\ "episode" \notin txn[r].locks
      BY <2>1, <3>1 DEF Ends, GoesOn, Idle, Fresh, ReadAnnotation, LocksOf, PastGuard
    <3>3. /\ request'[r].payload = request[r].payload /\ request'[r].noted = request[r].noted
          /\ request'[r].found = segments[Ep(r)]
      BY <2>2, <2>6, <3>2 DEF SeenSegments
    <3>4. LatestOf(r)'
      BY <2>1, <3>1, <3>2, <3>3 DEF LatestOf, GoesOn, Op, Ep
    <3>5. QED
      BY <2>3, <3>1, <3>4
  <2>7. CASE Attach(r)
    <3>1. /\ GoesOn(r, IF Op(r) = "upload_complete" THEN "apply" ELSE "guard")
          /\ txn'[r].locks = txn[r].locks \cup {"episode"}
          /\ txn'[r].annotation = txn[r].annotation
      BY <2>7, AttachEffect
    <3>2. /\ request[r].step = "attach" /\ ~Ends(r) /\ ~ReadAnnotation(r) /\ ~ReadEpisode(r)
          /\ "episode" \notin txn[r].locks
      BY <2>1, <2>7, <3>1
         DEF Attach, ReadAnnotation, ReadEpisode, LocksOf, PastGuard, Ends, GoesOn, Idle, Fresh
    <3>3. /\ request'[r].payload = request[r].payload
          /\ request'[r].noted = request[r].noted /\ request'[r].found = request[r].found
          /\ txn'[r].segments = Attached(r)
      BY <2>2, <2>7, <3>2
    <3>4. Op(r) = "annotate" => Attached(r) = request[r].payload
      BY <2>1, <3>2 DEF Attached, Updated, LatestOf, SeenSegments
    <3>5. LatestOf(r)'
      BY <2>1, <3>1, <3>2, <3>3, <3>4 DEF LatestOf, GoesOn, Op, Ep
    <3>6. QED
      BY <2>3, <3>1, <3>5
  \* The statements after both writes.
  <2>8. ASSUME NEW s, GoesOn(r, s), request[r].step \in PastGuard \cup {"guard"},
               txn'[r].annotation = txn[r].annotation,
               "annotation" \in txn'[r].locks => "annotation" \in txn[r].locks,
               s # "idle"
        PROVE  Latest'
    <3>1. /\ ~Ends(r) /\ ~ReadAnnotation(r) /\ ~ReadEpisode(r) /\ ~Attach(r)
          /\ request[r].step \notin {"read_annotation", "write_annotation", "read_episode"}
      BY <2>8 DEF Ends, GoesOn, Idle, Fresh, PastGuard, ReadAnnotation, ReadEpisode, Attach
    <3>2. /\ request'[r].payload = request[r].payload
          /\ request'[r].noted = request[r].noted /\ request'[r].found = request[r].found
          /\ txn'[r].segments = IF Flush(r) THEN SeenSegments(r) ELSE txn[r].segments
      BY <2>2, <3>1
    <3>3. Op(r) = "annotate" => /\ txn[r].segments = request[r].payload
                               /\ SeenSegments(r) = request[r].payload
      BY <2>1, <2>8 DEF CopiesOf, LatestOf, SeenSegments
    <3>4. LatestOf(r)'
      BY <2>1, <2>8, <3>1, <3>2, <3>3 DEF LatestOf, GoesOn, Op, Ep
    <3>5. QED
      BY <2>3, <2>8, <3>4
  <2>9. CASE Guard(r) /\ ~Ends(r)
    <3>1. PICK s \in {"commit", "apply"} : GoesOn(r, s) /\ txn' = txn
      BY <2>9, GuardEffect
    <3>2. QED
      BY <2>8, <2>9, <3>1 DEF Guard
  <2>10. CASE ReadForUpdate(r)
    <3>1. PICK s \in {"flush", "publish", "commit"} : GoesOn(r, s) /\ txn' = txn
      BY <2>10, ReadForUpdateEffect
    <3>2. QED
      BY <2>8, <2>10, <3>1 DEF ReadForUpdate, PastGuard
  <2>11. CASE Flush(r)
    <3>1. PICK s \in {"publish", "commit"} : GoesOn(r, s)
      BY <2>11, FlushEffect
    <3>2. /\ txn'[r].annotation = txn[r].annotation
          /\ txn'[r].locks = txn[r].locks \cup {"episode"}
      BY <2>11, FlushEffect
    <3>3. request[r].step \in PastGuard
      BY <2>11 DEF Flush, PastGuard
    <3>4. QED
      BY <2>8, <3>1, <3>2, <3>3
  <2>12. CASE Publish(r)
    <3>1. PICK s \in {"read_counter", "commit"} : GoesOn(r, s)
      BY <2>12, PublishEffect
    <3>2. QED
      BY <2>8, <2>12, <3>1, PublishEffect DEF Publish, PastGuard
  <2>13. CASE ReadCounter(r) \/ WriteCounter(r)
    <3>1. PICK s \in {"write_counter", "commit"} : GoesOn(r, s)
      BY <2>13, ReadCounterEffect, WriteCounterEffect
    <3>2. /\ txn'[r].annotation = txn[r].annotation
          /\ "annotation" \in txn'[r].locks => "annotation" \in txn[r].locks
      BY <2>13, ReadCounterEffect, WriteCounterEffect
    <3>3. QED
      BY <2>8, <2>13, <3>1, <3>2 DEF ReadCounter, WriteCounter, PastGuard
  <2>14. QED
    BY <1>4, <1>6, <2>1, <2>4, <2>5, <2>6, <2>7, <2>9, <2>10, <2>11, <2>12, <2>13 DEF Statement
<1>7. ASSUME NEW r \in Request, Commit(r) PROVE Latest'
  <2>1. /\ Ends(r) /\ InFlight(r) /\ Ep(r) \in Episode /\ request[r].step = "commit"
        /\ LatestOf(r) /\ CopiesOf(r) /\ HoldsAnnotation(r)
    <3>1. Ends(r) /\ InFlight(r) /\ Ep(r) \in Episode /\ request[r].step = "commit"
      BY <1>7, CommitEffect DEF Commit
    <3>2. QED
      BY <3>1 DEF Latest, Copies, Decisions, DecisionsOf
  <2>2. Op(r) = "annotate" => ~LeavesOut(r)
    BY <2>1, ReviewFacts DEF LatestOf, CopiesOf, HoldsAnnotation, PastGuard, LeavesOut
  <2>3. overtaken' = {}
    BY <1>7, <2>2 DEF Commit, Latest
  <2>4. \A e \in Episode \ {Ep(r)} : segments'[e] = segments[e] /\ annotation'[e] = annotation[e]
    BY <1>7, <2>1 DEF Commit, TypeControl, TypeOK
  <2>5. OnlyOf(r) /\ ~InFlight(r)'
    BY <2>1 DEF Ends, InFlight, Idle, Fresh
  <2>6. ApartFrom(r)
    BY <2>1, <2>4 DEF ApartFrom
  <2>7. QED
    BY <1>2, <2>3, <2>5, <2>6
<1>8. ASSUME NEW r \in Request, Abort(r) PROVE Latest'
  BY <1>4, <1>8, DiscardEnds DEF Abort, TypeControl
<1>9. ASSUME NEW e \in Episode, CreateEpisode(e)
      PROVE  UNCHANGED <<segments, annotation, overtaken, request, txn>>
  BY <1>9 DEF CreateEpisode
<1>10. QED
  BY <1>1, <1>5, <1>6, <1>7, <1>8, <1>9, NextCases DEF vars, dbVars

LEMMA PublishedStep ==
    TypeControl /\ Copies /\ ReviewSeesEpisodeSegments /\ Latest /\ Undisturbed /\ Approvals
        /\ PublishedAsReviewed /\ [Next]_vars => PublishedAsReviewed'
<1> SUFFICES ASSUME TypeControl, Copies, ReviewSeesEpisodeSegments, Latest, Undisturbed, Approvals,
                    PublishedAsReviewed, [Next]_vars
             PROVE  PublishedAsReviewed'
  OBVIOUS
<1>1. CASE UNCHANGED dbVars
  BY <1>1 DEF dbVars, PublishedAsReviewed
<1>2. ASSUME NEW e \in Episode, CreateEpisode(e) PROVE PublishedAsReviewed'
  <2>1. /\ annotation' = annotation /\ segments' = segments /\ status'[e] = "recording"
        /\ \A f \in Episode \ {e} : status'[f] = status[f]
    BY <1>2 DEF CreateEpisode, TypeControl, TypeOK, InitialState
  <2>2. QED
    BY <2>1 DEF PublishedAsReviewed
<1>3. ASSUME NEW r \in Request, Commit(r) PROVE PublishedAsReviewed'
  <2>1. /\ Ep(r) \in Episode /\ Op(r) \in Operation
        /\ CopiesOf(r) /\ ApprovalOf(r) /\ JudgedOf(r)
    <3>1. InFlight(r)
      BY <1>3, CommitEffect
    <3>2. QED
      BY <3>1, InFlightEpisode DEF Copies, Approvals, Undisturbed
  <2>2. /\ segments'[Ep(r)] = IF "episode" \in txn[r].locks THEN txn[r].segments ELSE segments[Ep(r)]
        /\ \A f \in Episode \ {Ep(r)} : segments'[f] = segments[f]
    BY <1>3, <2>1 DEF Commit, TypeControl, TypeOK
  <2>3. /\ \A f \in Episode \ {Ep(r)} : status'[f] = status[f] /\ annotation'[f] = annotation[f]
        /\ annotation'[Ep(r)] =
               IF "annotation" \in txn[r].locks THEN txn[r].annotation ELSE annotation[Ep(r)]
    BY <1>3, CommitEffect
  <2>4. ASSUME status'[Ep(r)] = "published"
        PROVE  segments'[Ep(r)] = annotation'[Ep(r)].segments
    <3>1. "episode" \in txn[r].locks /\ Target[Op(r)] = "published"
      BY <1>3, <2>1, <2>4, CommitMoves, ApprovalFacts DEF Moved
    <3>2. Op(r) = "review_approve" /\ status[Ep(r)] = "annotation_review"
      BY <2>1, <3>1, ApprovalFacts DEF JudgedOf, Expected
    <3>3. segments[Ep(r)] = annotation[Ep(r)].segments
      BY <2>1, <3>2 DEF ReviewSeesEpisodeSegments, Latest
    <3>4. segments'[Ep(r)] = segments[Ep(r)]
      BY <2>1, <2>2, <3>1, <3>2 DEF ApprovalOf
    <3>5. annotation'[Ep(r)].segments = annotation[Ep(r)].segments
      BY <2>1, <2>3, <3>2 DEF CopiesOf
    <3>6. QED
      BY <3>3, <3>4, <3>5
  <2>5. QED
    BY <2>1, <2>2, <2>3, <2>4 DEF PublishedAsReviewed
<1>4. ASSUME NEW r \in Request, NEW e \in Episode, Receive(r, e) PROVE UNCHANGED dbVars
  BY <1>4, ArriveEffect DEF dbVars
<1>5. ASSUME NEW r \in Request, Abort(r) \/ Statement(r) PROVE UNCHANGED dbVars
  BY <1>5, StatementEffect DEF Abort
<1>6. UNCHANGED vars => UNCHANGED dbVars
  BY DEF vars, dbVars
<1>7. QED
  BY <1>1, <1>2, <1>3, <1>4, <1>5, <1>6, NextCases

\* While requests on one Episode come one after another, a published Episode carries the very
\* segments that its annotation has and that the reviewer saw: a submission writes both
\* copies, since nobody changes what it loaded, an approval writes neither, and nothing
\* commits to an Episode that is published.
THEOREM PublishedAlwaysAsReviewed == ASSUME ~Overlap PROVE Spec => []PublishedAsReviewed
<1>1. Init => /\ Locks /\ Decisions /\ Copies /\ ReviewSeesEpisodeSegments
              /\ Latest /\ Approvals /\ PublishedAsReviewed
  BY DEF Init, Locks, LocksOf, LocksExclude, NoWrites, Decisions, FreshRow, NoAnnotation,
         InFlight, Idle, Fresh, Copies, ReviewSeesEpisodeSegments, Absent, Latest, Approvals,
         PublishedAsReviewed
<1>2. QED
  BY <1>1, UndisturbedAlways, LocksStep, DecisionsStep, CopiesStep, ReviewSeesStep,
     LatestStep, ApprovalsStep, PublishedStep, PTL DEF Spec

------------------------------------------------------------------------------
(***************************************************************************)
(* With one request at a time the counters are what the trails say.  The   *)
(* collect task's row is shared by its Episodes, so that it takes more     *)
(* than ~Overlap: one Episode only, or one request only.                   *)
(***************************************************************************)
OneAtATime == (\A e, f \in Episode : e = f) \/ (\A r, q \in Request : r = q)

Alone == \A r, q \in Request : InFlight(r) /\ InFlight(q) => r = q

\* Where the trails in T lead to target: which Episode, which record.
EntriesOf(T, target) == UNION {{e} \X RecordsIn(T[e], target) : e \in Episode}

CountsEntries(target, count) ==
    IsFiniteSet(EntriesOf(trail, target)) /\ count = Cardinality(EntriesOf(trail, target))

Tallied ==
    CountsEntries("uploaded", counters.collected) /\ CountsEntries("published", counters.published)

\* The count that r has read is still the task's, and what it writes is one more.
CountOf(r) ==
    /\ request[r].step = "write_counter" => request[r].count = counters[CounterOf[Op(r)]]
    /\ request[r].step = "commit" /\ Op(r) \in DOMAIN CounterOf =>
           /\ "task" \in txn[r].locks
           /\ txn[r].counters = [counters EXCEPT ![CounterOf[Op(r)]] = @ + 1]
    /\ "task" \in txn[r].locks => Op(r) \in DOMAIN CounterOf

Counts == \A r \in Request : InFlight(r) => CountOf(r)

LEMMA AloneFromLone == ASSUME OneAtATime, TypeControl, Lone PROVE Alone
  BY InFlightEpisode DEF OneAtATime, Lone, Alone

\* A counted operation is the only one that leads to its target.
LEMMA CounterFacts ==
    /\ DOMAIN CounterOf = {"upload_complete", "review_approve"}
    /\ CounterOf["upload_complete"] = "collected" /\ CounterOf["review_approve"] = "published"
    /\ \A o \in Operation :
           /\ Target[o] = "uploaded" <=> o = "upload_complete"
           /\ Target[o] = "published" <=> o = "review_approve"
    /\ "review_approve" \in HumanOperation /\ Expected["review_approve"] = "annotation_review"
    /\ Target["review_approve"] = "published"
  BY DEF CounterOf, Operation, Target, HumanOperation, Expected

LEMMA RecordsAppend ==
    ASSUME NEW t \in Seq(TransitionRecord), NEW x \in TransitionRecord, NEW target
    PROVE  /\ x.to = target =>
                  RecordsIn(Append(t, x), target) = RecordsIn(t, target) \cup {Len(t) + 1}
           /\ x.to # target => RecordsIn(Append(t, x), target) = RecordsIn(t, target)
           /\ Len(t) + 1 \notin RecordsIn(t, target)
<1>1. /\ Len(t) \in Nat /\ DOMAIN t = 1 .. Len(t) /\ DOMAIN Append(t, x) = 1 .. Len(t) + 1
      /\ \A i \in 1 .. Len(t) : Append(t, x)[i] = t[i]
      /\ Append(t, x)[Len(t) + 1] = x
  OBVIOUS
<1>2. CASE x.to = target
  BY <1>1, <1>2 DEF RecordsIn
<1>3. CASE x.to # target
  BY <1>1, <1>3 DEF RecordsIn
<1>4. QED
  BY <1>2, <1>3

\* One more record in one trail is one more entry, none more is none.
LEMMA EntriesGrow ==
    ASSUME NEW T, NEW U, NEW e \in Episode, \A f \in Episode \ {e} : U[f] = T[f],
           NEW target, IsFiniteSet(EntriesOf(T, target)),
           NEW n, n \notin RecordsIn(T[e], target),
           RecordsIn(U[e], target) = RecordsIn(T[e], target) \cup {n}
    PROVE  /\ IsFiniteSet(EntriesOf(U, target))
           /\ Cardinality(EntriesOf(U, target)) = Cardinality(EntriesOf(T, target)) + 1
<1> DEFINE Old == EntriesOf(T, target)
           new == <<e, n>>
<1>1. new \notin Old
  BY DEF EntriesOf
<1>2. EntriesOf(U, target) = Old \cup {new}
  <2>1. EntriesOf(U, target) \subseteq Old \cup {new}
    <3> SUFFICES ASSUME NEW f \in Episode, NEW i \in RecordsIn(U[f], target)
                 PROVE  <<f, i>> \in Old \cup {new}
      BY DEF EntriesOf
    <3>1. CASE f = e
      BY <3>1 DEF EntriesOf
    <3>2. CASE f # e
      BY <3>2 DEF EntriesOf
    <3>3. QED
      BY <3>1, <3>2
  <2>2. Old \subseteq EntriesOf(U, target)
    <3> SUFFICES ASSUME NEW f \in Episode, NEW i \in RecordsIn(T[f], target)
                 PROVE  <<f, i>> \in EntriesOf(U, target)
      BY DEF EntriesOf
    <3>1. i \in RecordsIn(U[f], target)
      <4>1. CASE f = e
        BY <4>1
      <4>2. CASE f # e
        BY <4>2
      <4>3. QED
        BY <4>1, <4>2
    <3>2. QED
      BY <3>1 DEF EntriesOf
  <2>3. new \in EntriesOf(U, target)
    BY DEF EntriesOf
  <2>4. QED
    BY <2>1, <2>2, <2>3
<1> HIDE DEF Old, new
<1>3. IsFiniteSet(Old) /\ Cardinality(Old) \in Nat
  BY FS_CardinalityType DEF Old
<1>4. IsFiniteSet(Old \cup {new}) /\ Cardinality(Old \cup {new}) = Cardinality(Old) + 1
  BY <1>1, <1>3, FS_AddElement
<1>5. QED
  BY <1>2, <1>4 DEF Old

LEMMA EntriesSame ==
    ASSUME NEW T, NEW U, NEW e \in Episode, \A f \in Episode \ {e} : U[f] = T[f],
           NEW target, RecordsIn(U[e], target) = RecordsIn(T[e], target)
    PROVE  EntriesOf(U, target) = EntriesOf(T, target)
<1>1. \A f \in Episode : RecordsIn(U[f], target) = RecordsIn(T[f], target)
  <2> TAKE f \in Episode
  <2>1. CASE f = e
    BY <2>1
  <2>2. CASE f # e
    BY <2>2
  <2>3. QED
    BY <2>1, <2>2
<1>2. ASSUME NEW f \in Episode, NEW i
      PROVE  i \in RecordsIn(U[f], target) <=> i \in RecordsIn(T[f], target)
  BY <1>1
<1>3. EntriesOf(U, target) \subseteq EntriesOf(T, target)
  BY <1>2 DEF EntriesOf
<1>4. EntriesOf(T, target) \subseteq EntriesOf(U, target)
  BY <1>2 DEF EntriesOf
<1>5. QED
  BY <1>3, <1>4

LEMMA CountsStep ==
    TypeControl /\ Locks /\ Alone /\ Undisturbed /\ Counts /\ [Next]_vars => Counts'
<1> SUFFICES ASSUME TypeControl, Locks, Alone, Undisturbed, Counts, [Next]_vars PROVE Counts'
  OBVIOUS
<1>1. CASE UNCHANGED <<counters, request, txn>>
  BY <1>1 DEF Counts, CountOf, InFlight, Op
\* r is the only one in flight, or just arrived.
<1>2. ASSUME NEW r \in Request, OnlyOf(r), \A q \in Request \ {r} : InFlight(q)' => counters' = counters,
             InFlight(r)' => CountOf(r)'
      PROVE  Counts'
  <2> SUFFICES ASSUME NEW q \in Request, q # r, InFlight(q)' PROVE CountOf(q)'
    BY <1>2 DEF Counts
  <2>1. request'[q] = request[q] /\ txn'[q] = txn[q] /\ InFlight(q) /\ CountOf(q) /\ counters' = counters
    BY <1>2 DEF OnlyOf, InFlight, Counts
  <2>2. QED
    BY <2>1 DEF CountOf, Op
<1>3. ASSUME NEW r \in Request, Ends(r), counters' = counters PROVE Counts'
  <2>1. OnlyOf(r) /\ ~InFlight(r)'
    BY <1>3 DEF Ends, InFlight, Idle, Fresh
  <2>2. QED
    BY <1>2, <1>3, <2>1
<1>4. ASSUME NEW r \in Request, NEW e \in Episode, Receive(r, e) PROVE Counts'
  <2>1. PICK step \in {"read_annotation", "attach", "apply"} :
            /\ ~InFlight(r) /\ request'[r].step = step /\ OnlyOf(r) /\ txn' = txn
            /\ counters' = counters
    BY <1>4, ArriveEffect DEF InFlight, dbVars
  <2>2. txn'[r].locks = {}
    BY <2>1 DEF TypeControl, Control, NoWrites
  <2>3. CountOf(r)'
    BY <2>1, <2>2 DEF CountOf
  <2>4. QED
    BY <1>2, <2>1, <2>3
<1>5. ASSUME NEW r \in Request, Statement(r) PROVE Counts'
  <2>1. /\ InFlight(r) /\ CountOf(r) /\ counters' = counters
        /\ ProgressOf(r) /\ JudgedOf(r) /\ status[Ep(r)] \in Status
        /\ "task" \notin txn[r].locks
    <3>1. InFlight(r) /\ counters' = counters
      BY <1>5, StatementEffect DEF dbVars
    <3>2. request[r].step # "commit"
      BY <1>5 DEF Statement, ReadAnnotation, WriteAnnotation, ReadEpisode, Attach, Guard, ReadForUpdate, Flush,
                  Publish, ReadCounter, WriteCounter
    <3>3. QED
      BY <3>1, <3>2 DEF Counts, Undisturbed, TypeControl, Control, ControlOf, Locks, LocksOf
  <2>2. ASSUME NEW s \in Step \ {"write_counter"}, GoesOn(r, s), "task" \notin txn'[r].locks,
               s = "commit" => Op(r) \notin DOMAIN CounterOf
        PROVE  Counts'
    <3>1. CountOf(r)'
      BY <2>2 DEF CountOf, GoesOn, Op
    <3>2. QED
      BY <1>2, <2>1, <2>2, <3>1 DEF GoesOn
  <2>3. CASE ReadAnnotation(r) /\ ~Ends(r)
    BY <2>1, <2>2, <2>3, ReadAnnotationEffect DEF Step
  <2>4. CASE WriteAnnotation(r) /\ ~Ends(r)
    BY <2>1, <2>2, <2>4, WriteAnnotationEffect DEF Step
  <2>4a. CASE ReadEpisode(r)
    BY <2>1, <2>2, <2>4a, ReadEpisodeEffect DEF Step
  <2>5. CASE Attach(r)
    BY <2>1, <2>2, <2>5, AttachEffect DEF Step
  <2>6. CASE Guard(r) /\ ~Ends(r)
    <3>1. SeenStatus(r) = status[Ep(r)] /\ Op(r) # "upload_complete"
      BY <2>1, <2>6 DEF Guard, ProgressOf, Unflushed, Unmoved, JudgedOf, SeenStatus
    <3>2. PICK s \in {"commit", "apply"} :
              GoesOn(r, s) /\ (s = "commit" => status[Ep(r)] = Target[Op(r)]) /\ txn' = txn
      BY <2>6, <3>1, GuardEffect
    <3>3. s = "commit" => Op(r) \notin DOMAIN CounterOf
      BY <2>1, <3>1, <3>2, CounterFacts DEF JudgedOf
    <3>4. QED
      BY <2>1, <2>2, <3>2, <3>3 DEF Step
  <2>7. CASE ReadForUpdate(r)
    <3>1. SeenStatus(r) = status[Ep(r)] /\ status[Ep(r)] # Target[Op(r)]
      BY <2>1, <2>7, EdgeFacts DEF ReadForUpdate, ProgressOf, Unflushed, Unmoved, SeenStatus
    <3>2. GoesOn(r, "flush") /\ txn' = txn
      BY <2>7, <3>1, ReadForUpdateEffect
    <3>3. QED
      BY <2>1, <2>2, <3>2 DEF Step
  <2>8. CASE Flush(r)
    <3>1. PICK s \in {"publish", "commit"} :
              GoesOn(r, s) /\ (s = "commit" => Op(r) \notin DOMAIN EventOf)
      BY <2>8, FlushEffect
    <3>2. QED
      BY <2>1, <2>2, <2>8, <3>1, FlushEffect, OperationFacts DEF Step
  <2>9. CASE Publish(r)
    <3>1. PICK s \in {"read_counter", "commit"} :
              GoesOn(r, s) /\ (s = "commit" => Op(r) \notin DOMAIN CounterOf)
      BY <2>9, PublishEffect
    <3>2. txn'[r].locks = txn[r].locks
      BY <2>9, PublishEffect
    <3>3. QED
      BY <2>1, <2>2, <3>1, <3>2 DEF Step
  <2>10. CASE ReadCounter(r)
    <3>1. GoesOn(r, "write_counter") /\ txn' = txn
      BY <2>10, ReadCounterEffect
    <3>2. request'[r].count = counters[CounterOf[Op(r)]]
      BY <2>1, <2>10, InFlightEpisode DEF ReadCounter, TypeControl, TypeOK, RequestType
    <3>3. CountOf(r)'
      BY <2>1, <3>1, <3>2 DEF CountOf, GoesOn, Op
    <3>4. QED
      BY <1>2, <2>1, <3>1, <3>3 DEF GoesOn
  <2>11. CASE WriteCounter(r)
    <3> DEFINE written == [counters EXCEPT ![CounterOf[Op(r)]] = request[r].count + 1]
    <3>1. /\ GoesOn(r, "commit") /\ txn'[r].locks = txn[r].locks \cup {"task"}
          /\ request[r].step = "write_counter"
      BY <2>11, WriteCounterEffect DEF WriteCounter
    <3>2. Op(r) \in DOMAIN CounterOf /\ request[r].count = counters[CounterOf[Op(r)]]
      BY <2>1, <3>1 DEF CountOf, TypeControl, Control, ControlOf
    <3>3. txn' = [txn EXCEPT ![r].locks = @ \cup {"task"}, ![r].counters = written]
      BY <2>11 DEF WriteCounter
    <3>4. written = [counters EXCEPT ![CounterOf[Op(r)]] = @ + 1]
      BY <3>2
    <3> HIDE DEF written
    <3>5. txn'[r].counters = written
      BY <2>1, <3>3, InFlightEpisode DEF TypeControl, TypeOK, WritesType
    <3>6. CountOf(r)'
      BY <2>1, <3>1, <3>2, <3>4, <3>5 DEF CountOf, GoesOn, Op
    <3>7. QED
      BY <1>2, <2>1, <3>1, <3>6 DEF GoesOn
  <2>12. QED
    BY <1>3, <1>5, <2>1, <2>3, <2>4, <2>4a, <2>5, <2>6, <2>7, <2>8, <2>9, <2>10, <2>11 DEF Statement
<1>6. ASSUME NEW r \in Request, Commit(r) PROVE Counts'
  <2>1. Ends(r) /\ InFlight(r)
    BY <1>6, CommitEffect
  <2>2. \A q \in Request : ~InFlight(q)'
    BY <2>1 DEF Alone, Ends, OnlyOf, InFlight, Idle, Fresh
  <2>3. QED
    BY <2>2 DEF Counts
<1>7. ASSUME NEW r \in Request, Abort(r) PROVE Counts'
  BY <1>3, <1>7, DiscardEnds DEF Abort, TypeControl, dbVars
<1>8. ASSUME NEW e \in Episode, CreateEpisode(e) PROVE UNCHANGED <<counters, request, txn>>
  BY <1>8 DEF CreateEpisode
<1>9. QED
  BY <1>1, <1>4, <1>5, <1>6, <1>7, <1>8, NextCases DEF vars, dbVars

LEMMA TalliedStep ==
    TypeControl /\ Undisturbed /\ Counts /\ Tallied /\ [Next]_vars => Tallied'
<1> SUFFICES ASSUME TypeControl, Undisturbed, Counts, Tallied, [Next]_vars PROVE Tallied'
  OBVIOUS
<1>1. CASE UNCHANGED <<trail, counters>>
  BY <1>1 DEF Tallied, CountsEntries, EntriesOf
<1>2. ASSUME NEW r \in Request, Commit(r) PROVE Tallied'
  <2>1. /\ Op(r) \in Operation /\ Ep(r) \in Episode /\ CountOf(r)
        /\ request[r].step = "commit" /\ trail[Ep(r)] \in Seq(TransitionRecord)
        /\ RecordOf(r) \in TransitionRecord /\ Ingestion(r) \in TransitionRecord
        /\ counters \in Counters
    <3>1. InFlight(r) /\ request[r].step = "commit"
      BY <1>2, CommitEffect DEF Commit
    <3>2. QED
      BY <3>1, InFlightEpisode, RecordsTyped DEF Counts, TypeControl, TypeOK
  <2>2. /\ \A f \in Episode \ {Ep(r)} : trail'[f] = trail[f]
        /\ counters' = IF "task" \in txn[r].locks THEN txn[r].counters ELSE counters
    BY <1>2, CommitEffect DEF Commit
  \* The records of each target that the commit adds.
  <2>3. ASSUME NEW target \in {"uploaded", "published"}
        PROVE  /\ Target[Op(r)] = target => RecordsIn(trail'[Ep(r)], target) =
                      RecordsIn(trail[Ep(r)], target) \cup {Len(trail[Ep(r)]) + 1}
               /\ Target[Op(r)] # target =>
                      RecordsIn(trail'[Ep(r)], target) = RecordsIn(trail[Ep(r)], target)
               /\ Len(trail[Ep(r)]) + 1 \notin RecordsIn(trail[Ep(r)], target)
    <3> DEFINE once == Append(trail[Ep(r)], RecordOf(r))
    <3>1. RecordOf(r).to = Target[Op(r)] /\ Ingestion(r).to = "processing"
      BY DEF RecordOf, Ingestion
    <3>2. /\ Target[Op(r)] = target =>
                 RecordsIn(once, target) = RecordsIn(trail[Ep(r)], target) \cup {Len(trail[Ep(r)]) + 1}
          /\ Target[Op(r)] # target => RecordsIn(once, target) = RecordsIn(trail[Ep(r)], target)
          /\ Len(trail[Ep(r)]) + 1 \notin RecordsIn(trail[Ep(r)], target)
      <4>1. trail[Ep(r)] \in Seq(TransitionRecord) /\ RecordOf(r) \in TransitionRecord
        BY <2>1
      <4>2. /\ RecordOf(r).to = target =>
                   RecordsIn(once, target) = RecordsIn(trail[Ep(r)], target) \cup {Len(trail[Ep(r)]) + 1}
            /\ RecordOf(r).to # target => RecordsIn(once, target) = RecordsIn(trail[Ep(r)], target)
            /\ Len(trail[Ep(r)]) + 1 \notin RecordsIn(trail[Ep(r)], target)
        BY <4>1, RecordsAppend
      <4>3. QED
        BY <3>1, <4>2
    <3>3. once \in Seq(TransitionRecord)
      BY <2>1
    <3> HIDE DEF once
    <3>4. RecordsIn(Append(once, Ingestion(r)), target) = RecordsIn(once, target)
      BY <2>1, <3>1, <3>3, RecordsAppend
    <3>5. \/ trail'[Ep(r)] = Append(once, Ingestion(r))
          \/ trail'[Ep(r)] = once
          \/ trail'[Ep(r)] = trail[Ep(r)] /\ Op(r) \notin HumanOperation \cup {"upload_complete"}
      <4>1. trail[Ep(r)] \o <<RecordOf(r), Ingestion(r)>> = Append(once, Ingestion(r))
        BY <2>1, ConcatTwo DEF once
      <4>2. QED
        BY <1>2, <4>1, CommitMoves DEF once
    <3>6. Op(r) \notin HumanOperation \cup {"upload_complete"} => Target[Op(r)] # target
      BY <2>1, CounterFacts
    <3>7. QED
      BY <3>2, <3>4, <3>5, <3>6
  <2>4. ASSUME NEW target \in {"uploaded", "published"}, NEW n, CountsEntries(target, n)
        PROVE  /\ Target[Op(r)] = target => CountsEntries(target, n + 1)'
               /\ Target[Op(r)] # target => CountsEntries(target, n)'
    <3>1. CASE Target[Op(r)] = target
      <4>1. /\ RecordsIn(trail'[Ep(r)], target) =
                   RecordsIn(trail[Ep(r)], target) \cup {Len(trail[Ep(r)]) + 1}
            /\ Len(trail[Ep(r)]) + 1 \notin RecordsIn(trail[Ep(r)], target)
        BY <2>3, <3>1
      <4>2. IsFiniteSet(EntriesOf(trail, target)) /\ \A f \in Episode \ {Ep(r)} : trail'[f] = trail[f]
        BY <2>2, <2>4 DEF CountsEntries
      <4>3. /\ IsFiniteSet(EntriesOf(trail', target))
            /\ Cardinality(EntriesOf(trail', target)) = Cardinality(EntriesOf(trail, target)) + 1
        BY <2>1, <4>1, <4>2, EntriesGrow
      <4>4. QED
        BY <2>4, <3>1, <4>3 DEF CountsEntries
    <3>2. CASE Target[Op(r)] # target
      <4>1. EntriesOf(trail', target) = EntriesOf(trail, target)
        BY <2>1, <2>2, <2>3, <3>2, EntriesSame
      <4>2. QED
        BY <2>4, <3>2, <4>1 DEF CountsEntries
    <3>3. QED
      BY <3>1, <3>2
  <2>5. CASE Op(r) = "upload_complete"
    <3>1. counters'.collected = counters.collected + 1 /\ counters'.published = counters.published
      BY <2>1, <2>2, <2>5, CounterFacts DEF CountOf, Counters
    <3>2. QED
      BY <2>1, <2>4, <2>5, <3>1, CounterFacts DEF Tallied
  <2>6. CASE Op(r) = "review_approve"
    <3>1. counters'.published = counters.published + 1 /\ counters'.collected = counters.collected
      BY <2>1, <2>2, <2>6, CounterFacts DEF CountOf, Counters
    <3>2. QED
      BY <2>1, <2>4, <2>6, <3>1, CounterFacts DEF Tallied
  <2>7. CASE Op(r) \notin DOMAIN CounterOf
    <3>1. counters' = counters
      BY <2>1, <2>2, <2>7 DEF CountOf
    <3>2. QED
      BY <2>1, <2>4, <2>7, <3>1, CounterFacts DEF Tallied
  <2>8. QED
    BY <2>5, <2>6, <2>7, CounterFacts
<1>3. ASSUME NEW e \in Episode, CreateEpisode(e) PROVE UNCHANGED <<trail, counters>>
  BY <1>3 DEF CreateEpisode
<1>4. ASSUME NEW r \in Request, NEW e \in Episode, Receive(r, e) PROVE UNCHANGED <<trail, counters>>
  BY <1>4, ArriveEffect DEF dbVars
<1>5. ASSUME NEW r \in Request, Abort(r) \/ Statement(r) PROVE UNCHANGED <<trail, counters>>
  BY <1>5, StatementEffect DEF Abort, dbVars
<1>6. QED
  BY <1>1, <1>2, <1>3, <1>4, <1>5, NextCases DEF vars, dbVars

\* With one request at a time, the collect task's counters are the number of uploads and of
\* publications in the trails, whatever is replayed or aborted: increment_counters reads the row
\* it writes back, in the transaction that commits the record, and a request that moves nothing
\* does not reach it.
THEOREM CountersAlwaysMatchTrail ==
    ASSUME ~Overlap, OneAtATime PROVE Spec => []CountersMatchTrail
<1>1. Init => Locks /\ Counts /\ Tallied
  <2> SUFFICES ASSUME Init PROVE Locks /\ Counts /\ Tallied
    OBVIOUS
  <2>1. \A e \in Episode : trail[e] = <<>>
    BY DEF Init
  <2>2. \A target : EntriesOf(trail, target) = {}
    BY <2>1 DEF EntriesOf, RecordsIn
  <2>3. counters.collected = 0 /\ counters.published = 0
    BY DEF Init
  <2>4. Tallied
    BY <2>2, <2>3, FS_EmptySet DEF Tallied, CountsEntries
  <2>5. Locks /\ Counts
    BY DEF Init, Locks, LocksOf, LocksExclude, NoWrites, Counts, InFlight, Idle, Fresh
  <2>6. QED
    BY <2>4, <2>5
<1>2. TypeControl /\ Tallied => CountersMatchTrail
  <2> SUFFICES ASSUME TypeControl, Tallied PROVE CountersMatchTrail
    OBVIOUS
  <2> DEFINE Total(target) == Cardinality(UNION {{e} \X RecordsTo(e, target) : e \in Episode})
  <2>1. ASSUME NEW target PROVE EntriesOf(trail, target) =
                                    UNION {{e} \X RecordsTo(e, target) : e \in Episode}
    BY DEF EntriesOf, RecordsIn, RecordsTo
  <2>2. counters.collected = Total("uploaded") /\ counters.published = Total("published")
    BY <2>1 DEF Tallied, CountsEntries
  <2> HIDE DEF Total
  <2>3. counters = [collected |-> Total("uploaded"), published |-> Total("published")]
    BY <2>2 DEF TypeControl, TypeOK, Counters
  <2>4. QED
    BY <2>3 DEF CountersMatchTrail, Total
<1>3. TypeControl /\ Lone => Alone
  BY AloneFromLone
<1>4. QED
  BY <1>1, <1>2, <1>3, UndisturbedAlways, LocksStep, CountsStep, TalliedStep, PTL DEF Spec
=============================================================================
