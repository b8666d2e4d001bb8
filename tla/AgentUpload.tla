----------------------------- MODULE AgentUpload -----------------------------
(***************************************************************************)
(* The Agent process: it records Episodes (Collector) or takes files that  *)
(* others put into a task directory (FileProcessor), uploads them part by  *)
(* part, and tells the Platform.  Each of these flows is a list of steps,  *)
(* a statement of the local store, a request or a file operation each; the *)
(* process may be killed between any two of them, a power cut takes bytes  *)
(* of the object store with it, and the next start runs RecoveryService    *)
(* on what the local store calls unfinished.                               *)
(*                                                                         *)
(* An Episode stands for one try at one file: a flow that fails before the *)
(* Platform has created an Episode leaves nothing there.                   *)
(***************************************************************************)
EXTENDS StateStore, ChunkedUpload, FiniteSets

CONSTANTS Collected,    \* Episodes the Agent records itself
          Dropped,      \* Episodes made of files that land in a task directory
          FileSize,     \* bytes of a whole file
          MaxFaults     \* bound: kills, power cuts, failed requests and writes, refused files

Episode == Collected \cup Dropped

ASSUME EpisodeAssumption == Collected \cap Dropped = {} /\ IsFiniteSet(Episode)
ASSUME FileSizeAssumption == FileSize \in Nat \ {0}
ASSUME UploadBounds == MaxFaults \in Nat

VARIABLES agent,        \* "down", "recovering" or "ready"
          todo,         \* what recover() still has to look at
          job,          \* the Episode in hand and the step of its flow
          failedOnes,   \* recover()'s failed
          row,          \* the local store
          file,         \* where the source is, and its size
          object,       \* the object store
          platform,     \* the Episode's status on the Platform
          damaged,      \* Episodes that lost a recorded part in a power cut (history)
          orphaned,     \* Episodes whose flow was killed (history)
          faults

process == <<agent, todo, job, failedOnes>>
uploadVars == <<agent, todo, job, failedOnes, row, file, object, platform, damaged,
                orphaned, faults>>

------------------------------------------------------------------------------
Place == {"nowhere", "recording", "inbox", ".uploading", ".done", ".failed", ".rejected"}

\* "processing": the upload callback has been accepted.
PlatformStatus == {"absent", "recording", "uploading", "processing"}

\* The order of the statements of each flow.
After ==
    [collect |-> [create |-> "record", record |-> "film", film |-> "finish",
                  finish |-> "begin", begin |-> "open", open |-> "write",
                  write |-> "start", start |-> "mark", mark |-> "complete",
                  complete |-> "report", report |-> "close", close |-> "end"],
     file    |-> [create |-> "record", record |-> "finish", finish |-> "start",
                  start |-> "begin", begin |-> "open", open |-> "write",
                  write |-> "complete", complete |-> "report", report |-> "close",
                  close |-> "shelve", shelve |-> "end"],
     resume  |-> [open |-> "write", write |-> "start", start |-> "mark",
                  mark |-> "complete", complete |-> "report", report |-> "close",
                  close |-> "end"],
     resend  |-> [report |-> "close", close |-> "end"]]

Flow == {"collect", "file", "resume", "resend"}
Step == {"create", "record", "film", "finish", "begin", "open", "write", "start", "mark",
         "complete", "report", "close", "shelve"}

\* done: the parts upload() has done; unmarked: those of them not recorded yet.
NoJob == [episode |-> "none", flow |-> "none", step |-> "end", done |-> {}, unmarked |-> {}]

JobOf(e, flow, step) ==
    [episode |-> e, flow |-> flow, step |-> step, done |-> {}, unmarked |-> {}]

Working == job # NoJob

On(flow, e, step) == job.flow = flow /\ job.episode = e /\ job.step = step
At(e, step) == Working /\ job.episode = e /\ job.step = step

Whole(e) == object[e].data = 1 .. FileSize

HasSource(e) == file[e].at \in {"recording", ".uploading"}

TotalParts(e) == PlanParts(file[e].size)

\* Every part recorded as done is in the object store.
PartsStored(e) == \A p \in row[e].parts : PartBytes(file[e].size, p) \subseteq object[e].data

UploadInit ==
    /\ agent = "down"
    /\ todo = {}
    /\ job = NoJob
    /\ failedOnes = {}
    /\ row = [e \in Episode |-> NoRecord]
    /\ file = [e \in Episode |-> [at |-> "nowhere", size |-> 0]]
    /\ object = [e \in Episode |-> NoObject]
    /\ platform = [e \in Episode |-> "absent"]
    /\ damaged = {}
    /\ orphaned = {}
    /\ faults = 0

------------------------------------------------------------------------------
\* How a statement ends.

Finished == IF After[job.flow][job.step] = "end" THEN NoJob
            ELSE [job EXCEPT !.step = After[job.flow][job.step]]

\* It succeeds, and the flow goes on.
Proceed == job' = Finished /\ UNCHANGED <<agent, todo, failedOnes>>

SetRow(r) == row' = [row EXCEPT ![job.episode] = r]

MoveFile(e, place) == file' = [file EXCEPT ![e].at = place]

\* Mutant: the file stays where it is.
LeaveFile(e) == UNCHANGED file

\* mark_failed.
MarkFailed(e) == MoveFile(e, ".failed")

\* It raises.  Nobody catches what collect_once raises.  FileProcessor.process moves
\* the file to .failed/.  recover() records the failure and goes on with the next
\* Episode, except that it lets the HTTP client's own errors through.
Raise(kind) ==
    /\ job' = NoJob
    /\ IF job.flow \in {"resume", "resend"} /\ kind # "transport"
       THEN /\ SetRow(FailUpload(row[job.episode]))
            /\ failedOnes' = failedOnes \cup {job.episode}
            /\ UNCHANGED <<agent, todo, file>>
       ELSE /\ UNCHANGED row
            /\ IF job.flow = "file"
               THEN MarkFailed(job.episode) /\ UNCHANGED <<agent, todo, failedOnes>>
               ELSE /\ agent' = "down"
                    /\ todo' = {}
                    /\ failedOnes' = {}
                    /\ UNCHANGED file

Fault == faults < MaxFaults /\ faults' = faults + 1

\* A request: answered, refused, or broken off before or after it was handled.
Request(handled) ==
    \/ /\ platform' = handled
       /\ Proceed
       /\ UNCHANGED <<row, file, faults>>
    \/ Fault /\ UNCHANGED platform /\ Raise("refused")
    \/ Fault /\ platform' \in {platform, handled} /\ Raise("transport")

\* A statement of the local store.
Store(r) ==
    /\ SetRow(r)
    /\ Proceed
    /\ UNCHANGED <<file, object, platform, damaged, orphaned, faults>>

------------------------------------------------------------------------------
\* The steps.

\* PlatformClient.create_episode.
Create(e) ==
    /\ At(e, "create")
    /\ Request([platform EXCEPT ![e] = "recording"])
    /\ UNCHANGED <<object, damaged, orphaned>>

Record(e) == At(e, "record") /\ Store(RecordEpisode)

\* Mutant: one byte more.
TooLong(n) == n > FileSize

Recorded(n) == n = FileSize

\* record_simulated_episode: each message is flushed.
Film(e) ==
    /\ At(e, "film")
    /\ IF file[e].at = "nowhere" THEN file' = [file EXCEPT ![e].at = "recording"]
                                 ELSE file' = [file EXCEPT ![e].size = @ + 1]
    /\ IF Recorded(file'[e].size) THEN Proceed ELSE UNCHANGED process
    /\ UNCHANGED <<row, object, platform, damaged, orphaned, faults>>

Finish(e) == At(e, "finish") /\ Store(FinishRecording(row[e]))

\* PlatformClient.start_upload: a 409 counts as done.
Begin(e) ==
    /\ At(e, "begin")
    /\ Request([platform EXCEPT ![e] = IF @ = "recording" THEN "uploading" ELSE @])
    /\ UNCHANGED <<object, damaged, orphaned>>

\* upload(), up to its loop.  Recovery refuses a record whose file is gone.
Open(e) ==
    /\ At(e, "open")
    /\ IF HasSource(e)
       THEN /\ object' = [object EXCEPT ![e] = Preallocate(@, file[e].size)]
            /\ job' = [job EXCEPT !.step = "write",
                                  !.done = IF job.flow = "resume" THEN row[e].parts ELSE {}]
            /\ UNCHANGED <<agent, todo, failedOnes, row, file>>
       ELSE Raise("lost") /\ UNCHANGED object
    /\ UNCHANGED <<platform, damaged, orphaned, faults>>

\* Mutant: nobody waits for the record of the part before.
NoWait == TRUE

\* FileProcessor uploads in a thread, which posts the parts to the event loop and
\* goes on; the others record each part before the next.
PartBeforeRecorded == job.flow = "file" \/ job.unmarked = {}

\* The next part, in order.
Write(e, p) ==
    /\ At(e, "write")
    /\ p \in (1 .. TotalParts(e)) \ job.done
    /\ \A q \in 1 .. p - 1 : q \in job.done
    /\ PartBeforeRecorded
    /\ object' = [object EXCEPT ![e] = WritePart(@, file[e].size, p)]
    /\ job' = [job EXCEPT !.done = @ \cup {p}, !.unmarked = @ \cup {p}]
    /\ UNCHANGED <<agent, todo, failedOnes, row, file, platform, damaged, orphaned, faults>>

\* max_retries + 1 writes of a part have failed.
WriteFails(e) ==
    /\ At(e, "write")
    /\ ~ (1 .. TotalParts(e) \subseteq job.done)
    /\ job.unmarked = {}
    /\ Fault
    /\ Raise("io")
    /\ UNCHANGED <<object, platform, damaged, orphaned>>

Mark(e, p) ==
    /\ At(e, "write")
    /\ p \in job.unmarked
    /\ \A q \in job.unmarked : p <= q
    /\ SetRow(MarkPartUploaded(row[e], p))
    /\ job' = [job EXCEPT !.unmarked = @ \ {p}]
    /\ UNCHANGED <<agent, todo, failedOnes, file, object, platform, damaged, orphaned, faults>>

\* upload() returns.
Uploaded(e) ==
    /\ At(e, "write")
    /\ 1 .. TotalParts(e) \subseteq job.done
    /\ job.unmarked = {}
    /\ Proceed
    /\ UNCHANGED <<row, file, object, platform, damaged, orphaned, faults>>

Start(e) == At(e, "start") /\ Store(StartUpload(row[e], TotalParts(e)))

\* Every part of the outcome is recorded again, one statement each.
MarkAgain(e) ==
    /\ At(e, "mark")
    /\ Store([row[e] EXCEPT !.parts = @ \cup job.done])

Complete(e) == At(e, "complete") /\ Store(CompleteUpload(row[e]))

\* Mutant: recovery, too, sends the checksum it measures.
VerifiesMeasured(e) == TRUE

\* Platform: the declared checksum is that of the object, if there is an object.  The
\* flows that have just uploaded declare what they measured there; recovery declares
\* the checksum of the whole file, from the local store.
Verifies(e) == \/ job.flow \in {"collect", "file"}
               \/ object[e] = NoObject
               \/ Whole(e)

\* Mutant: an answer is an answer.
ReportIgnoresRefusal(e) ==
    /\ At(e, "report")
    /\ platform' = [platform EXCEPT ![e] = IF @ = "uploading" /\ Verifies(e)
                                           THEN "processing" ELSE @]
    /\ Proceed
    /\ UNCHANGED <<row, file, object, damaged, orphaned, faults>>

\* PlatformClient.report_upload_complete, called at the end of each flow.
Report(e) ==
    /\ At(e, "report")
    /\ IF job.flow \in {"resume", "resend"} /\ ~(row[e].key /\ row[e].checksum)
       THEN Raise("value") /\ UNCHANGED <<platform, faults>>
       ELSE IF ~Verifies(e)
            THEN Raise("refused") /\ UNCHANGED <<platform, faults>>
            ELSE Request([platform EXCEPT ![e] = IF @ = "uploading" THEN "processing" ELSE @])
    /\ UNCHANGED <<object, damaged, orphaned>>

Close(e) == At(e, "close") /\ Store(MarkCallbackDone(row[e]))

Shelve(e) ==
    /\ At(e, "shelve")
    /\ MoveFile(e, ".done")
    /\ Proceed
    /\ UNCHANGED <<row, object, platform, damaged, orphaned, faults>>

------------------------------------------------------------------------------
\* The process.

\* Mutant: only what is not uploaded.
UploadsLeft == {e \in Episode : NeedsUpload(row[e])}

UnfinishedOnes == {e \in Episode : Unfinished(row[e])}

Boot ==
    /\ agent = "down"
    /\ agent' = "recovering"
    /\ todo' = UnfinishedOnes
    /\ failedOnes' = {}
    /\ UNCHANGED <<job, row, file, object, platform, damaged, orphaned, faults>>

\* Mutant: an upload that was complete needs nothing more.
ResumeOnly(e) == IF NeedsUpload(row[e]) THEN JobOf(e, "resume", "open") ELSE NoJob

\* _resume_upload, which ends with the callback, or _resend_callback.
RecoveryOf(e) == IF NeedsUpload(row[e]) THEN JobOf(e, "resume", "open")
                                        ELSE JobOf(e, "resend", "report")

Recover(e) ==
    /\ agent = "recovering" /\ ~Working
    /\ e \in todo
    /\ todo' = todo \ {e}
    /\ job' = RecoveryOf(e)
    /\ UNCHANGED <<agent, failedOnes, row, file, object, platform, damaged, orphaned, faults>>

Recovered ==
    /\ agent = "recovering" /\ ~Working
    /\ todo = {}
    /\ agent' = "ready"
    /\ UNCHANGED <<todo, job, failedOnes, row, file, object, platform, damaged, orphaned, faults>>

\* collect_once begins.
Collect(e) ==
    /\ agent = "ready" /\ ~Working
    /\ e \in Collected
    /\ platform[e] = "absent"
    /\ job' = JobOf(e, "collect", "create")
    /\ UNCHANGED <<agent, todo, failedOnes, row, file, object, platform, damaged, orphaned, faults>>

\* FileProcessor.process takes a file that is ready, and moves it to .uploading/.
Take(e) ==
    /\ agent = "ready" /\ ~Working
    /\ file[e].at = "inbox"
    /\ MoveFile(e, ".uploading")
    /\ job' = JobOf(e, "file", "create")
    /\ UNCHANGED <<agent, todo, failedOnes, row, object, platform, damaged, orphaned, faults>>

\* It cannot be parsed, or lacks a required topic.
Refuse(e) ==
    /\ agent = "ready" /\ ~Working
    /\ file[e].at = "inbox"
    /\ Fault
    /\ \E place \in {".failed", ".rejected"} : MoveFile(e, place)
    /\ UNCHANGED <<process, row, object, platform, damaged, orphaned>>

\* The process ends, having nothing in hand: --recover, one Episode collected, Ctrl-C.
Exit ==
    /\ agent = "ready" /\ ~Working
    /\ agent' = "down"
    /\ failedOnes' = {}
    /\ UNCHANGED <<todo, job, row, file, object, platform, damaged, orphaned, faults>>

\* Somebody copies a file into a task directory.
Land(e) ==
    /\ e \in Dropped
    /\ file[e].at = "nowhere"
    /\ file' = [file EXCEPT ![e] = [at |-> "inbox", size |-> FileSize]]
    /\ UNCHANGED <<process, row, object, platform, damaged, orphaned, faults>>

Killed ==
    /\ agent # "down"
    /\ Fault
    /\ agent' = "down"
    /\ todo' = {}
    /\ job' = NoJob
    /\ failedOnes' = {}
    /\ orphaned' = IF Working THEN orphaned \cup {job.episode} ELSE orphaned
    /\ UNCHANGED <<row, file, platform>>

Kill == Killed /\ UNCHANGED <<object, damaged>>

\* Objects written since the last power cut may lose any bytes of the cache, and an
\* object of which nothing had reached the disk its directory entry, too.
PowerCut(e) ==
    /\ Killed
    /\ object[e].cached # {}
    /\ \/ \E kept \in SUBSET object[e].cached :
             object' = [object EXCEPT ![e] = AfterPowerCut(@, kept)]
       \/ object[e].cached = object[e].data /\ object' = [object EXCEPT ![e] = NoObject]
    /\ damaged' = IF PartsStored(e)' THEN damaged ELSE damaged \cup {e}

------------------------------------------------------------------------------
JobStep(e) ==
    \/ Create(e) \/ Record(e) \/ Film(e) \/ Finish(e) \/ Begin(e) \/ Open(e)
    \/ (\E p \in 1 .. TotalParts(e) : Write(e, p) \/ Mark(e, p))
    \/ WriteFails(e) \/ Uploaded(e) \/ Start(e) \/ MarkAgain(e) \/ Complete(e)
    \/ Report(e) \/ Close(e) \/ Shelve(e)

AgentStep ==
    \/ Boot \/ Recovered
    \/ \E e \in Episode : JobStep(e) \/ Recover(e) \/ Collect(e) \/ Take(e)

UploadNext ==
    \/ AgentStep \/ Exit \/ Kill
    \/ \E e \in Episode : Refuse(e) \/ Land(e) \/ PowerCut(e)

\* The process is scheduled, and somebody starts it when it is down.
UploadSpec == UploadInit /\ [][UploadNext]_uploadVars /\ WF_uploadVars(AgentStep)

------------------------------------------------------------------------------
Part == 1 .. PlanParts(FileSize)
Byte == 1 .. FileSize

\* The types of the Agent's state, of the files and of the Platform's status.
UploadTypeOK ==
    /\ agent \in {"down", "recovering", "ready"}
    /\ todo \subseteq Episode
    /\ job \in {NoJob} \cup [episode : Episode, flow : Flow, step : Step,
                            done : SUBSET Part, unmarked : SUBSET Part]
    /\ failedOnes \subseteq Episode
    /\ row \in [Episode -> EpisodeRecord(Part)]
    /\ file \in [Episode -> [at : Place, size : 0 .. FileSize]]
    /\ object \in [Episode -> {NoObject} \cup [size : 0 .. FileSize, data : SUBSET Byte,
                                               cached : SUBSET Byte]]
    /\ platform \in [Episode -> PlatformStatus]
    /\ damaged \subseteq Episode
    /\ orphaned \subseteq Episode
    /\ faults \in 0 .. MaxFaults

\* A part the local store records as uploaded is in the object store, whichever flow
\* wrote it and wherever it was killed, unless a power cut took it.
RecordedPartsAreStored == \A e \in Episode \ damaged : PartsStored(e)

\* A killed process has to send at most one part again (sqlite.py and chunked.py say so).
\* It holds for the Agent's own recordings; the parts of FileProcessor's uploads are
\* recorded behind the uploading thread.
KillCostsOnePart ==
    \A e \in Collected :
        Cardinality({p \in 1 .. TotalParts(e) \ row[e].parts :
                        PartBytes(file[e].size, p) \cap object[e].data # {}}) <= 1

\* The record of an upload is never ahead of the object, and at most one part behind it
\* (RecordedPartsAreStored, KillCostsOnePart).
RecordFollowsObject == RecordedPartsAreStored /\ KillCostsOnePart

\* A damaged object is never accepted: when the Platform takes the upload callback, the
\* object holds the whole file, or, since only an object that exists is checked, nothing.
NoDamagedObjectAccepted ==
    [][\A e \in Episode :
         platform[e] = "uploading" /\ platform'[e] = "processing" =>
             Whole(e) \/ object[e] = NoObject]_uploadVars

\* What the Agent holds to be reported is a whole recording the Platform has in
\* processing; or an Episode that never left recording, because its flow broke off
\* before start_upload, which recovery does not make good.
ReportedIsHandedOver ==
    \A e \in Episode :
        /\ row[e].callback => row[e].checksum
        /\ row[e].callback => platform[e] \in {"recording", "processing"}
        /\ file[e].at = ".done" => platform[e] = "processing"

\* What the local store says has been done has been (RecordFollowsObject,
\* ReportedIsHandedOver).
StoreTellsTruth == RecordFollowsObject /\ ReportedIsHandedOver

\* A recovery that reports no failure (exit code 0 of --recover) leaves nothing unfinished.
CleanRecoveryLeavesNothing ==
    agent = "recovering" /\ todo = {} /\ ~Working /\ failedOnes = {} => UnfinishedOnes = {}

\* A file in .uploading/ is being processed or has a record that recovery can find; only a
\* kill before that record is written strands it, for no scan looks there.
StagedFileHasRecord ==
    \A e \in Dropped : file[e].at = ".uploading" =>
        job.episode = e \/ Known(row[e]) \/ e \in orphaned

\* Recovery finds what there is to finish, and says so when it fails
\* (CleanRecoveryLeavesNothing, StagedFileHasRecord).
RecoveryOverlooksNothing == CleanRecoveryLeavesNothing /\ StagedFileHasRecord

\* Once the recording is finished and the Platform waits for the upload, restarting the
\* Agent again and again gets it there, unless a recorded part is lost or FileProcessor has
\* put the file away in .failed/, where recovery does not look.
Recoverable(e) == row[e].checksum /\ platform[e] = "uploading"

RestartsGetItThere ==
    []<>(agent = "down") =>
        \A e \in Episode :
            Recoverable(e) ~> \/ platform[e] = "processing"
                              \/ e \in damaged
                              \/ file[e].at = ".failed"
=============================================================================
