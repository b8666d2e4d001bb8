----------------------------- MODULE AgentProofs -----------------------------
(***************************************************************************)
(* What holds of the Agent for any number of Episodes and files, any sizes *)
(* of files and chunks, and any number of kills, power cuts and failed     *)
(* requests.  Of the uploader (AgentUpload): types, that the local store   *)
(* tells the truth of the object store and of the Platform, that recovery  *)
(* overlooks nothing, and that no damaged object is accepted.  Of the      *)
(* watcher (DirectoryWatch): types, and that a file is taken only whole.   *)
(***************************************************************************)
EXTENDS MCAgent, FiniteSetTheorems, SequenceTheorems, TLAPS

\* What \div is, for the prover.
LEMMA Division ==
  ASSUME NEW a \in Nat, NEW d \in Nat \ {0}
  PROVE  a \div d \in Nat /\ (a \div d) * d <= a /\ a < (a \div d) * d + d
OBVIOUS

LEMMA Product ==
  ASSUME NEW a \in Int, NEW b \in Int, NEW d \in Nat, a <= b
  PROVE  a * d <= b * d /\ a * d \in Int /\ (a + 1) * d = a * d + d
OBVIOUS

LEMMA PartsPlanned ==
  ASSUME NEW n \in Nat
  PROVE  /\ PlanParts(n) \in Nat \ {0}
         /\ n <= PlanParts(n) * ChunkSize
         /\ n > 0 => (PlanParts(n) - 1) * ChunkSize < n
<1>1. ChunkSize \in Nat \ {0}
  BY ChunkSizeAssumption
<1>2. CASE n = 0
  BY <1>1, <1>2 DEF PlanParts
<1>3. CASE n > 0
  <2>1. PICK q \in Nat : q = (n + ChunkSize - 1) \div ChunkSize
    BY <1>1, <1>3, Division
  <2>2. q * ChunkSize <= n + ChunkSize - 1 /\ n + ChunkSize - 1 < q * ChunkSize + ChunkSize
    BY <1>1, <1>3, <2>1, Division
  <2>3. PlanParts(n) = q
    BY <1>3, <2>1 DEF PlanParts
  <2>4. q # 0
    BY <1>1, <1>3, <2>2
  <2>5. (q - 1) * ChunkSize = q * ChunkSize - ChunkSize
    BY <1>1
  <2>6. q * ChunkSize \in Int
    BY <1>1
  <2>7. QED
    BY <1>1, <1>3, <2>2, <2>3, <2>4, <2>5, <2>6
<1>4. QED
  BY <1>2, <1>3

LEMMA MorePartsForMoreBytes ==
  ASSUME NEW m \in Nat, NEW n \in Nat, m <= n
  PROVE  PlanParts(m) <= PlanParts(n)
<1>1. ChunkSize \in Nat \ {0} /\ PlanParts(m) \in Nat \ {0} /\ PlanParts(n) \in Nat \ {0}
  BY ChunkSizeAssumption, PartsPlanned
<1>2. CASE m = 0
  BY <1>1, <1>2 DEF PlanParts
<1>3. CASE m > 0 /\ PlanParts(n) <= PlanParts(m) - 1
  <2>1. PlanParts(n) * ChunkSize <= (PlanParts(m) - 1) * ChunkSize
    BY <1>1, <1>3, Product
  <2>2. n <= PlanParts(n) * ChunkSize /\ (PlanParts(m) - 1) * ChunkSize < m
    BY <1>3, PartsPlanned
  <2>3. PlanParts(n) * ChunkSize \in Int /\ (PlanParts(m) - 1) * ChunkSize \in Int
    BY <1>1
  <2>4. QED
    BY <2>1, <2>2, <2>3
<1>4. QED
  BY <1>1, <1>2, <1>3

LEMMA PartIsInFile ==
  ASSUME NEW n \in Nat, NEW p \in Nat \ {0}
  PROVE  PartBytes(n, p) \subseteq 1 .. n
<1>1. ChunkSize \in Nat \ {0}
  BY ChunkSizeAssumption
<1>2. (p - 1) * ChunkSize \in Nat /\ p * ChunkSize \in Nat
  BY <1>1
<1>3. QED
  BY <1>2 DEF PartBytes, Min2

LEMMA PartsAreDisjoint ==
  ASSUME NEW n \in Nat, NEW p \in Nat \ {0}, NEW q \in Nat \ {0}, p # q
  PROVE  PartBytes(n, p) \cap PartBytes(n, q) = {}
<1>1. SUFFICES ASSUME NEW a \in Nat \ {0}, NEW b \in Nat \ {0}, a < b
               PROVE  PartBytes(n, a) \cap PartBytes(n, b) = {}
  <2>1. p < q \/ q < p
    OBVIOUS
  <2>2. QED
    BY <2>1, <1>1
<1>2. ChunkSize \in Nat \ {0}
  BY ChunkSizeAssumption
<1>3. a * ChunkSize <= (b - 1) * ChunkSize
  BY <1>2, <1>1, Product
<1>4. a * ChunkSize \in Nat /\ (b - 1) * ChunkSize \in Nat /\ (a - 1) * ChunkSize \in Nat
      /\ b * ChunkSize \in Nat
  BY <1>2
<1>5. QED
  BY <1>3, <1>4 DEF PartBytes, Min2

LEMMA PartHasBytes ==
  ASSUME NEW n \in Nat \ {0}, NEW p \in 1 .. PlanParts(n)
  PROVE  PartBytes(n, p) # {}
<1>1. ChunkSize \in Nat \ {0} /\ PlanParts(n) \in Nat \ {0}
  BY ChunkSizeAssumption, PartsPlanned
<1>2. (p - 1) * ChunkSize <= (PlanParts(n) - 1) * ChunkSize
  BY <1>1, Product
<1>3. (PlanParts(n) - 1) * ChunkSize < n
  BY PartsPlanned
<1>4. /\ (p - 1) * ChunkSize \in Nat /\ p * ChunkSize = (p - 1) * ChunkSize + ChunkSize
      /\ (PlanParts(n) - 1) * ChunkSize \in Nat
  BY <1>1
<1>5. (p - 1) * ChunkSize + 1 \in PartBytes(n, p)
  BY <1>1, <1>2, <1>3, <1>4 DEF PartBytes, Min2
<1>6. QED
  BY <1>5

LEMMA PartsCoverFile ==
  ASSUME NEW n \in Nat, NEW b \in 1 .. n
  PROVE  \E p \in 1 .. PlanParts(n) : b \in PartBytes(n, p)
<1>1. ChunkSize \in Nat \ {0} /\ PlanParts(n) \in Nat \ {0}
  BY ChunkSizeAssumption, PartsPlanned
<1>2. PICK q \in Nat : q = (b - 1) \div ChunkSize
  BY <1>1, Division
<1>3. q * ChunkSize <= b - 1 /\ b - 1 < q * ChunkSize + ChunkSize /\ q * ChunkSize \in Nat
  BY <1>1, <1>2, Division
<1>4. (q + 1) * ChunkSize = q * ChunkSize + ChunkSize
  BY <1>1
<1>5. b \in PartBytes(n, q + 1)
  BY <1>1, <1>3, <1>4 DEF PartBytes, Min2
<1>6. q + 1 <= PlanParts(n)
  <2>1. SUFFICES ASSUME PlanParts(n) <= q PROVE FALSE
    BY <1>1
  <2>2. PlanParts(n) * ChunkSize <= q * ChunkSize
    BY <1>1, <2>1, Product
  <2>3. n <= PlanParts(n) * ChunkSize /\ PlanParts(n) * ChunkSize \in Int
    BY <1>1, PartsPlanned
  <2>4. QED
    BY <1>3, <2>2, <2>3
<1>7. QED
  BY <1>1, <1>5, <1>6

------------------------------------------------------------------------------
\* The inductive invariant.

Object == {NoObject} \cup [size : 0 .. FileSize, data : SUBSET Byte, cached : SUBSET Byte]

Job == [episode : Episode, flow : Flow, step : Step, done : SUBSET Part, unmarked : SUBSET Part]

Fresh == {"collect", "file"}

StepsOf(flow) ==
    IF flow = "collect"
    THEN {"create", "record", "film", "finish", "begin", "open", "write", "start", "mark",
          "complete", "report", "close"}
    ELSE IF flow = "file"
    THEN {"create", "record", "finish", "start", "begin", "open", "write", "complete",
          "report", "close", "shelve"}
    ELSE IF flow = "resume"
    THEN {"open", "write", "start", "mark", "complete", "report", "close"}
    ELSE {"report", "close"}

\* The steps before upload() of a flow that is not a recovery, and those after it.
BeforeUpload(flow) ==
    {"create", "record", "film", "finish", "begin", "open"} \cup
    (IF flow = "file" THEN {"start"} ELSE {})

AfterUpload(flow) ==
    {"mark", "complete", "report", "close", "shelve"} \cup
    (IF flow = "file" THEN {} ELSE {"start"})

\* An Episode: its record r, its file f, its object o, its status s on the Platform, and
\* whether a power cut has hurt it.
KeepsRecord(r, s) ==
    /\ r.callback => r.checksum /\ s \in {"recording", "processing"}

KeepsFile(e, f, s) ==
    /\ f.at = "nowhere" => f.size = 0
    /\ e \in Collected => /\ f.at \in {"nowhere", "recording"}
                          /\ s = "absent" => f.at = "nowhere"
    /\ e \in Dropped => /\ f.at # "recording"
                        /\ f.at # "nowhere" => f.size = FileSize
                        /\ f.at \in {"nowhere", "inbox"} => s = "absent"
    /\ f.at = ".done" => s = "processing"

Holds(parts, n, data) == \A p \in parts : PartBytes(n, p) \subseteq data

KeepsObject(r, f, o, hurt) ==
    /\ o.data \subseteq 1 .. f.size /\ o.cached \subseteq o.data
    /\ r.parts \subseteq 1 .. PlanParts(f.size)
    /\ hurt \/ (Holds(r.parts, f.size, o.data) /\ (r.parts = {} \/ o.size = f.size))

\* Before a part that the object holds bytes of, and the record does not, all is recorded.
InOrder(parts, n, data) ==
    \A p \in (1 .. PlanParts(n)) \ parts : PartBytes(n, p) \cap data # {} => 1 .. p - 1 \subseteq parts

EpisodeFits(e, r, f, o, s, hurt) ==
    /\ r \in EpisodeRecord(Part) /\ o \in Object /\ s \in PlatformStatus /\ hurt \in BOOLEAN
    /\ f \in [at : Place, size : 0 .. FileSize]
    /\ s = "absent" => r = NoRecord /\ o = NoObject /\ ~hurt
    /\ KeepsRecord(r, s) /\ KeepsFile(e, f, s) /\ KeepsObject(r, f, o, hurt)
    /\ e \in Collected => InOrder(r.parts, f.size, o.data)

\* A flow that is not a recovery, by its step.
StatusAt(flow, step) ==
    IF step = "create" THEN "absent"
    ELSE IF step \in {"record", "film", "finish", "begin"} \/ (flow = "file" /\ step = "start")
    THEN "recording"
    ELSE IF step \in {"close", "shelve"} THEN "processing" ELSE "uploading"

FreshFits(j, r, f, o, s, hurt) ==
    /\ ~hurt /\ s = StatusAt(j.flow, j.step)
    /\ j.step \in {"create", "record"} => r = NoRecord
    /\ j.step \in BeforeUpload(j.flow) => r.parts = {} /\ o = NoObject
    /\ j.step \in AfterUpload(j.flow) => 1 .. PlanParts(f.size) \subseteq j.done
    /\ j.step \notin {"create", "record", "film", "finish"} => r.checksum
    /\ j.step # "shelve" => ~r.callback
    /\ j.flow = "file" => j.episode \in Dropped /\ f.at = ".uploading"
    /\ j.flow = "collect" =>
          /\ j.episode \in Collected
          /\ j.step \in {"create", "record"} => f.at = "nowhere"
          /\ j.step = "film" => f.size < FileSize
          /\ j.step \notin {"create", "record", "film"} => f.size = FileSize

\* A recovery, by its step.
RecoveryFits(j, r, s) ==
    /\ Known(r)
    /\ j.step \in {"report", "close"} => r.status = "completed"
    /\ j.step = "close" => r.checksum /\ s \in {"recording", "processing"}

\* The flow in hand: what it has done is in the object.
JobFits(j, a, r, f, o, s, hurt) ==
    /\ j \in Job /\ j.step \in StepsOf(j.flow)
    /\ j.done \subseteq 1 .. PlanParts(f.size) /\ j.unmarked \subseteq j.done
    /\ j.step = "write" \/ j.unmarked = {}
    /\ j.step = "write" => j.done \subseteq r.parts \cup j.unmarked
    /\ j.step = "write" \/ j.done # {} => o.size = f.size
    /\ hurt \/ Holds(j.done, f.size, o.data)
    /\ IF j.flow \in Fresh THEN a = "ready" /\ FreshFits(j, r, f, o, s, hurt)
                           ELSE a = "recovering" /\ RecoveryFits(j, r, s)

AllFit == \A e \in Episode : EpisodeFits(e, row[e], file[e], object[e], platform[e], e \in damaged)

InHand(e) == Working /\ job.episode = e

HandFits ==
    \A e \in Episode : InHand(e) =>
        JobFits(job, agent, row[e], file[e], object[e], platform[e], e \in damaged)

\* What is left to recover(): what it will look at, and what it has in hand or has given up.
Listed ==
    /\ todo # {} => agent = "recovering"
    /\ \A e \in todo : Unfinished(row[e]) /\ ~InHand(e)
    /\ agent = "recovering" =>
           \A e \in Episode : Unfinished(row[e]) => e \in todo \cup failedOnes \/ InHand(e)

Staged ==
    \A e \in Dropped : file[e].at = ".uploading" => InHand(e) \/ Known(row[e]) \/ e \in orphaned

UploadInv == UploadTypeOK /\ AllFit /\ HandFits /\ Listed /\ Staged

------------------------------------------------------------------------------
\* What follows a step, by its flow.
LEMMA AfterSteps ==
  /\ \A w \in {"collect", "file"} :
        /\ After[w]["create"] = "record" /\ After[w]["begin"] = "open"
        /\ After[w]["open"] = "write" /\ After[w]["complete"] = "report"
        /\ After[w]["report"] = "close"
  /\ \A w \in {"collect", "resume"} :
        /\ After[w]["write"] = "start" /\ After[w]["start"] = "mark"
        /\ After[w]["mark"] = "complete" /\ After[w]["close"] = "end"
  /\ After["collect"]["record"] = "film" /\ After["collect"]["film"] = "finish"
  /\ After["collect"]["finish"] = "begin"
  /\ After["file"]["record"] = "finish" /\ After["file"]["finish"] = "start"
  /\ After["file"]["start"] = "begin" /\ After["file"]["write"] = "complete"
  /\ After["file"]["close"] = "shelve" /\ After["file"]["shelve"] = "end"
  /\ After["resume"]["open"] = "write" /\ After["resume"]["complete"] = "report"
  /\ After["resume"]["report"] = "close"
  /\ After["resend"]["report"] = "close" /\ After["resend"]["close"] = "end"
BY DEF After

LEMMA GoesTo ==
  ASSUME NEW x, x # "end", After[job.flow][job.step] = x
  PROVE  Finished = [job EXCEPT !.step = x]
BY DEF Finished

LEMMA NextJob ==
  ASSUME NEW j \in Job, NEW x \in Step
  PROVE  LET k == [j EXCEPT !.step = x]
         IN  /\ k \in Job /\ k # NoJob /\ k.episode = j.episode /\ k.flow = j.flow /\ k.step = x
             /\ k.done = j.done /\ k.unmarked = j.unmarked
<1>1. NoJob.step = "end"
  BY DEF NoJob
<1>2. QED
  BY <1>1 DEF Job, Step

\* The constants of the local store's records.
LEMMA Records ==
  /\ NoRecord.status = "none" /\ NoRecord.parts = {} /\ ~NoRecord.callback
  /\ NoRecord \in EpisodeRecord(Part) /\ RecordEpisode \in EpisodeRecord(Part)
  /\ RecordEpisode.status = "pending" /\ RecordEpisode.parts = {} /\ ~RecordEpisode.callback
  /\ NoObject.size = -1 /\ NoObject.data = {} /\ NoObject.cached = {} /\ NoObject \in Object
BY DEF NoRecord, RecordEpisode, EpisodeRecord, UploadStatus, NoObject, Object

LEMMA Statements ==
  ASSUME NEW r \in EpisodeRecord(Part)
  PROVE  /\ FinishRecording(r) \in EpisodeRecord(Part) /\ FinishRecording(r).checksum
         /\ FinishRecording(r).parts = r.parts /\ FinishRecording(r).callback = r.callback
         /\ FinishRecording(r).status = r.status
         /\ CompleteUpload(r) \in EpisodeRecord(Part) /\ CompleteUpload(r).status = "completed"
         /\ CompleteUpload(r).parts = r.parts /\ CompleteUpload(r).callback = r.callback
         /\ CompleteUpload(r).checksum = r.checksum
         /\ FailUpload(r) \in EpisodeRecord(Part) /\ FailUpload(r).status = "failed"
         /\ FailUpload(r).parts = r.parts /\ FailUpload(r).callback = r.callback
         /\ FailUpload(r).checksum = r.checksum
         /\ MarkCallbackDone(r) \in EpisodeRecord(Part) /\ MarkCallbackDone(r).callback
         /\ MarkCallbackDone(r).parts = r.parts /\ MarkCallbackDone(r).checksum = r.checksum
         /\ MarkCallbackDone(r).status = r.status
BY DEF FinishRecording, CompleteUpload, FailUpload, MarkCallbackDone, EpisodeRecord, UploadStatus

LEMMA StartStatement ==
  ASSUME NEW r \in EpisodeRecord(Part), NEW n \in 0 .. FileSize
  PROVE  LET t == StartUpload(r, PlanParts(n))
         IN  /\ t \in EpisodeRecord(Part) /\ t.status = "in_progress"
             /\ t.parts = r.parts /\ t.callback = r.callback /\ t.checksum = r.checksum
<1>1. PlanParts(n) \in Part
  BY FileSizeAssumption, PartsPlanned, MorePartsForMoreBytes DEF Part
<1>2. QED
  BY <1>1 DEF StartUpload, EpisodeRecord, UploadStatus

LEMMA MarkStatement ==
  ASSUME NEW r \in EpisodeRecord(Part), NEW D \in SUBSET Part
  PROVE  LET t == [r EXCEPT !.parts = @ \cup D]
         IN  /\ t \in EpisodeRecord(Part) /\ t.parts = r.parts \cup D /\ t.status = r.status
             /\ t.callback = r.callback /\ t.checksum = r.checksum
BY DEF EpisodeRecord, UploadStatus

------------------------------------------------------------------------------
\* A step of the flow in hand touches its own Episode.

Alone(e) ==
    /\ row' \in [Episode -> EpisodeRecord(Part)]
    /\ file' \in [Episode -> [at : Place, size : 0 .. FileSize]]
    /\ object' \in [Episode -> Object]
    /\ platform' \in [Episode -> PlatformStatus]
    /\ \A f \in Episode \ {e} : /\ row'[f] = row[f] /\ file'[f] = file[f]
                                /\ object'[f] = object[f] /\ platform'[f] = platform[f]
    /\ damaged' = damaged /\ orphaned' = orphaned /\ faults' \in 0 .. MaxFaults

GoesOn(e) ==
    /\ UNCHANGED <<agent, todo, failedOnes>>
    /\ job' # NoJob /\ job'.episode = e
    /\ JobFits(job', agent, row'[e], file'[e], object'[e], platform'[e], e \in damaged)

Ends(e) ==
    /\ job' = NoJob
    /\ e \in Dropped /\ file'[e].at = ".uploading" => Known(row'[e])
    /\ \/ /\ UNCHANGED <<agent, todo>>
          /\ failedOnes' = failedOnes \/ failedOnes' = failedOnes \cup {e}
          /\ agent = "recovering" => ~Unfinished(row'[e]) \/ e \in failedOnes'
       \/ agent' = "down" /\ todo' = {} /\ failedOnes' = {}

LEMMA FlowKeeps ==
  ASSUME UploadInv, NEW e \in Episode, InHand(e), Alone(e),
         EpisodeFits(e, row'[e], file'[e], object'[e], platform'[e], e \in damaged),
         GoesOn(e) \/ Ends(e)
  PROVE  UploadInv'
<1>1. \A f \in Episode \ {e} : ~InHand(f)
  BY DEF InHand
<1>2. UploadTypeOK'
  <2>1. job' \in {NoJob} \cup Job
    BY DEF GoesOn, Ends, JobFits
  <2>2. agent' \in {"down", "recovering", "ready"} /\ todo' \subseteq Episode /\ failedOnes' \subseteq Episode
    BY DEF GoesOn, Ends, UploadInv, UploadTypeOK
  <2>3. damaged \subseteq Episode /\ orphaned \subseteq Episode
    BY DEF UploadInv, UploadTypeOK
  <2>4. QED
    BY <2>1, <2>2, <2>3 DEF Alone, UploadTypeOK, Job, Object
<1>3. AllFit'
  <2>1. SUFFICES ASSUME NEW f \in Episode
                 PROVE  EpisodeFits(f, row'[f], file'[f], object'[f], platform'[f], f \in damaged')
    BY DEF AllFit
  <2>2. CASE f = e
    BY <2>2 DEF Alone
  <2>3. CASE f # e
    <3>1. EpisodeFits(f, row[f], file[f], object[f], platform[f], f \in damaged)
      BY DEF UploadInv, AllFit
    <3>2. /\ row'[f] = row[f] /\ file'[f] = file[f] /\ object'[f] = object[f]
          /\ platform'[f] = platform[f] /\ damaged' = damaged
      BY <2>3 DEF Alone
    <3>3. QED
      BY <3>1, <3>2
  <2>4. QED
    BY <2>2, <2>3
<1>4. HandFits'
  <2>1. CASE GoesOn(e)
    <3>1. SUFFICES ASSUME NEW f \in Episode, InHand(f)'
                   PROVE  JobFits(job', agent', row'[f], file'[f], object'[f], platform'[f],
                                  f \in damaged')
      BY DEF HandFits
    <3>2. f = e /\ agent' = agent /\ damaged' = damaged
      BY <2>1, <3>1 DEF GoesOn, InHand, Alone
    <3>3. QED
      BY <2>1, <3>2 DEF GoesOn
  <2>2. CASE Ends(e)
    BY <2>2 DEF Ends, HandFits, InHand, Working
  <2>3. QED
    BY <2>1, <2>2
<1>5. \A f \in Episode \ {e} : (Unfinished(row[f])' <=> Unfinished(row[f])) /\ ~InHand(f)'
  <2>1. \A f \in Episode \ {e} : row'[f] = row[f]
    BY DEF Alone
  <2>2. \A f \in Episode \ {e} : ~InHand(f)'
    BY DEF GoesOn, Ends, InHand, Working
  <2>3. QED
    BY <2>1, <2>2
<1>6. Listed'
  <2>1. e \notin todo /\ todo \subseteq Episode
    BY DEF UploadInv, Listed, UploadTypeOK
  <2>2. CASE GoesOn(e)
    <3>1. InHand(e)'
      BY <2>2 DEF GoesOn, InHand, Working
    <3>2. todo' = todo /\ agent' = agent /\ failedOnes' = failedOnes
      BY <2>2 DEF GoesOn
    <3>3. QED
      BY <1>1, <1>5, <2>1, <3>1, <3>2 DEF UploadInv, Listed
  <2>3. CASE Ends(e)
    <3>1. ~InHand(e)'
      BY <2>3 DEF Ends, InHand, Working
    <3>2. CASE UNCHANGED <<agent, todo>>
      <4>1. failedOnes \subseteq failedOnes' /\ (agent = "recovering" => ~Unfinished(row'[e]) \/ e \in failedOnes')
        <5>1. agent = "recovering" \/ agent = "ready"
          BY DEF UploadInv, HandFits, JobFits
        <5>2. QED
          BY <2>3, <3>2, <5>1 DEF Ends
      <4>2. QED
        BY <1>1, <1>5, <2>1, <3>1, <3>2, <4>1 DEF UploadInv, Listed
    <3>3. CASE agent' = "down" /\ todo' = {}
      BY <3>3 DEF Listed
    <3>4. QED
      BY <2>3, <3>2, <3>3 DEF Ends
  <2>4. QED
    BY <2>2, <2>3
<1>7. Staged'
  <2>1. SUFFICES ASSUME NEW f \in Dropped, file'[f].at = ".uploading"
                 PROVE  InHand(f)' \/ Known(row[f])' \/ f \in orphaned'
    BY DEF Staged
  <2>2. CASE f = e
    BY <2>1, <2>2 DEF GoesOn, Ends, InHand, Working
  <2>3. CASE f # e
    <3>1. f \in Episode /\ row'[f] = row[f] /\ file'[f] = file[f] /\ orphaned' = orphaned
      BY <2>3 DEF Alone, Episode
    <3>2. InHand(f) \/ Known(row[f]) \/ f \in orphaned
      BY <2>1, <3>1 DEF UploadInv, Staged
    <3>3. QED
      BY <1>1, <2>3, <3>1, <3>2
  <2>4. QED
    BY <2>2, <2>3
<1>8. QED
  BY <1>2, <1>3, <1>4, <1>6, <1>7 DEF UploadInv

\* What the invariant says of the Episode in hand.
LEMMA Hand ==
  ASSUME UploadInv, NEW e \in Episode, InHand(e)
  PROVE  /\ Working /\ job.episode = e /\ job \in Job /\ job # NoJob
         /\ JobFits(job, agent, row[e], file[e], object[e], platform[e], e \in damaged)
         /\ EpisodeFits(e, row[e], file[e], object[e], platform[e], e \in damaged)
         /\ row[e] \in EpisodeRecord(Part) /\ object[e] \in Object /\ platform[e] \in PlatformStatus
         /\ file[e] \in [at : Place, size : 0 .. FileSize] /\ (e \in damaged) \in BOOLEAN
         /\ row \in [Episode -> EpisodeRecord(Part)]
         /\ file \in [Episode -> [at : Place, size : 0 .. FileSize]]
         /\ object \in [Episode -> Object] /\ platform \in [Episode -> PlatformStatus]
         /\ faults \in 0 .. MaxFaults /\ job.flow \in Flow
<1>1. /\ JobFits(job, agent, row[e], file[e], object[e], platform[e], e \in damaged)
      /\ EpisodeFits(e, row[e], file[e], object[e], platform[e], e \in damaged)
  BY DEF UploadInv, HandFits, AllFit
<1>2. job \in Job /\ job.flow \in Flow
  BY <1>1 DEF JobFits, Job
<1>3. /\ row \in [Episode -> EpisodeRecord(Part)]
      /\ file \in [Episode -> [at : Place, size : 0 .. FileSize]]
      /\ object \in [Episode -> Object] /\ platform \in [Episode -> PlatformStatus]
      /\ faults \in 0 .. MaxFaults
  BY DEF UploadInv, UploadTypeOK, Object
<1>4. QED
  BY <1>1, <1>2, <1>3 DEF InHand, Working

\* An Episode that a statement leaves as it should be.
LEMMA RowFits ==
  ASSUME NEW e \in Episode, NEW r, NEW f, NEW o, NEW s, NEW hurt,
         EpisodeFits(e, r, f, o, s, hurt),
         NEW t \in EpisodeRecord(Part), s # "absent", KeepsRecord(t, s), r.parts \subseteq t.parts,
         t.parts \subseteq 1 .. PlanParts(f.size),
         hurt \/ (Holds(t.parts, f.size, o.data) /\ (t.parts = {} \/ o.size = f.size))
  PROVE  EpisodeFits(e, t, f, o, s, hurt)
<1>1. KeepsObject(t, f, o, hurt)
  BY DEF EpisodeFits, KeepsObject
<1>2. e \in Collected => InOrder(t.parts, f.size, o.data)
  BY DEF EpisodeFits, InOrder
<1>3. QED
  BY <1>1, <1>2 DEF EpisodeFits

LEMMA SamePartsFit ==
  ASSUME NEW e \in Episode, NEW r, NEW f, NEW o, NEW s, NEW hurt,
         EpisodeFits(e, r, f, o, s, hurt),
         NEW t \in EpisodeRecord(Part), s # "absent", KeepsRecord(t, s), t.parts = r.parts
  PROVE  EpisodeFits(e, t, f, o, s, hurt)
BY DEF EpisodeFits, KeepsObject

LEMMA StatusFits ==
  ASSUME NEW e \in Episode, NEW r, NEW f, NEW o, NEW s, NEW hurt,
         EpisodeFits(e, r, f, o, s, hurt),
         NEW s2 \in PlatformStatus \ {"absent"}, KeepsRecord(r, s2),
         f.at = ".done" => s2 = "processing", e \in Dropped => f.at \notin {"nowhere", "inbox"}
  PROVE  EpisodeFits(e, r, f, o, s2, hurt)
BY DEF EpisodeFits, KeepsFile

LEMMA PlaceFits ==
  ASSUME NEW e \in Dropped, NEW r, NEW f, NEW o, NEW s, NEW hurt,
         EpisodeFits(e, r, f, o, s, hurt), f.at # "nowhere",
         NEW x \in {".uploading", ".done", ".failed", ".rejected"}, x = ".done" => s = "processing"
  PROVE  EpisodeFits(e, r, [f EXCEPT !.at = x], o, s, hurt)
<1>1. e \notin Collected
  BY EpisodeAssumption DEF Episode
<1>2. f \in [at : Place, size : 0 .. FileSize]
  BY DEF EpisodeFits
<1>3. PICK g : g = [f EXCEPT !.at = x]
  OBVIOUS
<1>8. g \in [at : Place, size : 0 .. FileSize] /\ g.at = x /\ g.size = f.size
  BY <1>2, <1>3 DEF Place
<1>4. KeepsFile(e, g, s)
  BY <1>1, <1>8 DEF EpisodeFits, KeepsFile
<1>5. KeepsObject(r, g, o, hurt)
  BY <1>8 DEF EpisodeFits, KeepsObject
<1>6. EpisodeFits(e, r, g, o, s, hurt)
  BY <1>1, <1>8, <1>4, <1>5 DEF EpisodeFits
<1>7. QED
  BY <1>3, <1>6

\* Whatever raises leaves all in order.
LEMMA RaiseKeeps ==
  ASSUME UploadInv, NEW e \in Episode, InHand(e), NEW kind, Raise(kind),
         NEW s \in PlatformStatus, platform' = [platform EXCEPT ![e] = s],
         EpisodeFits(e, row[e], file[e], object[e], s, e \in damaged),
         UNCHANGED <<object, damaged, orphaned>>, faults' \in 0 .. MaxFaults
  PROVE  UploadInv'
<1>1. /\ Working /\ job.episode = e /\ job \in Job /\ row[e] \in EpisodeRecord(Part)
      /\ JobFits(job, agent, row[e], file[e], object[e], platform[e], e \in damaged)
      /\ EpisodeFits(e, row[e], file[e], object[e], platform[e], e \in damaged)
      /\ row \in [Episode -> EpisodeRecord(Part)]
      /\ file \in [Episode -> [at : Place, size : 0 .. FileSize]]
      /\ object \in [Episode -> Object] /\ platform \in [Episode -> PlatformStatus]
  BY Hand
<1>2. /\ object' = object /\ damaged' = damaged /\ orphaned' = orphaned /\ platform'[e] = s
      /\ platform' \in [Episode -> PlatformStatus]
      /\ \A f \in Episode \ {e} : platform'[f] = platform[f]
  BY <1>1
<1>3. CASE job.flow \in {"resume", "resend"} /\ kind # "transport"
  <2>1. PICK t \in EpisodeRecord(Part) :
             /\ t = FailUpload(row[e]) /\ t.parts = row[e].parts /\ t.callback = row[e].callback
             /\ t.checksum = row[e].checksum /\ t.status = "failed"
    BY <1>1, Statements
  <2>2. /\ row' = [row EXCEPT ![e] = t] /\ failedOnes' = failedOnes \cup {e} /\ job' = NoJob
        /\ agent' = agent /\ todo' = todo /\ file' = file
    BY <1>1, <1>3, <2>1 DEF Raise, SetRow
  <2>3. row'[e] = t /\ row' \in [Episode -> EpisodeRecord(Part)]
        /\ \A f \in Episode \ {e} : row'[f] = row[f]
    BY <1>1, <2>2
  <2>4. s # "absent"
    <3>1. Known(row[e])
      BY <1>1, <1>3 DEF JobFits, Fresh, RecoveryFits
    <3>2. row[e] # NoRecord
      BY <3>1, Records DEF Known
    <3>3. QED
      BY <3>2 DEF EpisodeFits
  <2>5. KeepsRecord(t, s)
    BY <2>1 DEF EpisodeFits, KeepsRecord
  <2>6. EpisodeFits(e, t, file[e], object[e], s, e \in damaged)
    BY <2>1, <2>4, <2>5, SamePartsFit
  <2>7. Alone(e)
    BY <1>1, <1>2, <2>2, <2>3 DEF Alone
  <2>8. Ends(e)
    BY <2>1, <2>2, <2>3 DEF Ends, Known
  <2>9. QED
    BY <1>2, <2>2, <2>3, <2>6, <2>7, <2>8, FlowKeeps
<1>4. CASE job.flow = "file"
  <2>1. e \in Dropped /\ file[e].at = ".uploading"
    BY <1>1, <1>4 DEF JobFits, Fresh, FreshFits
  <2>2. PICK g : g = [file[e] EXCEPT !.at = ".failed"]
    OBVIOUS
  <2>3. EpisodeFits(e, row[e], g, object[e], s, e \in damaged)
    BY <2>1, <2>2, PlaceFits
  <2>4. g \in [at : Place, size : 0 .. FileSize] /\ g.at = ".failed"
    BY <1>1, <2>2, <2>3 DEF EpisodeFits
  <2>5. /\ row' = row /\ file' = [file EXCEPT ![e] = g] /\ job' = NoJob
        /\ agent' = agent /\ todo' = todo /\ failedOnes' = failedOnes
    BY <1>1, <1>4, <2>2 DEF Raise, MarkFailed, MoveFile
  <2>6. file'[e] = g /\ file' \in [Episode -> [at : Place, size : 0 .. FileSize]]
        /\ \A f \in Episode \ {e} : file'[f] = file[f]
    BY <1>1, <2>4, <2>5
  <2>7. Alone(e)
    BY <1>1, <1>2, <2>5, <2>6 DEF Alone
  <2>8. agent # "recovering"
    BY <1>1, <1>4 DEF JobFits, Fresh
  <2>9. Ends(e)
    BY <2>4, <2>5, <2>6, <2>8 DEF Ends
  <2>10. QED
    BY <1>2, <2>3, <2>5, <2>6, <2>7, <2>9, FlowKeeps
<1>5. CASE job.flow # "file" /\ ~(job.flow \in {"resume", "resend"} /\ kind # "transport")
  <2>1. /\ row' = row /\ file' = file /\ job' = NoJob
        /\ agent' = "down" /\ todo' = {} /\ failedOnes' = {}
    BY <1>5 DEF Raise
  <2>2. Alone(e)
    BY <1>1, <1>2, <2>1 DEF Alone
  <2>3. e \in Dropped => Known(row[e])
    <3>1. CASE job.flow \in Fresh
      <4>1. job.episode \in Collected
        BY <1>1, <1>5, <3>1 DEF JobFits, Fresh, FreshFits
      <4>2. QED
        BY <1>1, <4>1, EpisodeAssumption
    <3>2. CASE job.flow \notin Fresh
      BY <1>1, <3>2 DEF JobFits, RecoveryFits
    <3>3. QED
      BY <3>1, <3>2
  <2>4. Ends(e)
    BY <2>1, <2>3 DEF Ends
  <2>5. QED
    BY <1>2, <2>1, <2>2, <2>4, FlowKeeps
<1>6. QED
  BY <1>3, <1>4, <1>5

\* A request that is handled, refused or broken off.
LEMMA RequestKeeps ==
  ASSUME UploadInv, NEW e \in Episode, InHand(e), NEW s \in PlatformStatus,
         Request([platform EXCEPT ![e] = s]), UNCHANGED <<object, damaged, orphaned>>,
         EpisodeFits(e, row[e], file[e], object[e], s, e \in damaged),
         NEW x \in Step, After[job.flow][job.step] = x,
         JobFits([job EXCEPT !.step = x], agent, row[e], file[e], object[e], s, e \in damaged)
  PROVE  UploadInv'
<1>1. /\ Working /\ job.episode = e /\ job \in Job
      /\ EpisodeFits(e, row[e], file[e], object[e], platform[e], e \in damaged)
      /\ row \in [Episode -> EpisodeRecord(Part)]
      /\ file \in [Episode -> [at : Place, size : 0 .. FileSize]]
      /\ object \in [Episode -> Object] /\ platform \in [Episode -> PlatformStatus]
      /\ faults \in 0 .. MaxFaults
  BY Hand
<1>2. object' = object /\ damaged' = damaged /\ orphaned' = orphaned
  OBVIOUS
<1>3. CASE /\ platform' = [platform EXCEPT ![e] = s]
           /\ Proceed
           /\ UNCHANGED <<row, file, faults>>
  <2>1. x # "end"
    BY DEF Step
  <2>2. job' = [job EXCEPT !.step = x] /\ UNCHANGED <<agent, todo, failedOnes>>
    BY <1>3, <2>1, GoesTo DEF Proceed
  <2>3. job' # NoJob /\ job'.episode = e
    BY <1>1, <2>2, NextJob
  <2>4. platform'[e] = s /\ platform' \in [Episode -> PlatformStatus]
        /\ \A f \in Episode \ {e} : platform'[f] = platform[f]
    BY <1>1, <1>3
  <2>5. row' = row /\ file' = file /\ faults' = faults
    BY <1>3
  <2>6. Alone(e)
    BY <1>1, <1>2, <2>4, <2>5 DEF Alone
  <2>7. JobFits(job', agent, row'[e], file'[e], object'[e], platform'[e], e \in damaged)
    BY <1>2, <2>2, <2>4, <2>5
  <2>8. GoesOn(e)
    BY <2>2, <2>3, <2>7 DEF GoesOn
  <2>9. QED
    BY <1>2, <2>4, <2>5, <2>6, <2>8, FlowKeeps
<1>4. CASE Fault /\ UNCHANGED platform /\ Raise("refused")
  <2>1. faults' \in 0 .. MaxFaults
    BY <1>1, <1>4, UploadBounds DEF Fault
  <2>2. PICK t \in PlatformStatus : t = platform[e]
    BY <1>1
  <2>3. platform' = [platform EXCEPT ![e] = t]
    BY <1>1, <1>4, <2>2
  <2>4. EpisodeFits(e, row[e], file[e], object[e], t, e \in damaged)
    BY <1>1, <2>2
  <2>5. QED
    BY <1>2, <1>4, <2>1, <2>3, <2>4, RaiseKeeps
<1>5. CASE Fault /\ platform' \in {platform, [platform EXCEPT ![e] = s]} /\ Raise("transport")
  <2>1. faults' \in 0 .. MaxFaults
    BY <1>1, <1>5, UploadBounds DEF Fault
  <2>2. PICK t \in {platform[e], s} : platform' = [platform EXCEPT ![e] = t]
    <3>1. platform = [platform EXCEPT ![e] = platform[e]]
      BY <1>1
    <3>2. QED
      BY <1>5, <3>1
  <2>3. EpisodeFits(e, row[e], file[e], object[e], t, e \in damaged) /\ t \in PlatformStatus
    BY <1>1, <2>2
  <2>4. QED
    BY <1>2, <1>5, <2>1, <2>2, <2>3, RaiseKeeps
<1>6. QED
  BY <1>3, <1>4, <1>5 DEF Request

\* A statement of the local store.
LEMMA StoreKeeps ==
  ASSUME UploadInv, NEW e \in Episode, InHand(e), NEW t \in EpisodeRecord(Part), Store(t),
         EpisodeFits(e, t, file[e], object[e], platform[e], e \in damaged),
         NEW x \in Step, After[job.flow][job.step] = x,
         JobFits([job EXCEPT !.step = x], agent, t, file[e], object[e], platform[e], e \in damaged)
  PROVE  UploadInv'
<1>1. /\ Working /\ job.episode = e /\ job \in Job
      /\ row \in [Episode -> EpisodeRecord(Part)]
      /\ file \in [Episode -> [at : Place, size : 0 .. FileSize]]
      /\ object \in [Episode -> Object] /\ platform \in [Episode -> PlatformStatus]
      /\ faults \in 0 .. MaxFaults
  BY Hand
<1>2. /\ row' = [row EXCEPT ![e] = t] /\ Proceed
      /\ file' = file /\ object' = object /\ platform' = platform /\ damaged' = damaged
      /\ orphaned' = orphaned /\ faults' = faults
  BY <1>1 DEF Store, SetRow
<1>3. x # "end"
  BY DEF Step
<1>4. job' = [job EXCEPT !.step = x] /\ UNCHANGED <<agent, todo, failedOnes>>
  BY <1>2, <1>3, GoesTo DEF Proceed
<1>5. job' # NoJob /\ job'.episode = e
  BY <1>1, <1>4, NextJob
<1>6. /\ row'[e] = t /\ row' \in [Episode -> EpisodeRecord(Part)]
      /\ \A f \in Episode \ {e} : row'[f] = row[f]
  BY <1>1, <1>2
<1>7. Alone(e)
  BY <1>1, <1>2, <1>6 DEF Alone
<1>8. JobFits(job', agent, row'[e], file'[e], object'[e], platform'[e], e \in damaged)
  BY <1>2, <1>4, <1>6
<1>9. GoesOn(e)
  BY <1>4, <1>5, <1>8 DEF GoesOn
<1>10. QED
  BY <1>2, <1>6, <1>7, <1>9, FlowKeeps

------------------------------------------------------------------------------
\* The steps before upload().

LEMMA FreshFlow ==
  ASSUME UploadInv, NEW e \in Episode, InHand(e),
         job.step \in {"create", "record", "film", "finish", "begin", "shelve"}
                     \/ (job.step = "start" /\ job.flow = "file")
  PROVE  /\ job.flow \in Fresh /\ agent = "ready" /\ job.done \subseteq Part
         /\ FreshFits(job, row[e], file[e], object[e], platform[e], e \in damaged)
<1>1. job.flow \in Flow /\ job \in Job /\ JobFits(job, agent, row[e], file[e], object[e], platform[e], e \in damaged)
  BY Hand
<1>2. job.flow \in Fresh
  BY <1>1 DEF JobFits, StepsOf, Fresh, Flow
<1>3. QED
  BY <1>1, <1>2 DEF JobFits, Job

LEMMA NothingDone ==
  ASSUME UploadInv, NEW e \in Episode, InHand(e), job.flow \in Fresh,
         job.step \in BeforeUpload(job.flow)
  PROVE  job.done = {} /\ object[e] = NoObject /\ row[e].parts = {}
<1>1. /\ JobFits(job, agent, row[e], file[e], object[e], platform[e], e \in damaged)
      /\ file[e] \in [at : Place, size : 0 .. FileSize]
  BY Hand
<1>2. object[e] = NoObject /\ row[e].parts = {}
  BY <1>1 DEF JobFits, FreshFits
<1>3. job.step # "write"
  BY DEF BeforeUpload
<1>4. object[e].size # file[e].size
  BY <1>1, <1>2, Records
<1>5. QED
  BY <1>1, <1>2, <1>3, <1>4 DEF JobFits

LEMMA CreateStep ==
  ASSUME UploadInv, NEW e \in Episode, Create(e)
  PROVE  UploadInv'
<1>1. InHand(e) /\ job.step = "create" /\ UNCHANGED <<object, damaged, orphaned>>
  BY DEF Create, At, InHand
<1>2. /\ job \in Job /\ job.episode = e
      /\ JobFits(job, agent, row[e], file[e], object[e], platform[e], e \in damaged)
      /\ EpisodeFits(e, row[e], file[e], object[e], platform[e], e \in damaged)
  BY <1>1, Hand
<1>3. /\ job.flow \in Fresh /\ agent = "ready"
      /\ FreshFits(job, row[e], file[e], object[e], platform[e], e \in damaged)
  BY <1>1, FreshFlow
<1>4. PICK s \in PlatformStatus : s = "recording"
  BY DEF PlatformStatus
<1>5. Request([platform EXCEPT ![e] = s])
  BY <1>4 DEF Create
<1>6. EpisodeFits(e, row[e], file[e], object[e], s, e \in damaged)
  <2>1. row[e] = NoRecord /\ platform[e] = "absent"
    BY <1>1, <1>3 DEF FreshFits, StatusAt
  <2>2. KeepsRecord(row[e], s)
    BY <2>1, Records DEF KeepsRecord
  <2>3. e \in Dropped => file[e].at \notin {"nowhere", "inbox"}
    BY <1>2, <1>3, EpisodeAssumption DEF FreshFits, Fresh
  <2>4. file[e].at # ".done"
    BY <1>2, <2>1 DEF EpisodeFits, KeepsFile
  <2>5. QED
    BY <1>2, <1>4, <2>2, <2>3, <2>4, StatusFits
<1>7. After[job.flow][job.step] = "record"
  BY <1>1, <1>3, AfterSteps DEF Fresh
<1>8. PICK k : k = [job EXCEPT !.step = "record"]
  OBVIOUS
<1>9. /\ k \in Job /\ k.episode = e /\ k.flow = job.flow /\ k.step = "record" /\ k.done = job.done
      /\ k.unmarked = job.unmarked
  BY <1>2, <1>8, NextJob DEF Step
<1>10. FreshFits(k, row[e], file[e], object[e], s, e \in damaged)
  BY <1>1, <1>2, <1>3, <1>4, <1>9 DEF FreshFits, StatusAt, BeforeUpload, AfterUpload
<1>11. JobFits(k, agent, row[e], file[e], object[e], s, e \in damaged)
  BY <1>1, <1>2, <1>3, <1>9, <1>10 DEF JobFits, StepsOf, Fresh
<1>12. QED
  BY <1>1, <1>4, <1>5, <1>6, <1>7, <1>8, <1>11, RequestKeeps DEF Step

LEMMA RecordStep ==
  ASSUME UploadInv, NEW e \in Episode, Record(e)
  PROVE  UploadInv'
<1>1. InHand(e) /\ job.step = "record" /\ Store(RecordEpisode)
  BY DEF Record, At, InHand
<1>2. /\ job \in Job /\ job.episode = e
      /\ JobFits(job, agent, row[e], file[e], object[e], platform[e], e \in damaged)
      /\ EpisodeFits(e, row[e], file[e], object[e], platform[e], e \in damaged)
  BY <1>1, Hand
<1>3. /\ job.flow \in Fresh /\ agent = "ready"
      /\ FreshFits(job, row[e], file[e], object[e], platform[e], e \in damaged)
  BY <1>1, FreshFlow
<1>4. PICK t \in EpisodeRecord(Part) :
           /\ t = RecordEpisode /\ t.parts = {} /\ ~t.callback /\ Known(t)
  BY Records DEF Known
<1>5. row[e].parts = {} /\ platform[e] = "recording" /\ job.done = {} /\ object[e] = NoObject
  BY <1>1, <1>3, NothingDone DEF FreshFits, StatusAt, BeforeUpload
<1>6. EpisodeFits(e, t, file[e], object[e], platform[e], e \in damaged)
  <2>1. KeepsRecord(t, platform[e])
    BY <1>4 DEF KeepsRecord
  <2>2. QED
    BY <1>2, <1>4, <1>5, <2>1, SamePartsFit
<1>7. PICK x \in {"film", "finish"} : /\ x = (IF job.flow = "collect" THEN "film" ELSE "finish")
                                      /\ After[job.flow][job.step] = x
  BY <1>1, <1>3, AfterSteps DEF Fresh
<1>70. x \in Step
  BY <1>7 DEF Step
<1>8. PICK k : k = [job EXCEPT !.step = x]
  OBVIOUS
<1>9. /\ k \in Job /\ k.episode = e /\ k.flow = job.flow /\ k.step = x /\ k.done = job.done
      /\ k.unmarked = job.unmarked
  BY <1>2, <1>70, <1>8, NextJob
<1>10. FreshFits(k, t, file[e], object[e], platform[e], e \in damaged)
  <2>1. CASE job.flow = "collect"
    <3>1. file[e].size = 0 /\ file[e].size < FileSize
      BY <1>1, <1>2, <1>3, <2>1, FileSizeAssumption DEF FreshFits, EpisodeFits, KeepsFile
    <3>2. QED
      BY <1>1, <1>2, <1>3, <1>4, <1>5, <1>7, <1>9, <2>1, <3>1 DEF FreshFits, StatusAt, BeforeUpload, AfterUpload
  <2>2. CASE job.flow = "file"
    BY <1>1, <1>2, <1>3, <1>4, <1>5, <1>7, <1>9, <2>2 DEF FreshFits, StatusAt, BeforeUpload, AfterUpload
  <2>3. QED
    BY <1>3, <2>1, <2>2 DEF Fresh
<1>11. JobFits(k, agent, t, file[e], object[e], platform[e], e \in damaged)
  BY <1>1, <1>2, <1>3, <1>5, <1>7, <1>9, <1>10 DEF JobFits, StepsOf, Fresh
<1>13. QED
  BY <1>1, <1>4, <1>6, <1>7, <1>8, <1>11, <1>70, StoreKeeps

LEMMA FinishStep ==
  ASSUME UploadInv, NEW e \in Episode, Finish(e)
  PROVE  UploadInv'
<1>1. InHand(e) /\ job.step = "finish" /\ Store(FinishRecording(row[e]))
  BY DEF Finish, At, InHand
<1>2. /\ job \in Job /\ job.episode = e /\ row[e] \in EpisodeRecord(Part)
      /\ JobFits(job, agent, row[e], file[e], object[e], platform[e], e \in damaged)
      /\ EpisodeFits(e, row[e], file[e], object[e], platform[e], e \in damaged)
  BY <1>1, Hand
<1>3. /\ job.flow \in Fresh /\ agent = "ready"
      /\ FreshFits(job, row[e], file[e], object[e], platform[e], e \in damaged)
  BY <1>1, FreshFlow
<1>4. PICK t \in EpisodeRecord(Part) :
           /\ t = FinishRecording(row[e]) /\ t.parts = row[e].parts /\ t.callback = row[e].callback
           /\ t.checksum
  BY <1>2, Statements
<1>5. row[e].parts = {} /\ platform[e] = "recording" /\ job.done = {} /\ object[e] = NoObject
      /\ ~row[e].callback
  BY <1>1, <1>3, NothingDone DEF FreshFits, StatusAt, BeforeUpload
<1>6. EpisodeFits(e, t, file[e], object[e], platform[e], e \in damaged)
  <2>1. KeepsRecord(t, platform[e])
    BY <1>4, <1>5 DEF KeepsRecord
  <2>2. QED
    BY <1>2, <1>4, <1>5, <2>1, SamePartsFit
<1>7. PICK x \in {"begin", "start"} : /\ x = (IF job.flow = "collect" THEN "begin" ELSE "start")
                                      /\ After[job.flow][job.step] = x
  BY <1>1, <1>3, AfterSteps DEF Fresh
<1>70. x \in Step
  BY <1>7 DEF Step
<1>8. PICK k : k = [job EXCEPT !.step = x]
  OBVIOUS
<1>9. /\ k \in Job /\ k.episode = e /\ k.flow = job.flow /\ k.step = x /\ k.done = job.done
      /\ k.unmarked = job.unmarked
  BY <1>2, <1>70, <1>8, NextJob
<1>10. FreshFits(k, t, file[e], object[e], platform[e], e \in damaged)
  BY <1>1, <1>2, <1>3, <1>4, <1>5, <1>7, <1>9 DEF FreshFits, StatusAt, BeforeUpload, AfterUpload, Fresh
<1>11. JobFits(k, agent, t, file[e], object[e], platform[e], e \in damaged)
  BY <1>1, <1>2, <1>3, <1>5, <1>7, <1>9, <1>10 DEF JobFits, StepsOf, Fresh
<1>13. QED
  BY <1>1, <1>4, <1>6, <1>7, <1>8, <1>11, <1>70, StoreKeeps

\* start_upload on the Platform.
LEMMA BeginStep ==
  ASSUME UploadInv, NEW e \in Episode, Begin(e)
  PROVE  UploadInv'
<1>1. InHand(e) /\ job.step = "begin" /\ UNCHANGED <<object, damaged, orphaned>>
  BY DEF Begin, At, InHand
<1>2. /\ job \in Job /\ job.episode = e /\ platform \in [Episode -> PlatformStatus]
      /\ JobFits(job, agent, row[e], file[e], object[e], platform[e], e \in damaged)
      /\ EpisodeFits(e, row[e], file[e], object[e], platform[e], e \in damaged)
  BY <1>1, Hand
<1>3. /\ job.flow \in Fresh /\ agent = "ready"
      /\ FreshFits(job, row[e], file[e], object[e], platform[e], e \in damaged)
  BY <1>1, FreshFlow
<1>4. PICK s \in PlatformStatus : s = "uploading"
  BY DEF PlatformStatus
<1>5. row[e].parts = {} /\ platform[e] = "recording" /\ job.done = {} /\ object[e] = NoObject
      /\ ~row[e].callback
  BY <1>1, <1>3, NothingDone DEF FreshFits, StatusAt, BeforeUpload
<1>6. Request([platform EXCEPT ![e] = s])
  BY <1>2, <1>4, <1>5 DEF Begin
<1>7. EpisodeFits(e, row[e], file[e], object[e], s, e \in damaged)
  <2>1. KeepsRecord(row[e], s)
    BY <1>5 DEF KeepsRecord
  <2>2. file[e].at # ".done" /\ (e \in Dropped => file[e].at \notin {"nowhere", "inbox"})
    BY <1>2, <1>5 DEF EpisodeFits, KeepsFile
  <2>3. QED
    BY <1>2, <1>4, <2>1, <2>2, StatusFits
<1>8. After[job.flow][job.step] = "open"
  BY <1>1, <1>3, AfterSteps DEF Fresh
<1>9. PICK k : k = [job EXCEPT !.step = "open"]
  OBVIOUS
<1>10. /\ k \in Job /\ k.episode = e /\ k.flow = job.flow /\ k.step = "open" /\ k.done = job.done
       /\ k.unmarked = job.unmarked
  BY <1>2, <1>9, NextJob DEF Step
<1>11. FreshFits(k, row[e], file[e], object[e], s, e \in damaged)
  BY <1>1, <1>2, <1>3, <1>4, <1>5, <1>10 DEF FreshFits, StatusAt, BeforeUpload, AfterUpload, Fresh
<1>12. JobFits(k, agent, row[e], file[e], object[e], s, e \in damaged)
  BY <1>1, <1>2, <1>3, <1>5, <1>10, <1>11 DEF JobFits, StepsOf, Fresh
<1>13. QED
  BY <1>1, <1>4, <1>6, <1>7, <1>8, <1>9, <1>12, RequestKeeps DEF Step

\* start_upload in the local store, before upload() in one flow and after it in two.
LEMMA StartStep ==
  ASSUME UploadInv, NEW e \in Episode, Start(e)
  PROVE  UploadInv'
<1>1. InHand(e) /\ job.step = "start" /\ Store(StartUpload(row[e], PlanParts(file[e].size)))
  BY DEF Start, At, InHand, TotalParts
<1>2. /\ job \in Job /\ job.episode = e /\ row[e] \in EpisodeRecord(Part)
      /\ JobFits(job, agent, row[e], file[e], object[e], platform[e], e \in damaged)
      /\ EpisodeFits(e, row[e], file[e], object[e], platform[e], e \in damaged)
      /\ file[e].size \in 0 .. FileSize /\ job.flow \in Flow
  BY <1>1, Hand
<1>3. PICK t \in EpisodeRecord(Part) :
           /\ t = StartUpload(row[e], PlanParts(file[e].size)) /\ t.parts = row[e].parts
           /\ t.callback = row[e].callback /\ t.checksum = row[e].checksum /\ Known(t)
  BY <1>2, StartStatement DEF Known
<1>4. row[e] # NoRecord \/ job.flow \in Fresh
  BY <1>2, Records DEF JobFits, RecoveryFits, Known
<1>5. platform[e] # "absent"
  BY <1>1, <1>2, <1>4 DEF JobFits, FreshFits, StatusAt, EpisodeFits, Fresh
<1>6. EpisodeFits(e, t, file[e], object[e], platform[e], e \in damaged)
  <2>1. KeepsRecord(t, platform[e])
    BY <1>2, <1>3 DEF EpisodeFits, KeepsRecord
  <2>2. QED
    BY <1>2, <1>3, <1>5, <2>1, SamePartsFit
<1>7. PICK x \in {"begin", "mark"} : /\ x = (IF job.flow = "file" THEN "begin" ELSE "mark")
                                     /\ After[job.flow][job.step] = x
  BY <1>1, <1>2, AfterSteps DEF JobFits, StepsOf, Flow
<1>70. x \in Step
  BY <1>7 DEF Step
<1>8. PICK k : k = [job EXCEPT !.step = x]
  OBVIOUS
<1>9. /\ k \in Job /\ k.episode = e /\ k.flow = job.flow /\ k.step = x /\ k.done = job.done
      /\ k.unmarked = job.unmarked
  BY <1>2, <1>70, <1>8, NextJob
<1>10. job.flow \in Fresh => FreshFits(k, t, file[e], object[e], platform[e], e \in damaged)
  BY <1>1, <1>2, <1>3, <1>7, <1>9 DEF JobFits, FreshFits, StatusAt, BeforeUpload, AfterUpload, Fresh
<1>11. job.flow \notin Fresh => RecoveryFits(k, t, platform[e])
  BY <1>1, <1>2, <1>3, <1>7, <1>9 DEF RecoveryFits, Fresh
<1>12. JobFits(k, agent, t, file[e], object[e], platform[e], e \in damaged)
  BY <1>1, <1>2, <1>7, <1>9, <1>10, <1>11 DEF JobFits, StepsOf, Fresh, Flow
<1>14. QED
  BY <1>1, <1>3, <1>6, <1>7, <1>8, <1>12, <1>70, StoreKeeps

\* The recording grows: nothing has been uploaded that its size could belie.
LEMMA FilmStep ==
  ASSUME UploadInv, NEW e \in Episode, Film(e)
  PROVE  UploadInv'
<1>1. InHand(e) /\ job.step = "film"
  BY DEF Film, At, InHand
<1>2. /\ job \in Job /\ job.episode = e
      /\ JobFits(job, agent, row[e], file[e], object[e], platform[e], e \in damaged)
      /\ EpisodeFits(e, row[e], file[e], object[e], platform[e], e \in damaged)
      /\ file[e] \in [at : Place, size : 0 .. FileSize]
      /\ row \in [Episode -> EpisodeRecord(Part)]
      /\ file \in [Episode -> [at : Place, size : 0 .. FileSize]]
      /\ object \in [Episode -> Object] /\ platform \in [Episode -> PlatformStatus]
      /\ faults \in 0 .. MaxFaults
  BY <1>1, Hand
<1>3. /\ job.flow \in Fresh /\ agent = "ready"
      /\ FreshFits(job, row[e], file[e], object[e], platform[e], e \in damaged)
  BY <1>1, FreshFlow
<1>4. job.flow = "collect" /\ e \in Collected /\ e \notin Dropped /\ file[e].size < FileSize
  BY <1>1, <1>2, <1>3, EpisodeAssumption DEF JobFits, FreshFits, StepsOf, Fresh
<1>5. row[e].parts = {} /\ platform[e] = "recording" /\ job.done = {} /\ object[e] = NoObject
  BY <1>1, <1>3, NothingDone DEF FreshFits, StatusAt, BeforeUpload
<1>6. PICK g \in [at : {"recording"}, size : 0 .. FileSize] :
           /\ file' = [file EXCEPT ![e] = g]
           /\ Recorded(file'[e].size) <=> (g.size = FileSize)
  <2>1. file[e].at \in {"nowhere", "recording"} /\ (file[e].at = "nowhere" => file[e].size = 0)
    BY <1>2, <1>4 DEF EpisodeFits, KeepsFile
  <2>2. CASE file[e].at = "nowhere"
    <3>1. PICK g : g = [file[e] EXCEPT !.at = "recording"]
      OBVIOUS
    <3>2. g \in [at : {"recording"}, size : 0 .. FileSize]
      BY <1>2, <3>1 DEF Place
    <3>3. file' = [file EXCEPT ![e] = g]
      BY <1>2, <2>2, <3>1 DEF Film
    <3>4. file'[e] = g
      BY <1>2, <3>3
    <3>5. QED
      BY <3>2, <3>3, <3>4 DEF Recorded
  <2>3. CASE file[e].at = "recording"
    <3>1. PICK g : g = [file[e] EXCEPT !.size = @ + 1]
      OBVIOUS
    <3>2. g \in [at : {"recording"}, size : 0 .. FileSize]
      BY <1>2, <1>4, <2>3, <3>1, FileSizeAssumption DEF Place
    <3>3. file' = [file EXCEPT ![e] = g]
      BY <1>2, <2>3, <3>1 DEF Film
    <3>4. file'[e] = g
      BY <1>2, <3>3
    <3>5. QED
      BY <3>2, <3>3, <3>4 DEF Recorded
  <2>4. QED
    BY <2>1, <2>2, <2>3
<1>7. /\ file'[e] = g /\ file' \in [Episode -> [at : Place, size : 0 .. FileSize]]
      /\ \A f \in Episode \ {e} : file'[f] = file[f]
      /\ g \in [at : Place, size : 0 .. FileSize] /\ g.at = "recording"
  <2>1. g \in [at : Place, size : 0 .. FileSize] /\ g.at = "recording"
    BY <1>6 DEF Place
  <2>2. QED
    BY <1>2, <1>6, <2>1
<1>8. /\ row' = row /\ object' = object /\ platform' = platform /\ damaged' = damaged
      /\ orphaned' = orphaned /\ faults' = faults
  BY DEF Film
<1>9. EpisodeFits(e, row[e], g, object[e], platform[e], e \in damaged)
  <2>1. KeepsFile(e, g, platform[e])
    BY <1>4, <1>5, <1>7 DEF KeepsFile
  <2>2. object[e].data = {} /\ object[e].cached = {}
    BY <1>5, Records
  <2>3. KeepsObject(row[e], g, object[e], e \in damaged)
    BY <1>5, <2>2 DEF KeepsObject, Holds
  <2>4. InOrder(row[e].parts, g.size, object[e].data)
    BY <2>2 DEF InOrder
  <2>5. QED
    BY <1>2, <1>5, <1>7, <2>1, <2>3, <2>4 DEF EpisodeFits
<1>10. Alone(e)
  BY <1>2, <1>7, <1>8 DEF Alone
<1>11. CASE g.size = FileSize
  <2>1. After[job.flow][job.step] = "finish"
    BY <1>1, <1>4, AfterSteps
  <2>2. job' = [job EXCEPT !.step = "finish"] /\ UNCHANGED <<agent, todo, failedOnes>>
    BY <1>6, <1>11, <2>1, GoesTo DEF Film, Proceed
  <2>3. /\ job' \in Job /\ job' # NoJob /\ job'.episode = e /\ job'.flow = job.flow
        /\ job'.step = "finish" /\ job'.done = job.done /\ job'.unmarked = job.unmarked
    <3>1. "finish" \in Step
      BY DEF Step
    <3>2. QED
      BY <1>2, <2>2, <3>1, NextJob
  <2>4. PICK k : k = job'
    OBVIOUS
  <2>5. FreshFits(k, row[e], g, object[e], platform[e], e \in damaged)
    BY <1>1, <1>2, <1>3, <1>4, <1>5, <1>11, <2>3, <2>4 DEF FreshFits, StatusAt, BeforeUpload, AfterUpload
  <2>6. JobFits(k, agent, row[e], g, object[e], platform[e], e \in damaged)
    BY <1>1, <1>2, <1>3, <1>4, <1>5, <2>3, <2>4, <2>5 DEF JobFits, StepsOf, Fresh, Holds
  <2>7. GoesOn(e)
    BY <1>7, <1>8, <2>2, <2>3, <2>4, <2>6 DEF GoesOn
  <2>8. QED
    BY <1>1, <1>7, <1>8, <1>9, <1>10, <2>7, FlowKeeps
<1>12. CASE g.size # FileSize
  <2>1. job' = job /\ UNCHANGED <<agent, todo, failedOnes>>
    <3>1. ~Recorded(file'[e].size)
      BY <1>6, <1>12
    <3>2. UNCHANGED process
      BY <3>1 DEF Film
    <3>3. QED
      BY <3>2 DEF process
  <2>2. g.size < FileSize
    BY <1>6, <1>12, FileSizeAssumption
  <2>3. FreshFits(job, row[e], g, object[e], platform[e], e \in damaged)
    BY <1>1, <1>2, <1>3, <1>4, <1>5, <2>2 DEF FreshFits, StatusAt, BeforeUpload, AfterUpload
  <2>4. JobFits(job, agent, row[e], g, object[e], platform[e], e \in damaged)
    BY <1>1, <1>2, <1>3, <1>4, <1>5, <2>3 DEF JobFits, StepsOf, Fresh, Holds
  <2>5. GoesOn(e)
    BY <1>1, <1>7, <1>8, <2>1, <2>4 DEF GoesOn, InHand, Working
  <2>6. QED
    BY <1>1, <1>7, <1>8, <1>9, <1>10, <2>5, FlowKeeps
<1>13. QED
  BY <1>11, <1>12

------------------------------------------------------------------------------
\* upload().

LEMMA OnPlatform ==
  ASSUME UploadInv, NEW e \in Episode, InHand(e), job.step \notin {"create"}
  PROVE  platform[e] # "absent"
<1>1. /\ JobFits(job, agent, row[e], file[e], object[e], platform[e], e \in damaged)
      /\ EpisodeFits(e, row[e], file[e], object[e], platform[e], e \in damaged)
  BY Hand
<1>2. CASE job.flow \in Fresh
  BY <1>1, <1>2 DEF JobFits, FreshFits, StatusAt
<1>3. CASE job.flow \notin Fresh
  BY <1>1, <1>3, Records DEF JobFits, RecoveryFits, Known, EpisodeFits
<1>4. QED
  BY <1>2, <1>3

LEMMA OpenStep ==
  ASSUME UploadInv, NEW e \in Episode, Open(e)
  PROVE  UploadInv'
<1>1. InHand(e) /\ job.step = "open"
  BY DEF Open, At, InHand
<1>2. /\ job \in Job /\ job.episode = e /\ object[e] \in Object
      /\ JobFits(job, agent, row[e], file[e], object[e], platform[e], e \in damaged)
      /\ EpisodeFits(e, row[e], file[e], object[e], platform[e], e \in damaged)
      /\ file[e].size \in 0 .. FileSize /\ job.flow \in Flow
      /\ row[e] \in EpisodeRecord(Part) /\ platform[e] \in PlatformStatus
      /\ row \in [Episode -> EpisodeRecord(Part)]
      /\ file \in [Episode -> [at : Place, size : 0 .. FileSize]]
      /\ object \in [Episode -> Object] /\ platform \in [Episode -> PlatformStatus]
      /\ faults \in 0 .. MaxFaults
  BY <1>1, Hand
<1>3. /\ platform' = platform /\ damaged' = damaged /\ orphaned' = orphaned /\ faults' = faults
  BY DEF Open
<1>4. CASE HasSource(e)
  <2>1. PICK o \in Object : /\ o = Preallocate(object[e], file[e].size) /\ o.size = file[e].size
                            /\ o = object[e] \/ (o.data = {} /\ o.cached = {} /\ object[e].size # o.size)
    <3>1. CASE object[e].size = file[e].size
      BY <1>2, <3>1 DEF Preallocate
    <3>2. CASE object[e].size # file[e].size
      <4>1. PICK o : o = [size |-> file[e].size, data |-> {}, cached |-> {}]
        OBVIOUS
      <4>2. o \in Object /\ o.size = file[e].size /\ o.data = {} /\ o.cached = {}
        BY <1>2, <4>1 DEF Object
      <4>3. QED
        BY <3>2, <4>1, <4>2 DEF Preallocate
    <3>3. QED
      BY <3>1, <3>2
  <2>2. PICK D : D = (IF job.flow = "resume" THEN row[e].parts ELSE {})
    OBVIOUS
  <2>3. object' = [object EXCEPT ![e] = o] /\ UNCHANGED <<agent, todo, failedOnes, row, file>>
        /\ job' = [job EXCEPT !.step = "write", !.done = D]
    BY <1>2, <1>4, <2>1, <2>2 DEF Open
  <2>4. D \subseteq row[e].parts /\ row[e].parts \subseteq Part
    BY <1>2, <2>2 DEF EpisodeRecord
  <2>5. PICK k : k = [job EXCEPT !.step = "write", !.done = D]
    OBVIOUS
  <2>6. /\ k \in Job /\ k.episode = e /\ k.flow = job.flow /\ k.step = "write" /\ k.done = D
        /\ k.unmarked = job.unmarked
    BY <1>2, <2>4, <2>5 DEF Job, Step
  <2>7. /\ object'[e] = o /\ object' \in [Episode -> Object]
        /\ \A f \in Episode \ {e} : object'[f] = object[f]
    BY <1>2, <2>1, <2>3
  <2>8. EpisodeFits(e, row[e], file[e], o, platform[e], e \in damaged)
    <3>1. platform[e] # "absent"
      BY <1>1, OnPlatform
    <3>2. KeepsObject(row[e], file[e], o, e \in damaged)
      BY <1>2, <2>1 DEF EpisodeFits, KeepsObject, Holds
    <3>3. e \in Collected => InOrder(row[e].parts, file[e].size, o.data)
      BY <1>2, <2>1 DEF EpisodeFits, InOrder
    <3>4. QED
      BY <1>2, <2>1, <3>1, <3>2, <3>3 DEF EpisodeFits
  <2>9. job.flow \in Fresh => FreshFits(k, row[e], file[e], o, platform[e], e \in damaged)
    BY <1>1, <1>2, <2>6 DEF JobFits, FreshFits, StatusAt, BeforeUpload, AfterUpload, Fresh
  <2>10. job.flow \notin Fresh => RecoveryFits(k, row[e], platform[e])
    BY <1>1, <1>2, <2>6 DEF JobFits, RecoveryFits
  <2>11. JobFits(k, agent, row[e], file[e], o, platform[e], e \in damaged)
    <3>1. row[e].parts \subseteq 1 .. PlanParts(file[e].size)
      BY <1>2 DEF EpisodeFits, KeepsObject
    <3>2. e \in damaged \/ Holds(D, file[e].size, o.data)
      BY <2>4, <2>8 DEF EpisodeFits, KeepsObject, Holds
    <3>3. job.unmarked = {} /\ k.step \in StepsOf(k.flow)
      BY <1>1, <1>2, <2>6 DEF JobFits, StepsOf, Flow
    <3>4. IF job.flow \in Fresh THEN agent = "ready" ELSE agent = "recovering"
      BY <1>2 DEF JobFits
    <3>5. QED
      BY <2>1, <2>4, <2>6, <2>9, <2>10, <3>1, <3>2, <3>3, <3>4 DEF JobFits
  <2>12. Alone(e)
    BY <1>2, <1>3, <2>3, <2>7 DEF Alone
  <2>13. GoesOn(e)
    <3>1. k # NoJob
      BY <2>6 DEF NoJob
    <3>2. QED
      BY <1>3, <2>3, <2>5, <2>6, <2>7, <2>11, <3>1 DEF GoesOn
  <2>14. QED
    BY <1>1, <1>3, <2>3, <2>7, <2>8, <2>12, <2>13, FlowKeeps
<1>5. CASE ~HasSource(e)
  <2>1. Raise("lost") /\ UNCHANGED <<object, damaged, orphaned>> /\ faults' \in 0 .. MaxFaults
    BY <1>2, <1>5 DEF Open
  <2>2. PICK s \in PlatformStatus : s = platform[e]
    BY <1>2
  <2>3. platform' = [platform EXCEPT ![e] = s]
    BY <1>2, <1>3, <2>2
  <2>4. EpisodeFits(e, row[e], file[e], object[e], s, e \in damaged)
    BY <1>2, <2>2
  <2>5. QED
    BY <1>1, <2>1, <2>3, <2>4, RaiseKeeps
<1>6. QED
  BY <1>4, <1>5

LEMMA WriteStep ==
  ASSUME UploadInv, NEW e \in Episode, NEW p \in 1 .. TotalParts(e), Write(e, p)
  PROVE  UploadInv'
<1>1. InHand(e) /\ job.step = "write" /\ PartBeforeRecorded /\ p \notin job.done
  BY DEF Write, At, InHand
<1>2. /\ job \in Job /\ job.episode = e /\ object[e] \in Object
      /\ JobFits(job, agent, row[e], file[e], object[e], platform[e], e \in damaged)
      /\ EpisodeFits(e, row[e], file[e], object[e], platform[e], e \in damaged)
      /\ file[e].size \in 0 .. FileSize /\ job.flow \in Flow
      /\ row[e] \in EpisodeRecord(Part) /\ platform[e] \in PlatformStatus
      /\ row \in [Episode -> EpisodeRecord(Part)]
      /\ file \in [Episode -> [at : Place, size : 0 .. FileSize]]
      /\ object \in [Episode -> Object] /\ platform \in [Episode -> PlatformStatus]
      /\ faults \in 0 .. MaxFaults
  BY <1>1, Hand
<1>3. /\ platform' = platform /\ damaged' = damaged /\ orphaned' = orphaned /\ faults' = faults
      /\ UNCHANGED <<agent, todo, failedOnes, row, file>>
  BY DEF Write
<1>4. PICK n \in 0 .. FileSize : n = file[e].size
  BY <1>2
<1>5. PICK B : B = PartBytes(n, p)
  OBVIOUS
<1>6. p \in Part /\ p \in Nat \ {0} /\ p \in 1 .. PlanParts(n) /\ B \subseteq 1 .. n /\ 1 .. n \subseteq Byte
  <2>1. PlanParts(n) \in Nat /\ PlanParts(FileSize) \in Nat /\ PlanParts(n) <= PlanParts(FileSize)
    BY FileSizeAssumption, PartsPlanned, MorePartsForMoreBytes
  <2>2. p \in 1 .. PlanParts(n)
    BY <1>4 DEF TotalParts
  <2>3. p \in Part /\ p \in Nat \ {0}
    BY <2>1, <2>2 DEF Part
  <2>4. 1 .. n \subseteq Byte
    BY FileSizeAssumption DEF Byte
  <2>5. QED
    BY <1>5, <2>2, <2>3, <2>4, PartIsInFile
<1>7. object[e].size = n
  BY <1>1, <1>2, <1>4 DEF JobFits
<1>8. PICK o \in Object : /\ o = WritePart(object[e], n, p) /\ o.size = n
                          /\ o.data = object[e].data \cup B /\ o.cached = object[e].cached \cup B
  <2>1. object[e] \in [size : 0 .. FileSize, data : SUBSET Byte, cached : SUBSET Byte]
    BY <1>2, <1>4, <1>7, Records DEF Object
  <2>2. PICK o : o = WritePart(object[e], n, p)
    OBVIOUS
  <2>3. /\ o \in [size : 0 .. FileSize, data : SUBSET Byte, cached : SUBSET Byte]
        /\ o.size = n /\ o.data = object[e].data \cup B /\ o.cached = object[e].cached \cup B
    BY <1>5, <1>6, <1>7, <2>1, <2>2 DEF WritePart
  <2>4. QED
    BY <2>2, <2>3 DEF Object
<1>9. /\ object' = [object EXCEPT ![e] = o]
      /\ job' = [job EXCEPT !.done = @ \cup {p}, !.unmarked = @ \cup {p}]
  BY <1>2, <1>4, <1>8 DEF Write
<1>10. /\ object'[e] = o /\ object' \in [Episode -> Object]
       /\ \A f \in Episode \ {e} : object'[f] = object[f]
  BY <1>2, <1>8, <1>9
<1>11. PICK k : k = [job EXCEPT !.done = @ \cup {p}, !.unmarked = @ \cup {p}]
  OBVIOUS
<1>12. /\ k \in Job /\ k.episode = e /\ k.flow = job.flow /\ k.step = "write"
       /\ k.done = job.done \cup {p} /\ k.unmarked = job.unmarked \cup {p}
  BY <1>1, <1>2, <1>6, <1>11 DEF Job
<1>13. platform[e] # "absent"
  BY <1>1, OnPlatform
<1>14. KeepsObject(row[e], file[e], o, e \in damaged)
  BY <1>2, <1>4, <1>6, <1>8 DEF EpisodeFits, KeepsObject, Holds
<1>15. e \in Collected => InOrder(row[e].parts, file[e].size, o.data)
  <2>1. SUFFICES ASSUME e \in Collected, NEW q \in (1 .. PlanParts(n)) \ row[e].parts,
                        PartBytes(n, q) \cap o.data # {}
                 PROVE  1 .. q - 1 \subseteq row[e].parts
    BY <1>4 DEF InOrder
  <2>2. CASE q = p
    <3>1. job.flow # "file"
      BY <1>2, <2>1, EpisodeAssumption DEF JobFits, FreshFits, Fresh
    <3>2. job.done \subseteq row[e].parts
      BY <1>1, <1>2, <3>1 DEF JobFits, PartBeforeRecorded
    <3>3. \A r \in 1 .. p - 1 : r \in job.done
      BY DEF Write
    <3>4. QED
      BY <2>2, <3>2, <3>3
  <2>3. CASE q # p
    <3>1. q \in Nat \ {0}
      BY PartsPlanned, <1>4
    <3>2. PartBytes(n, q) \cap B = {}
      BY <1>4, <1>5, <1>6, <2>3, <3>1, PartsAreDisjoint
    <3>3. PartBytes(n, q) \cap object[e].data # {}
      BY <1>8, <2>1, <3>2
    <3>4. QED
      BY <1>2, <1>4, <2>1, <3>3 DEF EpisodeFits, InOrder
  <2>4. QED
    BY <2>2, <2>3
<1>16. EpisodeFits(e, row[e], file[e], o, platform[e], e \in damaged)
  BY <1>2, <1>8, <1>13, <1>14, <1>15 DEF EpisodeFits
<1>17. JobFits(k, agent, row[e], file[e], o, platform[e], e \in damaged)
  <2>1. job.flow \in Fresh => FreshFits(k, row[e], file[e], o, platform[e], e \in damaged)
    BY <1>1, <1>2, <1>12 DEF JobFits, FreshFits, StatusAt, BeforeUpload, AfterUpload, Fresh
  <2>2. job.flow \notin Fresh => RecoveryFits(k, row[e], platform[e])
    BY <1>1, <1>2, <1>12 DEF JobFits, RecoveryFits
  <2>3. e \in damaged \/ Holds(k.done, file[e].size, o.data)
    BY <1>2, <1>4, <1>5, <1>8, <1>12 DEF JobFits, Holds
  <2>4. /\ k.done \subseteq 1 .. PlanParts(file[e].size) /\ k.unmarked \subseteq k.done
        /\ k.done \subseteq row[e].parts \cup k.unmarked /\ k.step \in StepsOf(k.flow)
    BY <1>1, <1>2, <1>4, <1>6, <1>12 DEF JobFits
  <2>5. IF job.flow \in Fresh THEN agent = "ready" ELSE agent = "recovering"
    BY <1>2 DEF JobFits
  <2>6. QED
    BY <1>4, <1>8, <1>12, <2>1, <2>2, <2>3, <2>4, <2>5 DEF JobFits
<1>18. Alone(e)
  BY <1>2, <1>3, <1>10 DEF Alone
<1>19. GoesOn(e)
  <2>1. k # NoJob
    BY <1>12 DEF NoJob
  <2>2. QED
    BY <1>3, <1>9, <1>10, <1>11, <1>12, <1>17, <2>1 DEF GoesOn
<1>20. QED
  BY <1>1, <1>3, <1>10, <1>16, <1>18, <1>19, FlowKeeps

LEMMA WriteFailsStep ==
  ASSUME UploadInv, NEW e \in Episode, WriteFails(e)
  PROVE  UploadInv'
<1>1. InHand(e) /\ Raise("io") /\ Fault /\ UNCHANGED <<object, platform, damaged, orphaned>>
  BY DEF WriteFails, At, InHand
<1>2. /\ EpisodeFits(e, row[e], file[e], object[e], platform[e], e \in damaged)
      /\ platform \in [Episode -> PlatformStatus] /\ faults \in 0 .. MaxFaults
  BY <1>1, Hand
<1>3. faults' \in 0 .. MaxFaults
  BY <1>1, <1>2, UploadBounds DEF Fault
<1>4. PICK s \in PlatformStatus : s = platform[e]
  BY <1>2
<1>5. platform' = [platform EXCEPT ![e] = s]
  BY <1>1, <1>2, <1>4
<1>6. EpisodeFits(e, row[e], file[e], object[e], s, e \in damaged)
  BY <1>2, <1>4
<1>7. QED
  BY <1>1, <1>3, <1>5, <1>6, RaiseKeeps

LEMMA MarkStep ==
  ASSUME UploadInv, NEW e \in Episode, NEW p \in 1 .. TotalParts(e), Mark(e, p)
  PROVE  UploadInv'
<1>1. InHand(e) /\ job.step = "write" /\ p \in job.unmarked
  BY DEF Mark, At, InHand
<1>2. /\ job \in Job /\ job.episode = e
      /\ JobFits(job, agent, row[e], file[e], object[e], platform[e], e \in damaged)
      /\ EpisodeFits(e, row[e], file[e], object[e], platform[e], e \in damaged)
      /\ row[e] \in EpisodeRecord(Part) /\ job.flow \in Flow
      /\ row \in [Episode -> EpisodeRecord(Part)]
      /\ file \in [Episode -> [at : Place, size : 0 .. FileSize]]
      /\ object \in [Episode -> Object] /\ platform \in [Episode -> PlatformStatus]
      /\ faults \in 0 .. MaxFaults
  BY <1>1, Hand
<1>3. /\ platform' = platform /\ damaged' = damaged /\ orphaned' = orphaned /\ faults' = faults
      /\ file' = file /\ object' = object /\ UNCHANGED <<agent, todo, failedOnes>>
  BY DEF Mark
<1>4. PICK D \in SUBSET Part : D = {p}
  BY <1>1, <1>2 DEF Job
<1>5. PICK t : t = [row[e] EXCEPT !.parts = @ \cup D]
  OBVIOUS
<1>6. /\ t \in EpisodeRecord(Part) /\ t.parts = row[e].parts \cup D /\ t.status = row[e].status
      /\ t.callback = row[e].callback /\ t.checksum = row[e].checksum
  BY <1>2, <1>5, MarkStatement
<1>7. /\ row' = [row EXCEPT ![e] = t]
      /\ job' = [job EXCEPT !.unmarked = @ \ {p}]
  BY <1>2, <1>4, <1>5 DEF Mark, SetRow, MarkPartUploaded
<1>8. /\ row'[e] = t /\ row' \in [Episode -> EpisodeRecord(Part)]
      /\ \A f \in Episode \ {e} : row'[f] = row[f]
  BY <1>2, <1>6, <1>7
<1>9. PICK k : k = [job EXCEPT !.unmarked = @ \ {p}]
  OBVIOUS
<1>10. /\ k \in Job /\ k.episode = e /\ k.flow = job.flow /\ k.step = "write"
       /\ k.done = job.done /\ k.unmarked = job.unmarked \ {p}
  BY <1>1, <1>2, <1>9 DEF Job
<1>11. EpisodeFits(e, t, file[e], object[e], platform[e], e \in damaged)
  <2>1. platform[e] # "absent"
    BY <1>1, OnPlatform
  <2>2. KeepsRecord(t, platform[e])
    BY <1>2, <1>6 DEF EpisodeFits, KeepsRecord
  <2>3. row[e].parts \subseteq t.parts /\ t.parts \subseteq 1 .. PlanParts(file[e].size)
    BY <1>1, <1>2, <1>4, <1>6 DEF EpisodeFits, KeepsObject, JobFits
  <2>4. e \in damaged \/ (Holds(t.parts, file[e].size, object[e].data)
                          /\ (t.parts = {} \/ object[e].size = file[e].size))
    BY <1>1, <1>2, <1>4, <1>6 DEF EpisodeFits, KeepsObject, JobFits, Holds
  <2>5. QED
    BY <1>2, <1>6, <2>1, <2>2, <2>3, <2>4, RowFits
<1>12. JobFits(k, agent, t, file[e], object[e], platform[e], e \in damaged)
  <2>1. job.flow \in Fresh => FreshFits(k, t, file[e], object[e], platform[e], e \in damaged)
    BY <1>1, <1>2, <1>6, <1>10 DEF JobFits, FreshFits, StatusAt, BeforeUpload, AfterUpload, Fresh
  <2>2. job.flow \notin Fresh => RecoveryFits(k, t, platform[e])
    BY <1>1, <1>2, <1>6, <1>10 DEF JobFits, RecoveryFits, Known
  <2>3. QED
    BY <1>1, <1>2, <1>4, <1>6, <1>10, <2>1, <2>2 DEF JobFits
<1>13. Alone(e)
  BY <1>2, <1>3, <1>8 DEF Alone
<1>14. GoesOn(e)
  <2>1. k # NoJob
    BY <1>10 DEF NoJob
  <2>2. QED
    BY <1>3, <1>7, <1>8, <1>9, <1>10, <1>12, <2>1 DEF GoesOn
<1>15. QED
  BY <1>1, <1>3, <1>8, <1>11, <1>13, <1>14, FlowKeeps

LEMMA UploadedStep ==
  ASSUME UploadInv, NEW e \in Episode, Uploaded(e)
  PROVE  UploadInv'
<1>1. InHand(e) /\ job.step = "write" /\ 1 .. PlanParts(file[e].size) \subseteq job.done
      /\ job.unmarked = {} /\ Proceed
  BY DEF Uploaded, At, InHand, TotalParts
<1>2. /\ job \in Job /\ job.episode = e
      /\ JobFits(job, agent, row[e], file[e], object[e], platform[e], e \in damaged)
      /\ EpisodeFits(e, row[e], file[e], object[e], platform[e], e \in damaged)
      /\ job.flow \in Flow
      /\ row \in [Episode -> EpisodeRecord(Part)]
      /\ file \in [Episode -> [at : Place, size : 0 .. FileSize]]
      /\ object \in [Episode -> Object] /\ platform \in [Episode -> PlatformStatus]
      /\ faults \in 0 .. MaxFaults
  BY <1>1, Hand
<1>3. /\ platform' = platform /\ damaged' = damaged /\ orphaned' = orphaned /\ faults' = faults
      /\ file' = file /\ object' = object /\ row' = row
  BY DEF Uploaded
<1>4. PICK x \in {"start", "complete"} : /\ x = (IF job.flow = "file" THEN "complete" ELSE "start")
                                         /\ After[job.flow][job.step] = x
  BY <1>1, <1>2, AfterSteps DEF JobFits, StepsOf, Flow
<1>5. x \in Step /\ x # "end"
  BY <1>4 DEF Step
<1>6. job' = [job EXCEPT !.step = x] /\ UNCHANGED <<agent, todo, failedOnes>>
  BY <1>1, <1>4, <1>5, GoesTo DEF Proceed
<1>7. PICK k : k = [job EXCEPT !.step = x]
  OBVIOUS
<1>8. /\ k \in Job /\ k.episode = e /\ k.flow = job.flow /\ k.step = x /\ k.done = job.done
      /\ k.unmarked = job.unmarked /\ k # NoJob
  BY <1>2, <1>5, <1>7, NextJob
<1>9. JobFits(k, agent, row[e], file[e], object[e], platform[e], e \in damaged)
  <2>1. job.flow \in Fresh => FreshFits(k, row[e], file[e], object[e], platform[e], e \in damaged)
    BY <1>1, <1>2, <1>4, <1>8 DEF JobFits, FreshFits, StatusAt, BeforeUpload, AfterUpload, Fresh
  <2>2. job.flow \notin Fresh => RecoveryFits(k, row[e], platform[e])
    <3>1. job.flow \notin Fresh => job.flow = "resume"
      BY <1>1, <1>2 DEF JobFits, StepsOf, Flow, Fresh
    <3>2. QED
      BY <1>1, <1>2, <1>4, <1>8, <3>1 DEF JobFits, RecoveryFits, Fresh
  <2>3. k.step \in StepsOf(k.flow)
    BY <1>1, <1>2, <1>4, <1>8 DEF JobFits, StepsOf, Flow
  <2>4. QED
    BY <1>1, <1>2, <1>8, <2>1, <2>2, <2>3 DEF JobFits
<1>10. Alone(e)
  BY <1>2, <1>3 DEF Alone
<1>11. GoesOn(e)
  BY <1>3, <1>6, <1>7, <1>8, <1>9 DEF GoesOn
<1>12. QED
  BY <1>1, <1>2, <1>3, <1>10, <1>11, FlowKeeps

------------------------------------------------------------------------------
\* The steps after upload().

LEMMA MarkAgainStep ==
  ASSUME UploadInv, NEW e \in Episode, MarkAgain(e)
  PROVE  UploadInv'
<1>1. InHand(e) /\ job.step = "mark" /\ Store([row[e] EXCEPT !.parts = @ \cup job.done])
  BY DEF MarkAgain, At, InHand
<1>2. /\ job \in Job /\ job.episode = e /\ row[e] \in EpisodeRecord(Part)
      /\ JobFits(job, agent, row[e], file[e], object[e], platform[e], e \in damaged)
      /\ EpisodeFits(e, row[e], file[e], object[e], platform[e], e \in damaged)
      /\ job.flow \in Flow
  BY <1>1, Hand
<1>3. PICK D \in SUBSET Part : D = job.done
  BY <1>2 DEF Job
<1>4. PICK t : t = [row[e] EXCEPT !.parts = @ \cup D]
  OBVIOUS
<1>5. /\ t \in EpisodeRecord(Part) /\ t.parts = row[e].parts \cup D /\ t.status = row[e].status
      /\ t.callback = row[e].callback /\ t.checksum = row[e].checksum
  BY <1>2, <1>4, MarkStatement
<1>6. EpisodeFits(e, t, file[e], object[e], platform[e], e \in damaged)
  <2>1. platform[e] # "absent"
    BY <1>1, OnPlatform
  <2>2. KeepsRecord(t, platform[e])
    BY <1>2, <1>5 DEF EpisodeFits, KeepsRecord
  <2>3. row[e].parts \subseteq t.parts /\ t.parts \subseteq 1 .. PlanParts(file[e].size)
    BY <1>1, <1>2, <1>3, <1>5 DEF EpisodeFits, KeepsObject, JobFits
  <2>4. e \in damaged \/ (Holds(t.parts, file[e].size, object[e].data)
                          /\ (t.parts = {} \/ object[e].size = file[e].size))
    BY <1>1, <1>2, <1>3, <1>5 DEF EpisodeFits, KeepsObject, JobFits, Holds
  <2>5. QED
    BY <1>2, <1>5, <2>1, <2>2, <2>3, <2>4, RowFits
<1>7. job.flow \in {"collect", "resume"} /\ After[job.flow][job.step] = "complete"
  BY <1>1, <1>2, AfterSteps DEF JobFits, StepsOf, Flow
<1>8. PICK k : k = [job EXCEPT !.step = "complete"]
  OBVIOUS
<1>9. /\ k \in Job /\ k.episode = e /\ k.flow = job.flow /\ k.step = "complete"
      /\ k.done = job.done /\ k.unmarked = job.unmarked
  <2>1. "complete" \in Step
    BY DEF Step
  <2>2. QED
    BY <1>2, <1>8, <2>1, NextJob
<1>10. JobFits(k, agent, t, file[e], object[e], platform[e], e \in damaged)
  <2>1. job.flow \in Fresh => FreshFits(k, t, file[e], object[e], platform[e], e \in damaged)
    BY <1>1, <1>2, <1>5, <1>7, <1>9 DEF JobFits, FreshFits, StatusAt, BeforeUpload, AfterUpload, Fresh
  <2>2. job.flow \notin Fresh => RecoveryFits(k, t, platform[e])
    BY <1>1, <1>2, <1>5, <1>9 DEF JobFits, RecoveryFits, Known
  <2>3. k.step \in StepsOf(k.flow)
    BY <1>7, <1>9 DEF StepsOf
  <2>4. QED
    BY <1>1, <1>2, <1>9, <2>1, <2>2, <2>3 DEF JobFits
<1>11. Store(t) /\ "complete" \in Step
  BY <1>1, <1>3, <1>4 DEF Step
<1>12. QED
  BY <1>1, <1>5, <1>6, <1>7, <1>8, <1>10, <1>11, StoreKeeps

LEMMA CompleteStep ==
  ASSUME UploadInv, NEW e \in Episode, Complete(e)
  PROVE  UploadInv'
<1>1. InHand(e) /\ job.step = "complete" /\ Store(CompleteUpload(row[e]))
  BY DEF Complete, At, InHand
<1>2. /\ job \in Job /\ job.episode = e /\ row[e] \in EpisodeRecord(Part)
      /\ JobFits(job, agent, row[e], file[e], object[e], platform[e], e \in damaged)
      /\ EpisodeFits(e, row[e], file[e], object[e], platform[e], e \in damaged)
      /\ job.flow \in Flow
  BY <1>1, Hand
<1>3. PICK t : t = CompleteUpload(row[e])
  OBVIOUS
<1>4. /\ t \in EpisodeRecord(Part) /\ t.parts = row[e].parts /\ t.status = "completed"
      /\ t.callback = row[e].callback /\ t.checksum = row[e].checksum
  BY <1>2, <1>3, Statements
<1>5. EpisodeFits(e, t, file[e], object[e], platform[e], e \in damaged)
  <2>1. platform[e] # "absent"
    BY <1>1, OnPlatform
  <2>2. KeepsRecord(t, platform[e])
    BY <1>2, <1>4 DEF EpisodeFits, KeepsRecord
  <2>3. QED
    BY <1>2, <1>4, <2>1, <2>2, SamePartsFit
<1>6. job.flow \in {"collect", "file", "resume"} /\ After[job.flow][job.step] = "report"
  BY <1>1, <1>2, AfterSteps DEF JobFits, StepsOf, Flow
<1>7. PICK k : k = [job EXCEPT !.step = "report"]
  OBVIOUS
<1>8. "report" \in Step
  BY DEF Step
<1>9. /\ k \in Job /\ k.episode = e /\ k.flow = job.flow /\ k.step = "report"
      /\ k.done = job.done /\ k.unmarked = job.unmarked
  BY <1>2, <1>7, <1>8, NextJob
<1>10. JobFits(k, agent, t, file[e], object[e], platform[e], e \in damaged)
  <2>1. job.flow \in Fresh => FreshFits(k, t, file[e], object[e], platform[e], e \in damaged)
    BY <1>1, <1>2, <1>4, <1>6, <1>9 DEF JobFits, FreshFits, StatusAt, BeforeUpload, AfterUpload, Fresh
  <2>2. job.flow \notin Fresh => RecoveryFits(k, t, platform[e])
    BY <1>1, <1>2, <1>4, <1>9 DEF JobFits, RecoveryFits, Known
  <2>3. k.step \in StepsOf(k.flow)
    BY <1>6, <1>9 DEF StepsOf
  <2>4. QED
    BY <1>1, <1>2, <1>4, <1>9, <2>1, <2>2, <2>3 DEF JobFits
<1>11. QED
  BY <1>1, <1>3, <1>4, <1>5, <1>6, <1>7, <1>8, <1>10, StoreKeeps

\* The upload callback.
LEMMA ReportStep ==
  ASSUME UploadInv, NEW e \in Episode, Report(e)
  PROVE  UploadInv'
<1>1. InHand(e) /\ job.step = "report" /\ UNCHANGED <<object, damaged, orphaned>>
  BY DEF Report, At, InHand
<1>2. /\ job \in Job /\ job.episode = e /\ job.flow \in Flow
      /\ platform[e] \in PlatformStatus /\ platform \in [Episode -> PlatformStatus]
      /\ JobFits(job, agent, row[e], file[e], object[e], platform[e], e \in damaged)
      /\ EpisodeFits(e, row[e], file[e], object[e], platform[e], e \in damaged)
      /\ faults \in 0 .. MaxFaults
  BY <1>1, Hand
<1>3. platform[e] # "absent"
  BY <1>1, OnPlatform
<1>4. CASE \E kind : Raise(kind) /\ UNCHANGED <<platform, faults>>
  <2>1. PICK kind : Raise(kind) /\ UNCHANGED <<platform, faults>>
    BY <1>4
  <2>2. PICK s \in PlatformStatus : s = platform[e]
    BY <1>2
  <2>3. platform' = [platform EXCEPT ![e] = s] /\ faults' \in 0 .. MaxFaults
    BY <1>2, <2>1, <2>2
  <2>4. EpisodeFits(e, row[e], file[e], object[e], s, e \in damaged)
    BY <1>2, <2>2
  <2>5. QED
    BY <1>1, <2>1, <2>3, <2>4, RaiseKeeps
<1>5. CASE /\ job.flow \in {"resume", "resend"} => row[e].checksum
           /\ Request([platform EXCEPT ![e] = IF @ = "uploading" THEN "processing" ELSE @])
  <2>1. PICK s \in PlatformStatus : s = (IF platform[e] = "uploading" THEN "processing" ELSE platform[e])
    BY <1>2 DEF PlatformStatus
  <2>2. Request([platform EXCEPT ![e] = s])
    BY <1>2, <1>5, <2>1
  <2>3. s \in {"recording", "processing"}
    BY <1>3, <2>1 DEF PlatformStatus
  <2>4. EpisodeFits(e, row[e], file[e], object[e], s, e \in damaged)
    <3>1. KeepsRecord(row[e], s)
      BY <1>2, <2>1, <2>3 DEF EpisodeFits, KeepsRecord
    <3>2. /\ file[e].at = ".done" => s = "processing"
          /\ e \in Dropped => file[e].at \notin {"nowhere", "inbox"}
      BY <1>2, <1>3, <2>1 DEF EpisodeFits, KeepsFile
    <3>3. QED
      BY <1>2, <2>3, <3>1, <3>2, StatusFits
  <2>5. After[job.flow][job.step] = "close"
    BY <1>1, <1>2, AfterSteps DEF Flow
  <2>6. PICK k : k = [job EXCEPT !.step = "close"]
    OBVIOUS
  <2>7. "close" \in Step
    BY DEF Step
  <2>8. /\ k \in Job /\ k.episode = e /\ k.flow = job.flow /\ k.step = "close"
        /\ k.done = job.done /\ k.unmarked = job.unmarked
    BY <1>2, <2>6, <2>7, NextJob
  <2>9. JobFits(k, agent, row[e], file[e], object[e], s, e \in damaged)
    <3>1. job.flow \in Fresh => FreshFits(k, row[e], file[e], object[e], s, e \in damaged)
      BY <1>1, <1>2, <2>1, <2>8 DEF JobFits, FreshFits, StatusAt, BeforeUpload, AfterUpload, Fresh
    <3>2. job.flow \notin Fresh => RecoveryFits(k, row[e], s)
      BY <1>1, <1>2, <1>5, <2>3, <2>8 DEF JobFits, RecoveryFits, Known, Flow, Fresh
    <3>3. k.step \in StepsOf(k.flow)
      BY <1>2, <2>8 DEF StepsOf, Flow
    <3>4. QED
      BY <1>1, <1>2, <2>8, <3>1, <3>2, <3>3 DEF JobFits
  <2>10. QED
    BY <1>1, <2>2, <2>4, <2>5, <2>6, <2>7, <2>9, RequestKeeps
<1>6. QED
  BY <1>4, <1>5 DEF Report

LEMMA CloseStep ==
  ASSUME UploadInv, NEW e \in Episode, Close(e)
  PROVE  UploadInv'
<1>1. InHand(e) /\ job.step = "close" /\ Store(MarkCallbackDone(row[e]))
  BY DEF Close, At, InHand
<1>2. /\ job \in Job /\ job.episode = e /\ row[e] \in EpisodeRecord(Part)
      /\ JobFits(job, agent, row[e], file[e], object[e], platform[e], e \in damaged)
      /\ EpisodeFits(e, row[e], file[e], object[e], platform[e], e \in damaged)
      /\ job.flow \in Flow
      /\ row \in [Episode -> EpisodeRecord(Part)]
      /\ file \in [Episode -> [at : Place, size : 0 .. FileSize]]
      /\ object \in [Episode -> Object] /\ platform \in [Episode -> PlatformStatus]
      /\ faults \in 0 .. MaxFaults
  BY <1>1, Hand
<1>3. PICK t : t = MarkCallbackDone(row[e])
  OBVIOUS
<1>4. /\ t \in EpisodeRecord(Part) /\ t.parts = row[e].parts /\ t.status = row[e].status
      /\ t.callback /\ t.checksum = row[e].checksum
  BY <1>2, <1>3, Statements
<1>5. row[e].checksum /\ platform[e] \in {"recording", "processing"}
      /\ (job.flow \notin Fresh => row[e].status = "completed")
  BY <1>1, <1>2 DEF JobFits, FreshFits, RecoveryFits, StatusAt
<1>6. EpisodeFits(e, t, file[e], object[e], platform[e], e \in damaged)
  <2>1. KeepsRecord(t, platform[e]) /\ platform[e] # "absent"
    BY <1>4, <1>5 DEF KeepsRecord
  <2>2. QED
    BY <1>2, <1>4, <2>1, SamePartsFit
<1>7. CASE job.flow = "file"
  <2>1. After[job.flow][job.step] = "shelve"
    BY <1>1, <1>7, AfterSteps
  <2>2. PICK k : k = [job EXCEPT !.step = "shelve"]
    OBVIOUS
  <2>3. "shelve" \in Step
    BY DEF Step
  <2>4. /\ k \in Job /\ k.episode = e /\ k.flow = job.flow /\ k.step = "shelve"
        /\ k.done = job.done /\ k.unmarked = job.unmarked
    BY <1>2, <2>2, <2>3, NextJob
  <2>5. FreshFits(k, t, file[e], object[e], platform[e], e \in damaged)
    BY <1>1, <1>2, <1>4, <1>7, <2>4 DEF JobFits, FreshFits, StatusAt, BeforeUpload, AfterUpload, Fresh
  <2>6. JobFits(k, agent, t, file[e], object[e], platform[e], e \in damaged)
    BY <1>1, <1>2, <1>4, <1>7, <2>4, <2>5 DEF JobFits, StepsOf, Fresh
  <2>7. QED
    BY <1>1, <1>3, <1>4, <1>6, <2>1, <2>2, <2>3, <2>6, StoreKeeps
<1>8. CASE job.flow # "file"
  <2>1. After[job.flow][job.step] = "end"
    BY <1>1, <1>2, <1>8, AfterSteps DEF Flow
  <2>2. /\ row' = [row EXCEPT ![e] = t] /\ job' = NoJob /\ UNCHANGED <<agent, todo, failedOnes>>
        /\ file' = file /\ object' = object /\ platform' = platform /\ damaged' = damaged
        /\ orphaned' = orphaned /\ faults' = faults
    BY <1>1, <1>2, <1>3, <2>1 DEF Store, SetRow, Proceed, Finished
  <2>3. /\ row'[e] = t /\ row' \in [Episode -> EpisodeRecord(Part)]
        /\ \A f \in Episode \ {e} : row'[f] = row[f]
    BY <1>2, <1>4, <2>2
  <2>4. Alone(e)
    BY <1>2, <2>2, <2>3 DEF Alone
  <2>5. agent = "recovering" => ~Unfinished(t)
    BY <1>2, <1>4, <1>5 DEF JobFits, Unfinished, NeedsUpload, NeedsCallback
  <2>6. e \in Dropped => Known(t)
    BY <1>2, <1>4, <1>5, <1>8, EpisodeAssumption DEF JobFits, FreshFits, Fresh, Flow, Known
  <2>7. Ends(e)
    BY <2>2, <2>3, <2>5, <2>6 DEF Ends
  <2>8. QED
    BY <1>1, <1>6, <2>2, <2>3, <2>4, <2>7, FlowKeeps
<1>9. QED
  BY <1>7, <1>8

\* The file is put away.
LEMMA ShelveStep ==
  ASSUME UploadInv, NEW e \in Episode, Shelve(e)
  PROVE  UploadInv'
<1>1. InHand(e) /\ job.step = "shelve" /\ Proceed
  BY DEF Shelve, At, InHand
<1>2. /\ job \in Job /\ job.episode = e /\ job.flow \in Flow
      /\ JobFits(job, agent, row[e], file[e], object[e], platform[e], e \in damaged)
      /\ EpisodeFits(e, row[e], file[e], object[e], platform[e], e \in damaged)
      /\ file[e] \in [at : Place, size : 0 .. FileSize]
      /\ row \in [Episode -> EpisodeRecord(Part)]
      /\ file \in [Episode -> [at : Place, size : 0 .. FileSize]]
      /\ object \in [Episode -> Object] /\ platform \in [Episode -> PlatformStatus]
      /\ faults \in 0 .. MaxFaults
  BY <1>1, Hand
<1>3. job.flow = "file" /\ agent = "ready"
  BY <1>1, <1>2 DEF JobFits, StepsOf, Flow, Fresh
<1>4. e \in Dropped /\ file[e].at = ".uploading" /\ platform[e] = "processing"
  BY <1>1, <1>2, <1>3 DEF JobFits, FreshFits, StatusAt, Fresh
<1>5. PICK g : g = [file[e] EXCEPT !.at = ".done"]
  OBVIOUS
<1>6. EpisodeFits(e, row[e], g, object[e], platform[e], e \in damaged)
  BY <1>2, <1>4, <1>5, PlaceFits
<1>7. g \in [at : Place, size : 0 .. FileSize] /\ g.at = ".done"
  BY <1>2, <1>5, <1>6 DEF EpisodeFits
<1>8. /\ file' = [file EXCEPT ![e] = g] /\ row' = row /\ object' = object /\ platform' = platform
      /\ damaged' = damaged /\ orphaned' = orphaned /\ faults' = faults
  BY <1>5 DEF Shelve, MoveFile
<1>9. After[job.flow][job.step] = "end"
  BY <1>1, <1>3, AfterSteps
<1>10. job' = NoJob /\ UNCHANGED <<agent, todo, failedOnes>>
  BY <1>1, <1>9 DEF Proceed, Finished
<1>11. /\ file'[e] = g /\ file' \in [Episode -> [at : Place, size : 0 .. FileSize]]
       /\ \A f \in Episode \ {e} : file'[f] = file[f]
  BY <1>2, <1>7, <1>8
<1>12. Alone(e)
  BY <1>2, <1>8, <1>11 DEF Alone
<1>13. Ends(e)
  BY <1>3, <1>7, <1>10, <1>11 DEF Ends
<1>14. QED
  BY <1>1, <1>6, <1>8, <1>11, <1>12, <1>13, FlowKeeps

------------------------------------------------------------------------------
\* The process starts, takes up work, and ends.

LEMMA Idle ==
  ASSUME UploadInv, ~Working
  PROVE  /\ job = NoJob /\ \A e \in Episode : ~InHand(e)
         /\ \A e \in Dropped : file[e].at = ".uploading" => Known(row[e]) \/ e \in orphaned
BY DEF UploadInv, Staged, InHand, Working, Episode

LEMMA DownIsIdle == UploadInv /\ agent = "down" => ~Working /\ todo = {}
<1>1. SUFFICES ASSUME UploadInv, agent = "down" PROVE ~Working /\ todo = {}
  OBVIOUS
<1>2. todo = {}
  BY <1>1 DEF UploadInv, Listed
<1>3. ~Working
  <2>1. SUFFICES ASSUME Working PROVE FALSE
    OBVIOUS
  <2>2. job.episode \in Episode
    BY <1>1, <2>1 DEF UploadInv, UploadTypeOK, Working
  <2>3. PICK e \in Episode : InHand(e)
    BY <2>1, <2>2 DEF InHand
  <2>4. QED
    BY <1>1, <2>3, Hand DEF JobFits
<1>4. QED
  BY <1>2, <1>3

\* The files, the store and the Platform stay as they are.
WorldStays == UNCHANGED <<row, file, object, platform, damaged>>

LEMMA WorldKeeps ==
  ASSUME UploadInv, WorldStays
  PROVE  /\ AllFit'
         /\ \A e \in Episode : (Unfinished(row[e])' <=> Unfinished(row[e]))
                               /\ (Known(row[e])' <=> Known(row[e]))
<1>1. row' = row /\ file' = file /\ object' = object /\ platform' = platform /\ damaged' = damaged
  BY DEF WorldStays
<1>2. AllFit'
  BY <1>1 DEF UploadInv, AllFit
<1>3. QED
  BY <1>1, <1>2

LEMMA BootStep == UploadInv /\ Boot => UploadInv'
<1>1. SUFFICES ASSUME UploadInv, Boot PROVE UploadInv'
  OBVIOUS
<1>2. /\ agent = "down" /\ agent' = "recovering" /\ todo' = UnfinishedOnes /\ failedOnes' = {}
      /\ job' = job /\ file' = file /\ orphaned' = orphaned /\ faults' = faults /\ row' = row
      /\ object' = object /\ platform' = platform /\ damaged' = damaged
  BY <1>1 DEF Boot
<1>3. ~Working /\ job' = NoJob
  BY <1>1, <1>2, DownIsIdle DEF Working
<1>4. /\ AllFit'
      /\ \A e \in Episode : (Unfinished(row[e])' <=> Unfinished(row[e]))
                            /\ (Known(row[e])' <=> Known(row[e]))
  BY <1>1, <1>2, WorldKeeps DEF WorldStays
<1>5. \A e \in Episode : ~InHand(e)'
  BY <1>3 DEF InHand, Working
<1>6. UploadTypeOK'
  BY <1>1, <1>2 DEF UploadInv, UploadTypeOK, UnfinishedOnes
<1>7. HandFits'
  BY <1>5 DEF HandFits
<1>8. Listed'
  <2>1. \A e \in Episode : e \in todo' <=> Unfinished(row[e])
    BY <1>2 DEF UnfinishedOnes
  <2>2. todo' \subseteq Episode
    BY <1>2 DEF UnfinishedOnes
  <2>3. QED
    BY <1>2, <1>4, <1>5, <2>1, <2>2 DEF Listed
<1>9. Staged'
  <2>1. \A e \in Dropped : file[e].at = ".uploading" => Known(row[e]) \/ e \in orphaned
    BY <1>1, <1>3, Idle
  <2>2. QED
    BY <1>2, <1>4, <2>1 DEF Staged, Episode
<1>10. QED
  BY <1>4, <1>6, <1>7, <1>8, <1>9 DEF UploadInv

LEMMA RecoveredStep == UploadInv /\ (Recovered \/ Exit) => UploadInv'
<1>1. SUFFICES ASSUME UploadInv, Recovered \/ Exit PROVE UploadInv'
  OBVIOUS
<1>2. /\ agent' \in {"ready", "down"} /\ todo' = todo /\ failedOnes' \subseteq failedOnes /\ ~Working
      /\ job' = job /\ file' = file /\ orphaned' = orphaned /\ faults' = faults /\ row' = row
      /\ object' = object /\ platform' = platform /\ damaged' = damaged
  BY <1>1 DEF Recovered, Exit
<1>3. todo = {}
  BY <1>1 DEF Recovered, Exit, UploadInv, Listed
<1>4. /\ AllFit'
      /\ \A e \in Episode : (Unfinished(row[e])' <=> Unfinished(row[e]))
                            /\ (Known(row[e])' <=> Known(row[e]))
  BY <1>1, <1>2, WorldKeeps DEF WorldStays
<1>5. \A e \in Episode : ~InHand(e)'
  BY <1>2 DEF InHand, Working
<1>6. UploadTypeOK'
  BY <1>1, <1>2 DEF UploadInv, UploadTypeOK
<1>7. HandFits' /\ Listed'
  BY <1>2, <1>3, <1>5 DEF HandFits, Listed
<1>8. Staged'
  <2>1. \A e \in Dropped : file[e].at = ".uploading" => Known(row[e]) \/ e \in orphaned
    BY <1>1, <1>2, Idle
  <2>2. QED
    BY <1>2, <1>4, <2>1 DEF Staged, Episode
<1>9. QED
  BY <1>4, <1>6, <1>7, <1>8 DEF UploadInv

LEMMA KillStep ==
  ASSUME UploadInv, Killed, object' \in [Episode -> Object], AllFit', damaged' \subseteq Episode
  PROVE  UploadInv'
<1>1. /\ agent' = "down" /\ todo' = {} /\ job' = NoJob /\ failedOnes' = {}
      /\ orphaned' = IF Working THEN orphaned \cup {job.episode} ELSE orphaned
      /\ row' = row /\ file' = file /\ platform' = platform /\ Fault
  BY DEF Killed
<1>2. faults' \in 0 .. MaxFaults
  BY <1>1, UploadBounds DEF Fault, UploadInv, UploadTypeOK
<1>3. orphaned' \subseteq Episode
  <2>1. Working => job.episode \in Episode
    BY DEF UploadInv, UploadTypeOK, Working
  <2>2. orphaned \subseteq Episode
    BY DEF UploadInv, UploadTypeOK
  <2>3. QED
    BY <1>1, <2>1, <2>2
<1>4. UploadTypeOK'
  BY <1>1, <1>2, <1>3 DEF UploadInv, UploadTypeOK, Object
<1>5. HandFits' /\ Listed'
  BY <1>1 DEF HandFits, Listed, InHand, Working
<1>6. Staged'
  <2>1. \A e \in Dropped : file[e].at = ".uploading" => InHand(e) \/ Known(row[e]) \/ e \in orphaned
    BY DEF UploadInv, Staged
  <2>2. \A e \in Dropped : InHand(e) \/ e \in orphaned => e \in orphaned'
    BY <1>1 DEF InHand
  <2>3. \A e \in Dropped : Known(row[e])' <=> Known(row[e])
    BY <1>1
  <2>4. QED
    BY <1>1, <2>1, <2>2, <2>3 DEF Staged
<1>7. QED
  BY <1>4, <1>5, <1>6 DEF UploadInv

\* A power cut: what the store records of the object is there, or the object is hurt.
LEMMA PowerCutStep ==
  ASSUME UploadInv, NEW e \in Episode, PowerCut(e)
  PROVE  UploadInv'
<1>1. /\ EpisodeFits(e, row[e], file[e], object[e], platform[e], e \in damaged)
      /\ object \in [Episode -> Object] /\ object[e] \in Object /\ damaged \subseteq Episode
      /\ file[e].size \in 0 .. FileSize
  BY DEF UploadInv, AllFit, UploadTypeOK, Object
<1>2. Killed /\ row' = row /\ file' = file /\ platform' = platform /\ object[e].cached # {}
  BY DEF PowerCut, Killed
<1>3. PICK n \in 0 .. FileSize : n = file[e].size
  BY <1>1
<1>4. PICK o \in Object :
           /\ object' = [object EXCEPT ![e] = o] /\ o.cached = {} /\ o.data \subseteq object[e].data
           /\ o.size = object[e].size \/ o = NoObject
  <2>1. object[e] \in [size : 0 .. FileSize, data : SUBSET Byte, cached : SUBSET Byte]
    BY <1>1, <1>2, Records DEF Object
  <2>2. ASSUME NEW kept \in SUBSET object[e].cached,
               object' = [object EXCEPT ![e] = AfterPowerCut(@, kept)]
        PROVE  \E o \in Object :
                  /\ object' = [object EXCEPT ![e] = o] /\ o.cached = {} /\ o.data \subseteq object[e].data
                  /\ o.size = object[e].size \/ o = NoObject
    <3>1. PICK o : o = AfterPowerCut(object[e], kept)
      OBVIOUS
    <3>2. object[e].cached \subseteq object[e].data
      BY <1>1 DEF EpisodeFits, KeepsObject
    <3>3. /\ o \in [size : 0 .. FileSize, data : SUBSET Byte, cached : SUBSET Byte]
          /\ o.size = object[e].size /\ o.cached = {}
          /\ o.data = (object[e].data \ object[e].cached) \cup kept
      BY <2>1, <3>1, <3>2 DEF AfterPowerCut
    <3>4. o \in Object /\ o.data \subseteq object[e].data
      BY <3>2, <3>3 DEF Object
    <3>5. object' = [object EXCEPT ![e] = o]
      BY <1>1, <2>2, <3>1
    <3>6. QED
      BY <3>3, <3>4, <3>5
  <2>3. ASSUME object' = [object EXCEPT ![e] = NoObject]
        PROVE  \E o \in Object :
                  /\ object' = [object EXCEPT ![e] = o] /\ o.cached = {} /\ o.data \subseteq object[e].data
                  /\ o.size = object[e].size \/ o = NoObject
    BY <2>3, Records
  <2>4. QED
    BY <2>2, <2>3 DEF PowerCut
<1>5. /\ object'[e] = o /\ object' \in [Episode -> Object]
      /\ \A f \in Episode \ {e} : object'[f] = object[f]
  BY <1>1, <1>4
<1>6. PICK hurt \in BOOLEAN : hurt = (e \in damaged')
  <2>1. (e \in damaged') \in BOOLEAN
    OBVIOUS
  <2>2. QED
    BY <2>1
<1>7. /\ \A f \in Episode \ {e} : f \in damaged' <=> f \in damaged
      /\ damaged' \subseteq Episode
      /\ ~hurt => e \notin damaged /\ Holds(row[e].parts, n, o.data)
  <2>1. PartsStored(e)' <=> Holds(row[e].parts, n, o.data)
    BY <1>2, <1>3, <1>5 DEF PartsStored, Holds
  <2>2. damaged' = IF Holds(row[e].parts, n, o.data) THEN damaged ELSE damaged \cup {e}
    BY <2>1 DEF PowerCut
  <2>3. \A f \in Episode \ {e} : f \in damaged' <=> f \in damaged
    BY <2>2
  <2>4. damaged' \subseteq Episode
    BY <1>1, <2>2
  <2>5. e \notin damaged' => e \notin damaged /\ Holds(row[e].parts, n, o.data)
    BY <2>2
  <2>6. QED
    BY <1>6, <2>3, <2>4, <2>5
<1>8. EpisodeFits(e, row[e], file[e], o, platform[e], hurt)
  <2>1. platform[e] # "absent"
    BY <1>1, <1>2, Records DEF EpisodeFits
  <2>2. ~hurt => row[e].parts = {} \/ o.size = n
    <3>1. SUFFICES ASSUME ~hurt, row[e].parts # {}, o = NoObject PROVE FALSE
      BY <1>1, <1>3, <1>4, <1>7 DEF EpisodeFits, KeepsObject
    <3>2. n # 0
      <4>1. object[e].cached \subseteq 1 .. n
        BY <1>1, <1>3 DEF EpisodeFits, KeepsObject
      <4>2. QED
        BY <1>2, <4>1
    <3>3. PICK p \in row[e].parts : p \in 1 .. PlanParts(n)
      BY <1>1, <1>3, <3>1 DEF EpisodeFits, KeepsObject
    <3>4. PartBytes(n, p) # {}
      BY <3>2, <3>3, PartHasBytes
    <3>5. o.data = {}
      BY <3>1, Records
    <3>6. QED
      BY <1>7, <3>1, <3>3, <3>4, <3>5 DEF Holds
  <2>3. KeepsObject(row[e], file[e], o, hurt)
    BY <1>1, <1>3, <1>4, <1>7, <2>2 DEF EpisodeFits, KeepsObject
  <2>4. e \in Collected => InOrder(row[e].parts, file[e].size, o.data)
    BY <1>1, <1>4 DEF EpisodeFits, InOrder
  <2>5. QED
    BY <1>1, <1>4, <1>6, <2>1, <2>3, <2>4 DEF EpisodeFits
<1>9. AllFit'
  <2>1. SUFFICES ASSUME NEW f \in Episode
                 PROVE  EpisodeFits(f, row'[f], file'[f], object'[f], platform'[f], f \in damaged')
    BY DEF AllFit
  <2>2. CASE f = e
    BY <1>2, <1>5, <1>6, <1>8, <2>2
  <2>3. CASE f # e
    <3>1. EpisodeFits(f, row[f], file[f], object[f], platform[f], f \in damaged)
      BY DEF UploadInv, AllFit
    <3>2. /\ row' = row /\ file' = file /\ platform' = platform /\ object'[f] = object[f]
          /\ (f \in damaged') = (f \in damaged)
      BY <1>2, <1>5, <1>7, <2>3
    <3>3. QED
      BY <3>1, <3>2
  <2>4. QED
    BY <2>2, <2>3
<1>10. QED
  BY <1>2, <1>5, <1>7, <1>9, KillStep

\* The job that a flow begins with.
LEMMA NewJob ==
  ASSUME NEW e \in Episode, NEW w \in Flow, NEW x \in Step
  PROVE  LET k == JobOf(e, w, x)
         IN  /\ k \in Job /\ k # NoJob /\ k.episode = e /\ k.flow = w /\ k.step = x
             /\ k.done = {} /\ k.unmarked = {}
<1>1. NoJob.step = "end" /\ x # "end"
  BY DEF NoJob, Step
<1>2. QED
  BY <1>1 DEF JobOf, Job

LEMMA RecoverStep ==
  ASSUME UploadInv, NEW e \in Episode, Recover(e)
  PROVE  UploadInv'
<1>1. /\ agent = "recovering" /\ ~Working /\ e \in todo /\ todo' = todo \ {e} /\ job' = RecoveryOf(e)
      /\ agent' = agent /\ failedOnes' = failedOnes
      /\ file' = file /\ orphaned' = orphaned /\ faults' = faults /\ row' = row
      /\ object' = object /\ platform' = platform /\ damaged' = damaged
  BY DEF Recover
<1>2. Unfinished(row[e]) /\ \A f \in Episode : ~InHand(f)
  BY <1>1, Idle DEF UploadInv, Listed
<1>3. EpisodeFits(e, row[e], file[e], object[e], platform[e], e \in damaged)
  BY DEF UploadInv, AllFit
<1>4. PICK k : k = RecoveryOf(e)
  OBVIOUS
<1>5. /\ k \in Job /\ k # NoJob /\ k.episode = e /\ k.done = {} /\ k.unmarked = {}
      /\ \/ k.flow = "resume" /\ k.step = "open"
         \/ k.flow = "resend" /\ k.step = "report" /\ row[e].status = "completed"
  <2>1. "resume" \in Flow /\ "resend" \in Flow /\ "open" \in Step /\ "report" \in Step
    BY DEF Flow, Step
  <2>2. CASE NeedsUpload(row[e])
    <3>1. k = JobOf(e, "resume", "open")
      BY <1>4, <2>2 DEF RecoveryOf
    <3>2. QED
      BY <2>1, <3>1, NewJob
  <2>3. CASE ~NeedsUpload(row[e])
    <3>1. k = JobOf(e, "resend", "report") /\ row[e].status = "completed"
      BY <1>2, <1>4, <2>3 DEF RecoveryOf, Unfinished, NeedsCallback
    <3>2. QED
      BY <2>1, <3>1, NewJob
  <2>4. QED
    BY <2>2, <2>3
<1>6. JobFits(k, agent, row[e], file[e], object[e], platform[e], e \in damaged)
  <2>1. Known(row[e])
    BY <1>2 DEF Unfinished, NeedsUpload, NeedsCallback, Known
  <2>2. k.flow \notin Fresh /\ k.step \in StepsOf(k.flow) /\ k.step # "write"
    BY <1>5 DEF Fresh, StepsOf
  <2>3. RecoveryFits(k, row[e], platform[e])
    BY <1>5, <2>1 DEF RecoveryFits
  <2>4. QED
    BY <1>1, <1>5, <2>2, <2>3 DEF JobFits, Holds
<1>7. /\ AllFit'
      /\ \A f \in Episode : (Unfinished(row[f])' <=> Unfinished(row[f]))
                            /\ (Known(row[f])' <=> Known(row[f]))
  BY <1>1, WorldKeeps DEF WorldStays
<1>8. \A f \in Episode : InHand(f)' <=> f = e
  BY <1>1, <1>4, <1>5 DEF InHand, Working
<1>9. UploadTypeOK'
  <2>1. job' \in {NoJob} \cup Job
    BY <1>1, <1>4, <1>5
  <2>2. QED
    BY <1>1, <2>1 DEF UploadInv, UploadTypeOK, Job
<1>10. HandFits'
  BY <1>1, <1>4, <1>6, <1>8 DEF HandFits
<1>11. Listed'
  <2>1. \A f \in Episode : Unfinished(row[f]) => f \in todo \cup failedOnes
    BY <1>1, <1>2 DEF UploadInv, Listed
  <2>2. \A f \in todo : Unfinished(row[f]) /\ f \in Episode
    BY DEF UploadInv, Listed, UploadTypeOK
  <2>3. QED
    BY <1>1, <1>7, <1>8, <2>1, <2>2 DEF Listed
<1>12. Staged'
  <2>1. \A f \in Dropped : file[f].at = ".uploading" => Known(row[f]) \/ f \in orphaned
    BY <1>1, Idle
  <2>2. QED
    BY <1>1, <1>7, <2>1 DEF Staged, Episode
<1>13. QED
  BY <1>7, <1>9, <1>10, <1>11, <1>12 DEF UploadInv

\* A file that another hand puts into a directory, or moves there.
LEMMA FileMoves ==
  ASSUME UploadInv, NEW e \in Dropped, NEW g \in [at : Place, size : 0 .. FileSize],
         file' = [file EXCEPT ![e] = g], file[e].at \in {"nowhere", "inbox"},
         g.at \notin {"nowhere", "recording", ".uploading", ".done"}, g.size = FileSize,
         UNCHANGED <<process, row, object, platform, damaged, orphaned>>, faults' \in 0 .. MaxFaults
  PROVE  UploadInv'
<1>1. /\ row' = row /\ object' = object /\ platform' = platform /\ damaged' = damaged
      /\ orphaned' = orphaned /\ agent' = agent /\ todo' = todo /\ job' = job
      /\ failedOnes' = failedOnes
  BY DEF process
<1>2. e \in Episode /\ e \notin Collected
  BY EpisodeAssumption DEF Episode
<1>3. /\ EpisodeFits(e, row[e], file[e], object[e], platform[e], e \in damaged)
      /\ file \in [Episode -> [at : Place, size : 0 .. FileSize]]
  BY <1>2 DEF UploadInv, AllFit, UploadTypeOK
<1>4. platform[e] = "absent" /\ row[e] = NoRecord /\ object[e] = NoObject
  BY <1>2, <1>3 DEF EpisodeFits, KeepsFile
<1>5. /\ file'[e] = g /\ file' \in [Episode -> [at : Place, size : 0 .. FileSize]]
      /\ \A f \in Episode \ {e} : file'[f] = file[f]
  BY <1>2, <1>3
<1>6. ~InHand(e)
  <2>1. SUFFICES ASSUME InHand(e) PROVE FALSE
    OBVIOUS
  <2>2. JobFits(job, agent, row[e], file[e], object[e], platform[e], e \in damaged) /\ job.episode = e
    BY <1>2, <2>1, Hand
  <2>3. job.flow \in Fresh
    BY <1>4, <2>2, Records DEF JobFits, RecoveryFits, Known
  <2>4. QED
    BY <1>2, <2>2, <2>3 DEF JobFits, FreshFits, Fresh
<1>7. EpisodeFits(e, row[e], g, object[e], platform[e], e \in damaged)
  <2>1. KeepsFile(e, g, platform[e])
    BY <1>2, <1>4 DEF KeepsFile
  <2>2. KeepsObject(row[e], g, object[e], e \in damaged)
    BY <1>4, Records DEF KeepsObject, Holds
  <2>3. QED
    BY <1>2, <1>3, <2>1, <2>2 DEF EpisodeFits
<1>8. UploadTypeOK'
  BY <1>1, <1>5 DEF UploadInv, UploadTypeOK
<1>9. AllFit'
  <2>1. SUFFICES ASSUME NEW f \in Episode
                 PROVE  EpisodeFits(f, row'[f], file'[f], object'[f], platform'[f], f \in damaged')
    BY DEF AllFit
  <2>2. CASE f = e
    BY <1>1, <1>5, <1>7, <2>2
  <2>3. CASE f # e
    BY <1>1, <1>5, <2>3 DEF UploadInv, AllFit
  <2>4. QED
    BY <2>2, <2>3
<1>10. \A f \in Episode : InHand(f)' <=> InHand(f)
  BY <1>1 DEF InHand, Working
<1>11. HandFits'
  <2>1. SUFFICES ASSUME NEW f \in Episode, InHand(f)
                 PROVE  JobFits(job', agent', row'[f], file'[f], object'[f], platform'[f], f \in damaged')
    BY <1>10 DEF HandFits
  <2>2. JobFits(job, agent, row[f], file[f], object[f], platform[f], f \in damaged)
    BY <2>1, Hand
  <2>3. f # e
    BY <1>6, <2>1
  <2>4. QED
    BY <1>1, <1>5, <2>2, <2>3
<1>12. Listed'
  <2>1. \A f \in Episode : Unfinished(row[f])' <=> Unfinished(row[f])
    BY <1>1
  <2>2. todo \subseteq Episode
    BY DEF UploadInv, UploadTypeOK
  <2>3. QED
    BY <1>1, <1>10, <2>1, <2>2 DEF UploadInv, Listed
<1>13. Staged'
  <2>1. SUFFICES ASSUME NEW f \in Dropped, file'[f].at = ".uploading"
                 PROVE  InHand(f)' \/ Known(row[f])' \/ f \in orphaned'
    BY DEF Staged
  <2>2. f # e /\ f \in Episode
    BY <1>5, <2>1 DEF Episode
  <2>3. InHand(f) \/ Known(row[f]) \/ f \in orphaned
    BY <1>5, <2>1, <2>2 DEF UploadInv, Staged
  <2>4. QED
    BY <1>1, <1>10, <2>2, <2>3
<1>14. QED
  BY <1>8, <1>9, <1>11, <1>12, <1>13 DEF UploadInv

LEMMA LandStep ==
  ASSUME UploadInv, NEW e \in Episode, Land(e)
  PROVE  UploadInv'
<1>1. /\ e \in Dropped /\ file[e].at = "nowhere" /\ faults' = faults
      /\ file' = [file EXCEPT ![e] = [at |-> "inbox", size |-> FileSize]]
      /\ UNCHANGED <<process, row, object, platform, damaged, orphaned>>
  BY DEF Land
<1>2. PICK g : g = [at |-> "inbox", size |-> FileSize]
  OBVIOUS
<1>3. g \in [at : Place, size : 0 .. FileSize] /\ g.at = "inbox" /\ g.size = FileSize
  BY <1>2, FileSizeAssumption DEF Place
<1>4. faults' \in 0 .. MaxFaults
  BY <1>1 DEF UploadInv, UploadTypeOK
<1>5. QED
  BY <1>1, <1>2, <1>3, <1>4, FileMoves

LEMMA RefuseStep ==
  ASSUME UploadInv, NEW e \in Episode, Refuse(e)
  PROVE  UploadInv'
<1>1. /\ ~Working /\ file[e].at = "inbox" /\ Fault
      /\ UNCHANGED <<process, row, object, platform, damaged, orphaned>>
  BY DEF Refuse
<1>2. PICK place \in {".failed", ".rejected"} : file' = [file EXCEPT ![e].at = place]
  BY DEF Refuse, MoveFile
<1>3. /\ EpisodeFits(e, row[e], file[e], object[e], platform[e], e \in damaged)
      /\ file \in [Episode -> [at : Place, size : 0 .. FileSize]]
      /\ file[e] \in [at : Place, size : 0 .. FileSize] /\ faults \in 0 .. MaxFaults
  BY DEF UploadInv, AllFit, UploadTypeOK
<1>4. e \in Dropped /\ file[e].size = FileSize
  BY <1>1, <1>3 DEF EpisodeFits, KeepsFile, Episode
<1>5. PICK g : g = [file[e] EXCEPT !.at = place]
  OBVIOUS
<1>6. g \in [at : Place, size : 0 .. FileSize] /\ g.at = place /\ g.size = FileSize
  BY <1>2, <1>3, <1>4, <1>5 DEF Place
<1>7. file' = [file EXCEPT ![e] = g] /\ faults' \in 0 .. MaxFaults
  BY <1>1, <1>2, <1>3, <1>5, UploadBounds DEF Fault
<1>8. QED
  BY <1>1, <1>2, <1>4, <1>6, <1>7, FileMoves

\* A flow begins that is not a recovery.
LEMMA FlowBegins ==
  ASSUME UploadInv, NEW e \in Episode, NEW w \in Fresh, NEW g,
         agent = "ready", ~Working, job' = JobOf(e, w, "create"),
         file' = [file EXCEPT ![e] = g], platform[e] = "absent",
         EpisodeFits(e, row[e], g, object[e], platform[e], e \in damaged),
         IF w = "collect" THEN e \in Collected ELSE e \in Dropped /\ g.at = ".uploading",
         UNCHANGED <<agent, todo, failedOnes, row, object, platform, damaged, orphaned, faults>>
  PROVE  UploadInv'
<1>1. /\ row' = row /\ object' = object /\ platform' = platform /\ damaged' = damaged
      /\ orphaned' = orphaned /\ agent' = agent /\ todo' = todo
      /\ failedOnes' = failedOnes /\ faults' = faults
  OBVIOUS
<1>2. /\ file \in [Episode -> [at : Place, size : 0 .. FileSize]]
      /\ g \in [at : Place, size : 0 .. FileSize]
  BY DEF UploadInv, UploadTypeOK, EpisodeFits
<1>3. /\ file'[e] = g /\ file' \in [Episode -> [at : Place, size : 0 .. FileSize]]
      /\ \A f \in Episode \ {e} : file'[f] = file[f]
  BY <1>2
<1>4. PICK k : k = JobOf(e, w, "create")
  OBVIOUS
<1>5. /\ k \in Job /\ k # NoJob /\ k.episode = e /\ k.flow = w /\ k.step = "create"
      /\ k.done = {} /\ k.unmarked = {}
  <2>1. "create" \in Step /\ w \in Flow
    BY DEF Step, Fresh, Flow
  <2>2. QED
    BY <1>4, <2>1, NewJob
<1>6. row[e] = NoRecord /\ object[e] = NoObject /\ e \notin damaged
  BY DEF EpisodeFits
<1>7. FreshFits(k, row[e], g, object[e], platform[e], e \in damaged)
  <2>1. row[e].parts = {} /\ ~row[e].callback
    BY <1>6, Records
  <2>2. w = "collect" => e \in Collected /\ g.at = "nowhere"
    BY DEF EpisodeFits, KeepsFile
  <2>3. w = "file" => e \in Dropped /\ g.at = ".uploading"
    OBVIOUS
  <2>4. k.step \notin AfterUpload(k.flow) /\ platform[e] = StatusAt(k.flow, k.step)
    BY <1>5 DEF AfterUpload, StatusAt
  <2>5. QED
    BY <1>5, <1>6, <2>1, <2>2, <2>3, <2>4 DEF FreshFits
<1>8. JobFits(k, agent, row[e], g, object[e], platform[e], e \in damaged)
  <2>1. k.step \in StepsOf(k.flow)
    BY <1>5 DEF StepsOf, Fresh
  <2>2. QED
    BY <1>5, <1>7, <2>1 DEF JobFits, Holds
<1>9. \A f \in Episode : InHand(f)' <=> f = e
  BY <1>4, <1>5 DEF InHand, Working
<1>10. UploadTypeOK'
  <2>1. job' \in {NoJob} \cup Job
    BY <1>4, <1>5
  <2>2. QED
    BY <1>1, <1>3, <2>1 DEF UploadInv, UploadTypeOK, Job
<1>11. AllFit'
  <2>1. SUFFICES ASSUME NEW f \in Episode
                 PROVE  EpisodeFits(f, row'[f], file'[f], object'[f], platform'[f], f \in damaged')
    BY DEF AllFit
  <2>2. CASE f = e
    BY <1>1, <1>3, <2>2
  <2>3. CASE f # e
    BY <1>1, <1>3, <2>3 DEF UploadInv, AllFit
  <2>4. QED
    BY <2>2, <2>3
<1>12. HandFits'
  BY <1>1, <1>3, <1>4, <1>8, <1>9 DEF HandFits
<1>13. Listed'
  <2>1. todo = {}
    BY DEF UploadInv, Listed
  <2>2. QED
    BY <1>1, <2>1 DEF Listed
<1>14. Staged'
  <2>1. SUFFICES ASSUME NEW f \in Dropped, file'[f].at = ".uploading"
                 PROVE  InHand(f)' \/ Known(row[f])' \/ f \in orphaned'
    BY DEF Staged
  <2>2. CASE f = e
    BY <1>9, <2>2
  <2>3. CASE f # e
    <3>1. f \in Episode /\ file'[f] = file[f]
      BY <1>3, <2>3 DEF Episode
    <3>2. Known(row[f]) \/ f \in orphaned
      BY <2>1, <3>1, Idle
    <3>3. QED
      BY <1>1, <3>2
  <2>4. QED
    BY <2>2, <2>3
<1>15. QED
  BY <1>10, <1>11, <1>12, <1>13, <1>14 DEF UploadInv

LEMMA CollectStep ==
  ASSUME UploadInv, NEW e \in Episode, Collect(e)
  PROVE  UploadInv'
<1>1. /\ agent = "ready" /\ ~Working /\ e \in Collected /\ platform[e] = "absent"
      /\ job' = JobOf(e, "collect", "create") /\ file' = file
      /\ UNCHANGED <<agent, todo, failedOnes, row, object, platform, damaged, orphaned, faults>>
  BY DEF Collect
<1>2. /\ EpisodeFits(e, row[e], file[e], object[e], platform[e], e \in damaged)
      /\ file \in [Episode -> [at : Place, size : 0 .. FileSize]]
  BY DEF UploadInv, AllFit, UploadTypeOK
<1>3. PICK g : g = file[e]
  OBVIOUS
<1>4. file' = [file EXCEPT ![e] = g]
  BY <1>1, <1>2, <1>3
<1>5. PICK w \in Fresh : w = "collect"
  BY DEF Fresh
<1>6. QED
  BY <1>1, <1>2, <1>3, <1>4, <1>5, FlowBegins

LEMMA TakeStep ==
  ASSUME UploadInv, NEW e \in Episode, Take(e)
  PROVE  UploadInv'
<1>1. /\ agent = "ready" /\ ~Working /\ file[e].at = "inbox"
      /\ job' = JobOf(e, "file", "create") /\ file' = [file EXCEPT ![e].at = ".uploading"]
      /\ UNCHANGED <<agent, todo, failedOnes, row, object, platform, damaged, orphaned, faults>>
  BY DEF Take, MoveFile
<1>2. /\ EpisodeFits(e, row[e], file[e], object[e], platform[e], e \in damaged)
      /\ file \in [Episode -> [at : Place, size : 0 .. FileSize]]
      /\ file[e] \in [at : Place, size : 0 .. FileSize]
  BY DEF UploadInv, AllFit, UploadTypeOK
<1>3. e \in Dropped /\ platform[e] = "absent"
  BY <1>1, <1>2 DEF EpisodeFits, KeepsFile, Episode
<1>4. PICK g : g = [file[e] EXCEPT !.at = ".uploading"]
  OBVIOUS
<1>5. file' = [file EXCEPT ![e] = g] /\ g.at = ".uploading"
  BY <1>1, <1>2, <1>4
<1>6. EpisodeFits(e, row[e], g, object[e], platform[e], e \in damaged)
  BY <1>1, <1>2, <1>3, <1>4, PlaceFits
<1>7. PICK w \in Fresh : w = "file"
  BY DEF Fresh
<1>8. QED
  BY <1>1, <1>3, <1>5, <1>6, <1>7, FlowBegins

------------------------------------------------------------------------------
LEMMA UploadInitFits == UploadInit => UploadInv
<1>1. SUFFICES ASSUME UploadInit PROVE UploadInv
  OBVIOUS
<1>2. ~Working /\ \A e \in Episode : ~InHand(e)
  BY <1>1 DEF UploadInit, Working, InHand
<1>3. 0 \in 0 .. FileSize /\ 0 \in 0 .. MaxFaults
  BY FileSizeAssumption, UploadBounds
<1>4. PICK g : g = [at |-> "nowhere", size |-> 0]
  OBVIOUS
<1>5. g \in [at : Place, size : 0 .. FileSize] /\ g.at = "nowhere" /\ g.size = 0
  BY <1>3, <1>4 DEF Place
<1>6. /\ row = [e \in Episode |-> NoRecord] /\ file = [e \in Episode |-> g]
      /\ object = [e \in Episode |-> NoObject] /\ platform = [e \in Episode |-> "absent"]
  BY <1>1, <1>4 DEF UploadInit
<1>7. UploadTypeOK
  BY <1>1, <1>3, <1>5, <1>6, Records DEF UploadInit, UploadTypeOK, PlatformStatus
<1>8. AllFit
  <2>1. SUFFICES ASSUME NEW e \in Episode
                 PROVE  EpisodeFits(e, NoRecord, g, NoObject, "absent", FALSE)
    <3>1. \A e \in Episode : /\ row[e] = NoRecord /\ file[e] = g /\ object[e] = NoObject
                              /\ platform[e] = "absent" /\ (e \in damaged) = FALSE
      BY <1>1, <1>6 DEF UploadInit
    <3>2. QED
      BY <3>1, <2>1 DEF AllFit
  <2>2. KeepsFile(e, g, "absent") /\ KeepsRecord(NoRecord, "absent")
    BY <1>5, Records DEF KeepsFile, KeepsRecord
  <2>3. KeepsObject(NoRecord, g, NoObject, FALSE) /\ InOrder({}, 0, {})
    BY Records DEF KeepsObject, Holds, InOrder
  <2>4. QED
    BY <1>5, <2>2, <2>3, Records DEF EpisodeFits, PlatformStatus
<1>9. HandFits /\ Listed /\ Staged
  BY <1>1, <1>2, <1>5, <1>6 DEF HandFits, Listed, Staged, UploadInit, Episode
<1>10. QED
  BY <1>7, <1>8, <1>9 DEF UploadInv

LEMMA JobStepKeeps ==
  ASSUME UploadInv, NEW e \in Episode, JobStep(e)
  PROVE  UploadInv'
BY CreateStep, RecordStep, FilmStep, FinishStep, BeginStep, OpenStep, WriteStep, MarkStep,
   WriteFailsStep, UploadedStep, StartStep, MarkAgainStep, CompleteStep, ReportStep, CloseStep,
   ShelveStep DEF JobStep

LEMMA UploadStepKeeps == UploadInv /\ [UploadNext]_uploadVars => UploadInv'
<1>1. SUFFICES ASSUME UploadInv, [UploadNext]_uploadVars PROVE UploadInv'
  OBVIOUS
<1>2. CASE Boot
  BY <1>1, <1>2, BootStep
<1>3. CASE Recovered \/ Exit
  BY <1>1, <1>3, RecoveredStep
<1>4. CASE Kill
  <2>1. /\ Killed /\ object' = object /\ damaged' = damaged /\ row' = row /\ file' = file
        /\ platform' = platform
    BY <1>4 DEF Kill, Killed
  <2>2. object' \in [Episode -> Object] /\ damaged' \subseteq Episode
    BY <1>1, <2>1 DEF UploadInv, UploadTypeOK, Object
  <2>3. AllFit'
    BY <1>1, <2>1, WorldKeeps DEF WorldStays
  <2>4. QED
    BY <1>1, <2>1, <2>2, <2>3, KillStep
<1>5. CASE \E e \in Episode : \/ JobStep(e) \/ Recover(e) \/ Collect(e) \/ Take(e)
                              \/ Refuse(e) \/ Land(e) \/ PowerCut(e)
  BY <1>1, <1>5, JobStepKeeps, RecoverStep, CollectStep, TakeStep, RefuseStep, LandStep, PowerCutStep
<1>6. CASE UNCHANGED uploadVars
  <2>1. /\ agent' = agent /\ todo' = todo /\ job' = job /\ failedOnes' = failedOnes /\ row' = row
        /\ file' = file /\ object' = object /\ platform' = platform /\ damaged' = damaged
        /\ orphaned' = orphaned /\ faults' = faults
    BY <1>6 DEF uploadVars
  <2>2. AllFit'
    BY <1>1, <2>1, WorldKeeps DEF WorldStays
  <2>3. UploadTypeOK'
    BY <1>1, <2>1 DEF UploadInv, UploadTypeOK
  <2>4. HandFits'
    BY <1>1, <2>1 DEF UploadInv, HandFits, InHand, Working
  <2>5. Listed' /\ Staged'
    BY <1>1, <2>1 DEF UploadInv, Listed, Staged, InHand, Working
  <2>6. QED
    BY <2>2, <2>3, <2>4, <2>5 DEF UploadInv
<1>7. QED
  BY <1>1, <1>2, <1>3, <1>4, <1>5, <1>6 DEF UploadNext, AgentStep

LEMMA UploadAlways == UploadSpec => []UploadInv
<1>1. UploadInit => UploadInv
  BY UploadInitFits
<1>2. UploadInv /\ [UploadNext]_uploadVars => UploadInv'
  BY UploadStepKeeps
<1>3. QED
  BY <1>1, <1>2, PTL DEF UploadSpec

\* The Agent's state, the files and the Platform's status have their types, for any number
\* of Episodes and whatever the sizes of files and chunks.
THEOREM UploadTypes == UploadSpec => []UploadTypeOK
<1>1. UploadInv => UploadTypeOK
  BY DEF UploadInv
<1>2. QED
  BY <1>1, UploadAlways, PTL

------------------------------------------------------------------------------
\* What follows.

LEMMA FitRecords == UploadInv => RecordFollowsObject
<1>1. SUFFICES ASSUME UploadInv PROVE RecordFollowsObject
  OBVIOUS
<1>2. \A e \in Episode : EpisodeFits(e, row[e], file[e], object[e], platform[e], e \in damaged)
  BY <1>1 DEF UploadInv, AllFit
<1>3. RecordedPartsAreStored
  BY <1>2 DEF RecordedPartsAreStored, PartsStored, EpisodeFits, KeepsObject, Holds
<1>4. ASSUME NEW e \in Collected
      PROVE  Cardinality({p \in 1 .. TotalParts(e) \ row[e].parts :
                             PartBytes(file[e].size, p) \cap object[e].data # {}}) <= 1
  <2>1. PICK S : S = {p \in 1 .. TotalParts(e) \ row[e].parts :
                         PartBytes(file[e].size, p) \cap object[e].data # {}}
    OBVIOUS
  <2>2. file[e].size \in Nat /\ InOrder(row[e].parts, file[e].size, object[e].data)
    BY <1>2, <1>4, FileSizeAssumption DEF EpisodeFits, Episode
  <2>3. \A p \in S : p \in Nat \ {0} /\ p \notin row[e].parts /\ 1 .. p - 1 \subseteq row[e].parts
    BY <2>1, <2>2, PartsPlanned DEF InOrder, TotalParts
  <2>4. \A p, q \in S : p = q
    <3>1. SUFFICES ASSUME NEW p \in S, NEW q \in S, p < q PROVE FALSE
      BY <2>3
    <3>2. p \in 1 .. q - 1
      BY <2>3, <3>1
    <3>3. QED
      BY <2>3, <3>2
  <2>5. CASE S = {}
    BY <2>1, <2>5, FS_EmptySet
  <2>6. CASE S # {}
    <3>1. PICK p : S = {p}
      BY <2>4, <2>6
    <3>2. Cardinality(S) = 1
      BY <3>1, FS_Singleton
    <3>3. Cardinality(S) <= 1
      BY <3>2
    <3>4. QED
      BY <2>1, <3>3
  <2>7. QED
    BY <2>5, <2>6
<1>5. QED
  BY <1>3, <1>4 DEF RecordFollowsObject, KillCostsOnePart

LEMMA FitReported == UploadInv => ReportedIsHandedOver
BY DEF UploadInv, AllFit, EpisodeFits, KeepsRecord, KeepsFile, ReportedIsHandedOver

\* Whatever the flow that wrote a part and wherever it was killed, the local store is never
\* ahead of the object but for a power cut, nor more than a part behind; and what it calls
\* reported the Platform has, or will never ask for.
THEOREM StoreAlwaysTellsTruth == UploadSpec => []StoreTellsTruth
<1>1. UploadInv => StoreTellsTruth
  BY FitRecords, FitReported DEF StoreTellsTruth
<1>2. QED
  BY <1>1, UploadAlways, PTL

\* recover() looks at all that is unfinished, or says that it failed; and no file in
\* .uploading/ is unknown to it, but where a kill came before the record.
THEOREM RecoveryAlwaysLooks == UploadSpec => []RecoveryOverlooksNothing
<1>1. UploadInv => CleanRecoveryLeavesNothing
  BY DEF UploadInv, Listed, InHand, CleanRecoveryLeavesNothing, UnfinishedOnes
<1>2. UploadInv => StagedFileHasRecord
  BY DEF UploadInv, Staged, InHand, StagedFileHasRecord
<1>3. UploadInv => RecoveryOverlooksNothing
  BY <1>1, <1>2 DEF RecoveryOverlooksNothing
<1>4. QED
  BY <1>3, UploadAlways, PTL

\* upload() has covered the file when a flow that is not a recovery reports it.
LEMMA WholeAtReport ==
  ASSUME UploadInv, NEW e \in Episode, InHand(e), job.step = "report", job.flow \in Fresh
  PROVE  Whole(e)
<1>1. /\ JobFits(job, agent, row[e], file[e], object[e], platform[e], e \in damaged)
      /\ EpisodeFits(e, row[e], file[e], object[e], platform[e], e \in damaged)
      /\ job.episode = e
  BY Hand
<1>2. FreshFits(job, row[e], file[e], object[e], platform[e], e \in damaged)
  BY <1>1 DEF JobFits
<1>3. file[e].size = FileSize
  BY <1>1, <1>2 DEF FreshFits, Fresh, EpisodeFits, KeepsFile
<1>4. object[e].data \subseteq 1 .. FileSize
  BY <1>1, <1>3 DEF EpisodeFits, KeepsObject
<1>5. 1 .. PlanParts(FileSize) \subseteq job.done /\ Holds(job.done, FileSize, object[e].data)
  BY <1>1, <1>2, <1>3 DEF JobFits, FreshFits, AfterUpload
<1>6. ASSUME NEW b \in 1 .. FileSize PROVE b \in object[e].data
  <2>1. PICK p \in 1 .. PlanParts(FileSize) : b \in PartBytes(FileSize, p)
    BY PartsCoverFile, FileSizeAssumption
  <2>2. QED
    BY <1>5, <2>1 DEF Holds
<1>7. QED
  BY <1>4, <1>6 DEF Whole

LEMMA OnlyReportHandsOver ==
  ASSUME UploadInv, UploadNext, NEW f \in Episode, platform[f] = "uploading",
         platform'[f] = "processing"
  PROVE  Report(f) /\ Verifies(f)
<1>1. platform \in [Episode -> PlatformStatus]
  BY DEF UploadInv, UploadTypeOK
<1>2. platform' # platform
  OBVIOUS
<1>3. ASSUME NEW e \in Episode, NEW s \in {"recording", "uploading"},
             Request([platform EXCEPT ![e] = s])
      PROVE  FALSE
  <2>1. platform' = platform \/ platform' = [platform EXCEPT ![e] = s]
    BY <1>3 DEF Request
  <2>2. QED
    BY <1>1, <2>1
<1>4. ASSUME NEW e \in Episode, Create(e) PROVE FALSE
  <2>1. PICK s \in {"recording", "uploading"} : s = "recording"
    OBVIOUS
  <2>2. Request([platform EXCEPT ![e] = s])
    BY <1>4, <2>1 DEF Create
  <2>3. QED
    BY <1>3, <2>2
<1>5. ASSUME NEW e \in Episode, Begin(e) PROVE FALSE
  <2>1. platform[e] \in PlatformStatus
    BY <1>1
  <2>2. PICK s : s = (IF platform[e] = "recording" THEN "uploading" ELSE platform[e])
    OBVIOUS
  <2>3. Request([platform EXCEPT ![e] = s])
    BY <1>1, <1>5, <2>2 DEF Begin
  <2>4. platform' = platform \/ platform' = [platform EXCEPT ![e] = s]
    BY <2>3 DEF Request
  <2>5. QED
    BY <1>1, <2>2, <2>4
<1>6. ASSUME NEW e \in Episode, Report(e) PROVE e = f /\ Verifies(f)
  <2>1. /\ Verifies(e)
        /\ Request([platform EXCEPT ![e] = IF @ = "uploading" THEN "processing" ELSE @])
    BY <1>2, <1>6 DEF Report
  <2>2. PICK s : s = (IF platform[e] = "uploading" THEN "processing" ELSE platform[e])
    OBVIOUS
  <2>3. Request([platform EXCEPT ![e] = s])
    BY <1>1, <2>1, <2>2
  <2>4. platform' = platform \/ platform' = [platform EXCEPT ![e] = s]
    BY <2>3 DEF Request
  <2>5. e = f
    BY <1>1, <2>4
  <2>6. QED
    BY <2>1, <2>5
<1>7. ASSUME NEW e \in Episode, JobStep(e) PROVE Create(e) \/ Begin(e) \/ Report(e)
  <2>1. /\ ~Record(e) /\ ~Finish(e) /\ ~Start(e) /\ ~MarkAgain(e) /\ ~Complete(e) /\ ~Close(e)
    BY <1>2 DEF Record, Finish, Start, MarkAgain, Complete, Close, Store
  <2>2. /\ ~Film(e) /\ ~Open(e) /\ ~WriteFails(e) /\ ~Uploaded(e) /\ ~Shelve(e)
        /\ \A p \in 1 .. TotalParts(e) : ~Write(e, p) /\ ~Mark(e, p)
    BY <1>2 DEF Film, Open, WriteFails, Uploaded, Shelve, Write, Mark
  <2>3. QED
    BY <1>7, <2>1, <2>2 DEF JobStep
<1>8. /\ ~Boot /\ ~Recovered /\ ~Exit /\ ~Kill
      /\ \A e \in Episode : ~Recover(e) /\ ~Collect(e) /\ ~Take(e) /\ ~Refuse(e) /\ ~Land(e)
                            /\ ~PowerCut(e)
  BY <1>2 DEF Boot, Recovered, Exit, Kill, Killed, Recover, Collect, Take, Refuse, Land, PowerCut
<1>9. PICK e \in Episode : JobStep(e)
  BY <1>8 DEF UploadNext, AgentStep
<1>10. Report(e)
  BY <1>4, <1>5, <1>7, <1>9
<1>11. QED
  BY <1>6, <1>10

\* The Platform takes no upload callback for a damaged object: the flow that has just
\* uploaded has the whole file there, and recovery declares the checksum of the whole file.
THEOREM NeverDamagedAccepted == UploadSpec => NoDamagedObjectAccepted
<1>1. ASSUME UploadInv, UploadNext, NEW e \in Episode,
             platform[e] = "uploading", platform'[e] = "processing"
      PROVE  Whole(e) \/ object[e] = NoObject
  <2>1. Report(e) /\ Verifies(e)
    BY <1>1, OnlyReportHandsOver
  <2>2. InHand(e) /\ job.step = "report"
    BY <2>1 DEF Report, At, InHand
  <2>3. CASE job.flow \in Fresh
    BY <1>1, <2>2, <2>3, WholeAtReport
  <2>4. CASE job.flow \notin Fresh
    BY <2>1, <2>4 DEF Verifies, Fresh
  <2>5. QED
    BY <2>3, <2>4
<1>2. UploadInv /\ [UploadNext]_uploadVars =>
        [\A e \in Episode : platform[e] = "uploading" /\ platform'[e] = "processing" =>
             Whole(e) \/ object[e] = NoObject]_uploadVars
  BY <1>1
<1>3. QED
  BY <1>2, UploadAlways, PTL DEF UploadSpec, NoDamagedObjectAccepted

------------------------------------------------------------------------------
(***************************************************************************)
(* DirectoryWatch.                                                         *)
(***************************************************************************)
\* The inductive invariant.

\* What wait_until_stable has sampled of the file it watches.
Sampled ==
    \A n \in Name : watch.name = n /\ watch.last >= 0 =>
        /\ watch.last <= size[n]
        /\ watch.last = size[n] /\ size[n] \in 1 .. FullSize - 1 => watch.unchanged < still[n]

\* A marker is written when the copy is whole.
MarkedWhole ==
    \A n \in Name : marker[n] /\ marked[n] = generation[n] => size[n] \in {-1, FullSize}

WatchInv ==
    /\ WatchTypeOK /\ marked \in [Name -> Nat] /\ IsFiniteSet(Present)
    /\ Sampled /\ MarkedWhole

LEMMA NotWatched ==
  /\ NotWatching.name = Nobody /\ NotWatching.last = -1
  /\ NotWatching.unchanged = 0 /\ NotWatching.elapsed = 0
BY DEF NotWatching

Watched == [name : Name \cup {Nobody}, last : -1 .. FullSize,
            unchanged : 0 .. StableCount - 1, elapsed : 0 .. Timeout]

LEMMA NotWatchingFits == NotWatching \in Watched
<1>1. -1 \in -1 .. FullSize /\ 0 \in 0 .. StableCount - 1 /\ 0 \in 0 .. Timeout
  BY WatchAssumption
<1>2. QED
  BY <1>1 DEF NotWatching, Watched

LEMMA SetToSeqOf ==
  ASSUME NEW S, IsFiniteSet(S)
  PROVE  SetToSeq(S) \in Seq(S) /\ Len(SetToSeq(S)) = Cardinality(S)
<1>1. Cardinality(S) \in Nat
  BY FS_CardinalityType
<1>2. ExistsBijection(1 .. Cardinality(S), S)
  BY FS_CardinalityType
<1>3. \E f \in [1 .. Cardinality(S) -> S] : IsInjective(f)
  BY <1>2 DEF ExistsBijection, Bijection, Injection
<1>4. SetToSeq(S) \in [1 .. Cardinality(S) -> S]
  BY <1>3 DEF SetToSeq
<1>5. QED
  BY <1>1, <1>4

LEMMA PresentInSeq ==
  ASSUME WatchInv
  PROVE  /\ SetToSeq(Present) \in Seq(Name) /\ Len(SetToSeq(Present)) = Cardinality(Present)
         /\ Cardinality(Present) \in Nat /\ Present \subseteq Name
<1>1. IsFiniteSet(Present) /\ Present \subseteq Name
  BY DEF WatchInv, Present
<1>2. SetToSeq(Present) \in Seq(Present) /\ Len(SetToSeq(Present)) = Cardinality(Present)
  BY <1>1, SetToSeqOf
<1>3. Cardinality(Present) \in Nat
  BY <1>1, FS_CardinalityType
<1>4. QED
  BY <1>1, <1>2, <1>3

\* The files, the markers and those who put them there.
FilesStay == UNCHANGED <<size, upstream, marker>>

LEMMA WatcherMoves ==
  ASSUME WatchInv, FilesStay, watch' = watch \/ (watch' \in Watched /\ watch'.last = -1),
         queue' \in Seq(Name), Len(queue') <= MaxQueue, skipped' \subseteq Name,
         restarts' \in 0 .. MaxRestarts
  PROVE  WatchInv'
<1>1. /\ size' = size /\ generation' = generation /\ still' = still /\ marked' = marked
      /\ marker' = marker
  BY DEF FilesStay, upstream
<1>2. Present' = Present
  BY <1>1 DEF Present
<1>3. Sampled'
  BY <1>1 DEF WatchInv, Sampled
<1>4. WatchTypeOK'
  BY <1>1 DEF WatchInv, WatchTypeOK, Watched
<1>5. QED
  BY <1>1, <1>2, <1>3, <1>4 DEF WatchInv, MarkedWhole

LEMMA GetStep == WatchInv /\ Get => WatchInv'
<1>1. SUFFICES ASSUME WatchInv, Get PROVE WatchInv'
  OBVIOUS
<1>2. queue \in Seq(Name) /\ Len(queue) <= MaxQueue /\ queue # <<>> /\ queue' = Tail(queue)
      /\ skipped' = skipped /\ restarts' = restarts /\ FilesStay
      /\ skipped \subseteq Name /\ restarts \in 0 .. MaxRestarts
  BY <1>1 DEF Get, WatchInv, WatchTypeOK, FilesStay
<1>3. Head(queue) \in Name /\ Tail(queue) \in Seq(Name) /\ Len(Tail(queue)) = Len(queue) - 1
  BY <1>2
<1>4. PICK w : w = [NotWatching EXCEPT !.name = Head(queue)]
  OBVIOUS
<1>5. w \in Watched /\ w.last = -1
  BY <1>3, <1>4, NotWatchingFits, NotWatched DEF Watched
<1>6. watch' = w
  BY <1>1, <1>4 DEF Get
<1>7. Len(queue') <= MaxQueue
  BY <1>2, <1>3, WatchBounds
<1>8. QED
  BY <1>1, <1>2, <1>3, <1>5, <1>6, <1>7, WatcherMoves

LEMMA ScanStep == WatchInv /\ Scan => WatchInv'
<1>1. SUFFICES ASSUME WatchInv, Scan PROVE WatchInv'
  OBVIOUS
<1>2. queue \in Seq(Name) /\ queue' = queue \o SetToSeq(Present) /\ watch' = watch
      /\ Len(queue) + Cardinality(Present) <= MaxQueue
      /\ skipped' \subseteq Name /\ restarts' \in 0 .. MaxRestarts /\ FilesStay
  BY <1>1 DEF Scan, WatchInv, WatchTypeOK, FilesStay
<1>3. queue' \in Seq(Name) /\ Len(queue') = Len(queue) + Cardinality(Present)
  <2>1. PICK t \in Seq(Name) : t = SetToSeq(Present) /\ Len(t) = Cardinality(Present)
    BY <1>1, PresentInSeq
  <2>2. queue \o t \in Seq(Name) /\ Len(queue \o t) = Len(queue) + Len(t)
    BY <1>2
  <2>3. QED
    BY <1>2, <2>1, <2>2
<1>4. QED
  BY <1>1, <1>2, <1>3, WatcherMoves

LEMMA RestartStep == WatchInv /\ Restart => WatchInv'
<1>1. SUFFICES ASSUME WatchInv, Restart PROVE WatchInv'
  OBVIOUS
<1>2. queue' = SetToSeq(Present) /\ watch' = NotWatching /\ Cardinality(Present) <= MaxQueue
      /\ skipped' = {} /\ FilesStay
  BY <1>1 DEF Restart, FilesStay
<1>3. restarts' \in 0 .. MaxRestarts
  BY <1>1, WatchBounds DEF Restart, WatchInv, WatchTypeOK
<1>4. watch' \in Watched /\ watch'.last = -1
  BY <1>2, NotWatchingFits, NotWatched
<1>5. QED
  BY <1>1, <1>2, <1>3, <1>4, PresentInSeq, WatcherMoves

LEMMA AppearStep ==
  ASSUME WatchInv, NEW n \in Name, Appear(n)
  PROVE  WatchInv'
<1>1. PICK s \in {0, FullSize} : size' = [size EXCEPT ![n] = s]
  BY DEF Appear
<1>2. /\ size[n] = -1 /\ generation[n] < MaxFiles /\ Len(queue) < MaxQueue
      /\ generation' = [generation EXCEPT ![n] = @ + 1] /\ still' = [still EXCEPT ![n] = 0]
      /\ queue' = Append(queue, n) /\ marker' = marker /\ marked' = marked /\ watch' = watch
      /\ skipped' = skipped /\ restarts' = restarts
  BY DEF Appear
<1>3. /\ size \in [Name -> -1 .. FullSize] /\ generation \in [Name -> 0 .. MaxFiles]
      /\ still \in [Name -> 0 .. MaxPause] /\ marked \in [Name -> Nat] /\ queue \in Seq(Name)
      /\ \A m \in Name : marked[m] \in 0 .. generation[m]
  BY DEF WatchInv, WatchTypeOK
<1>4. /\ size' \in [Name -> -1 .. FullSize] /\ generation' \in [Name -> 0 .. MaxFiles]
      /\ still' \in [Name -> 0 .. MaxPause]
      /\ size'[n] = s /\ generation'[n] = generation[n] + 1
      /\ \A m \in Name \ {n} : /\ size'[m] = size[m] /\ generation'[m] = generation[m]
                                /\ still'[m] = still[m]
  BY <1>1, <1>2, <1>3, WatchAssumption, WatchBounds
<1>5. queue' \in Seq(Name) /\ Len(queue') <= MaxQueue
  BY <1>2, <1>3, WatchBounds
<1>6. \A m \in Name : marked'[m] \in 0 .. generation'[m]
  BY <1>2, <1>3, <1>4
<1>7. WatchTypeOK'
  BY <1>2, <1>4, <1>5, <1>6 DEF WatchInv, WatchTypeOK
<1>8. IsFiniteSet(Present')
  <2>1. Present' \subseteq Present \cup {n}
    BY <1>4 DEF Present
  <2>2. IsFiniteSet(Present \cup {n})
    BY FS_AddElement DEF WatchInv
  <2>3. QED
    BY <2>1, <2>2, FS_Subset
<1>9. Sampled'
  <2>1. watch.name = n => watch.last < 0
    BY <1>2, <1>3 DEF WatchInv, WatchTypeOK, Sampled
  <2>2. watch.last \in -1 .. FullSize
    BY DEF WatchInv, WatchTypeOK
  <2>3. ASSUME NEW m \in Name, watch.name = m, watch.last >= 0
        PROVE  /\ watch.last <= size'[m]
               /\ watch.last = size'[m] /\ size'[m] \in 1 .. FullSize - 1 => watch.unchanged < still'[m]
    <3>1. m \in Name \ {n}
      BY <2>1, <2>2, <2>3
    <3>2. size'[m] = size[m] /\ still'[m] = still[m]
      BY <1>4, <3>1
    <3>3. QED
      BY <2>3, <3>2 DEF WatchInv, Sampled
  <2>4. QED
    BY <1>2, <2>3 DEF Sampled
<1>10. MarkedWhole'
  BY <1>2, <1>3, <1>4 DEF WatchInv, MarkedWhole
<1>11. QED
  BY <1>2, <1>3, <1>7, <1>8, <1>9, <1>10 DEF WatchInv

LEMMA GrowStep ==
  ASSUME WatchInv, NEW n \in Name, Grow(n)
  PROVE  WatchInv'
<1>1. /\ size[n] \in 0 .. FullSize - 1 /\ size' = [size EXCEPT ![n] = @ + 1]
      /\ still' = [still EXCEPT ![n] = 0] /\ generation' = generation
      /\ queue' = queue /\ marker' = marker /\ marked' = marked /\ watch' = watch
      /\ skipped' = skipped /\ restarts' = restarts
  BY DEF Grow
<1>2. /\ size \in [Name -> -1 .. FullSize] /\ still \in [Name -> 0 .. MaxPause]
      /\ watch.last \in -1 .. FullSize
  BY DEF WatchInv, WatchTypeOK
<1>3. /\ size' \in [Name -> -1 .. FullSize] /\ still' \in [Name -> 0 .. MaxPause]
      /\ size'[n] = size[n] + 1
      /\ \A m \in Name \ {n} : size'[m] = size[m] /\ still'[m] = still[m]
  BY <1>1, <1>2, WatchAssumption
<1>4. WatchTypeOK'
  BY <1>1, <1>3 DEF WatchInv, WatchTypeOK
<1>5. Present' = Present
  BY <1>1, <1>2, <1>3 DEF Present
<1>6. Sampled'
  BY <1>1, <1>2, <1>3 DEF WatchInv, Sampled
<1>7. MarkedWhole'
  BY <1>1, <1>2, <1>3 DEF WatchInv, MarkedWhole
<1>8. QED
  BY <1>1, <1>4, <1>5, <1>6, <1>7 DEF WatchInv

LEMMA WriteMarkerStep ==
  ASSUME WatchInv, NEW n \in Name, WriteMarker(n)
  PROVE  WatchInv'
<1>1. /\ size[n] \in {-1, FullSize}
      /\ marker' = [marker EXCEPT ![n] = TRUE] /\ marked' = [marked EXCEPT ![n] = generation[n]]
      /\ size' = size /\ generation' = generation /\ still' = still /\ queue' = queue
      /\ watch' = watch /\ skipped' = skipped /\ restarts' = restarts
  BY DEF WriteMarker
<1>2. /\ marker \in [Name -> BOOLEAN] /\ marked \in [Name -> Nat]
      /\ generation \in [Name -> 0 .. MaxFiles] /\ \A m \in Name : marked[m] \in 0 .. generation[m]
  BY DEF WatchInv, WatchTypeOK
<1>3. /\ marker' \in [Name -> BOOLEAN] /\ marked' \in [Name -> Nat] /\ marked'[n] = generation[n]
      /\ \A m \in Name \ {n} : marker'[m] = marker[m] /\ marked'[m] = marked[m]
  BY <1>1, <1>2, WatchBounds
<1>4. WatchTypeOK'
  <2>1. \A m \in Name : marked'[m] \in 0 .. generation'[m]
    BY <1>1, <1>2, <1>3
  <2>2. QED
    BY <1>1, <1>3, <2>1 DEF WatchInv, WatchTypeOK
<1>5. Present' = Present
  BY <1>1 DEF Present
<1>6. Sampled' /\ MarkedWhole'
  BY <1>1, <1>3 DEF WatchInv, Sampled, MarkedWhole
<1>7. QED
  BY <1>3, <1>4, <1>5, <1>6, <1>1 DEF WatchInv

\* What one turn of the loop does, by its outcome: the file is handed over, given up on, or
\* looked at again, in which case a size that has not changed is a copy that has not moved.
Watching(n) ==
    /\ watch' \in Watched /\ skipped' \subseteq Name /\ marker' \in [Name -> BOOLEAN]
    /\ \A m \in Name : marker'[m] => marker[m]
    /\ \/ size' = [size EXCEPT ![n] = -1] /\ watch' = NotWatching
       \/ size' = size /\ watch' = NotWatching
       \/ /\ size' = size /\ watch'.name = n /\ watch'.last = size[n]
          /\ watch'.unchanged = 0 \/ (watch.last = size[n] /\ watch'.unchanged = watch.unchanged + 1)

LEMMA SampleOutcome ==
  ASSUME WatchInv, NEW n \in Name, Sample(n)
  PROVE  Watching(n)
<1>1. /\ watch \in Watched /\ watch.name = n /\ size \in [Name -> -1 .. FullSize]
      /\ marker \in [Name -> BOOLEAN] /\ skipped \subseteq Name
  BY DEF Sample, WatchInv, WatchTypeOK, Watched
<1>2. CASE HandOver(n) /\ (marker' = marker \/ marker' = [marker EXCEPT ![n] = FALSE])
  <2>1. marker' \in [Name -> BOOLEAN] /\ \A m \in Name : marker'[m] => marker[m]
    BY <1>1, <1>2
  <2>2. QED
    BY <1>1, <1>2, <2>1, NotWatchingFits DEF HandOver, Watching
<1>3. CASE GiveUp(n)
  BY <1>1, <1>3, NotWatchingFits DEF GiveUp, Watching, Present
<1>4. CASE \E k \in 0 .. StableCount - 1 :
             /\ Again(size[n], k) /\ watch.elapsed # Timeout
             /\ k = 0 \/ (watch.last = size[n] /\ k = watch.unchanged + 1)
  <2>1. PICK k \in 0 .. StableCount - 1 :
             /\ Again(size[n], k) /\ watch.elapsed # Timeout
             /\ k = 0 \/ (watch.last = size[n] /\ k = watch.unchanged + 1)
    BY <1>4
  <2>2. PICK w : w = [watch EXCEPT !.last = size[n], !.unchanged = k, !.elapsed = @ + 1]
    OBVIOUS
  <2>3. w \in Watched /\ w.name = n /\ w.last = size[n] /\ w.unchanged = k
    <3>1. size[n] \in -1 .. FullSize
      BY <1>1
    <3>2. watch.elapsed + 1 \in 0 .. Timeout
      BY <1>1, <2>1, WatchAssumption DEF Watched
    <3>3. QED
      BY <1>1, <2>1, <2>2, <3>1, <3>2 DEF Watched
  <2>4. watch' = w /\ size' = size /\ marker' = marker /\ skipped' = skipped
    BY <2>1, <2>2 DEF Again
  <2>5. QED
    BY <1>1, <2>1, <2>3, <2>4 DEF Watching
<1>5. CASE Judge(n) /\ watch.elapsed # Timeout
  <2>1. 0 \in 0 .. StableCount - 1 /\ watch.unchanged \in 0 .. StableCount - 1
    BY <1>1, WatchAssumption DEF Watched
  <2>2. CASE size[n] = watch.last /\ size[n] > 0 /\ watch.unchanged + 1 >= StableCount
    BY <1>2, <1>5, <2>2 DEF Judge
  <2>3. CASE size[n] = watch.last /\ size[n] > 0 /\ ~(watch.unchanged + 1 >= StableCount)
    <3>1. watch.unchanged + 1 \in 0 .. StableCount - 1
      BY <2>1, <2>3, WatchAssumption
    <3>2. Again(size[n], watch.unchanged + 1)
      BY <1>5, <2>3 DEF Judge
    <3>3. QED
      BY <1>4, <1>5, <2>3, <3>1, <3>2
  <2>4. CASE ~(size[n] = watch.last /\ size[n] > 0)
    <3>1. Again(size[n], 0)
      BY <1>5, <2>4 DEF Judge
    <3>2. QED
      BY <1>4, <1>5, <2>1, <3>1
  <2>5. QED
    BY <2>2, <2>3, <2>4
<1>6. QED
  BY <1>2, <1>3, <1>5 DEF Sample

LEMMA SampleStep ==
  ASSUME WatchInv, NEW n \in Name, Sample(n)
  PROVE  WatchInv'
<1>1. /\ Watching(n) /\ watch.name = n
      /\ size[n] \in 1 .. FullSize - 1 => still[n] < MaxPause
      /\ still' = [still EXCEPT ![n] = IF @ < MaxPause THEN @ + 1 ELSE @]
      /\ generation' = generation /\ marked' = marked /\ queue' = queue /\ restarts' = restarts
  BY SampleOutcome DEF Sample
<1>2. /\ watch \in Watched /\ size \in [Name -> -1 .. FullSize] /\ still \in [Name -> 0 .. MaxPause]
      /\ MaxPause \in Nat
  BY WatchAssumption DEF WatchInv, WatchTypeOK, Watched
<1>3. /\ still' \in [Name -> 0 .. MaxPause]
      /\ still'[n] = IF still[n] < MaxPause THEN still[n] + 1 ELSE still[n]
      /\ \A m \in Name \ {n} : still'[m] = still[m]
  BY <1>1, <1>2
<1>4. /\ size' \in [Name -> -1 .. FullSize]
      /\ \A m \in Name \ {n} : size'[m] = size[m]
      /\ size'[n] \in {-1, size[n]}
  BY <1>1, <1>2, WatchAssumption DEF Watching
<1>5. WatchTypeOK'
  BY <1>1, <1>3, <1>4 DEF WatchInv, WatchTypeOK, Watching, Watched
<1>6. IsFiniteSet(Present')
  <2>1. Present' \subseteq Present
    BY <1>2, <1>4 DEF Present
  <2>2. QED
    BY <2>1, FS_Subset DEF WatchInv
<1>7. MarkedWhole'
  BY <1>1, <1>4 DEF WatchInv, MarkedWhole, Watching
<1>8. Sampled'
  <2>1. CASE watch' = NotWatching
    BY <2>1, NotWatched DEF Sampled
  <2>2. CASE /\ size' = size /\ watch'.name = n /\ watch'.last = size[n]
             /\ watch'.unchanged = 0 \/ (watch.last = size[n] /\ watch'.unchanged = watch.unchanged + 1)
    <3>1. SUFFICES ASSUME size[n] \in 1 .. FullSize - 1 PROVE watch'.unchanged < still'[n]
      BY <1>2, <2>2 DEF Sampled
    <3>2. still'[n] = still[n] + 1 /\ still[n] \in Nat
      BY <1>1, <1>2, <1>3, <3>1
    <3>3. CASE watch'.unchanged = 0
      BY <3>2, <3>3
    <3>4. CASE watch.last = size[n] /\ watch'.unchanged = watch.unchanged + 1
      <4>1. watch.unchanged < still[n] /\ watch.unchanged \in Nat
        BY <1>1, <1>2, <3>1, <3>4 DEF WatchInv, Sampled, Watched
      <4>2. QED
        BY <3>2, <3>4, <4>1
    <3>5. QED
      BY <2>2, <3>3, <3>4
  <2>3. QED
    BY <1>1, <2>1, <2>2 DEF Watching
<1>9. QED
  BY <1>1, <1>5, <1>6, <1>7, <1>8 DEF WatchInv

LEMMA WatchInitFits == WatchInit => WatchInv
<1>1. SUFFICES ASSUME WatchInit PROVE WatchInv
  OBVIOUS
<1>2. Present = {} /\ IsFiniteSet({})
  BY <1>1, FS_EmptySet DEF WatchInit, Present
<1>3. WatchTypeOK /\ marked \in [Name -> Nat]
  <2>1. watch \in Watched
    BY <1>1, NotWatchingFits DEF WatchInit
  <2>2. queue \in Seq(Name) /\ Len(queue) <= MaxQueue
    BY <1>1, WatchBounds DEF WatchInit
  <2>3. QED
    BY <1>1, <2>1, <2>2, WatchAssumption, WatchBounds DEF WatchInit, WatchTypeOK, Watched
<1>4. Sampled /\ MarkedWhole
  BY <1>1, NotWatched DEF WatchInit, Sampled, MarkedWhole
<1>5. QED
  BY <1>2, <1>3, <1>4 DEF WatchInv

LEMMA WatchStepKeeps == WatchInv /\ [WatchNext]_watchVars => WatchInv'
<1>1. SUFFICES ASSUME WatchInv, [WatchNext]_watchVars PROVE WatchInv'
  OBVIOUS
<1>2. CASE UNCHANGED watchVars
  <2>1. /\ FilesStay /\ watch' = watch /\ queue' = queue /\ skipped' = skipped
        /\ restarts' = restarts
    BY <1>2 DEF watchVars, FilesStay, upstream
  <2>2. /\ queue \in Seq(Name) /\ Len(queue) <= MaxQueue /\ skipped \subseteq Name
        /\ restarts \in 0 .. MaxRestarts
    BY <1>1 DEF WatchInv, WatchTypeOK
  <2>3. QED
    BY <1>1, <2>1, <2>2, WatcherMoves
<1>3. QED
  BY <1>1, <1>2, GetStep, ScanStep, RestartStep, AppearStep, GrowStep, WriteMarkerStep, SampleStep
  DEF WatchNext, WatcherStep

LEMMA WatchAlways == WatchSpec => []WatchInv
<1>1. WatchInit => WatchInv
  BY WatchInitFits
<1>2. WatchInv /\ [WatchNext]_watchVars => WatchInv'
  BY WatchStepKeeps
<1>3. QED
  BY <1>1, <1>2, PTL DEF WatchSpec

\* The Agent's two halves keep their types, wherever a file is when the watcher hands it
\* over: for any names, sizes, numbers of files and of restarts.
THEOREM AgentTypes == UploadSpec /\ WatchSpec => []AgentTypeOK
<1>1. WatchInv => WatchTypeOK
  BY DEF WatchInv
<1>2. UploadTypeOK /\ WatchTypeOK => AgentTypeOK
  BY DEF AgentTypeOK
<1>3. QED
  BY <1>1, <1>2, UploadTypes, WatchAlways, PTL

\* For any stable_count, a file is whole when it is taken, if its copy never pauses for
\* longer than stable_count samples and no marker is left from an earlier file of its name.
THEOREM AlwaysTakenWhole == WatchSpec => TakenWhole
<1>1. ASSUME WatchInv, WatchNext, NEW n \in Name, size[n] >= 0, size'[n] = -1
      PROVE  size[n] = FullSize \/ (marker[n] /\ marked[n] # generation[n])
  <2>1. size \in [Name -> -1 .. FullSize] /\ watch \in Watched
    BY <1>1 DEF WatchInv, WatchTypeOK, Watched
  <2>2. size' # size
    BY <1>1, <2>1
  <2>3. /\ ~Get /\ ~Scan /\ ~Restart
        /\ \A m \in Name : ~WriteMarker(m)
    BY <2>2 DEF Get, Scan, Restart, WriteMarker
  <2>4. \A m \in Name : ~Grow(m)
    BY <1>1, <2>1 DEF Grow
  <2>5. \A m \in Name : ~Appear(m)
    <3>1. SUFFICES ASSUME NEW m \in Name, NEW s \in {0, FullSize}, size' = [size EXCEPT ![m] = s]
                   PROVE  FALSE
      BY DEF Appear
    <3>2. QED
      BY <1>1, <2>1, <3>1, WatchAssumption
  <2>6. PICK m \in Name : Sample(m)
    BY <1>1, <2>3, <2>4, <2>5 DEF WatchNext, WatcherStep
  <2>7. CASE marker[m]
    <3>1. size' = [size EXCEPT ![m] = -1]
      BY <2>2, <2>6, <2>7 DEF Sample, GiveUp, HandOver
    <3>2. m = n
      BY <1>1, <2>1, <3>1
    <3>3. QED
      BY <1>1, <2>7, <3>2 DEF WatchInv, MarkedWhole
  <2>8. CASE ~marker[m]
    <3>1. Judge(m) /\ watch.name = m /\ (size[m] \in 1 .. FullSize - 1 => still[m] < MaxPause)
      BY <2>2, <2>6, <2>8 DEF Sample, GiveUp
    <3>2. /\ size[m] = watch.last /\ size[m] > 0 /\ watch.unchanged + 1 >= StableCount
          /\ size' = [size EXCEPT ![m] = -1]
      BY <2>2, <3>1 DEF Judge, Again, HandOver
    <3>3. m = n
      BY <1>1, <2>1, <3>2
    <3>4. ~(size[m] \in 1 .. FullSize - 1)
      <4>1. SUFFICES ASSUME size[m] \in 1 .. FullSize - 1 PROVE FALSE
        OBVIOUS
      <4>2. watch.unchanged < still[m] /\ still[m] < MaxPause
        BY <1>1, <2>1, <3>1, <3>2, <4>1 DEF WatchInv, Sampled
      <4>3. still[m] \in Nat /\ watch.unchanged \in Nat /\ MaxPause <= StableCount
        BY <1>1, <2>1, WatchAssumption DEF WatchInv, WatchTypeOK, Watched
      <4>4. QED
        BY <3>2, <4>2, <4>3, WatchAssumption
    <3>5. QED
      BY <2>1, <3>2, <3>3, <3>4, WatchAssumption
  <2>9. QED
    BY <2>7, <2>8
<1>2. WatchInv /\ [WatchNext]_watchVars =>
        [\A n \in Name : size[n] >= 0 /\ size'[n] = -1 =>
             size[n] = FullSize \/ (marker[n] /\ marked[n] # generation[n])]_watchVars
  BY <1>1
<1>3. QED
  BY <1>2, WatchAlways, PTL DEF WatchSpec, TakenWhole
==============================================================================
