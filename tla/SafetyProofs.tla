---------------------------- MODULE SafetyProofs ----------------------------
(***************************************************************************)
(* What holds of the parts of which only safety is promised.               *)
(*                                                                         *)
(* Of an episode's data between the arm and the review, for any length of  *)
(* recording, any number of flushes and any operators: a recording that a  *)
(* crash cuts short is readable up to its last flush (Recording), and a    *)
(* verdict of the quality operator is a fair one (OperatorRuns).           *)
(*                                                                         *)
(* Of the Platform as its console and its clients meet it: a page in good  *)
(* connection shows who is online but for the reasons that ShownIsTrue     *)
(* names, for any Agents and any number of connections on both sides       *)
(* (ConsoleStream); nobody who has the password is shut out, for any       *)
(* processes, clients and secrets (AccountSessions); and a look at the     *)
(* queues overlooks nothing, for any queues and events (QueueInspection).  *)
(***************************************************************************)
EXTENDS MCSafety, SequenceTheorems, TLAPS

------------------------------------------------------------------------------
(***************************************************************************)
(* Recording: the file that a crash leaves.                                *)
(***************************************************************************)
\* The inductive invariant.

HasLatest(times) ==
    times # <<>> => \E t \in Time : /\ \E i \in DOMAIN times : times[i] = t
                                    /\ \A i \in DOMAIN times : times[i] <= t

\* The file, by where the recording is.  A header alone is in the buffer only.
FileIs ==
    /\ writer = "none" => written = <<>>
    /\ writer \in {"recording", "counted"} /\ written # <<>> =>
           disk = [duration |-> 0, lines |-> written]
    /\ writer \in {"closed", "raised"} => disk = [duration |-> 0, lines |-> written]
    /\ writer \in {"filled", "failed", "finished"} =>
           disk = [duration |-> Latest(written), lines |-> written]
    /\ writer = "finished" => stated = disk

RecordingInv == RecordingTypeOK /\ HasLatest(written) /\ FileIs

LEMMA TimesAreNumbers == Time \subseteq Nat /\ 0 \in Time /\ NoHeader \notin Time
<1>1. QED
  BY RecordingAssumption DEF Time, NoHeader

LEMMA LatestIsTime ==
  ASSUME NEW times \in Seq(Time), HasLatest(times)
  PROVE  Latest(times) \in Time
<1>1. CASE times = <<>>
  BY <1>1, TimesAreNumbers DEF Latest
<1>2. CASE times # <<>>
  BY <1>2 DEF Latest, HasLatest
<1>3. QED
  BY <1>1, <1>2

LEMMA LatestGrows ==
  ASSUME NEW times \in Seq(Time), HasLatest(times), NEW t \in Time
  PROVE  HasLatest(Append(times, t))
<1> DEFINE longer == Append(times, t)
<1>1. /\ longer \in Seq(Time) /\ Len(longer) = Len(times) + 1 /\ Len(times) \in Nat
      /\ \A i \in 1 .. Len(times) : longer[i] = times[i]
      /\ longer[Len(times) + 1] = t
  BY AppendProperties, LenProperties
<1>2. DOMAIN times = 1 .. Len(times) /\ DOMAIN longer = 1 .. Len(times) + 1
  BY <1>1, LenProperties
<1>3. \A i \in DOMAIN times : times[i] \in Nat
  BY <1>2, TimesAreNumbers, ElementOfSeq
<1>4. CASE \E u \in Time : u > t /\ (\E i \in DOMAIN times : times[i] = u)
                                 /\ (\A i \in DOMAIN times : times[i] <= u)
  <2>1. PICK u \in Time : u > t /\ (\E i \in DOMAIN times : times[i] = u)
                                /\ (\A i \in DOMAIN times : times[i] <= u)
    BY <1>4
  <2>2. \E i \in DOMAIN longer : longer[i] = u
    BY <2>1, <1>1, <1>2
  <2>3. ASSUME NEW i \in DOMAIN longer PROVE longer[i] <= u
    <3>1. i \in DOMAIN times \/ i = Len(times) + 1
      BY <1>1, <1>2
    <3>2. t <= u
      BY <2>1, TimesAreNumbers
    <3>3. QED
      BY <3>1, <3>2, <2>1, <1>1, <1>2
  <2>4. QED
    BY <2>2, <2>3 DEF HasLatest
<1>5. CASE ~ \E u \in Time : u > t /\ (\E i \in DOMAIN times : times[i] = u)
                                   /\ (\A i \in DOMAIN times : times[i] <= u)
  <2>1. \A i \in DOMAIN times : times[i] <= t
    <3>1. CASE times = <<>>
      BY <3>1
    <3>2. CASE times # <<>>
      <4>1. PICK u \in Time : (\E i \in DOMAIN times : times[i] = u)
                              /\ (\A i \in DOMAIN times : times[i] <= u)
        BY <3>2 DEF HasLatest
      <4>2. u <= t
        BY <4>1, <1>5, TimesAreNumbers
      <4>3. QED
        BY <4>1, <4>2, <1>3, TimesAreNumbers
    <3>3. QED
      BY <3>1, <3>2
  <2>2. \A i \in DOMAIN longer : longer[i] <= t
    BY <2>1, <1>1, <1>2, TimesAreNumbers
  <2>3. \E i \in DOMAIN longer : longer[i] = t
    BY <1>1, <1>2
  <2>4. QED
    BY <2>2, <2>3 DEF HasLatest
<1>6. QED
  BY <1>4, <1>5

LEMMA InitRecording == RecordingInit => RecordingInv
<1> SUFFICES ASSUME RecordingInit PROVE RecordingInv
  OBVIOUS
<1>1. <<>> \in Seq(Time)
  BY EmptySeq
<1>2. Empty \in Files
  BY <1>1 DEF Empty, Files
<1>3. RecordingTypeOK
  BY <1>1, <1>2 DEF RecordingInit, RecordingTypeOK
<1>4. HasLatest(written) /\ FileIs
  BY DEF RecordingInit, HasLatest, FileIs
<1>5. QED
  BY <1>3, <1>4 DEF RecordingInv

LEMMA FilesOf ==
  ASSUME NEW times \in Seq(Time), NEW t \in Time \cup {NoHeader}
  PROVE  [duration |-> t, lines |-> times] \in Files
<1>1. QED
  BY DEF Files

LEMMA NextRecording == RecordingInv /\ [RecordingNext]_recordingVars => RecordingInv'
<1> SUFFICES ASSUME RecordingInv, [RecordingNext]_recordingVars PROVE RecordingInv'
  OBVIOUS
<1> USE DEF RecordingInv
<1>1. /\ Empty \in Files /\ 0 \in Time
      /\ [duration |-> 0, lines |-> written] \in Files
      /\ [duration |-> Latest(written), lines |-> written] \in Files
  BY FilesOf, LatestIsTime, TimesAreNumbers, EmptySeq DEF RecordingTypeOK, Empty
<1>2. CASE UNCHANGED recordingVars
  BY <1>2 DEF recordingVars, RecordingTypeOK, HasLatest, FileIs
<1>3. CASE WriteMessage
  <2>1. PICK t \in Time : written' = Append(written, t)
    BY <1>3 DEF WriteMessage
  <2>2. written' \in Seq(Time) /\ HasLatest(written)'
    BY <2>1, LatestGrows, AppendProperties DEF RecordingTypeOK, HasLatest
  <2>3. disk' \in Files
    BY <1>1, <1>3, <2>2, FilesOf DEF WriteMessage
  <2>4. QED
    BY <1>3, <2>2, <2>3 DEF WriteMessage, At, RecordingTypeOK, FileIs
<1>4. CASE OpenFile \/ TakeStats \/ Kill
  <2>1. HasLatest(written)' /\ RecordingTypeOK'
    BY <1>4 DEF OpenFile, TakeStats, Kill, At, RecordingTypeOK, HasLatest
  <2>2. FileIs'
    BY <1>4 DEF OpenFile, TakeStats, Kill, At, FileIs
  <2>3. QED
    BY <2>1, <2>2
<1>5. CASE \E raised \in BOOLEAN : CloseFile(raised)
  <2>1. HasLatest(written)' /\ RecordingTypeOK'
    BY <1>1, <1>5 DEF CloseFile, RecordingTypeOK, HasLatest
  <2>2. FileIs'
    BY <1>5 DEF CloseFile, FileIs
  <2>3. QED
    BY <2>1, <2>2
<1>6. CASE Truncate \/ WriteBack \/ Finish
  <2>1. HasLatest(written)' /\ RecordingTypeOK'
    BY <1>1, <1>6 DEF Truncate, WriteBack, Finish, At, RecordingTypeOK, HasLatest
  <2>2. FileIs'
    BY <1>6 DEF Truncate, WriteBack, Finish, At, FileIs, Latest
  <2>3. QED
    BY <2>1, <2>2
<1>7. QED
  BY <1>2, <1>3, <1>4, <1>5, <1>6 DEF RecordingNext

LEMMA WhatIsLeft == RecordingInv => InterruptedIsReadable
<1> SUFFICES ASSUME RecordingInv PROVE InterruptedIsReadable
  OBVIOUS
<1>1. Latest(written) \in Time /\ 0 \in Time /\ NoHeader \notin Time
  BY LatestIsTime, TimesAreNumbers DEF RecordingInv, RecordingTypeOK
<1>2. ASSUME written # <<>>, ~Rewriting
      PROVE  /\ ReadMcap(disk).lines = written
             /\ ParseMcap(disk) = [duration |-> Latest(written), lines |-> written]
  <2>1. PICK t \in {0, Latest(written)} : disk = [duration |-> t, lines |-> written]
    BY <1>2 DEF RecordingInv, RecordingTypeOK, FileIs, Rewriting
  <2>2. disk.duration = t /\ disk.lines = written /\ t # NoHeader
    BY <1>1, <2>1
  <2>3. ReadMcap(disk).lines = written
    BY <2>2 DEF ReadMcap
  <2>4. ParseMcap(disk) = [duration |-> Latest(written), lines |-> written]
    BY <2>1, <2>2 DEF ParseMcap
  <2>5. QED
    BY <2>3, <2>4
<1>3. ASSUME writer = "finished"
      PROVE  stated = disk /\ ReadMcap(disk) = ParseMcap(disk)
  <2>1. disk = [duration |-> Latest(written), lines |-> written] /\ stated = disk
    BY <1>3 DEF RecordingInv, FileIs
  <2>2. disk.duration = Latest(written) /\ disk.lines = written /\ disk.duration # NoHeader
    BY <1>1, <2>1
  <2>3. ParseMcap(disk) = disk
    BY <2>1, <2>2 DEF ParseMcap
  <2>4. ReadMcap(disk) = disk
    BY <2>2 DEF ReadMcap
  <2>5. QED
    BY <2>1, <2>3, <2>4
<1>4. QED
  BY <1>2, <1>3 DEF InterruptedIsReadable

\* The parts keep their types, however long the recording is and wherever it ends.
THEOREM RecordingTypes == RecordingSpec => []RecordingTypeOK
<1>1. RecordingSpec => []RecordingInv
  BY InitRecording, NextRecording, PTL DEF RecordingSpec
<1>2. QED
  BY <1>1, PTL DEF RecordingInv

\* However many messages a recording has, in whatever order of time, and wherever its process
\* dies: both readers find them all, except between the truncation and the rewriting of the
\* file (McapWriter._rewrite_header).
THEOREM InterruptedAlwaysReadable == RecordingSpec => []InterruptedIsReadable
<1>1. RecordingSpec => []RecordingInv
  BY InitRecording, NextRecording, PTL DEF RecordingSpec
<1>2. QED
  BY <1>1, WhatIsLeft, PTL

------------------------------------------------------------------------------
(***************************************************************************)
(* OperatorRuns: the verdict on an episode.                                *)
(***************************************************************************)
\* The inductive invariant.

\* Two processes of an operator at work at once are on record.
Alone ==
    \A o \in Operator, j, k \in Handling :
        process[j][o] \in Live /\ process[k][o] \in Live => j = k \/ o \in shared

\* A file carries the name of a process that has created it, and has one name.
Named ==
    \A o \in Operator :
        /\ \A f \in Handling : f \in {temporary[o], final[o]} =>
               process[f][o] \notin {"none", "computing"}
        /\ temporary[o] # NoFile => temporary[o] # final[o]
        /\ \A k \in Handling : process[k][o] \in {"writing", "written"} => open[k][o] # NoFile

\* What a process that is alone has in its hands, and what it has left.
Left ==
    \A o \in Operator : o \notin shared =>
        /\ \A k \in Handling :
              /\ process[k][o] \in {"writing", "written"} =>
                     temporary[o] # NoFile /\ open[k][o] = temporary[o]
              /\ process[k][o] = "written" => temporary[o] \in complete[o]
              /\ process[k][o] = "done" => final[o] # NoFile
              /\ process[k][o] # "lost"
        /\ final[o] # NoFile => final[o] \in complete[o]

\* The runner's verdict about a process.
Judged ==
    \A k \in Handling, o \in Operator :
        /\ result[k][o] # "none" => process[k][o] \notin Live \cup {"none"}
        /\ result[k][o] = "succeeded" => process[k][o] = "done"
        /\ result[k][o] = "failed" => process[k][o] \in Troubled \/ o \in shared

OperatorInv == OperatorTypeOK /\ Alone /\ Named /\ Left /\ Judged

LEMMA InitOperator == OperatorInit => OperatorInv
<1> SUFFICES ASSUME OperatorInit PROVE OperatorInv
  OBVIOUS
<1> USE OperatorAssumption DEF OperatorInit
<1>1. \A k \in Handling, o \in Operator : process[k][o] = "none" /\ result[k][o] = "none"
  BY DEF Of
<1>2. OperatorTypeOK
  <2>1. process \in [Handling -> [Operator -> ProcessState]]
    BY DEF Of, ProcessState
  <2>2. result \in [Handling -> [Operator -> {"none", "succeeded", "failed"}]]
    BY DEF Of
  <2>3. open \in [Handling -> [Operator -> File]]
    BY DEF Of, File
  <2>4. temporary \in [Operator -> File] /\ final \in [Operator -> File]
    BY DEF File
  <2>5. QED
    BY <2>1, <2>2, <2>3, <2>4 DEF OperatorTypeOK
<1>3. Alone /\ Left /\ Judged
  BY <1>1 DEF Alone, Left, Judged, Live
<1>4. Named
  <2>1. \A o \in Operator : temporary[o] = NoFile /\ final[o] = NoFile
    OBVIOUS
  <2>2. NoFile \notin Handling
    BY DEF Handling, NoFile
  <2>3. QED
    BY <1>1, <2>1, <2>2 DEF Named
<1>5. QED
  BY <1>2, <1>3, <1>4 DEF OperatorInv

\* The effect of a change of one process, of one result.
LEMMA OneProcess ==
  ASSUME OperatorTypeOK, NEW k \in Handling, NEW o \in Operator, NEW state \in ProcessState,
         ProcessTo(k, o, state)
  PROVE  /\ process' \in [Handling -> [Operator -> ProcessState]]
         /\ \A j \in Handling, p \in Operator :
                process'[j][p] = IF j = k /\ p = o THEN state ELSE process[j][p]
<1>1. process \in [Handling -> [Operator -> ProcessState]]
  BY DEF OperatorTypeOK
<1>2. process' = [process EXCEPT ![k] = [process[k] EXCEPT ![o] = state]]
  BY DEF ProcessTo
<1>3. [process[k] EXCEPT ![o] = state] \in [Operator -> ProcessState]
  BY <1>1
<1>4. QED
  BY <1>1, <1>2, <1>3

LEMMA OneResult ==
  ASSUME OperatorTypeOK, NEW k \in Handling, NEW o \in Operator,
         NEW status \in {"none", "succeeded", "failed"}, ResultIs(k, o, status)
  PROVE  /\ result' \in [Handling -> [Operator -> {"none", "succeeded", "failed"}]]
         /\ \A j \in Handling, p \in Operator :
                result'[j][p] = IF j = k /\ p = o THEN status ELSE result[j][p]
<1> DEFINE Verdict == {"none", "succeeded", "failed"}
<1>1. result \in [Handling -> [Operator -> Verdict]]
  BY DEF OperatorTypeOK
<1>2. result' = [result EXCEPT ![k] = [result[k] EXCEPT ![o] = status]]
  BY DEF ResultIs
<1>3. [result[k] EXCEPT ![o] = status] \in [Operator -> Verdict]
  BY <1>1
<1>4. QED
  BY <1>1, <1>2, <1>3

------------------------------------------------------------------------------
\* The steps.

LEMMA StillStep ==
  ASSUME OperatorInv, UNCHANGED <<process, result, files, shared>>, UNCHANGED troubles \/ Trouble,
         outcome' \in {"processing", "verification_pending", "failed"},
         handling' \in [Handling -> {"none", "running", "dead", "ended"}]
  PROVE  OperatorInv'
<1>1. troubles' \in 0 .. MaxTroubles
  BY OperatorAssumption DEF OperatorInv, OperatorTypeOK, Trouble
<1>2. OperatorTypeOK'
  BY <1>1 DEF OperatorInv, OperatorTypeOK, files
<1>3. Alone' /\ Named' /\ Left' /\ Judged'
  BY DEF OperatorInv, Alone, Named, Left, Judged, files
<1>4. QED
  BY <1>2, <1>3 DEF OperatorInv

\* A process that starts.
LEMMA SpawnStep ==
  ASSUME OperatorInv, NEW k \in Handling, NEW o \in Operator, Spawn(k, o)
  PROVE  OperatorInv'
<1>1. /\ process' \in [Handling -> [Operator -> ProcessState]]
      /\ \A j \in Handling, p \in Operator :
            process'[j][p] = IF j = k /\ p = o THEN "computing" ELSE process[j][p]
  BY OneProcess DEF Spawn, OperatorInv, ProcessState, Live
<1>2. /\ process[k][o] = "none" /\ result[k][o] = "none"
      /\ UNCHANGED <<outcome, handling, result, open, temporary, final, complete, troubles>>
      /\ shared' = IF \E j \in Handling \ {k} : process[j][o] \in Live
                    THEN shared \cup {o} ELSE shared
  BY DEF Spawn, Running, files
<1>3. OperatorTypeOK'
  BY <1>1, <1>2 DEF OperatorInv, OperatorTypeOK
<1>4. Alone'
  BY <1>1, <1>2 DEF OperatorInv, Alone
<1>5. Named'
  BY <1>1, <1>2 DEF OperatorInv, Named
<1>6. shared \subseteq shared'
  BY <1>2
<1>7. Left'
  BY <1>1, <1>2, <1>6 DEF OperatorInv, Left
<1>8. Judged'
  BY <1>1, <1>2, <1>6 DEF OperatorInv, Judged
<1>9. QED
  BY <1>3, <1>4, <1>5, <1>7, <1>8 DEF OperatorInv

\* A process that ends, or never starts, without its file.
LEMMA TroubledStep ==
  ASSUME OperatorInv, NEW k \in Handling, NEW o \in Operator, NEW state \in Troubled,
         ProcessTo(k, o, state),
         \/ process[k][o] \in Live /\ UNCHANGED result
         \/ process[k][o] \in Live \cup {"none"} /\ ResultIs(k, o, "failed"),
         UNCHANGED <<outcome, handling, files, shared>>, UNCHANGED troubles \/ Trouble
  PROVE  OperatorInv'
<1>0. state \in ProcessState
  BY DEF ProcessState
<1>1. /\ process' \in [Handling -> [Operator -> ProcessState]]
      /\ \A j \in Handling, p \in Operator :
            process'[j][p] = IF j = k /\ p = o THEN state ELSE process[j][p]
  BY <1>0, OneProcess DEF OperatorInv
<1>2. state \notin Live \cup {"none", "done", "lost"}
  BY DEF Troubled, Live
<1>3. troubles' \in 0 .. MaxTroubles
  BY OperatorAssumption DEF OperatorInv, OperatorTypeOK, Trouble
<1>4. /\ result' \in [Handling -> [Operator -> {"none", "succeeded", "failed"}]]
      /\ \A j \in Handling, p \in Operator :
            result'[j][p] # result[j][p] => j = k /\ p = o /\ result'[j][p] = "failed"
  BY OneResult DEF OperatorInv, OperatorTypeOK
<1>5. UNCHANGED <<outcome, handling, open, temporary, final, complete, shared>>
  BY DEF files
<1>6. OperatorTypeOK'
  BY <1>1, <1>3, <1>4, <1>5 DEF OperatorInv, OperatorTypeOK
<1>7. Alone'
  BY <1>1, <1>2, <1>5 DEF OperatorInv, Alone
<1>8. Named'
  BY <1>1, <1>2, <1>5 DEF OperatorInv, Named, Live
<1>9. Left'
  BY <1>1, <1>2, <1>5 DEF OperatorInv, Left, Live
<1>10. Judged'
  <2>1. result[k][o] = "none" \/ result'[k][o] = "failed"
    BY DEF OperatorInv, Judged, ResultIs, OperatorTypeOK
  <2>2. QED
    BY <1>1, <1>2, <1>4, <1>5, <2>1 DEF OperatorInv, Judged, OperatorTypeOK
<1>11. QED
  BY <1>6, <1>7, <1>8, <1>9, <1>10 DEF OperatorInv

\* The runner collects a result.
LEMMA CollectStep ==
  ASSUME OperatorInv, NEW k \in Handling, NEW o \in Operator, Collect(k, o)
  PROVE  OperatorInv'
<1> DEFINE status == IF process[k][o] = "done" /\ final[o] \in complete[o]
                     THEN "succeeded" ELSE "failed"
<1>1. /\ result' \in [Handling -> [Operator -> {"none", "succeeded", "failed"}]]
      /\ \A j \in Handling, p \in Operator :
            result'[j][p] = IF j = k /\ p = o THEN status ELSE result[j][p]
  BY OneResult DEF Collect, OperatorInv
<1>2. /\ process[k][o] \in Exited
      /\ UNCHANGED <<outcome, handling, process, open, temporary, final, complete, shared, troubles>>
  BY DEF Collect, files
<1>3. OperatorTypeOK'
  BY <1>1, <1>2 DEF OperatorInv, OperatorTypeOK
<1>4. Alone' /\ Named' /\ Left'
  BY <1>2 DEF OperatorInv, Alone, Named, Left
<1>5. process[k][o] \in Troubled \/ o \in shared \/ status = "succeeded"
  BY <1>2 DEF OperatorInv, Left, Exited, Troubled
<1>6. Judged'
  BY <1>1, <1>2, <1>5 DEF OperatorInv, Judged, Exited, Live
<1>7. QED
  BY <1>3, <1>4, <1>6 DEF OperatorInv

LEMMA OpenStep ==
  ASSUME OperatorInv, NEW k \in Handling, NEW o \in Operator, Open(k, o)
  PROVE  OperatorInv'
<1> DEFINE f == IF temporary[o] = NoFile THEN k ELSE temporary[o]
<1>1. /\ process' \in [Handling -> [Operator -> ProcessState]]
      /\ \A j \in Handling, p \in Operator :
            process'[j][p] = IF j = k /\ p = o THEN "writing" ELSE process[j][p]
  BY OneProcess DEF Open, OperatorInv, ProcessState, Live
<1>2. f \in Handling /\ NoFile \notin Handling
  BY OperatorAssumption DEF OperatorInv, OperatorTypeOK, File, Handling, NoFile
<1>3. /\ open' \in [Handling -> [Operator -> File]]
      /\ \A j \in Handling, p \in Operator :
            open'[j][p] = IF j = k /\ p = o THEN f ELSE open[j][p]
  <2>1. open \in [Handling -> [Operator -> File]]
    BY DEF OperatorInv, OperatorTypeOK
  <2>2. open' = [open EXCEPT ![k] = [open[k] EXCEPT ![o] = f]]
    BY DEF Open
  <2>3. [open[k] EXCEPT ![o] = f] \in [Operator -> File]
    BY <1>2, <2>1 DEF File
  <2>4. QED
    BY <2>1, <2>2, <2>3
<1>4. /\ process[k][o] = "computing"
      /\ temporary' = [temporary EXCEPT ![o] = f]
      /\ complete' = [complete EXCEPT ![o] = complete[o] \ {f}]
      /\ UNCHANGED <<outcome, handling, result, final, shared, troubles>>
  BY DEF Open
<1>5. /\ temporary \in [Operator -> File] /\ complete \in [Operator -> SUBSET Handling]
      /\ temporary' \in [Operator -> File] /\ complete' \in [Operator -> SUBSET Handling]
  BY <1>2, <1>4 DEF OperatorInv, OperatorTypeOK, File
<1>6. OperatorTypeOK'
  BY <1>1, <1>3, <1>4, <1>5 DEF OperatorInv, OperatorTypeOK
<1>7. Alone'
  BY <1>1, <1>4 DEF OperatorInv, Alone, Live
<1>8. f # final[o]
  BY <1>2, <1>4 DEF OperatorInv, Named
<1>9. /\ \A p \in Operator : temporary'[p] = IF p = o THEN f ELSE temporary[p]
      /\ \A p \in Operator : complete'[p] = IF p = o THEN complete[o] \ {f} ELSE complete[p]
  BY <1>4, <1>5
<1>10. Named'
  <2>1. \A p \in Operator, j \in Handling : j \in {temporary'[p], final[p]} =>
            process'[j][p] \notin {"none", "computing"}
    <3>1. \A j \in Handling : j \in {temporary[o], final[o]} => j # k
      BY <1>4 DEF OperatorInv, Named
    <3>2. QED
      BY <1>1, <1>9, <3>1 DEF OperatorInv, Named
  <2>2. \A p \in Operator : temporary'[p] # NoFile => temporary'[p] # final[p]
    BY <1>8, <1>9 DEF OperatorInv, Named
  <2>3. \A p \in Operator, j \in Handling :
            process'[j][p] \in {"writing", "written"} => open'[j][p] # NoFile
    BY <1>1, <1>2, <1>3 DEF OperatorInv, Named
  <2>4. QED
    BY <1>4, <2>1, <2>2, <2>3 DEF Named
<1>11. Left'
  <2> SUFFICES ASSUME NEW p \in Operator, p \notin shared
               PROVE  /\ \A j \in Handling :
                           /\ process'[j][p] \in {"writing", "written"} =>
                                  temporary'[p] # NoFile /\ open'[j][p] = temporary'[p]
                           /\ process'[j][p] = "written" => temporary'[p] \in complete'[p]
                           /\ process'[j][p] = "done" => final[p] # NoFile
                           /\ process'[j][p] # "lost"
                      /\ final[p] # NoFile => final[p] \in complete'[p]
    BY <1>4 DEF Left
  <2>1. CASE p # o
    BY <1>1, <1>3, <1>9, <2>1 DEF OperatorInv, Left
  <2>2. CASE p = o
    <3>1. \A j \in Handling \ {k} : process[j][o] \notin Live
      BY <1>4, <2>2 DEF OperatorInv, Alone, Live
    <3>2. QED
      BY <1>1, <1>2, <1>3, <1>8, <1>9, <2>2, <3>1 DEF OperatorInv, Left, Live
  <2>3. QED
    BY <2>1, <2>2
<1>12. Judged'
  BY <1>1, <1>4 DEF OperatorInv, Judged, Live, Troubled
<1>13. QED
  BY <1>6, <1>7, <1>10, <1>11, <1>12 DEF OperatorInv

LEMMA FillStep ==
  ASSUME OperatorInv, NEW k \in Handling, NEW o \in Operator, Fill(k, o)
  PROVE  OperatorInv'
<1>1. /\ process' \in [Handling -> [Operator -> ProcessState]]
      /\ \A j \in Handling, p \in Operator :
            process'[j][p] = IF j = k /\ p = o THEN "written" ELSE process[j][p]
  BY OneProcess DEF Fill, OperatorInv, ProcessState, Live
<1>2. /\ process[k][o] = "writing"
      /\ complete' = [complete EXCEPT ![o] = complete[o] \cup {open[k][o]}]
      /\ UNCHANGED <<outcome, handling, result, open, temporary, final, shared, troubles>>
  BY DEF Fill
<1>3. open[k][o] \in Handling
  BY <1>2 DEF OperatorInv, OperatorTypeOK, Named, File
<1>4. /\ complete' \in [Operator -> SUBSET Handling]
      /\ \A p \in Operator :
            complete'[p] = IF p = o THEN complete[o] \cup {open[k][o]} ELSE complete[p]
  BY <1>2, <1>3 DEF OperatorInv, OperatorTypeOK
<1>5. OperatorTypeOK'
  BY <1>1, <1>2, <1>4 DEF OperatorInv, OperatorTypeOK
<1>6. Alone'
  BY <1>1, <1>2 DEF OperatorInv, Alone, Live
<1>7. Named'
  BY <1>1, <1>2 DEF OperatorInv, Named
<1>8. Left'
  BY <1>1, <1>2, <1>4 DEF OperatorInv, Left
<1>9. Judged'
  BY <1>1, <1>2 DEF OperatorInv, Judged, Live, Troubled
<1>10. QED
  BY <1>5, <1>6, <1>7, <1>8, <1>9 DEF OperatorInv

LEMMA RenameStep ==
  ASSUME OperatorInv, NEW k \in Handling, NEW o \in Operator, Rename(k, o)
  PROVE  OperatorInv'
<1> DEFINE state == IF temporary[o] = NoFile THEN "lost" ELSE "done"
<1>1. ProcessTo(k, o, state) /\ process[k][o] = "written"
  BY DEF Rename
<1>2. /\ process' \in [Handling -> [Operator -> ProcessState]]
      /\ \A j \in Handling, p \in Operator :
            process'[j][p] = IF j = k /\ p = o THEN state ELSE process[j][p]
  BY <1>1, OneProcess DEF OperatorInv, ProcessState, Exited
<1>3. UNCHANGED <<outcome, handling, result, open, complete, shared, troubles>>
  BY DEF Rename
<1>4. /\ temporary' \in [Operator -> File] /\ final' \in [Operator -> File]
      /\ \A p \in Operator :
            /\ temporary'[p] = IF p = o THEN NoFile ELSE temporary[p]
            /\ final'[p] = IF p = o /\ temporary[o] # NoFile THEN temporary[o] ELSE final[p]
  BY DEF Rename, OperatorInv, OperatorTypeOK, File
<1>5. OperatorTypeOK'
  BY <1>2, <1>3, <1>4 DEF OperatorInv, OperatorTypeOK
<1>6. Alone'
  BY <1>2, <1>3 DEF OperatorInv, Alone, Live
<1>7. Named'
  <2>1. NoFile \notin Handling
    BY DEF Handling, NoFile
  <2>2. QED
    BY <1>1, <1>2, <1>3, <1>4, <2>1 DEF OperatorInv, Named
<1>8. Left'
  <2> SUFFICES ASSUME NEW p \in Operator, p \notin shared
               PROVE  /\ \A j \in Handling :
                           /\ process'[j][p] \in {"writing", "written"} =>
                                  temporary'[p] # NoFile /\ open[j][p] = temporary'[p]
                           /\ process'[j][p] = "written" => temporary'[p] \in complete[p]
                           /\ process'[j][p] = "done" => final'[p] # NoFile
                           /\ process'[j][p] # "lost"
                      /\ final'[p] # NoFile => final'[p] \in complete[p]
    BY <1>3 DEF Left
  <2>1. CASE p # o
    BY <1>2, <1>4, <2>1 DEF OperatorInv, Left
  <2>2. CASE p = o
    <3>1. \A j \in Handling \ {k} : process[j][o] \notin Live
      BY <1>1, <2>2 DEF OperatorInv, Alone, Live
    <3>2. temporary[o] # NoFile /\ temporary[o] \in complete[o]
      BY <1>1, <2>2 DEF OperatorInv, Left
    <3>3. QED
      BY <1>2, <1>4, <2>2, <3>1, <3>2 DEF OperatorInv, Left, Live
  <2>3. QED
    BY <2>1, <2>2
<1>9. Judged'
  BY <1>1, <1>2, <1>3 DEF OperatorInv, Judged, Live, Troubled
<1>10. QED
  BY <1>5, <1>6, <1>7, <1>8, <1>9 DEF OperatorInv

LEMMA NextOperator == OperatorInv /\ [OperatorNext]_operatorVars => OperatorInv'
<1> SUFFICES ASSUME OperatorInv, [OperatorNext]_operatorVars PROVE OperatorInv'
  OBVIOUS
<1>1. CASE UNCHANGED operatorVars
  BY <1>1, StillStep DEF operatorVars, OperatorInv, OperatorTypeOK
<1>2. ASSUME NEW k \in Handling, Begin(k) \/ Report(k) \/ ReportFails(k) \/ Die(k)
      PROVE  OperatorInv'
  <2>1. handling' \in [Handling -> {"none", "running", "dead", "ended"}]
    BY <1>2 DEF Begin, Report, ReportFails, Die, HandlingTo, OperatorInv, OperatorTypeOK
  <2>2. outcome' \in {"processing", "verification_pending", "failed"}
    BY <1>2 DEF Begin, Report, ReportFails, Die, OperatorInv, OperatorTypeOK
  <2>3. QED
    BY <1>2, <2>1, <2>2, StillStep DEF Begin, Report, ReportFails, Die
<1>3. ASSUME NEW k \in Handling, NEW o \in Operator,
             \/ Spawn(k, o) \/ CannotSpawn(k, o) \/ Collect(k, o) \/ TimeOut(k, o)
             \/ Raise(k, o) \/ Open(k, o) \/ Fill(k, o) \/ Rename(k, o) \/ Perish(k, o)
      PROVE  OperatorInv'
  <2>1. {"unstarted", "raised", "killed"} \subseteq Troubled /\ "computing" \in Live
    BY DEF Troubled, Live
  <2>2. CASE CannotSpawn(k, o)
    BY <2>1, <2>2, TroubledStep DEF CannotSpawn
  <2>3. CASE TimeOut(k, o)
    BY <2>1, <2>3, TroubledStep DEF TimeOut
  <2>4. CASE Raise(k, o)
    BY <2>1, <2>4, TroubledStep DEF Raise
  <2>5. CASE Perish(k, o)
    BY <2>1, <2>5, TroubledStep DEF Perish
  <2>6. QED
    BY <1>3, <2>2, <2>3, <2>4, <2>5, SpawnStep, CollectStep, OpenStep, FillStep, RenameStep
<1>4. QED
  BY <1>1, <1>2, <1>3 DEF OperatorNext

\* The invariant of the module holds throughout.
THEOREM OperatorAlways == OperatorSpec => []OperatorInv
<1>1. QED
  BY InitOperator, NextOperator, PTL DEF OperatorSpec

\* For any number of operators, handlings and troubles, the parts keep their types.
THEOREM OperatorTypes == OperatorSpec => []OperatorTypeOK
<1>1. OperatorInv => OperatorTypeOK
  BY DEF OperatorInv
<1>2. QED
  BY <1>1, OperatorAlways, PTL

\* For any number of operators and handlings, whoever dies and however often the event is
\* handled: the report that moves the Episode on is right about the operators' processes,
\* unless two processes of an operator were at work at once.
THEOREM VerdictAlwaysFair == OperatorSpec => VerdictIsFair
<1> DEFINE Fair == \A k \in Handling :
         handling[k] = "running" /\ handling'[k] = "ended" /\ outcome' # outcome =>
            /\ outcome' = "failed" =>
                 \E o \in Operator : process[k][o] \in Troubled \/ o \in shared
            /\ outcome' = "verification_pending" =>
                 \A o \in Operator : process[k][o] = "done"
<1>1. OperatorInv /\ [OperatorNext]_operatorVars => [Fair]_operatorVars
  <2> SUFFICES ASSUME OperatorInv, OperatorNext, NEW k \in Handling,
                      handling[k] = "running", handling'[k] = "ended", outcome' # outcome
               PROVE  /\ outcome' = "failed" =>
                           \E o \in Operator : process[k][o] \in Troubled \/ o \in shared
                      /\ outcome' = "verification_pending" =>
                           \A o \in Operator : process[k][o] = "done"
    OBVIOUS
  <2>1. PICK j \in Handling : Report(j)
    BY DEF OperatorNext, Begin, ReportFails, Die, Spawn, CannotSpawn, Collect, TimeOut,
           Raise, Open, Fill, Rename, Perish
  <2>2. j = k
    BY <2>1 DEF Report, HandlingTo, OperatorInv, OperatorTypeOK
  <2>3. \A o \in Operator : result[k][o] \in {"succeeded", "failed"}
    BY <2>1, <2>2 DEF Report, Collected, OperatorInv, OperatorTypeOK
  <2>4. QED
    BY <2>1, <2>2, <2>3 DEF Report, OperatorInv, Judged
<1>2. QED
  BY <1>1, OperatorAlways, PTL DEF OperatorSpec, VerdictIsFair
------------------------------------------------------------------------------
(***************************************************************************)
(* ConsoleStream: what the page is shown of who is online.                 *)
(***************************************************************************)
\* The inductive invariant.

\* The sockets the page has opened.
Numbered ==
    /\ socket # None => socket <= opened
    /\ \A c \in consoles \cup broken : c <= opened
    /\ \A c \in Socket : snapshot[c] # {} => c <= opened

Entering(a) == \E h \in Handler : owner[h] = a /\ served[h] = "entered"
Leaving(a) == \E h \in Handler : owner[h] = a /\ served[h] = "left"

\* What is in the registry is a connection of that Agent, and it is there.
Entries ==
    \A a \in Agent : entry[a] # None =>
        owner[entry[a]] = a /\ served[entry[a]] \in {"entered", "serving"}

\* An Agent that is connected and not in the registry was taken out by another handler.
Displaced ==
    \A a \in Agent : Present(a) /\ entry[a] = None => Leaving(a) \/ a \in replaced

\* The page has been told status of a, or is about to be, and nothing else after it.
Stands(a, status, other) ==
    \/ overlay[a] = status /\ \A i \in DOMAIN inbox : inbox[i] # <<a, other>>
    \/ \E i \in DOMAIN inbox :
         /\ inbox[i] = <<a, status>>
         /\ \A j \in DOMAIN inbox : j > i => inbox[j] # <<a, other>>

Listed(a) == socket # None /\ a \in snapshot[socket]

\* Being told that a connected Agent is offline is wrong, and will be put right unless the
\* end of another handler was announced last.
Offline ==
    \A a \in Agent :
        Reachable /\ ~Listed(a) /\ Stands(a, "offline", "online") /\ Present(a) =>
            Entering(a) \/ Leaving(a) \/ a \in replaced

\* Being told that an Agent is online is right, or will be put right, or its end was missed.
Online ==
    \A a \in Agent :
        Listed(a) \/ Stands(a, "online", "offline") =>
            Present(a) \/ Leaving(a) \/ a \in missed

StreamInv == StreamTypeOK /\ Numbered /\ Entries /\ Displaced /\ Offline /\ Online

LEMMA StreamInitInv == StreamInit => StreamInv
<1> SUFFICES ASSUME StreamInit PROVE StreamInv
  OBVIOUS
<1> USE StreamAssumption DEF StreamInit
<1>1. StreamTypeOK
  <2>1. inbox \in Seq(Agent \X {"online", "offline"})
    OBVIOUS
  <2>2. snapshot \in [Socket -> SUBSET Agent] /\ opened \in 0 .. MaxSockets
    OBVIOUS
  <2>3. served \in [Handler -> ServedState] /\ entry \in [Agent -> Handler \cup {None}]
    BY DEF ServedState
  <2>4. overlay \in [Agent -> {"none", "online", "offline"}]
    OBVIOUS
  <2>5. QED
    BY <2>1, <2>2, <2>3, <2>4 DEF StreamTypeOK
<1>2. Numbered /\ Entries
  BY DEF Numbered, Entries
<1>3. \A a \in Agent : ~Present(a)
  BY DEF Present
<1>4. \A a \in Agent : ~Stands(a, "online", "offline") /\ ~Listed(a)
  <2>1. DOMAIN inbox = {} /\ socket = None
    OBVIOUS
  <2>2. \A a \in Agent : overlay[a] = "none"
    OBVIOUS
  <2> HIDE DEF StreamInit
  <2>3. QED
    BY <2>1, <2>2 DEF Stands, Listed
<1>5. QED
  BY <1>1, <1>2, <1>3, <1>4 DEF StreamInv, Displaced, Offline, Online

------------------------------------------------------------------------------
\* What the page hears.

\* A frame that is appended has the last word on its Agent and none on the others.
LEMMA Hearing ==
  ASSUME StreamTypeOK, NEW b \in Agent, NEW s \in {"online", "offline"},
         inbox' = Append(inbox, <<b, s>>), overlay' = overlay,
         NEW a \in Agent, NEW t, NEW u, t # u, Stands(a, t, u)'
  PROVE  IF a = b THEN s # u ELSE Stands(a, t, u)
<1>1. inbox \in Seq(Agent \X {"online", "offline"})
  BY DEF StreamTypeOK
<1>2. /\ Len(inbox') = Len(inbox) + 1 /\ Len(inbox) \in Nat
      /\ DOMAIN inbox = 1 .. Len(inbox) /\ DOMAIN inbox' = 1 .. Len(inbox) + 1
      /\ inbox'[Len(inbox) + 1] = <<b, s>>
      /\ \A i \in 1 .. Len(inbox) : inbox'[i] = inbox[i]
  BY <1>1
<1>3. CASE a = b
  <2>1. ASSUME s = u PROVE FALSE
    BY <1>2, <1>3, <2>1 DEF Stands
  <2>2. QED
    BY <1>3, <2>1
<1>4. CASE a # b
  <2>1. CASE overlay'[a] = t /\ \A i \in DOMAIN inbox' : inbox'[i] # <<a, u>>
    BY <1>2, <2>1, <1>4 DEF Stands
  <2>2. ASSUME NEW i \in DOMAIN inbox', inbox'[i] = <<a, t>>,
               \A j \in DOMAIN inbox' : j > i => inbox'[j] # <<a, u>>
        PROVE  Stands(a, t, u)
    <3>1. i # Len(inbox) + 1
      BY <1>2, <1>4, <2>2
    <3>2. i \in DOMAIN inbox /\ inbox[i] = <<a, t>>
      BY <1>2, <2>2, <3>1
    <3>3. \A j \in DOMAIN inbox : j > i => inbox[j] # <<a, u>>
      BY <1>2, <2>2
    <3>4. QED
      BY <3>2, <3>3 DEF Stands
  <2>3. QED
    BY <1>4, <2>1, <2>2 DEF Stands
<1>5. QED
  BY <1>3, <1>4

\* Reading a frame changes nothing about what stands.
LEMMA Reading ==
  ASSUME StreamTypeOK, Receive, NEW a \in Agent, NEW t, NEW u, t # u, Stands(a, t, u)'
  PROVE  Stands(a, t, u)
<1>1. inbox \in Seq(Agent \X {"online", "offline"}) /\ inbox # <<>>
  BY DEF StreamTypeOK, Receive
<1>2. /\ Len(inbox) \in Nat \ {0} /\ Len(inbox') = Len(inbox) - 1
      /\ DOMAIN inbox = 1 .. Len(inbox) /\ DOMAIN inbox' = 1 .. Len(inbox) - 1
      /\ \A i \in 1 .. Len(inbox) - 1 : inbox'[i] = inbox[i + 1]
      /\ Head(inbox) = inbox[1]
  BY <1>1 DEF Receive
<1>3. PICK b \in Agent, s \in {"online", "offline"} : inbox[1] = <<b, s>>
  BY <1>1, <1>2
<1>4. overlay'[a] = IF a = b THEN s ELSE overlay[a]
  BY <1>2, <1>3 DEF StreamTypeOK, Receive
<1>5. CASE overlay'[a] = t /\ \A i \in DOMAIN inbox' : inbox'[i] # <<a, u>>
  <2>1. \A j \in DOMAIN inbox : j > 1 => inbox[j] # <<a, u>>
    <3> SUFFICES ASSUME NEW j \in DOMAIN inbox, j > 1 PROVE inbox[j] # <<a, u>>
      OBVIOUS
    <3>1. j - 1 \in DOMAIN inbox' /\ inbox'[j - 1] = inbox[j]
      BY <1>2
    <3>2. QED
      BY <1>5, <3>1
  <2>2. CASE a = b
    <3>1. inbox[1] = <<a, t>> /\ 1 \in DOMAIN inbox
      BY <1>2, <1>3, <1>4, <1>5, <2>2
    <3>2. QED
      BY <2>1, <3>1 DEF Stands
  <2>3. CASE a # b
    <3>1. overlay[a] = t
      BY <1>4, <1>5, <2>3
    <3>2. \A j \in DOMAIN inbox : inbox[j] # <<a, u>>
      BY <1>2, <1>3, <2>1, <2>3
    <3>3. QED
      BY <3>1, <3>2 DEF Stands
  <2>4. QED
    BY <2>2, <2>3
<1>6. ASSUME NEW i \in DOMAIN inbox', inbox'[i] = <<a, t>>,
             \A j \in DOMAIN inbox' : j > i => inbox'[j] # <<a, u>>
      PROVE  Stands(a, t, u)
  <2>1. i + 1 \in DOMAIN inbox /\ inbox[i + 1] = <<a, t>>
    BY <1>2, <1>6
  <2>2. \A j \in DOMAIN inbox : j > i + 1 => inbox[j] # <<a, u>>
    <3> SUFFICES ASSUME NEW j \in DOMAIN inbox, j > i + 1 PROVE inbox[j] # <<a, u>>
      OBVIOUS
    <3>1. j - 1 \in DOMAIN inbox' /\ j - 1 > i /\ inbox'[j - 1] = inbox[j]
      BY <1>2
    <3>2. QED
      BY <1>6, <3>1
  <2>3. QED
    BY <2>1, <2>2 DEF Stands
<1>7. QED
  BY <1>5, <1>6 DEF Stands

\* Sockets that are taken off the list do not make the page reachable, nor unreachable.
LEMMA Pruning ==
  ASSUME StreamTypeOK, Prune, UNCHANGED <<socket, broken>>
  PROVE  Reachable' <=> Reachable
BY DEF Prune, Reachable

LEMMA Telling ==
  ASSUME StreamTypeOK, NEW b \in Agent, NEW s \in {"online", "offline"}, Tell(b, s)
  PROVE  /\ inbox' \in Seq(Agent \X {"online", "offline"})
         /\ Reachable => inbox' = Append(inbox, <<b, s>>)
         /\ ~Reachable => inbox' = inbox
BY DEF StreamTypeOK, Tell

------------------------------------------------------------------------------
\* The handlers.

LEMMA OneHandler ==
  ASSUME StreamTypeOK, NEW h \in Handler, NEW state \in ServedState, ServedTo(h, state),
         owner' = owner
  PROVE  /\ served' \in [Handler -> ServedState]
         /\ served'[h] = state
         /\ \A g \in Handler : g # h => served'[g] = served[g]
         /\ \A b \in Agent : b # owner[h] =>
               /\ Present(b)' <=> Present(b)
               /\ Entering(b)' <=> Entering(b)
               /\ Leaving(b)' <=> Leaving(b)
<1>1. /\ served' \in [Handler -> ServedState]
      /\ \A g \in Handler : served'[g] = IF g = h THEN state ELSE served[g]
  BY DEF StreamTypeOK, ServedTo
<1>2. QED
  BY <1>1 DEF Present, Entering, Leaving

LEMMA EnterStep ==
  ASSUME StreamInv, NEW h \in Handler, Enter(h)
  PROVE  StreamInv'
<1> USE DEF Enter
<1> DEFINE a == owner[h]
<1>1. a \in Agent /\ "entered" \in ServedState
  BY DEF StreamInv, StreamTypeOK, ServedState
<1>2. /\ UNCHANGED <<owner, beating, broken, consoles, snapshot, socket, opened, inbox,
                     overlay, polled, missed, replaced>>
      /\ entry' = [entry EXCEPT ![a] = h]
  BY DEF links, page
<1>3. /\ served' \in [Handler -> ServedState]
      /\ served'[h] = "entered"
      /\ \A g \in Handler : g # h => served'[g] = served[g]
      /\ \A b \in Agent : b # a => /\ Present(b)' <=> Present(b)
                                   /\ Entering(b)' <=> Entering(b)
                                   /\ Leaving(b)' <=> Leaving(b)
  BY <1>1, <1>2, OneHandler DEF StreamInv
<1>4. Entering(a)' /\ Present(a)'
  BY <1>2, <1>3 DEF Entering, Present
<1>5. StreamTypeOK'
  BY <1>1, <1>2, <1>3 DEF StreamInv, StreamTypeOK
<1>6. \A b \in Agent : entry'[b] = IF b = a THEN h ELSE entry[b]
  BY <1>1, <1>2 DEF StreamInv, StreamTypeOK
<1>7. h # None
  BY StreamAssumption DEF Handler, None
<1>8. Numbered'
  BY <1>2 DEF StreamInv, Numbered
<1>9. Entries'
  <2> SUFFICES ASSUME NEW b \in Agent, entry'[b] # None
               PROVE  owner[entry'[b]] = b /\ served'[entry'[b]] \in {"entered", "serving"}
    BY <1>2 DEF Entries
  <2>1. CASE b = a
    BY <1>3, <1>6, <2>1
  <2>2. CASE b # a
    <3>1. entry'[b] = entry[b] /\ entry[b] \in Handler
      BY <1>2, <1>6, <2>2 DEF StreamInv, StreamTypeOK
    <3>2. owner[entry[b]] = b /\ served[entry[b]] \in {"entered", "serving"}
      BY <3>1 DEF StreamInv, Entries
    <3>3. entry[b] # h
      BY <2>2, <3>2
    <3>4. QED
      BY <1>3, <3>1, <3>2, <3>3
  <2>3. QED
    BY <2>1, <2>2
<1>10. Displaced'
  BY <1>2, <1>3, <1>6, <1>7 DEF StreamInv, Displaced
<1>11. /\ Reachable' <=> Reachable
       /\ \A b \in Agent : /\ Listed(b)' <=> Listed(b)
                           /\ Stands(b, "offline", "online")' <=> Stands(b, "offline", "online")
                           /\ Stands(b, "online", "offline")' <=> Stands(b, "online", "offline")
  BY <1>2 DEF Reachable, Listed, Stands
<1>12. Offline' /\ Online'
  BY <1>2, <1>3, <1>4, <1>11 DEF StreamInv, Offline, Online
<1>13. QED
  BY <1>5, <1>8, <1>9, <1>10, <1>12 DEF StreamInv

LEMMA LeaveStep ==
  ASSUME StreamInv, NEW h \in Handler, Leave(h)
  PROVE  StreamInv'
<1> USE DEF Leave
<1> DEFINE a == owner[h]
<1>1. a \in Agent /\ "left" \in ServedState
  BY DEF StreamInv, StreamTypeOK, ServedState
<1>2. /\ UNCHANGED <<owner, beating, broken, consoles, snapshot, socket, opened, inbox,
                     overlay, polled, missed, replaced>>
      /\ entry' = [entry EXCEPT ![a] = None]
  BY DEF links, page
<1>3. /\ served' \in [Handler -> ServedState]
      /\ served'[h] = "left"
      /\ \A g \in Handler : g # h => served'[g] = served[g]
      /\ \A b \in Agent : b # a => /\ Present(b)' <=> Present(b)
                                   /\ Entering(b)' <=> Entering(b)
                                   /\ Leaving(b)' <=> Leaving(b)
  BY <1>1, <1>2, OneHandler DEF StreamInv
<1>4. Leaving(a)'
  BY <1>2, <1>3 DEF Leaving
<1>5. StreamTypeOK'
  BY <1>1, <1>2, <1>3 DEF StreamInv, StreamTypeOK
<1>6. \A b \in Agent : entry'[b] = IF b = a THEN None ELSE entry[b]
  BY <1>1, <1>2 DEF StreamInv, StreamTypeOK
<1>7. Numbered'
  BY <1>2 DEF StreamInv, Numbered
<1>8. Entries'
  <2> SUFFICES ASSUME NEW b \in Agent, entry'[b] # None
               PROVE  owner[entry'[b]] = b /\ served'[entry'[b]] \in {"entered", "serving"}
    BY <1>2 DEF Entries
  <2>1. entry'[b] = entry[b] /\ entry[b] \in Handler /\ b # a
    BY <1>6 DEF StreamInv, StreamTypeOK
  <2>2. owner[entry[b]] = b /\ served[entry[b]] \in {"entered", "serving"}
    BY <2>1 DEF StreamInv, Entries
  <2>3. entry[b] # h
    BY <2>1, <2>2
  <2>4. QED
    BY <1>3, <2>1, <2>2, <2>3
<1>9. Displaced'
  BY <1>2, <1>3, <1>4, <1>6 DEF StreamInv, Displaced
<1>10. /\ Reachable' <=> Reachable
       /\ \A b \in Agent : /\ Listed(b)' <=> Listed(b)
                           /\ Stands(b, "offline", "online")' <=> Stands(b, "offline", "online")
                           /\ Stands(b, "online", "offline")' <=> Stands(b, "online", "offline")
  BY <1>2 DEF Reachable, Listed, Stands
<1>11. Offline' /\ Online'
  BY <1>2, <1>3, <1>4, <1>10 DEF StreamInv, Offline, Online
<1>12. QED
  BY <1>5, <1>7, <1>8, <1>9, <1>11 DEF StreamInv

\* What both announcements have in common: only a's part of the invariant is at stake.
LEMMA AnnouncedStep ==
  ASSUME StreamInv, NEW h \in Handler, NEW s \in {"online", "offline"}, NEW state \in ServedState,
         ServedTo(h, state), Tell(owner[h], s), Prune,
         UNCHANGED <<owner, entry, beating, broken, snapshot, socket, opened, overlay, polled>>,
         missed' \subseteq Agent, replaced' \subseteq Agent,
         \A b \in Agent \ {owner[h]} : /\ b \in missed' <=> b \in missed
                                       /\ b \in replaced' <=> b \in replaced
  PROVE  /\ StreamTypeOK' /\ Numbered'
         /\ Reachable' <=> Reachable
         /\ \A b \in Agent : Listed(b)' <=> Listed(b)
         /\ \A b \in Agent \ {owner[h]} :
              /\ Present(b)' <=> Present(b)
              /\ Entering(b)' <=> Entering(b)
              /\ Leaving(b)' <=> Leaving(b)
              /\ Stands(b, "offline", "online")' => Stands(b, "offline", "online")
              /\ Stands(b, "online", "offline")' => Stands(b, "online", "offline")
         /\ Reachable => \A t, u : t # u /\ Stands(owner[h], t, u)' => s # u
         /\ ~Reachable => \A t, u : Stands(owner[h], t, u)' <=> Stands(owner[h], t, u)
<1>1. owner[h] \in Agent /\ StreamTypeOK
  BY DEF StreamInv, StreamTypeOK
<1>2. /\ served' \in [Handler -> ServedState]
      /\ \A b \in Agent \ {owner[h]} :
           /\ Present(b)' <=> Present(b)
           /\ Entering(b)' <=> Entering(b)
           /\ Leaving(b)' <=> Leaving(b)
  BY <1>1, OneHandler
<1>3. /\ inbox' \in Seq(Agent \X {"online", "offline"})
      /\ Reachable => inbox' = Append(inbox, <<owner[h], s>>)
      /\ ~Reachable => inbox' = inbox
  BY <1>1, Telling
<1>4. consoles' \subseteq consoles
  BY DEF Prune
<1>5. StreamTypeOK'
  BY <1>1, <1>2, <1>3, <1>4 DEF StreamTypeOK
<1>6. Numbered'
  BY <1>4 DEF StreamInv, Numbered
<1>7. Reachable' <=> Reachable
  BY <1>1, Pruning
<1>8. \A b \in Agent : Listed(b)' <=> Listed(b)
  BY DEF Listed
<1>9. \A t, u : ~Reachable => \A b \in Agent : Stands(b, t, u)' <=> Stands(b, t, u)
  BY <1>3 DEF Stands
<1>10. ASSUME Reachable, NEW b \in Agent, NEW t, NEW u, t # u, Stands(b, t, u)'
       PROVE  IF b = owner[h] THEN s # u ELSE Stands(b, t, u)
  BY <1>1, <1>3, <1>10, Hearing
<1>11. \A b \in Agent \ {owner[h]} :
          /\ Stands(b, "offline", "online")' => Stands(b, "offline", "online")
          /\ Stands(b, "online", "offline")' => Stands(b, "online", "offline")
  BY <1>9, <1>10
<1>12. Reachable => \A t, u : t # u /\ Stands(owner[h], t, u)' => s # u
  BY <1>1, <1>10
<1>13. QED
  BY <1>1, <1>2, <1>5, <1>6, <1>7, <1>8, <1>9, <1>11, <1>12

LEMMA AnnounceStep ==
  ASSUME StreamInv, NEW h \in Handler, Announce(h)
  PROVE  StreamInv'
<1> USE DEF Announce
<1> DEFINE a == owner[h]
<1>1. /\ a \in Agent /\ "serving" \in ServedState /\ "online" \in {"online", "offline"}
      /\ missed' = missed /\ missed \subseteq Agent
      /\ replaced' \subseteq Agent /\ replaced \ {a} \subseteq replaced'
      /\ replaced' \subseteq replaced
      /\ UNCHANGED <<owner, entry>>
  BY DEF StreamInv, StreamTypeOK, ServedState
<1>2. /\ StreamTypeOK' /\ Numbered'
      /\ Reachable' <=> Reachable
      /\ \A b \in Agent : Listed(b)' <=> Listed(b)
      /\ \A b \in Agent \ {a} :
           /\ Present(b)' <=> Present(b)
           /\ Entering(b)' <=> Entering(b)
           /\ Leaving(b)' <=> Leaving(b)
           /\ Stands(b, "offline", "online")' => Stands(b, "offline", "online")
           /\ Stands(b, "online", "offline")' => Stands(b, "online", "offline")
      /\ Reachable => \A t, u : t # u /\ Stands(a, t, u)' => "online" # u
  BY <1>1, AnnouncedStep
<1>3. /\ served'[h] = "serving"
      /\ \A g \in Handler : g # h => served'[g] = served[g]
  BY <1>1, OneHandler DEF StreamInv
<1>4. Entries'
  <2> SUFFICES ASSUME NEW b \in Agent, entry[b] # None
               PROVE  owner[entry[b]] = b /\ served'[entry[b]] \in {"entered", "serving"}
    BY <1>1 DEF Entries
  <2>1. entry[b] \in Handler
    BY DEF StreamInv, StreamTypeOK
  <2>2. QED
    BY <1>3, <2>1 DEF StreamInv, Entries
<1>5. Leaving(a) => Leaving(a)'
  BY <1>1, <1>3 DEF Leaving
<1>6. Present(a) /\ Present(a)'
  BY <1>1, <1>3 DEF Present
<1>7. h # None
  BY StreamAssumption DEF Handler, None
<1>8. entry[a] = None => replaced' = replaced
  BY <1>7
<1>9. Displaced'
  BY <1>1, <1>2, <1>5, <1>6, <1>8 DEF StreamInv, Displaced
<1>10. Offline'
  <2> SUFFICES ASSUME NEW b \in Agent, Reachable', ~Listed(b)', Present(b)',
                      Stands(b, "offline", "online")'
               PROVE  Entering(b)' \/ Leaving(b)' \/ b \in replaced'
    BY DEF Offline
  <2>1. b # a
    BY <1>2
  <2>2. QED
    BY <1>1, <1>2, <2>1 DEF StreamInv, Offline
<1>11. Online'
  BY <1>1, <1>2, <1>6 DEF StreamInv, Online
<1>12. QED
  BY <1>2, <1>4, <1>9, <1>10, <1>11 DEF StreamInv

LEMMA AnnounceLeaveStep ==
  ASSUME StreamInv, NEW h \in Handler, AnnounceLeave(h)
  PROVE  StreamInv'
<1> USE DEF AnnounceLeave
<1> DEFINE a == owner[h]
           heard == Reachable /\ a \notin snapshot[socket]
<1>1. /\ a \in Agent /\ "gone" \in ServedState /\ "offline" \in {"online", "offline"}
      /\ missed' = (IF heard THEN missed \ {a} ELSE missed \cup {a})
      /\ replaced' = (IF Present(a) THEN replaced \cup {a} ELSE replaced)
      /\ missed \subseteq Agent /\ replaced \subseteq Agent
      /\ UNCHANGED <<owner, entry>>
  BY DEF StreamInv, StreamTypeOK, ServedState
<1>2. /\ missed' \subseteq Agent /\ replaced' \subseteq Agent
      /\ \A b \in Agent \ {a} : /\ b \in missed' <=> b \in missed
                                /\ b \in replaced' <=> b \in replaced
      /\ UNCHANGED <<beating, broken, snapshot, socket, opened, overlay, polled>>
      /\ ServedTo(h, "gone") /\ Tell(a, "offline") /\ Prune
  BY <1>1
<1>3. /\ StreamTypeOK' /\ Numbered'
      /\ Reachable' <=> Reachable
      /\ \A b \in Agent : Listed(b)' <=> Listed(b)
      /\ \A b \in Agent \ {a} :
           /\ Present(b)' <=> Present(b)
           /\ Entering(b)' <=> Entering(b)
           /\ Leaving(b)' <=> Leaving(b)
           /\ Stands(b, "offline", "online")' => Stands(b, "offline", "online")
           /\ Stands(b, "online", "offline")' => Stands(b, "online", "offline")
      /\ Reachable => \A t, u : t # u /\ Stands(a, t, u)' => "offline" # u
  <2> HIDE DEF AnnounceLeave, heard
  <2>1. QED
    BY <1>1, <1>2, AnnouncedStep
<1>4. /\ served'[h] = "gone" /\ served[h] = "left"
      /\ \A g \in Handler : g # h => served'[g] = served[g]
  BY <1>1, OneHandler DEF StreamInv
<1>5. Entries'
  <2> SUFFICES ASSUME NEW b \in Agent, entry[b] # None
               PROVE  owner[entry[b]] = b /\ served'[entry[b]] \in {"entered", "serving"}
    BY <1>1 DEF Entries
  <2>1. entry[b] \in Handler
    BY DEF StreamInv, StreamTypeOK
  <2>2. QED
    BY <1>4, <2>1 DEF StreamInv, Entries
<1>6. Present(a)' => Present(a)
  BY <1>1, <1>4 DEF Present
<1>7. Present(a)' => a \in replaced'
  BY <1>1, <1>6
<1>8. Displaced'
  BY <1>1, <1>2, <1>3, <1>7 DEF StreamInv, Displaced
<1>9. Offline'
  BY <1>1, <1>2, <1>3, <1>7 DEF StreamInv, Offline
<1>10. Online'
  <2> SUFFICES ASSUME NEW b \in Agent, Listed(b)' \/ Stands(b, "online", "offline")'
               PROVE  Present(b)' \/ Leaving(b)' \/ b \in missed'
    BY DEF Online
  <2>1. CASE b # a
    BY <1>2, <1>3, <2>1 DEF StreamInv, Online
  <2>2. CASE b = a
    <3>1. CASE heard
      <4>1. ~Listed(a)
        BY <3>1 DEF Listed
      <4>2. ~Stands(a, "online", "offline")'
        BY <1>3, <3>1
      <4>3. QED
        BY <1>3, <2>2, <4>1, <4>2
    <3>2. CASE ~heard
      BY <1>1, <2>2, <3>2
    <3>3. QED
      BY <3>1, <3>2
  <2>3. QED
    BY <2>1, <2>2
<1>11. QED
  BY <1>3, <1>5, <1>8, <1>9, <1>10 DEF StreamInv

------------------------------------------------------------------------------
\* The page and its sockets.  The registry and its history stay.

LEMMA RegistryStays ==
  ASSUME StreamInv, UNCHANGED <<served, owner, entry, replaced>>
  PROVE  /\ Entries' /\ Displaced'
         /\ \A a \in Agent : /\ Present(a)' <=> Present(a)
                             /\ Entering(a)' <=> Entering(a)
                             /\ Leaving(a)' <=> Leaving(a)
<1>1. \A a \in Agent : /\ Present(a)' <=> Present(a)
                       /\ Entering(a)' <=> Entering(a)
                       /\ Leaving(a)' <=> Leaving(a)
  BY DEF Present, Entering, Leaving
<1>2. Entries'
  BY DEF StreamInv, Entries
<1>3. Displaced'
  BY <1>1 DEF StreamInv, Displaced
<1>4. QED
  BY <1>1, <1>2, <1>3

\* Steps that leave the page as it is, or reach it less than before.
LEMMA PageStays ==
  ASSUME StreamInv, StreamTypeOK', Numbered',
         UNCHANGED <<served, owner, entry, missed, replaced, socket>>,
         Reachable' => Reachable,
         \A a \in Agent : /\ Listed(a)' => Listed(a)
                          /\ Reachable' /\ Listed(a) => Listed(a)'
                          /\ Stands(a, "offline", "online")' => Stands(a, "offline", "online")
                          /\ Stands(a, "online", "offline")' => Stands(a, "online", "offline")
  PROVE  StreamInv'
<1>1. /\ Entries' /\ Displaced'
      /\ \A a \in Agent : /\ Present(a)' <=> Present(a)
                          /\ Entering(a)' <=> Entering(a)
                          /\ Leaving(a)' <=> Leaving(a)
  BY RegistryStays
<1>2. Offline' /\ Online'
  BY <1>1 DEF StreamInv, Offline, Online
<1>3. QED
  BY <1>1, <1>2 DEF StreamInv

\* Heartbeats and polls, and steps that change nothing.
LEMMA ListStep ==
  ASSUME StreamInv, beating' \subseteq Agent, polled' \subseteq Agent,
         UNCHANGED <<served, owner, entry, broken, consoles, snapshot, socket, opened, inbox,
                     overlay, missed, replaced>>
  PROVE  StreamInv'
<1>1. StreamTypeOK' /\ Numbered'
  BY DEF StreamInv, StreamTypeOK, Numbered
<1>2. Reachable' <=> Reachable
  BY DEF Reachable
<1>3. \A a \in Agent : /\ Listed(a)' <=> Listed(a)
                       /\ Stands(a, "offline", "online")' <=> Stands(a, "offline", "online")
                       /\ Stands(a, "online", "offline")' <=> Stands(a, "online", "offline")
  BY DEF Listed, Stands
<1>4. QED
  BY <1>1, <1>2, <1>3, PageStays

LEMMA SubscribeStep ==
  ASSUME StreamInv, NEW c \in Socket, Subscribe(c)
  PROVE  StreamInv'
<1> USE DEF Subscribe
<1>1. /\ UNCHANGED <<served, owner, entry, beating, broken, socket, opened, inbox, overlay,
                     polled, missed, replaced>>
      /\ c = socket /\ socket # None
  BY StreamAssumption DEF registry, page, Socket, None
<1>2. StreamTypeOK'
  BY <1>1 DEF StreamInv, StreamTypeOK
<1>3. \A d \in Socket :
          snapshot'[d] = IF d = c THEN {a \in Agent : entry[a] # None} ELSE snapshot[d]
  BY DEF StreamInv, StreamTypeOK
<1>4. Numbered'
  BY <1>1, <1>3 DEF StreamInv, Numbered
<1>5. /\ Entries' /\ Displaced'
      /\ \A a \in Agent : /\ Present(a)' <=> Present(a)
                          /\ Entering(a)' <=> Entering(a)
                          /\ Leaving(a)' <=> Leaving(a)
  BY <1>1, RegistryStays
<1>6. \A a \in Agent : Listed(a)' <=> entry[a] # None
  <2>1. snapshot'[socket'] = {a \in Agent : entry[a] # None} /\ socket' # None
    BY <1>1, <1>3
  <2> HIDE DEF Subscribe
  <2>2. QED
    BY <2>1 DEF Listed
<1>7. \A a \in Agent : entry[a] # None => Present(a)
  <2> SUFFICES ASSUME NEW a \in Agent, entry[a] # None PROVE Present(a)
    OBVIOUS
  <2>1. entry[a] \in Handler
    BY DEF StreamInv, StreamTypeOK
  <2>2. QED
    BY <2>1 DEF StreamInv, Entries, Present
<1>8. Offline'
  BY <1>1, <1>5, <1>6 DEF StreamInv, Displaced, Offline
<1>9. \A a \in Agent : Stands(a, "online", "offline")' <=> Stands(a, "online", "offline")
  BY <1>1 DEF Stands
<1>10. Online'
  BY <1>1, <1>5, <1>6, <1>7, <1>9 DEF StreamInv, Online
<1>11. QED
  BY <1>2, <1>4, <1>5, <1>8, <1>10 DEF StreamInv

LEMMA SendSnapshotStep ==
  ASSUME StreamInv, NEW c \in Socket, NEW a \in Agent, SendSnapshot(c, a)
  PROVE  StreamInv'
<1> USE DEF SendSnapshot
<1>1. /\ UNCHANGED <<served, owner, entry, beating, broken, consoles, socket, opened, overlay,
                     polled, missed, replaced>>
      /\ StreamTypeOK
  BY DEF registry, StreamInv
<1>2. \A d \in Socket : snapshot'[d] = IF d = c THEN snapshot[d] \ {a} ELSE snapshot[d]
  BY <1>1 DEF StreamTypeOK
<1>3. inbox' \in Seq(Agent \X {"online", "offline"})
  BY <1>1 DEF StreamTypeOK
<1>4. StreamTypeOK'
  BY <1>1, <1>3 DEF StreamTypeOK
<1>5. Numbered'
  BY <1>1, <1>2 DEF StreamInv, Numbered
<1>6. /\ Entries' /\ Displaced'
      /\ \A b \in Agent : /\ Present(b)' <=> Present(b)
                          /\ Entering(b)' <=> Entering(b)
                          /\ Leaving(b)' <=> Leaving(b)
  BY <1>1, RegistryStays
<1>7. Reachable' <=> Reachable
  BY <1>1 DEF Reachable
<1>8. \A b \in Agent : b # a => (Listed(b)' <=> Listed(b))
  BY <1>1, <1>2 DEF Listed, StreamTypeOK
<1>9. Listed(a)' => Listed(a)
  BY <1>1, <1>2 DEF Listed, StreamTypeOK
<1>10. CASE c = socket /\ c \notin broken
  <2>1. inbox' = Append(inbox, <<a, "online">>) /\ Listed(a)
    BY <1>10, StreamAssumption DEF Listed, Socket, None
  <2>2. ASSUME NEW b \in Agent, NEW t, NEW u, t # u, Stands(b, t, u)'
        PROVE  IF b = a THEN "online" # u ELSE Stands(b, t, u)
    <3>1. "online" \in {"online", "offline"}
      OBVIOUS
    <3>2. QED
      BY <1>1, <2>1, <2>2, <3>1, Hearing
  <2>3. Offline'
    <3> SUFFICES ASSUME NEW b \in Agent, Reachable', ~Listed(b)', Present(b)',
                        Stands(b, "offline", "online")'
                 PROVE  Entering(b)' \/ Leaving(b)' \/ b \in replaced'
      BY DEF Offline
    <3>1. b # a /\ Stands(b, "offline", "online")
      BY <2>2
    <3>2. QED
      BY <1>1, <1>6, <1>7, <1>8, <3>1 DEF StreamInv, Offline
  <2>4. Online'
    BY <1>1, <1>6, <1>8, <1>9, <2>1, <2>2 DEF StreamInv, Online
  <2>5. QED
    BY <1>4, <1>5, <1>6, <2>3, <2>4 DEF StreamInv
<1>11. CASE ~(c = socket /\ c \notin broken)
  <2>1. inbox' = inbox
    BY <1>11
  <2>2. \A t, u : \A b \in Agent : Stands(b, t, u)' <=> Stands(b, t, u)
    BY <1>1, <2>1 DEF Stands
  <2>3. Reachable' => (Listed(a)' <=> Listed(a))
    BY <1>1, <1>2, <1>7, <1>11 DEF Reachable, Listed, StreamTypeOK
  <2>4. QED
    BY <1>1, <1>4, <1>5, <1>7, <1>8, <1>9, <2>2, <2>3, PageStays
<1>12. QED
  BY <1>10, <1>11

LEMMA ConsoleEndsStep ==
  ASSUME StreamInv, NEW c \in Socket, ConsoleEnds(c)
  PROVE  StreamInv'
<1> USE DEF ConsoleEnds
<1>1. /\ UNCHANGED <<served, owner, entry, beating, broken, socket, opened, inbox, overlay,
                     polled, missed, replaced>>
      /\ StreamTypeOK
  BY DEF registry, page, StreamInv
<1>2. \A d \in Socket : snapshot'[d] = IF d = c THEN {} ELSE snapshot[d]
  BY <1>1 DEF StreamTypeOK
<1>3. StreamTypeOK'
  BY <1>1 DEF StreamTypeOK
<1>4. Numbered'
  BY <1>1, <1>2 DEF StreamInv, Numbered
<1>5. Reachable' => Reachable
  BY <1>1 DEF Reachable
<1>6. \A a \in Agent : /\ Listed(a)' => Listed(a)
                       /\ Reachable' /\ Listed(a) => Listed(a)'
  BY <1>1, <1>2 DEF Listed, Reachable, StreamTypeOK
<1>7. \A a \in Agent : /\ Stands(a, "offline", "online")' <=> Stands(a, "offline", "online")
                       /\ Stands(a, "online", "offline")' <=> Stands(a, "online", "offline")
  BY <1>1 DEF Stands
<1>8. QED
  BY <1>1, <1>3, <1>4, <1>5, <1>6, <1>7, PageStays

LEMMA BreakStep ==
  ASSUME StreamInv, Break
  PROVE  StreamInv'
<1> USE DEF Break
<1>1. UNCHANGED <<served, owner, entry, beating, consoles, snapshot, socket, opened, inbox,
                  overlay, polled, missed, replaced>>
  BY DEF registry, page
<1>2. StreamTypeOK' /\ Numbered'
  BY <1>1 DEF StreamInv, StreamTypeOK, Numbered
<1>3. Reachable' => Reachable
  BY <1>1 DEF Reachable
<1>4. \A a \in Agent : /\ Listed(a)' <=> Listed(a)
                       /\ Stands(a, "offline", "online")' <=> Stands(a, "offline", "online")
                       /\ Stands(a, "online", "offline")' <=> Stands(a, "online", "offline")
  BY <1>1 DEF Listed, Stands
<1>5. QED
  BY <1>1, <1>2, <1>3, <1>4, PageStays

LEMMA ReceiveStep ==
  ASSUME StreamInv, Receive
  PROVE  StreamInv'
<1>1. /\ UNCHANGED <<served, owner, entry, beating, broken, consoles, snapshot, socket, opened,
                     polled, missed, replaced>>
      /\ inbox # <<>>
      /\ StreamTypeOK
  BY DEF Receive, registry, links, StreamInv
<1>2. /\ Head(inbox) \in Agent \X {"online", "offline"}
      /\ Tail(inbox) \in Seq(Agent \X {"online", "offline"})
  BY <1>1 DEF StreamTypeOK
<1>3. StreamTypeOK'
  BY <1>1, <1>2 DEF StreamTypeOK, Receive
<1>4. Numbered' /\ (Reachable' <=> Reachable) /\ \A a \in Agent : Listed(a)' <=> Listed(a)
  BY <1>1 DEF StreamInv, Numbered, Reachable, Listed
<1>5. \A a \in Agent : /\ Stands(a, "offline", "online")' => Stands(a, "offline", "online")
                       /\ Stands(a, "online", "offline")' => Stands(a, "online", "offline")
  BY <1>1, Reading
<1>6. QED
  BY <1>1, <1>3, <1>4, <1>5, PageStays

\* Steps after which the page is not reachable and not listed to.
LEMMA ConnectStep ==
  ASSUME StreamInv, Connect
  PROVE  StreamInv'
<1> USE DEF Connect
<1>1. /\ UNCHANGED <<served, owner, entry, beating, broken, consoles, snapshot, inbox, overlay,
                     polled, missed, replaced>>
      /\ opened \in 0 .. MaxSockets
  BY DEF registry, links, StreamInv, StreamTypeOK
<1>2. socket' \in Socket /\ opened' \in 0 .. MaxSockets /\ opened < socket'
  BY <1>1, StreamAssumption DEF Socket
<1>3. StreamTypeOK'
  BY <1>1, <1>2 DEF StreamInv, StreamTypeOK
<1>4. consoles \subseteq Socket /\ broken \subseteq Socket /\ \A c \in Socket : c \in Nat
  BY DEF Socket, StreamInv, StreamTypeOK
<1>5. Numbered'
  <2>1. socket' <= opened' /\ opened < opened' /\ opened \in Nat
    BY <1>1
  <2>2. \A c \in consoles \cup broken : c <= opened'
    BY <1>4, <2>1 DEF StreamInv, Numbered
  <2>3. \A c \in Socket : snapshot[c] # {} => c <= opened'
    BY <1>4, <2>1 DEF StreamInv, Numbered
  <2>4. QED
    BY <1>1, <2>1, <2>2, <2>3 DEF Numbered
<1>6. socket' \notin consoles
  BY <1>1, <1>2, <1>4 DEF StreamInv, Numbered
<1>7. ~Reachable'
  BY <1>1, <1>6 DEF Reachable
<1>8. snapshot[socket'] = {}
  BY <1>1, <1>2, <1>4 DEF StreamInv, Numbered
<1>9. \A a \in Agent : ~Listed(a)'
  BY <1>1, <1>8 DEF Listed
<1>10. /\ Entries' /\ Displaced'
       /\ \A a \in Agent : /\ Present(a)' <=> Present(a)
                           /\ Leaving(a)' <=> Leaving(a)
  BY <1>1, RegistryStays
<1>11. \A a \in Agent : Stands(a, "online", "offline")' <=> Stands(a, "online", "offline")
  BY <1>1 DEF Stands
<1>12. Offline' /\ Online'
  BY <1>1, <1>7, <1>9, <1>10, <1>11 DEF StreamInv, Offline, Online
<1>13. QED
  BY <1>3, <1>5, <1>10, <1>12 DEF StreamInv

\* Frames that are dropped: what the page then takes for true stood before, or an end got lost.
LEMMA CloseStep ==
  ASSUME StreamInv, Close
  PROVE  StreamInv'
<1> USE DEF Close
<1>1. /\ UNCHANGED <<served, owner, entry, beating, broken, consoles, snapshot, opened, overlay,
                     polled, replaced>>
      /\ socket' = None /\ inbox' = <<>> /\ missed' = missed \cup LostEnds
  BY DEF registry, links
<1>2. LostEnds \subseteq Agent
  BY DEF LostEnds
<1>3. inbox' \in Seq(Agent \X {"online", "offline"})
  BY <1>1
<1>4. StreamTypeOK'
  BY <1>1, <1>2, <1>3 DEF StreamInv, StreamTypeOK
<1>5. Numbered'
  BY <1>1 DEF StreamInv, Numbered
<1>6. ~Reachable'
  BY <1>1, StreamAssumption DEF Reachable, StreamInv, StreamTypeOK, Socket, None
<1>7. \A a \in Agent : ~Listed(a)'
  BY <1>1 DEF Listed
<1>8. /\ Entries' /\ Displaced'
      /\ \A a \in Agent : /\ Present(a)' <=> Present(a)
                          /\ Leaving(a)' <=> Leaving(a)
  BY <1>1, RegistryStays
<1>9. ASSUME NEW a \in Agent, Stands(a, "online", "offline")'
      PROVE  Stands(a, "online", "offline") \/ a \in LostEnds
  <2>1. DOMAIN inbox' = {}
    BY <1>1
  <2>2. overlay[a] = "online"
    BY <1>1, <1>9, <2>1 DEF Stands
  <2>3. QED
    BY <2>2 DEF Stands, LostEnds
<1>10. Offline' /\ Online'
  BY <1>1, <1>6, <1>7, <1>8, <1>9 DEF StreamInv, Offline, Online
<1>11. QED
  BY <1>4, <1>5, <1>8, <1>10 DEF StreamInv

LEMMA ReloadStep ==
  ASSUME StreamInv, Reload
  PROVE  StreamInv'
<1> USE DEF Reload
<1>1. /\ UNCHANGED <<served, owner, entry, beating, consoles, snapshot, opened, replaced>>
      /\ socket' = None /\ inbox' = <<>>
  BY DEF registry
<1>2. inbox' \in Seq(Agent \X {"online", "offline"})
  BY <1>1
<1>3. StreamTypeOK'
  BY <1>1, <1>2 DEF StreamInv, StreamTypeOK
<1>4. Numbered'
  BY <1>1 DEF StreamInv, Numbered
<1>5. ~Reachable'
  BY <1>1, <1>3, StreamAssumption DEF Reachable, StreamTypeOK, Socket, None
<1>6. \A a \in Agent : ~Listed(a)'
  BY <1>1 DEF Listed
<1>7. Entries' /\ Displaced'
  BY <1>1, RegistryStays
<1>8. \A a \in Agent : ~Stands(a, "online", "offline")'
  <2>1. DOMAIN inbox' = {}
    BY <1>1
  <2>2. QED
    BY <2>1 DEF Stands
<1>9. Offline' /\ Online'
  BY <1>5, <1>6, <1>8 DEF Offline, Online
<1>10. QED
  BY <1>3, <1>4, <1>7, <1>9 DEF StreamInv

------------------------------------------------------------------------------
LEMMA StreamNextInv == StreamInv /\ [StreamNext]_streamVars => StreamInv'
<1> SUFFICES ASSUME StreamInv, [StreamNext]_streamVars PROVE StreamInv'
  OBVIOUS
<1>1. ASSUME NEW a \in Agent, Heartbeat(a) \/ Expire(a) PROVE StreamInv'
  BY <1>1, ListStep DEF Heartbeat, Expire, registry, links, page, StreamInv, StreamTypeOK
<1>2. CASE Poll
  BY <1>2, ListStep DEF Poll, registry, links, StreamInv, StreamTypeOK
<1>3. CASE UNCHANGED streamVars
  BY <1>3, ListStep DEF streamVars, registry, links, page, StreamInv, StreamTypeOK
<1>4. QED
  BY <1>1, <1>2, <1>3, EnterStep, AnnounceStep, LeaveStep, AnnounceLeaveStep, SubscribeStep,
     SendSnapshotStep, ConsoleEndsStep, BreakStep, ConnectStep, ReceiveStep, CloseStep,
     ReloadStep DEF StreamNext

\* The invariant of this module holds throughout.
THEOREM StreamAlways == StreamSpec => []StreamInv
<1>1. QED
  BY StreamInitInv, StreamNextInv, PTL DEF StreamSpec

\* The parts of the stream (manager.py, handlers.py, console-socket.ts) keep their types,
\* for any Agents and connections.
THEOREM StreamTypes == StreamSpec => []StreamTypeOK
<1>1. StreamInv => StreamTypeOK
  BY DEF StreamInv
<1>2. QED
  BY <1>1, StreamAlways, PTL

LEMMA Shows == StreamInv => ShownIsTrue
<1> SUFFICES ASSUME StreamInv, Still, NEW a \in Agent
             PROVE  /\ Present(a) => Shown(a) \/ a \in replaced
                    /\ Shown(a) => Present(a) \/ a \in missed
  BY DEF ShownIsTrue
<1>1. ~Listed(a) /\ Reachable /\ (a \in polled <=> Present(a))
  BY DEF Still, Listed
<1>2. ~Entering(a) /\ ~Leaving(a)
  BY DEF Still, Entering, Leaving
<1>3. DOMAIN inbox = {}
  BY DEF Still
<1>4. overlay[a] \in {"none", "online", "offline"}
  BY DEF StreamInv, StreamTypeOK
<1>5. overlay[a] = "offline" => Stands(a, "offline", "online")
  BY <1>3 DEF Stands
<1>6. overlay[a] = "online" => Stands(a, "online", "offline")
  BY <1>3 DEF Stands
<1>7. QED
  BY <1>1, <1>2, <1>4, <1>5, <1>6 DEF StreamInv, Offline, Online, Shown

\* Whatever connections come, go, break and overlap: a page in good connection, to which
\* nothing is under way, shows the Agents that are connected and no others, but for those
\* beside whose handler another one ended last (disconnect takes the entry out), and those
\* whose end the page was not told last.
THEOREM ShownAlwaysTrue == StreamSpec => []ShownIsTrue
<1>1. QED
  BY Shows, StreamAlways, PTL

------------------------------------------------------------------------------
(***************************************************************************)
(* AccountSessions: the accounts that starting processes make, and what    *)
(* a client holds between its log-ins.                                     *)
(***************************************************************************)
AccountStepOf(p) ==
    \/ Start(p) \/ LookForTables(p) \/ MakeTables(p) \/ CountUsers(p) \/ InsertUsers(p)
    \/ CommitUsers(p) \/ StopServer(p)

\* One process at most has inserted the accounts, and then there are none yet; whoever
\* serves has found some.
Making ==
    /\ \A p, q \in Server : server[p].at = "inserted" /\ server[q].at = "inserted" => p = q
    /\ \A p \in Server : server[p].at = "inserted" => ~SomeAccount
    /\ \A p \in Server : Serving(p) => SomeAccount

\* A client that holds a token has the password of an account that exists.
HolderOf(c) ==
    token[c] # NoToken =>
        token[c].user = client[c].user /\ client[c].right /\ account[client[c].user] # "absent"

\* Where a token has been refused: what the 401 said is so.
Earned(c) ==
    /\ request[c].why \in {"signature", "expired", "account"}
    /\ request[c].why = "expired" => token[c].exp < request[c].judged
    /\ request[c].why = "account" => account[client[c].user] = "disabled"

\* What a request has behind it: its token, before a log-in the 401 that the token has earned,
\* and on its second try a new one.
RequestOf(c) ==
    request[c].step # "none" =>
        /\ token[c] # NoToken
        /\ request[c].asked <= clock
        /\ request[c].step = "login" => Earned(c)
        /\ request[c].step \in {"sent", "read"} => request[c].login \in {"", "renewed"}
        /\ request[c].login = "renewed" /\ request[c].step \in {"sent", "read"} =>
               token[c].exp >= request[c].asked + TTL

\* Why a client that keeps its credentials has been refused.
RefusalOf(c) ==
    client[c].keeps /\ request[c].step = "refused" =>
        \/ "account" \in {request[c].why, request[c].login} /\ account[client[c].user] = "disabled"
        \/ /\ request[c].login = "error" /\ request[c].why \in {"signature", "expired"}
           /\ request[c].why = "expired" => token[c].exp < request[c].judged
        \/ /\ request[c].login = "renewed" /\ request[c].why \in {"signature", "expired"}
           /\ token[c].exp >= request[c].asked + TTL
           /\ request[c].why = "expired" => request[c].judged > request[c].asked + TTL

Sessions == \A c \in Client : HolderOf(c) /\ RequestOf(c) /\ RefusalOf(c)

AccountInv == AccountTypeOK /\ AccountsWhole /\ Making /\ Sessions

RequestRecord ==
    [step : RequestStep, server : Server \cup {"nowhere"}, allowed : Allowances \cup {{}},
     login : Login, asked : Nat, judged : Nat, why : Why]

LEMMA AccountTyped ==
    ASSUME AccountTypeOK
    PROVE  /\ account \in [Name -> Row]
           /\ server \in [Server -> [at : ServerStep, secret : Secret]]
           /\ clock \in Nat
           /\ client \in [Client -> [user : Name, right : BOOLEAN, keeps : BOOLEAN]]
           /\ token \in [Client -> Token \cup {NoToken}]
           /\ request \in [Client -> RequestRecord]
           /\ NoRequest \in RequestRecord
           /\ TTL \in Nat
<1>1. NoRequest \in RequestRecord
  BY DEF RequestRecord, NoRequest, RequestStep, Why, Login
<1>2. clock \in Nat
  BY ClockBound DEF AccountTypeOK
<1>3. QED
  BY <1>1, <1>2, TTLAssumption DEF AccountTypeOK, RequestRecord

\* A token is none of the kind that stands for no token.
LEMMA CreateTokenTyped ==
    ASSUME AccountTypeOK, NEW p \in Server, NEW c \in Client
    PROVE  LET t == CreateToken(p, client[c].user) IN
           t \in Token /\ t # NoToken /\ t.user = client[c].user /\ t.exp = clock + TTL
  BY AccountTyped DEF CreateToken, Token, NoToken, Name

------------------------------------------------------------------------------
\* Steps of a process.

LEMMA GoesTyped ==
    ASSUME AccountTypeOK, NEW p \in Server, NEW step \in ServerStep, Goes(p, step)
    PROVE  /\ server' \in [Server -> [at : ServerStep, secret : Secret]]
           /\ server'[p].at = step
           /\ \A q \in Server \ {p} : server'[q] = server[q]
  BY AccountTyped DEF Goes

\* What a process does to the accounts, to itself and to the requests it was handling.
LEMMA AccountStepEffect ==
    ASSUME AccountTypeOK, NEW p \in Server, AccountStepOf(p)
    PROVE  /\ tables' \in BOOLEAN
           /\ server' \in [Server -> [at : ServerStep, secret : Secret]]
           /\ \A q \in Server \ {p} : server'[q] = server[q]
           /\ \/ account' = account /\ server'[p].at \notin {"inserted", "serving"}
              \/ account' = account /\ server'[p].at = "serving" /\ SomeAccount
              \/ /\ account' = account /\ server'[p].at = "inserted" /\ ~SomeAccount
                 /\ \A q \in Server : server[q].at # "inserted"
              \/ account' = Seeded /\ server[p].at = "inserted" /\ server'[p].at = "serving"
           /\ request' \in [Client -> RequestRecord]
           /\ \A c \in Client : request'[c] = request[c] \/ request'[c] = NoRequest
           /\ UNCHANGED <<clock, client, token>>
<1>1. tables \in BOOLEAN
  BY DEF AccountTypeOK
<1>2. CASE Start(p)
  <2>1. PICK secret \in Secret :
            server' = [server EXCEPT ![p] = [at |-> "schema", secret |-> secret]]
    BY <1>2 DEF Start
  <2>2. UNCHANGED <<tables, account, clock, client, token, request>>
    BY <1>2 DEF Start
  <2>3. server'[p].at = "schema" /\ \A q \in Server \ {p} : server'[q] = server[q]
    BY <2>1, AccountTyped
  <2>4. server' \in [Server -> [at : ServerStep, secret : Secret]]
    BY <2>1, AccountTyped DEF ServerStep
  <2>5. QED
    BY <1>1, <2>2, <2>3, <2>4, AccountTyped
<1>3. CASE LookForTables(p)
  <2>1. PICK step \in {"counting", "making"} : Goes(p, step)
    BY <1>3 DEF LookForTables
  <2>2. UNCHANGED <<tables, account, clock, client, token, request>>
    BY <1>3 DEF LookForTables
  <2>3. QED
    BY <1>1, <2>1, <2>2, AccountTyped, GoesTyped DEF ServerStep
<1>4. CASE MakeTables(p)
  <2>1. PICK step \in {"counting", "down"} : Goes(p, step)
    BY <1>4 DEF MakeTables
  <2>2. tables' \in BOOLEAN /\ UNCHANGED <<account, clock, client, token, request>>
    BY <1>4 DEF MakeTables
  <2>3. QED
    BY <2>1, <2>2, AccountTyped, GoesTyped DEF ServerStep
<1>5. CASE CountUsers(p)
  <2>1. (Goes(p, "serving") /\ SomeAccount) \/ Goes(p, "seeding")
    BY <1>5 DEF CountUsers
  <2>2. UNCHANGED <<tables, account, clock, client, token, request>>
    BY <1>5 DEF CountUsers
  <2>3. QED
    BY <1>1, <2>1, <2>2, AccountTyped, GoesTyped DEF ServerStep
<1>6. CASE InsertUsers(p)
  <2>1. (Goes(p, "inserted") /\ ~SomeAccount) \/ Goes(p, "down")
    BY <1>6 DEF InsertUsers
  <2>2. /\ \A q \in Server : server[q].at # "inserted"
        /\ UNCHANGED <<tables, account, clock, client, token, request>>
    BY <1>6 DEF InsertUsers
  <2>3. QED
    BY <1>1, <2>1, <2>2, AccountTyped, GoesTyped DEF ServerStep
<1>7. CASE CommitUsers(p)
  <2>1. Goes(p, "serving") /\ account' = Seeded /\ server[p].at = "inserted"
    BY <1>7 DEF CommitUsers
  <2>2. UNCHANGED <<tables, clock, client, token, request>>
    BY <1>7 DEF CommitUsers
  <2>3. QED
    BY <1>1, <2>1, <2>2, AccountTyped, GoesTyped DEF ServerStep
<1>8. CASE StopServer(p)
  <2>1. Goes(p, "down") /\ UNCHANGED <<tables, account, clock, client, token>>
    BY <1>8 DEF StopServer
  <2>2. request' = [c \in Client |-> IF request[c].step \in {"sent", "read"} /\ request[c].server = p
                                     THEN NoRequest ELSE request[c]]
    BY <1>8 DEF StopServer
  <2>3. /\ request' \in [Client -> RequestRecord]
        /\ \A c \in Client : request'[c] = request[c] \/ request'[c] = NoRequest
    BY <2>2, AccountTyped
  <2>4. QED
    BY <1>1, <2>1, <2>3, AccountTyped, GoesTyped DEF ServerStep
<1>9. QED
  BY <1>2, <1>3, <1>4, <1>5, <1>6, <1>7, <1>8 DEF AccountStepOf

LEMMA AccountStepKeeps ==
    ASSUME AccountInv, NEW p \in Server, AccountStepOf(p) PROVE AccountInv'
<1> USE DEF AccountInv
<1>1. Seeded \in [Name -> Row] /\ \A n \in Name : Seeded[n] # "absent"
  BY DEF Seeded, Row
<1>2. AccountTypeOK'
  BY <1>1, AccountStepEffect DEF AccountTypeOK, RequestRecord
\* The accounts only come into being, and do not change then.
<1>3. /\ account' = account \/ (account' = Seeded /\ ~SomeAccount)
      /\ \A q \in Server : server'[q].at = server[q].at \/ q = p
  BY AccountStepEffect DEF Making
<1>4. AccountsWhole'
  BY <1>1, <1>3 DEF AccountsWhole, SomeAccount
<1>5. Making'
  <2>1. SomeAccount => SomeAccount'
    BY <1>3 DEF SomeAccount
  <2>2. account' = account => SomeAccount' = SomeAccount
    BY DEF SomeAccount
  <2>3. account' = Seeded => SomeAccount'
    BY <1>1 DEF SomeAccount, Name
  <2>4. CASE account' = account /\ server'[p].at \notin {"inserted", "serving"}
    BY <1>3, <2>2, <2>4 DEF Making, Serving
  <2>5. CASE account' = account /\ server'[p].at = "serving" /\ SomeAccount
    BY <1>3, <2>2, <2>5 DEF Making, Serving
  <2>6. CASE /\ account' = account /\ server'[p].at = "inserted" /\ ~SomeAccount
             /\ \A q \in Server : server[q].at # "inserted"
    BY <1>3, <2>2, <2>6 DEF Making, Serving
  <2>7. CASE account' = Seeded /\ server[p].at = "inserted" /\ server'[p].at = "serving"
    BY <1>3, <2>3, <2>7 DEF Making, Serving
  <2>8. QED
    BY <2>4, <2>5, <2>6, <2>7, AccountStepEffect
<1>6. Sessions'
  <2> SUFFICES ASSUME NEW c \in Client PROVE (HolderOf(c) /\ RequestOf(c) /\ RefusalOf(c))'
    BY DEF Sessions
  <2>1. /\ HolderOf(c) /\ RequestOf(c) /\ RefusalOf(c) /\ UNCHANGED <<clock, client, token>>
        /\ request'[c] = request[c] \/ request'[c] = NoRequest
    BY AccountStepEffect DEF Sessions
  <2>2. client[c].user \in Name
    BY AccountTyped
  <2>3. /\ account[client[c].user] # "absent" => account'[client[c].user] # "absent"
        /\ account[client[c].user] = "disabled" => account'[client[c].user] = "disabled"
    BY <1>3, <2>2 DEF SomeAccount
  <2>4. HolderOf(c)'
    BY <2>1, <2>3 DEF HolderOf
  <2>5. CASE request'[c] = request[c]
    BY <2>1, <2>3, <2>4, <2>5 DEF RequestOf, Earned, RefusalOf
  <2>6. CASE request'[c] = NoRequest
    <3>1. NoRequest.step = "none"
      BY DEF NoRequest
    <3>2. request'[c].step = "none"
      BY <2>6, <3>1
    <3>3. QED
      BY <2>4, <3>2 DEF RequestOf, Earned, RefusalOf
  <2>7. QED
    BY <2>1, <2>5, <2>6
<1>7. QED
  BY <1>2, <1>4, <1>5, <1>6

------------------------------------------------------------------------------
\* Steps of a client: the database and the processes stay as they are.

LEMMA ClientKeeps ==
    ASSUME AccountInv, NEW c \in Client, UNCHANGED <<databaseVars, clock, client>>,
           token' \in [Client -> Token \cup {NoToken}], request' \in [Client -> RequestRecord],
           \A d \in Client \ {c} : token'[d] = token[d] /\ request'[d] = request[d],
           HolderOf(c)', RequestOf(c)', RefusalOf(c)'
    PROVE  AccountInv'
<1> USE DEF AccountInv, databaseVars
<1>1. AccountTypeOK'
  BY DEF AccountTypeOK, RequestRecord
<1>2. AccountsWhole' /\ Making'
  BY DEF AccountsWhole, Making, SomeAccount, Serving
<1>3. ASSUME NEW d \in Client, d # c PROVE (HolderOf(d) /\ RequestOf(d) /\ RefusalOf(d))'
  <2>1. HolderOf(d) /\ RequestOf(d) /\ RefusalOf(d) /\ token'[d] = token[d] /\ request'[d] = request[d]
    BY <1>3 DEF Sessions
  <2>2. QED
    BY <2>1 DEF HolderOf, RequestOf, Earned, RefusalOf
<1>4. QED
  BY <1>1, <1>2, <1>3 DEF Sessions

\* Where only the request changes.
LEMMA RequestKeeps ==
    ASSUME AccountInv, NEW c \in Client, UNCHANGED <<databaseVars, clock, client, token>>,
           NEW r \in RequestRecord, SetRequest(c, r),
           r.step # "none" => token[c] # NoToken /\ r.asked <= clock,
           r.step \in {"sent", "read"} =>
               /\ r.login \in {"", "renewed"}
               /\ r.login = "renewed" => token[c].exp >= r.asked + TTL,
           request'[c] = r => (r.step = "login" => Earned(c)') /\ RefusalOf(c)'
    PROVE  AccountInv'
<1>1. /\ request' \in [Client -> RequestRecord] /\ request'[c] = r
      /\ \A d \in Client \ {c} : request'[d] = request[d]
  BY AccountTyped DEF SetRequest, AccountInv
<1>2. HolderOf(c)'
  BY DEF HolderOf, AccountInv, Sessions, databaseVars
<1>3. RequestOf(c)' /\ RefusalOf(c)'
  BY <1>1 DEF RequestOf, databaseVars
<1>4. token' \in [Client -> Token \cup {NoToken}]
  BY AccountTyped DEF AccountInv
<1>5. QED
  BY <1>1, <1>2, <1>3, <1>4, ClientKeeps

\* A client that holds a token has an account, which is in use or has been taken out of use.
LEMMA HolderKnown ==
    ASSUME AccountInv, NEW c \in Client, token[c] # NoToken
    PROVE  /\ client[c].user \in Name /\ token[c].user = client[c].user /\ client[c].right
           /\ account[client[c].user] \in {"active", "disabled"}
  BY AccountTyped DEF AccountInv, Sessions, HolderOf, Row

\* What a 401 leads to: a log-in, or a refusal.
LEMMA UnauthorizedKeeps ==
    ASSUME AccountInv, NEW c \in Client, NEW why \in {"signature", "expired", "account"},
           request[c].step \in {"sent", "read"}, Unauthorized(c, why),
           why = "account" => account[client[c].user] = "disabled",
           why = "expired" => token[c].exp < clock,
           UNCHANGED <<databaseVars, clock, client, token>>
    PROVE  AccountInv'
<1>1. /\ request[c] \in RequestRecord /\ clock \in Nat /\ RequestOf(c)
      /\ token[c] \in Token \cup {NoToken} /\ TTL \in Nat
  BY AccountTyped DEF AccountInv, Sessions
<1> DEFINE next == IF client[c].keeps /\ request[c].login = "" THEN "login" ELSE "refused"
           r == [request[c] EXCEPT !.step = next, !.judged = clock, !.why = why]
<1>2. SetRequest(c, r)
  BY DEF Unauthorized
<1>3. /\ r \in RequestRecord /\ r.asked = request[c].asked /\ r.login = request[c].login
      /\ r.step \in {"login", "refused"} /\ r.judged = clock /\ r.why = why
      /\ r.step = "refused" /\ client[c].keeps => r.login = "renewed"
  BY <1>1 DEF RequestRecord, RequestStep, Why, RequestOf
<1> HIDE DEF r
<1>4. token[c] # NoToken /\ r.asked <= clock
  BY <1>1, <1>3 DEF RequestOf
<1>5. token[c].exp \in Nat /\ r.asked \in Nat
  BY <1>1, <1>3, <1>4 DEF Token, RequestRecord
<1>6. r.login = "renewed" => token[c].exp >= r.asked + TTL
  BY <1>1, <1>3 DEF RequestOf
<1>7. UNCHANGED <<account, client, token>>
  BY DEF databaseVars
<1>8. request'[c] = r => Earned(c)'
  BY <1>3, <1>7 DEF Earned
<1>9. request'[c] = r => RefusalOf(c)'
  BY <1>1, <1>3, <1>5, <1>6, <1>7 DEF RefusalOf
<1>10. QED
  BY <1>2, <1>3, <1>4, <1>8, <1>9, RequestKeeps

LEMMA LogInKeeps ==
    ASSUME AccountInv, NEW c \in Client, NEW p \in Server, LogIn(c, p) PROVE AccountInv'
<1> DEFINE t == CreateToken(p, client[c].user)
<1>1. t \in Token /\ t # NoToken /\ t.user = client[c].user
  BY CreateTokenTyped DEF AccountInv
<1>2. /\ request[c].step = "none" /\ LoginProblem(c) = "" /\ token' = [token EXCEPT ![c] = t]
      /\ UNCHANGED <<databaseVars, clock, client, request>>
  BY DEF LogIn
<1> HIDE DEF t
<1>3. client[c].right /\ account[client[c].user] # "absent"
  BY <1>2 DEF LoginProblem, PasswordMatches, Known
<1>4. /\ token' \in [Client -> Token \cup {NoToken}] /\ token'[c] = t
      /\ \A d \in Client \ {c} : token'[d] = token[d]
  BY <1>1, <1>2, AccountTyped DEF AccountInv
<1>5. HolderOf(c)' /\ RequestOf(c)' /\ RefusalOf(c)'
  BY <1>1, <1>2, <1>3, <1>4 DEF HolderOf, RequestOf, Earned, RefusalOf, databaseVars
<1>6. request' \in [Client -> RequestRecord] /\ \A d \in Client \ {c} : request'[d] = request[d]
  BY <1>2, AccountTyped DEF AccountInv
<1>7. QED
  BY <1>2, <1>4, <1>5, <1>6, ClientKeeps

LEMMA LogOutKeeps ==
    ASSUME AccountInv, NEW c \in Client, LogOut(c) PROVE AccountInv'
<1>1. /\ request[c].step = "none" /\ token' = [token EXCEPT ![c] = NoToken]
      /\ UNCHANGED <<databaseVars, clock, client, request>>
  BY DEF LogOut
<1>2. /\ token' \in [Client -> Token \cup {NoToken}] /\ token'[c] = NoToken
      /\ \A d \in Client \ {c} : token'[d] = token[d]
      /\ request' \in [Client -> RequestRecord] /\ \A d \in Client \ {c} : request'[d] = request[d]
  BY <1>1, AccountTyped DEF AccountInv
<1>3. HolderOf(c)' /\ RequestOf(c)' /\ RefusalOf(c)'
  BY <1>1, <1>2 DEF HolderOf, RequestOf, Earned, RefusalOf
<1>4. QED
  BY <1>1, <1>2, <1>3, ClientKeeps

LEMMA AskKeeps ==
    ASSUME AccountInv, NEW c \in Client, NEW p \in Server, Ask(c, p) PROVE AccountInv'
<1>1. PICK roles \in Allowances :
          request' = [request EXCEPT ![c] = [NoRequest EXCEPT !.step = "sent", !.server = p,
                                               !.allowed = roles, !.asked = clock]]
  BY DEF Ask
<1> DEFINE r == [NoRequest EXCEPT !.step = "sent", !.server = p, !.allowed = roles, !.asked = clock]
<1>2. NoRequest \in RequestRecord /\ NoRequest.login = "" /\ clock \in Nat
  BY AccountTyped DEF AccountInv, NoRequest
<1>3. r \in RequestRecord /\ r.step = "sent" /\ r.login = "" /\ r.asked = clock
  BY <1>2 DEF RequestRecord, RequestStep
<1>4. SetRequest(c, r) /\ token[c] # NoToken /\ UNCHANGED <<databaseVars, clock, client, token>>
  BY <1>1 DEF Ask, SetRequest
<1>5. clock <= clock
  BY AccountTyped DEF AccountInv
<1> HIDE DEF r
<1>6. request'[c] = r => RefusalOf(c)'
  BY <1>3 DEF RefusalOf
<1>7. QED
  BY <1>3, <1>4, <1>5, <1>6, RequestKeeps

LEMMA DecodeKeeps ==
    ASSUME AccountInv, NEW c \in Client, Decode(c) PROVE AccountInv'
<1>1. /\ request[c].step = "sent" /\ UNCHANGED <<databaseVars, clock, client, token>>
      /\ request[c] \in RequestRecord /\ RequestOf(c)
  BY AccountTyped DEF Decode, AccountInv, Sessions
<1>2. CASE TokenProblem(c) = ""
  <2> DEFINE r == [request[c] EXCEPT !.step = "read"]
  <2>1. SetRequest(c, r)
    BY <1>2 DEF Decode
  <2>2. r \in RequestRecord /\ r.step = "read" /\ r.asked = request[c].asked /\ r.login = request[c].login
    BY <1>1 DEF RequestRecord, RequestStep
  <2> HIDE DEF r
  <2>3. request'[c] = r => RefusalOf(c)'
    BY <2>2 DEF RefusalOf
  <2>4. QED
    BY <1>1, <2>1, <2>2, <2>3, RequestKeeps DEF RequestOf
<1>3. CASE TokenProblem(c) # ""
  <2>1. /\ TokenProblem(c) \in {"signature", "expired"} /\ Unauthorized(c, TokenProblem(c))
        /\ TokenProblem(c) = "expired" => token[c].exp < clock
    BY <1>3 DEF Decode, TokenProblem
  <2>2. QED
    BY <1>1, <2>1, UnauthorizedKeeps
<1>4. QED
  BY <1>2, <1>3

LEMMA LoadUserKeeps ==
    ASSUME AccountInv, NEW c \in Client, LoadUser(c) PROVE AccountInv'
<1>1. /\ request[c].step = "read" /\ UNCHANGED <<databaseVars, clock, client, token>>
      /\ request[c] \in RequestRecord /\ RequestOf(c) /\ token[c] # NoToken
  BY AccountTyped DEF LoadUser, AccountInv, Sessions, RequestOf
<1>2. CASE account[token[c].user] # "active"
  <2>1. Unauthorized(c, "account") /\ account[client[c].user] = "disabled"
    BY <1>1, <1>2, HolderKnown DEF LoadUser
  <2>2. QED
    BY <1>1, <2>1, UnauthorizedKeeps
<1>3. ASSUME NEW step \in {"served", "forbidden"}, SetRequest(c, [request[c] EXCEPT !.step = step])
      PROVE  AccountInv'
  <2> DEFINE r == [request[c] EXCEPT !.step = step]
  <2>1. r \in RequestRecord /\ r.step = step /\ r.asked = request[c].asked
    BY <1>1, <1>3 DEF RequestRecord, RequestStep
  <2>2. SetRequest(c, r)
    BY <1>3
  <2> HIDE DEF r
  <2>3. request'[c] = r => RefusalOf(c)'
    BY <1>3, <2>1 DEF RefusalOf
  <2>4. QED
    BY <1>1, <1>3, <2>1, <2>2, <2>3, RequestKeeps DEF RequestOf
<1>4. QED
  BY <1>2, <1>3 DEF LoadUser

LEMMA ReloginKeeps ==
    ASSUME AccountInv, NEW c \in Client, NEW p \in Server, NEW q \in Server, Relogin(c, p, q)
    PROVE  AccountInv'
<1>1. /\ request[c].step = "login" /\ UNCHANGED <<databaseVars, clock, client>>
      /\ request[c] \in RequestRecord /\ RequestOf(c) /\ HolderOf(c) /\ token[c] # NoToken
      /\ clock \in Nat /\ TTL \in Nat /\ request[c].asked \in Nat /\ request[c].asked <= clock
  BY AccountTyped DEF Relogin, AccountInv, Sessions, RequestOf, RequestRecord
<1>2. CASE LoginProblem(c) = ""
  <2> DEFINE t == CreateToken(p, client[c].user)
             r == [request[c] EXCEPT !.step = "sent", !.server = q, !.login = "renewed"]
  <2>1. t \in Token /\ t # NoToken /\ t.user = client[c].user /\ t.exp = clock + TTL
    BY CreateTokenTyped DEF AccountInv
  <2>2. r \in RequestRecord /\ r.step = "sent" /\ r.asked = request[c].asked /\ r.login = "renewed"
    BY <1>1 DEF RequestRecord, RequestStep, Login
  <2>3. token' = [token EXCEPT ![c] = t] /\ request' = [request EXCEPT ![c] = r]
    BY <1>2 DEF Relogin, Renew, SetRequest
  <2> HIDE DEF t, r
  <2>4. /\ token' \in [Client -> Token \cup {NoToken}] /\ token'[c] = t
        /\ request' \in [Client -> RequestRecord] /\ request'[c] = r
        /\ \A d \in Client \ {c} : token'[d] = token[d] /\ request'[d] = request[d]
    BY <2>1, <2>2, <2>3, AccountTyped DEF AccountInv
  <2>5. HolderOf(c)'
    BY <1>1, <2>1, <2>4 DEF HolderOf, databaseVars
  <2>6. RequestOf(c)'
    <3>1. token'[c].exp >= request'[c].asked + TTL /\ request'[c].asked <= clock'
      BY <1>1, <2>1, <2>2, <2>4
    <3>2. token'[c] # NoToken /\ request'[c].step = "sent" /\ request'[c].login = "renewed"
      BY <2>1, <2>2, <2>4
    <3>3. QED
      BY <3>1, <3>2 DEF RequestOf
  <2>7. RefusalOf(c)'
    BY <2>2, <2>4 DEF RefusalOf
  <2>8. QED
    BY <1>1, <2>4, <2>5, <2>6, <2>7, ClientKeeps
<1>3. CASE LoginProblem(c) # ""
  <2> DEFINE r == [request[c] EXCEPT !.step = "refused", !.login = LoginProblem(c)]
  <2>1. LoginProblem(c) = "account" /\ account[client[c].user] = "disabled"
    BY <1>1, <1>3, HolderKnown DEF LoginProblem, Known, PasswordMatches
  <2>2. SetRequest(c, r) /\ UNCHANGED token
    BY <1>3 DEF Relogin
  <2>3. /\ r \in RequestRecord /\ r.step = "refused" /\ r.asked = request[c].asked
        /\ r.login = "account"
    BY <1>1, <2>1 DEF RequestRecord, RequestStep, Login
  <2> HIDE DEF r
  <2>4. request'[c] = r => RefusalOf(c)'
    BY <1>1, <2>1, <2>3 DEF RefusalOf, databaseVars
  <2>5. QED
    BY <1>1, <2>2, <2>3, <2>4, RequestKeeps
<1>4. QED
  BY <1>2, <1>3

LEMMA ReloginFailsKeeps ==
    ASSUME AccountInv, NEW c \in Client, ReloginFails(c) PROVE AccountInv'
<1> DEFINE r == [request[c] EXCEPT !.step = "refused", !.login = "error"]
<1>1. /\ request[c].step = "login" /\ UNCHANGED <<databaseVars, clock, client, token>>
      /\ request[c] \in RequestRecord /\ RequestOf(c)
  BY AccountTyped DEF ReloginFails, AccountInv, Sessions
<1>2. SetRequest(c, r)
  BY DEF ReloginFails
<1>3. /\ r \in RequestRecord /\ r.step = "refused" /\ r.login = "error"
      /\ r.asked = request[c].asked /\ r.judged = request[c].judged /\ r.why = request[c].why
  BY <1>1 DEF RequestRecord, RequestStep, Login
<1> HIDE DEF r
<1>4. token[c] # NoToken /\ r.asked <= clock /\ Earned(c)
  BY <1>1, <1>3 DEF RequestOf
<1>5. request'[c] = r => RefusalOf(c)'
  BY <1>1, <1>3, <1>4 DEF RefusalOf, Earned, databaseVars
<1>6. QED
  BY <1>1, <1>2, <1>3, <1>4, <1>5, RequestKeeps

LEMMA OverKeeps ==
    ASSUME AccountInv, NEW c \in Client, Over(c) PROVE AccountInv'
<1>1. SetRequest(c, NoRequest) /\ UNCHANGED <<databaseVars, clock, client, token>>
  BY DEF Over
<1>2. NoRequest \in RequestRecord /\ NoRequest.step = "none"
  BY AccountTyped DEF AccountInv, NoRequest
<1>3. request'[c] = NoRequest => RefusalOf(c)'
  BY <1>2 DEF RefusalOf
<1>4. QED
  BY <1>1, <1>2, <1>3, RequestKeeps

------------------------------------------------------------------------------
\* Other steps.

LEMMA DisableKeeps ==
    ASSUME AccountInv, NEW d \in Client, Disable(d) PROVE AccountInv'
<1>1. /\ account' = [account EXCEPT ![client[d].user] = "disabled"]
      /\ account[client[d].user] = "active" /\ client[d].user \in Name
      /\ UNCHANGED <<tables, server, clock, client, token, request>>
  BY AccountTyped DEF Disable, AccountInv
<1>2. /\ account' \in [Name -> Row]
      /\ \A n \in Name : account'[n] = "absent" <=> account[n] = "absent"
      /\ \A n \in Name : account[n] = "disabled" => account'[n] = "disabled"
  BY <1>1, AccountTyped DEF AccountInv, Row
<1>3. AccountTypeOK'
  BY <1>1, <1>2 DEF AccountInv, AccountTypeOK
<1>4. AccountsWhole' /\ Making'
  BY <1>1, <1>2 DEF AccountInv, AccountsWhole, Making, SomeAccount, Serving
<1>5. ASSUME NEW c \in Client PROVE (HolderOf(c) /\ RequestOf(c) /\ RefusalOf(c))'
  <2>1. HolderOf(c) /\ RequestOf(c) /\ RefusalOf(c) /\ client[c].user \in Name
    BY AccountTyped DEF AccountInv, Sessions
  <2>2. QED
    BY <1>1, <1>2, <2>1 DEF HolderOf, RequestOf, Earned, RefusalOf
<1>6. QED
  BY <1>3, <1>4, <1>5 DEF AccountInv, Sessions

LEMMA TickKeeps == ASSUME AccountInv, Tick PROVE AccountInv'
<1>1. /\ clock \in 0 .. MaxClock /\ clock' = clock + 1 /\ clock' \in 0 .. MaxClock
      /\ UNCHANGED <<databaseVars, client, token, request>>
  BY ClockBound DEF Tick, AccountInv, AccountTypeOK
<1>2. AccountTypeOK'
  BY <1>1 DEF AccountInv, AccountTypeOK, databaseVars
<1>3. AccountsWhole' /\ Making'
  BY <1>1 DEF AccountInv, AccountsWhole, Making, SomeAccount, Serving, databaseVars
<1>4. ASSUME NEW c \in Client PROVE (HolderOf(c) /\ RequestOf(c) /\ RefusalOf(c))'
  <2>1. HolderOf(c) /\ RequestOf(c) /\ RefusalOf(c) /\ request[c].asked \in Nat
    BY AccountTyped DEF AccountInv, Sessions, RequestRecord
  <2>2. HolderOf(c)' /\ RefusalOf(c)' /\ Earned(c)' = Earned(c)
    BY <1>1, <2>1 DEF HolderOf, Earned, RefusalOf, databaseVars
  <2>3. request[c].asked <= clock => request'[c].asked <= clock'
    BY <1>1, <2>1, ClockBound
  <2>4. RequestOf(c)'
    BY <1>1, <2>1, <2>2, <2>3 DEF RequestOf
  <2>5. QED
    BY <2>2, <2>4
<1>5. QED
  BY <1>2, <1>3, <1>4 DEF AccountInv, Sessions

LEMMA AccountAlways == AccountSpec => []AccountInv
<1>1. AccountInit => AccountInv
  <2> SUFFICES ASSUME AccountInit PROVE AccountInv
    OBVIOUS
  <2>1. AccountTypeOK
    <3>1. NoRequest \in RequestRecord
      BY DEF RequestRecord, NoRequest, RequestStep, Why, Login
    <3>2. request \in [Client -> RequestRecord] /\ token \in [Client -> Token \cup {NoToken}]
      BY <3>1 DEF AccountInit
    <3>3. account \in [Name -> Row] /\ clock \in 0 .. MaxClock
      BY ClockBound DEF AccountInit, Row
    <3>4. server \in [Server -> [at : ServerStep, secret : Secret]]
      BY SecretAssumption DEF AccountInit, ServerStep
    <3>5. QED
      BY <3>2, <3>3, <3>4 DEF AccountInit, AccountTypeOK, RequestRecord
  <2>2. AccountsWhole /\ Making
    BY DEF AccountInit, AccountsWhole, Making, SomeAccount, Serving
  <2>3. Sessions
    BY DEF AccountInit, Sessions, HolderOf, RequestOf, Earned, RefusalOf, NoRequest
  <2>4. QED
    BY <2>1, <2>2, <2>3 DEF AccountInv
<1>2. AccountInv /\ [AccountNext]_accountVars => AccountInv'
  <2> SUFFICES ASSUME AccountInv, [AccountNext]_accountVars PROVE AccountInv'
    OBVIOUS
  <2>1. CASE UNCHANGED accountVars
    BY <2>1 DEF accountVars, AccountInv, AccountTypeOK, AccountsWhole, Making, SomeAccount, Serving,
                Sessions, HolderOf, RequestOf, Earned, RefusalOf
  <2>2. CASE ServerNext
    BY <2>2, AccountStepKeeps DEF ServerNext, AccountStepOf
  <2>3. CASE ClientNext
    BY <2>3, DisableKeeps, LogOutKeeps, DecodeKeeps, LoadUserKeeps, OverKeeps, LogInKeeps, AskKeeps,
       ReloginKeeps, ReloginFailsKeeps DEF ClientNext
  <2>4. CASE Tick
    BY <2>4, TickKeeps
  <2>5. QED
    BY <2>1, <2>2, <2>3, <2>4 DEF AccountNext
<1>3. QED
  BY <1>1, <1>2, PTL DEF AccountSpec

\* Accounts, processes, tokens and requests keep their types, for any processes and clients.
THEOREM AccountTypes == AccountSpec => []AccountTypeOK
<1>1. AccountInv => AccountTypeOK
  BY DEF AccountInv
<1>2. QED
  BY <1>1, AccountAlways, PTL

\* Nobody is shut out without a reason, for any number of processes and clients, any secrets and
\* any life of a token: the three accounts are one transaction and the unique name lets one of
\* them commit (seed.py), a client that keeps its credentials has, on its second try, a token
\* younger than the request (the Agent's _send_authed), and it makes none only where its account
\* is out of use or its log-in is answered by an error (_relogin).
THEOREM NobodyIsShutOut == AccountSpec => []NobodyShutOut
<1>1. AccountInv => NobodyShutOut
  <2> SUFFICES ASSUME AccountInv PROVE NobodyShutOut
    OBVIOUS
  <2>1. AccountsWhole
    BY DEF AccountInv
  <2>2. PasswordSuffices
    <3> SUFFICES ASSUME NEW c \in Client, client[c].right, NEW p \in Server, Serving(p)
                 PROVE  LoginProblem(c) # "password"
      BY DEF PasswordSuffices
    <3>1. account[client[c].user] # "absent"
      BY AccountTyped DEF AccountInv, Making, AccountsWhole
    <3>2. QED
      BY <3>1 DEF LoginProblem, Known, PasswordMatches
  <2>3. KeeperOutlivesTokens
    BY DEF AccountInv, Sessions, RefusalOf, KeeperOutlivesTokens
  <2>4. QED
    BY <2>1, <2>2, <2>3 DEF NobodyShutOut
<1>2. QED
  BY <1>1, AccountAlways, PTL

------------------------------------------------------------------------------
(***************************************************************************)
(* QueueInspection: what a look at the queues has made of what lay still.  *)
(***************************************************************************)

\* A queue that holds an event is there.
Housed == \A m \in Message : place[m] \in {"waiting", "held"} => HasQueue(home[m])

\* What has been found of an event that lay still, by the time its queue has been looked at.
Found(m) == m \in look.waiting[home[m]] \/ place[m] = "dead"

\* While nothing has broken: what lay still is found, or its queue is still to be looked at;
\* at the end it is in one of the counts.
Overseen ==
    look.step \in {"queues", "dead letters", "answered"} /\ ~cut =>
        /\ look.step # "queues" => look.left = {}
        /\ \A m \in steady :
               /\ Rests(m)
               /\ home[m] \notin look.left => Found(m)
               /\ home[m] \in look.unreachable => place[m] = "dead"
               /\ look.step = "answered" => m \in look.waiting[home[m]] \/ m \in look.dead

InspectionInv == InspectionTypeOK /\ Housed /\ Overseen

\* The next step of a look, as CountQueue and CountFails make it.
LEMMA LookTyped ==
    ASSUME InspectionTypeOK
    PROVE  /\ look.step \in LookStep /\ look.left \subseteq Queue
           /\ look.waiting \in [Queue -> SUBSET Message]
           /\ look.unreachable \subseteq Queue /\ look.dead \subseteq Message
           /\ \A left : NextStep(left) \in {"queues", "dead letters"}
           /\ \A q \in Queue : Waiting(q) \subseteq Message
  BY DEF InspectionTypeOK, NextStep, Waiting

LEMMA InspectionTypeStep ==
    ASSUME InspectionTypeOK, [InspectionNext]_inspectionVars PROVE InspectionTypeOK'
<1> USE DEF InspectionTypeOK
<1>1. CASE UNCHANGED inspectionVars
  BY <1>1 DEF inspectionVars, queueVars
<1>2. ASSUME NEW m \in Message, NEW where \in Place, Put(m, where) PROVE InspectionTypeOK'
  BY <1>2 DEF Put, queueVars
<1>3. ASSUME NEW m \in Message, PublishEvent(m) \/ TakeEvent(m) \/ ReturnEvent(m) \/ EndEvent(m)
      PROVE  InspectionTypeOK'
  BY <1>2, <1>3 DEF PublishEvent, TakeEvent, ReturnEvent, EndEvent, Place
<1>4. ASSUME NEW q \in Queue, DeclareQueue(q) PROVE InspectionTypeOK'
  BY <1>4 DEF DeclareQueue
<1>5. ASSUME NEW q \in Queue, CountQueue(q) PROVE InspectionTypeOK'
  <2> DEFINE left == look.left \ {q}
             next == NextStep(left)
             found == [look.waiting EXCEPT ![q] = Waiting(q)]
             lost == look.unreachable \cup {q}
  <2>1. \/ look' = [look EXCEPT !.left = left, !.step = next, !.waiting = found]
        \/ look' = [look EXCEPT !.left = left, !.step = next, !.unreachable = lost]
    BY <1>5 DEF CountQueue
  <2>2. /\ left \in SUBSET Queue /\ next \in LookStep
        /\ found \in [Queue -> SUBSET Message] /\ lost \in SUBSET Queue
    BY LookTyped DEF LookStep
  <2> HIDE DEF left, next, found, lost
  <2>3. UNCHANGED <<queueVars, place, steady, cut>>
    BY <1>5 DEF CountQueue
  <2>4. QED
    BY <2>1, <2>2, <2>3 DEF queueVars
<1>6. ASSUME NEW q \in Queue, CountFails(q) PROVE InspectionTypeOK'
  <2> DEFINE left == look.left \ {q}
             next == NextStep(left)
             lost == look.unreachable \cup {q}
  <2>1. \/ look' = [look EXCEPT !.left = left, !.step = next, !.unreachable = lost]
        \/ look' = [look EXCEPT !.step = "answered"]
    BY <1>6 DEF CountFails
  <2>2. left \in SUBSET Queue /\ next \in LookStep /\ lost \in SUBSET Queue
    BY LookTyped DEF LookStep
  <2> HIDE DEF left, next, lost
  <2>3. cut' = TRUE /\ UNCHANGED <<queueVars, place, steady>>
    BY <1>6 DEF CountFails
  <2>4. QED
    BY <2>1, <2>2, <2>3 DEF queueVars, LookStep
<1>7. CASE Look
  BY <1>7 DEF Look, NoLook, LookStep, queueVars
<1>8. CASE CannotConnect
  BY <1>8 DEF CannotConnect, NoLook, LookStep, queueVars
<1>9. CASE CountDeadLetters
  BY <1>9 DEF CountDeadLetters, CountDead, LookStep, queueVars
<1>10. CASE ShowLook
  BY <1>10 DEF ShowLook, NoLook, LookStep, queueVars
<1>11. QED
  BY <1>1, <1>3, <1>4, <1>5, <1>6, <1>7, <1>8, <1>9, <1>10 DEF InspectionNext

LEMMA HousedStep ==
    ASSUME InspectionTypeOK, Housed, [InspectionNext]_inspectionVars PROVE Housed'
<1> USE DEF InspectionTypeOK
<1>1. CASE UNCHANGED <<queueVars, place>>
  BY <1>1 DEF queueVars, Housed, HasQueue
<1>2. ASSUME NEW m \in Message, NEW where \in Place, Put(m, where),
             where \in {"waiting", "held"} => HasQueue(home[m])
      PROVE  Housed'
  BY <1>2 DEF Put, queueVars, Housed, HasQueue
<1>3. ASSUME NEW m \in Message, PublishEvent(m) \/ TakeEvent(m) \/ ReturnEvent(m) \/ EndEvent(m)
      PROVE  Housed'
  <2>1. CASE PublishEvent(m)
    BY <1>2, <2>1 DEF PublishEvent, HasQueue, Place
  <2>2. CASE TakeEvent(m)
    BY <1>2, <2>2 DEF TakeEvent, Housed, Place
  <2>3. CASE ReturnEvent(m)
    BY <1>2, <2>3 DEF ReturnEvent, Housed, Place
  <2>4. CASE EndEvent(m)
    BY <1>2, <2>4 DEF EndEvent, Place
  <2>5. QED
    BY <1>3, <2>1, <2>2, <2>3, <2>4
<1>4. ASSUME NEW q \in Queue, DeclareQueue(q) PROVE Housed'
  BY <1>4 DEF DeclareQueue, Housed, HasQueue
<1>5. ASSUME NEW q \in Queue, CountQueue(q) \/ CountFails(q) PROVE UNCHANGED <<queueVars, place>>
  BY <1>5 DEF CountQueue, CountFails
<1>6. Look \/ CannotConnect \/ CountDeadLetters \/ ShowLook => UNCHANGED <<queueVars, place>>
  BY DEF Look, CannotConnect, CountDeadLetters, ShowLook
<1>7. UNCHANGED inspectionVars => UNCHANGED <<queueVars, place>>
  BY DEF inspectionVars, queueVars
<1>8. QED
  BY <1>1, <1>3, <1>4, <1>5, <1>6, <1>7 DEF InspectionNext

LEMMA OverseenStep ==
    ASSUME InspectionTypeOK, Housed, Overseen, [InspectionNext]_inspectionVars PROVE Overseen'
<1> USE DEF InspectionTypeOK
<1>1. CASE UNCHANGED inspectionVars
  BY <1>1 DEF inspectionVars, queueVars, Overseen, Rests, Found
\* An event that lay still and still does is where it was, or has become a dead letter.
<1>2. ASSUME NEW m \in Message, NEW where \in Place, Put(m, where), place[m] # "dead"
      PROVE  Overseen'
  <2>1. /\ UNCHANGED <<queueVars, look, cut>> /\ steady' \subseteq steady
        /\ m \in steady' => where \in {"waiting", "dead"}
        /\ place'[m] = where /\ \A x \in Message \ {m} : place'[x] = place[x]
    BY <1>2 DEF Put
  <2>2. QED
    BY <1>2, <2>1 DEF queueVars, Overseen, Rests, Found
<1>3. ASSUME NEW m \in Message, PublishEvent(m) \/ TakeEvent(m) \/ ReturnEvent(m) \/ EndEvent(m)
      PROVE  Overseen'
  BY <1>2, <1>3 DEF PublishEvent, TakeEvent, ReturnEvent, EndEvent, InHand, Place
<1>4. ASSUME NEW q \in Queue, DeclareQueue(q) PROVE Overseen'
  BY <1>4 DEF DeclareQueue, Overseen, Rests, Found
<1>5. ASSUME NEW q \in Queue, CountQueue(q) PROVE Overseen'
  <2> DEFINE left == look.left \ {q}
             next == NextStep(left)
             found == [look.waiting EXCEPT ![q] = Waiting(q)]
             lost == look.unreachable \cup {q}
  <2>1. IF HasQueue(q)
        THEN look' = [look EXCEPT !.left = left, !.step = next, !.waiting = found]
        ELSE look' = [look EXCEPT !.left = left, !.step = next, !.unreachable = lost]
    BY <1>5 DEF CountQueue
  <2>2. look.step = "queues" /\ UNCHANGED <<queueVars, place, steady, cut>>
    BY <1>5 DEF CountQueue
  <2>3. next \in {"queues", "dead letters"} /\ (next # "queues" => left = {})
    BY DEF NextStep
  <2>4. /\ look'.left = left /\ look'.step = next
        /\ look'.waiting = IF HasQueue(q) THEN found ELSE look.waiting
        /\ look'.unreachable = IF HasQueue(q) THEN look.unreachable ELSE lost
    BY <2>1
  <2>5. ASSUME ~cut, NEW m \in steady
        PROVE  /\ Rests(m)'
               /\ home'[m] \notin look'.left => Found(m)'
               /\ home'[m] \in look'.unreachable => place'[m] = "dead"
    <3>1. /\ Rests(m) /\ m \in Message /\ home[m] \in Queue
          /\ home[m] \notin look.left => Found(m)
          /\ home[m] \in look.unreachable => place[m] = "dead"
      BY <2>2, <2>5 DEF Overseen
    <3>2. CASE home[m] = q
      <4>1. place[m] = "waiting" => m \in Waiting(q) /\ HasQueue(q)
        BY <3>1, <3>2 DEF Housed, Waiting
      <4>2. QED
        BY <2>2, <2>4, <3>1, <3>2, <4>1 DEF Rests, Found, queueVars
    <3>3. CASE home[m] # q
      <4>1. look'.waiting[home[m]] = look.waiting[home[m]]
        BY <2>4, <3>1, <3>3
      <4>2. QED
        BY <2>2, <2>4, <3>1, <3>3, <4>1 DEF Rests, Found, queueVars
    <3>4. QED
      BY <3>2, <3>3
  <2> HIDE DEF next, left
  <2>6. QED
    BY <2>2, <2>3, <2>4, <2>5 DEF Overseen
<1>6. ASSUME NEW q \in Queue, CountFails(q) PROVE Overseen'
  BY <1>6 DEF CountFails, Overseen
<1>7. CASE Look
  BY <1>7 DEF Look, NoLook, Overseen, Rests, queueVars
<1>8. CASE CannotConnect
  BY <1>8 DEF CannotConnect, Overseen
<1>9. CASE CountDeadLetters
  <2>1. /\ look.step = "dead letters" /\ UNCHANGED <<queueVars, place, steady, cut>>
        /\ look' = [look EXCEPT !.step = "answered", !.dead = {m \in Message : place[m] = "dead"}]
    BY <1>9 DEF CountDeadLetters, CountDead
  <2>2. QED
    BY <2>1 DEF Overseen, Rests, Found, queueVars
<1>10. CASE ShowLook
  BY <1>10 DEF ShowLook, NoLook, Overseen
<1>11. QED
  BY <1>1, <1>3, <1>4, <1>5, <1>6, <1>7, <1>8, <1>9, <1>10 DEF InspectionNext

LEMMA InspectionAlways == InspectionSpec => []InspectionInv
<1>1. InspectionInit => InspectionInv
  <2> SUFFICES ASSUME InspectionInit PROVE InspectionInv
    OBVIOUS
  <2>1. InspectionTypeOK
    BY DEF InspectionInit, InspectionTypeOK, NoLook, LookStep, Place
  <2>2. Housed
    BY DEF InspectionInit, Housed
  <2>3. Overseen
    BY DEF InspectionInit, NoLook, Overseen
  <2>4. QED
    BY <2>1, <2>2, <2>3 DEF InspectionInv
<1>2. InspectionInv /\ [InspectionNext]_inspectionVars => InspectionInv'
  BY InspectionTypeStep, HousedStep, OverseenStep DEF InspectionInv
<1>3. QED
  BY <1>1, <1>2, PTL DEF InspectionSpec

\* The queues, the events and a look at them keep their types, for any queues and events.
THEOREM InspectionTypes == InspectionSpec => []InspectionTypeOK
<1>1. InspectionInv => InspectionTypeOK
  BY DEF InspectionInv
<1>2. QED
  BY <1>1, InspectionAlways, PTL

\* A look that nothing broke overlooks no event that lay still meanwhile, in whatever order the
\* queues are looked at and whatever is published, taken, returned or given up between two of
\* them: the dead letters come last, so that what went from a queue to them is in one count at
\* least (queue_inspector.py).
THEOREM InspectionNeverOverlooks == InspectionSpec => []InspectionOverlooksNothing
<1>1. InspectionInv => InspectionOverlooksNothing
  <2> SUFFICES ASSUME InspectionInv, look.step = "answered", ~cut, NEW m \in steady
               PROVE  /\ m \in (UNION {look.waiting[q] : q \in Queue}) \cup look.dead
                      /\ place[m] = "waiting" => home[m] \notin look.unreachable
    BY DEF InspectionOverlooksNothing
  <2>1. home[m] \in Queue /\ (m \in look.waiting[home[m]] \/ m \in look.dead)
        /\ (home[m] \in look.unreachable => place[m] = "dead")
    BY DEF InspectionInv, InspectionTypeOK, Overseen
  <2>2. m \in look.waiting[home[m]] => m \in UNION {look.waiting[q] : q \in Queue}
    BY <2>1
  <2>3. place[m] = "waiting" => home[m] \notin look.unreachable
    BY <2>1
  <2>4. QED
    BY <2>1, <2>2, <2>3
<1>2. QED
  BY <1>1, InspectionAlways, PTL
------------------------------------------------------------------------------
(***************************************************************************)
(* The parts together.                                                     *)
(***************************************************************************)
\* What TLC checks of the parts side by side is a behaviour of each of them.
LEMMA PartsMove ==
  MCSpec => OperatorSpec /\ StreamSpec /\ RecordingSpec /\ AccountSpec /\ InspectionSpec
<1>1. MCInit => OperatorInit /\ StreamInit /\ RecordingInit /\ AccountInit /\ InspectionInit
  BY DEF MCInit
<1>2. ASSUME [MCNext]_<<scene, operatorVars, streamVars, recordingVars, accountVars, inspectionVars>>
      PROVE  /\ [OperatorNext]_operatorVars /\ [StreamNext]_streamVars
             /\ [RecordingNext]_recordingVars /\ [AccountNext]_accountVars
             /\ [InspectionNext]_inspectionVars
  BY <1>2 DEF MCNext
<1>3. QED
  BY <1>1, <1>2, PTL
     DEF MCSpec, OperatorSpec, StreamSpec, RecordingSpec, AccountSpec, InspectionSpec

\* The operators' processes, the console's pages, the recording, the accounts and the look at
\* the queues keep their types, however their steps interleave.
THEOREM SafetyTypes ==
  OperatorSpec /\ StreamSpec /\ RecordingSpec /\ AccountSpec /\ InspectionSpec
    => []SafetyTypesOK
<1>1. OperatorTypeOK /\ StreamTypeOK /\ RecordingTypeOK /\ AccountTypeOK /\ InspectionTypeOK
        => SafetyTypesOK
  BY DEF SafetyTypesOK
<1>2. QED
  BY <1>1, OperatorTypes, StreamTypes, RecordingTypes, AccountTypes, InspectionTypes, PTL
=============================================================================
