------------------------------ MODULE Recording ------------------------------
(***************************************************************************)
(* One recording.  McapWriter writes a header and a line for every message *)
(* and flushes each; at the end it writes the file once more, because the  *)
(* header tells the duration.  What is left when the process dies is read  *)
(* by two parsers that know nothing of each other: the Agent's parse_mcap  *)
(* and the operators' read_mcap.  Writes are whole: it is the process that *)
(* dies and not the machine.                                               *)
(***************************************************************************)
EXTENDS Integers, Sequences

CONSTANTS MaxTime,      \* timestamps, in steps of the simulation
          MaxMessages   \* bound: messages of the recording

ASSUME RecordingAssumption == MaxTime \in Nat /\ MaxMessages \in Nat

VARIABLES writer,       \* how far the recording is
          dead,         \* the process has died there
          written,      \* timestamps of the messages given to write_message
          disk,         \* the file
          stated        \* the file the checksum in RecordingStats is of

recordingVars == <<writer, dead, written, disk, stated>>

------------------------------------------------------------------------------
Time == 0 .. MaxTime

\* A file without a header has no lines.
NoHeader == -1
Empty == [duration |-> NoHeader, lines |-> <<>>]

Files == [duration : Time \cup {NoHeader}, lines : Seq(Time)]

Latest(times) == IF times = <<>> THEN 0
                 ELSE CHOOSE t \in Time : /\ \E i \in DOMAIN times : times[i] = t
                                          /\ \A i \in DOMAIN times : times[i] <= t

RecordingInit ==
    /\ writer = "none"
    /\ dead = FALSE
    /\ written = <<>>
    /\ disk = Empty
    /\ stated = Empty

At(phase) == ~dead /\ writer = phase

\* __enter__.  The header waits in the buffer.
OpenFile ==
    /\ At("none")
    /\ writer' = "recording"
    /\ UNCHANGED <<dead, written, disk, stated>>

\* Mutant: lines wait in the buffer until the file is closed.
WriteUnflushed ==
    /\ At("recording") /\ Len(written) < MaxMessages
    /\ \E t \in Time : written' = Append(written, t)
    /\ UNCHANGED <<writer, dead, disk, stated>>

\* Each topic's messages start at 0 again.
WriteMessage ==
    /\ At("recording") /\ Len(written) < MaxMessages
    /\ \E t \in Time : written' = Append(written, t)
    /\ disk' = [duration |-> 0, lines |-> written']
    /\ UNCHANGED <<writer, dead, stated>>

\* stats, at the end of the with block; an exception skips it.
TakeStats ==
    /\ At("recording")
    /\ stated' = disk
    /\ writer' = "counted"
    /\ UNCHANGED <<dead, written, disk>>

\* __exit__ closes the file.
CloseFile(raised) ==
    /\ At(IF raised THEN "recording" ELSE "counted")
    /\ writer' = IF raised THEN "raised" ELSE "closed"
    /\ disk' = [duration |-> 0, lines |-> written]
    /\ UNCHANGED <<dead, written, stated>>

\* _rewrite_header has read the lines; write_text opens the file and so empties it,
Truncate ==
    /\ ~dead /\ writer \in {"closed", "raised"}
    /\ writer' = IF writer = "closed" THEN "emptied" ELSE "raised, emptied"
    /\ disk' = Empty
    /\ UNCHANGED <<dead, written, stated>>

\* and writes it anew.
WriteBack ==
    /\ ~dead /\ writer \in {"emptied", "raised, emptied"}
    /\ writer' = IF writer = "emptied" THEN "filled" ELSE "failed"
    /\ disk' = [duration |-> Latest(written), lines |-> written]
    /\ UNCHANGED <<dead, written, stated>>

\* record_simulated_episode takes the checksum again.
Finish ==
    /\ At("filled")
    /\ writer' = "finished"
    /\ stated' = disk
    /\ UNCHANGED <<dead, written, disk>>

Kill ==
    /\ ~dead
    /\ dead' = TRUE
    /\ UNCHANGED <<writer, written, disk, stated>>

RecordingNext ==
    \/ OpenFile \/ WriteMessage \/ TakeStats \/ Truncate \/ WriteBack \/ Finish \/ Kill
    \/ \E raised \in BOOLEAN : CloseFile(raised)

RecordingSpec == RecordingInit /\ [][RecordingNext]_recordingVars

------------------------------------------------------------------------------
\* The readers: what they make of a file, or that they refuse it.

Refused == [duration |-> NoHeader, lines |-> <<>>]

\* algo_common.io.read_mcap.
ReadMcap(file) == IF file.duration = NoHeader THEN Refused ELSE file

\* agent.mcap_parser: a header that was not filled in is made up for.
ParseMcap(file) ==
    IF file.duration = NoHeader THEN Refused
    ELSE [file EXCEPT !.duration = IF @ # 0 THEN @ ELSE Latest(file.lines)]

------------------------------------------------------------------------------
\* The types of all parts.
RecordingTypeOK ==
    /\ writer \in {"none", "recording", "counted", "closed", "raised", "emptied",
                   "raised, emptied", "filled", "failed", "finished"}
    /\ dead \in BOOLEAN
    /\ written \in Seq(Time)
    /\ disk \in Files /\ stated \in Files

\* Whenever the process dies, both readers find every message that was written, except
\* while the header is being filled in, when there is nothing; the Agent's finds
\* the duration too, and the operators' if the header was filled in.  A recording that
\* finished is stated with the checksum of the file that is there, and both agree.
Rewriting == writer \in {"emptied", "raised, emptied"}

InterruptedIsReadable ==
    /\ dead /\ written # <<>> /\ ~Rewriting =>
         /\ ReadMcap(disk).lines = written
         /\ ParseMcap(disk) = [duration |-> Latest(written), lines |-> written]
    /\ writer = "finished" => stated = disk /\ ReadMcap(disk) = ParseMcap(disk)
==============================================================================
