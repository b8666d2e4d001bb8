----------------------------- MODULE StateStore -----------------------------
(***************************************************************************)
(* The Agent's local record of an Episode, and what the methods of its     *)
(* SQLite store do to it.  Every method is one committed statement.        *)
(***************************************************************************)
EXTENDS Naturals

UploadStatus == {"pending", "in_progress", "completed", "failed"}

\* key and checksum tell whether the column is set.
NoRecord == [status |-> "none", key |-> FALSE, checksum |-> FALSE, total |-> 0,
             parts |-> {}, callback |-> FALSE]

RecordEpisode == [NoRecord EXCEPT !.status = "pending"]

FinishRecording(r) == [r EXCEPT !.checksum = TRUE]

StartUpload(r, total) == [r EXCEPT !.key = TRUE, !.total = total, !.status = "in_progress"]

MarkPartUploaded(r, p) == [r EXCEPT !.parts = @ \cup {p}]

CompleteUpload(r) == [r EXCEPT !.status = "completed"]

FailUpload(r) == [r EXCEPT !.status = "failed"]

MarkCallbackDone(r) == [r EXCEPT !.callback = TRUE]

------------------------------------------------------------------------------
Known(r) == r.status # "none"

MissingParts(r) == (1 .. r.total) \ r.parts

NeedsUpload(r) == Known(r) /\ r.status # "completed"

NeedsCallback(r) == r.status = "completed" /\ ~r.callback

\* What recovery looks for.
Unfinished(r) == NeedsUpload(r) \/ NeedsCallback(r)

EpisodeRecord(Part) ==
    [status : UploadStatus \cup {"none"}, key : BOOLEAN, checksum : BOOLEAN,
     total : {0} \cup Part, parts : SUBSET Part, callback : BOOLEAN]
=============================================================================
