---------------------------- MODULE TaskDirectory ----------------------------
(***************************************************************************)
(* The Agent's task directories: made by a push or by the Agent's start,   *)
(* with the task's metadata in .task.json, and filled with recordings by   *)
(* people.  The Agent is killed and started again, and a file system error *)
(* can stop it at any step of a directory's making.                        *)
(*                                                                         *)
(* One recording is put into each directory.  How a recording is noticed   *)
(* and taken is DirectoryWatch's subject; here a step does it.             *)
(***************************************************************************)
CONSTANT Directory      \* of tasks that get assigned to this Agent

VARIABLES assigned,     \* the Platform has stored the assignment
          metadata,     \* of a task's directory
          writing,      \* the task write_task_metadata is at work for
          process,        \* the Agent's process
          todo,         \* tasks rebuild_from_platform still has to look at
          fetched,      \* this process got the tasks from the Platform (history)
          file          \* the recording in a task's directory

directoryVars == <<assigned, metadata, writing, process, todo, fetched, file>>

------------------------------------------------------------------------------
\* "missing": no directory; "bare": one without a .task.json; "torn": open() has truncated
\* .task.json, and write() has not filled it: what read_task_metadata gives None for.
Metadata == {"missing", "bare", "torn", "whole"}

\* "lying": at the top of the directory, and in no queue; "skipped": so again.
FileState == {"none", "lying", "queued", "skipped", "taken"}

Nobody == {}

DirectoryInit ==
    /\ assigned = {}
    /\ metadata = [t \in Directory |-> "missing"]
    /\ writing = Nobody
    /\ process = "down"
    /\ todo = {}
    /\ fetched = FALSE
    /\ file = [t \in Directory |-> "none"]

------------------------------------------------------------------------------
\* write_task_metadata, between whose steps only a kill or an error comes: it does not
\* yield to the event loop.

Write(t) == writing' = {t}

MakeDirectory(t) ==
    /\ writing = {t}
    /\ metadata[t] = "missing"
    /\ metadata' = [metadata EXCEPT ![t] = "bare"]
    /\ UNCHANGED <<assigned, writing, process, todo, fetched, file>>

\* Also what was whole is truncated: a push of a task the Agent has already.
OpenMetadata(t) ==
    /\ writing = {t}
    /\ metadata[t] \in {"bare", "whole"}
    /\ metadata' = [metadata EXCEPT ![t] = "torn"]
    /\ UNCHANGED <<assigned, writing, process, todo, fetched, file>>

FillMetadata(t) ==
    /\ writing = {t}
    /\ metadata[t] = "torn"
    /\ metadata' = [metadata EXCEPT ![t] = "whole"]
    /\ writing' = Nobody
    /\ UNCHANGED <<assigned, process, todo, fetched, file>>

\* What is only in the process's memory is lost.
Die ==
    /\ process' = "down"
    /\ todo' = {}
    /\ fetched' = FALSE
    /\ writing' = Nobody
    /\ file' = [t \in Directory |-> IF file[t] \in {"queued", "skipped"} THEN "lying" ELSE file[t]]

\* A start that raises ends the process; a push that does, the session.
WriteFails ==
    /\ writing # Nobody
    /\ IF process = "starting" THEN Die ELSE writing' = Nobody /\ UNCHANGED <<process, todo, fetched, file>>
    /\ UNCHANGED <<assigned, metadata>>

Kill ==
    /\ process # "down"
    /\ Die
    /\ UNCHANGED <<assigned, metadata>>

------------------------------------------------------------------------------
\* POST /tasks/{task_id}/assign.
Assign(t) ==
    /\ t \notin assigned
    /\ assigned' = assigned \cup {t}
    /\ UNCHANGED <<metadata, writing, process, todo, fetched, file>>

\* The push, which may come more than once (each assignment sends one) and never makes up
\* for one the Agent has missed: handle_task_push overwrites.
Push(t) ==
    /\ process = "running" /\ writing = Nobody
    /\ t \in assigned
    /\ Write(t)
    /\ UNCHANGED <<assigned, metadata, process, todo, fetched, file>>

\* _run_daemon fetches the tasks assigned to the Agent ...
StartAgent ==
    /\ process = "down"
    /\ process' = "starting"
    /\ todo' = assigned
    /\ fetched' = TRUE
    /\ UNCHANGED <<assigned, metadata, writing, file>>

\* ... or does without them, if that fails.
StartEmpty ==
    /\ process = "down"
    /\ process' = "starting"
    /\ UNCHANGED <<assigned, metadata, writing, todo, fetched, file>>

\* Mutant: a directory that exists is left as it is.
RebuildMissing(t) ==
    /\ process = "starting" /\ writing = Nobody
    /\ t \in todo
    /\ todo' = todo \ {t}
    /\ IF metadata[t] # "missing" THEN UNCHANGED writing ELSE Write(t)
    /\ UNCHANGED <<assigned, metadata, process, fetched, file>>

\* rebuild_from_platform: a .task.json that exists, torn or whole, is left as it is.
Rebuild(t) ==
    /\ process = "starting" /\ writing = Nobody
    /\ t \in todo
    /\ todo' = todo \ {t}
    /\ IF metadata[t] \in {"torn", "whole"} THEN UNCHANGED writing ELSE Write(t)
    /\ UNCHANGED <<assigned, metadata, process, fetched, file>>

\* scan_existing, of a directory: each *.mcap at its top.
Scanned == [t \in Directory |-> IF file[t] \in {"lying", "skipped"} THEN "queued" ELSE file[t]]

\* Watcher, first scan, loop.
Run ==
    /\ process = "starting" /\ writing = Nobody /\ todo = {}
    /\ process' = "running"
    /\ file' = Scanned
    /\ UNCHANGED <<assigned, metadata, writing, todo, fetched>>

\* An UploadTriggerFrame, which someone's click on the console sends.
Trigger ==
    /\ process = "running" /\ writing = Nobody
    /\ file' = Scanned
    /\ UNCHANGED <<assigned, metadata, writing, process, todo, fetched>>

\* Someone puts a recording into a directory; a running watcher sees it.
Drop(t) ==
    /\ file[t] = "none"
    /\ metadata[t] # "missing"
    /\ file' = [file EXCEPT ![t] = IF process = "running" THEN "queued" ELSE "lying"]
    /\ UNCHANGED <<assigned, metadata, writing, process, todo, fetched>>

\* FileProcessor.process: one without metadata stays where it is, and out of the queue.
Process(t) ==
    /\ process = "running" /\ writing = Nobody
    /\ file[t] = "queued"
    /\ file' = [file EXCEPT ![t] = IF metadata[t] = "whole" THEN "taken" ELSE "skipped"]
    /\ UNCHANGED <<assigned, metadata, writing, process, todo, fetched>>

------------------------------------------------------------------------------
DirectoryNext ==
    \/ \E t \in Directory : MakeDirectory(t) \/ OpenMetadata(t) \/ FillMetadata(t)
    \/ \E t \in Directory : Assign(t) \/ Push(t) \/ Rebuild(t) \/ Drop(t) \/ Process(t)
    \/ WriteFails \/ Kill \/ StartAgent \/ StartEmpty \/ Run \/ Trigger

DirectorySpec == DirectoryInit /\ [][DirectoryNext]_directoryVars

------------------------------------------------------------------------------
\* The types of all parts.
DirectoryTypeOK ==
    /\ assigned \subseteq Directory
    /\ metadata \in [Directory -> Metadata]
    /\ writing \in {Nobody} \cup {{t} : t \in Directory}
    /\ process \in {"down", "starting", "running"}
    /\ todo \subseteq Directory
    /\ fetched \in BOOLEAN
    /\ file \in [Directory -> FileState]

\* Starts repair what kills and errors have left, at whichever step of a directory's making
\* they came: if the Agent is started again and again, and now and then gets its tasks and
\* gets through its queue, every recording in a task's directory is taken.  Except where
\* .task.json is torn, which no start repairs.
Idle == fetched /\ process = "running" /\ writing = Nobody /\
        \A t \in Directory : file[t] # "queued"

FilesAreTaken ==
    ([]<><<StartAgent>>_directoryVars /\ []<>Idle) =>
        \A t \in Directory : file[t] # "none" ~> (file[t] = "taken" \/ metadata[t] = "torn")
=============================================================================
