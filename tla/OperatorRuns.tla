---------------------------- MODULE OperatorRuns ----------------------------
(***************************************************************************)
(* One episode.uploaded event in the Scheduler.  A handling of it runs     *)
(* every operator as a process of its own, reads the result.json each one  *)
(* leaves, and reports once.  An event is handled again when a worker died *)
(* or was not answered, and at the same time by two when it was dispatched *)
(* twice.  All handlings' processes of one operator write to one directory *)
(* (output_prefix); those of a handling that died go on.  Operators are    *)
(* deterministic: two results differ in whether they are complete.         *)
(***************************************************************************)
EXTENDS Naturals

CONSTANTS Operator,     \* PIPELINE_OPERATORS
          Handlings,    \* bound: how often the event is handled
          MaxTroubles   \* bound: operators that fail, workers that die, calls that are lost

ASSUME OperatorAssumption == Handlings \in Nat \ {0} /\ MaxTroubles \in Nat

VARIABLES outcome,      \* the Episode's status
          handling,
          process,      \* the process of an operator in a handling
          result,       \* AlgoJobResult.status, as the runner made it
          open,         \* the file a process has opened
          temporary,    \* the file named .result.json.tmp in an operator's directory
          final,        \* the file named result.json
          complete,     \* files with all of their content
          shared,       \* operators of which two processes were alive at once (history)
          troubles

files == <<open, temporary, final, complete>>
operatorVars == <<outcome, handling, process, result, files, shared, troubles>>

------------------------------------------------------------------------------
Handling == 1 .. Handlings

\* A file is named for the handling whose process created it.
NoFile == 0
File == Handling \cup {NoFile}

Live == {"computing", "writing", "written"}

\* "lost": exit code 1, because the temporary file was gone.
Exited == {"done", "raised", "lost"}

Troubled == {"unstarted", "raised", "killed"}

ProcessState == {"none"} \cup Live \cup Exited \cup Troubled

Of(value) == [k \in Handling |-> [o \in Operator |-> value]]

OperatorInit ==
    /\ outcome = "processing"
    /\ handling = [k \in Handling |-> "none"]
    /\ process = Of("none")
    /\ result = Of("none")
    /\ open = Of(NoFile)
    /\ temporary = [o \in Operator |-> NoFile]
    /\ final = [o \in Operator |-> NoFile]
    /\ complete = [o \in Operator |-> {}]
    /\ shared = {}
    /\ troubles = 0

Trouble == troubles < MaxTroubles /\ troubles' = troubles + 1

ProcessTo(k, o, state) == process' = [process EXCEPT ![k][o] = state]
ResultIs(k, o, status) == result' = [result EXCEPT ![k][o] = status]

------------------------------------------------------------------------------
\* The Scheduler

\* ingest_episode: the first time, a retry, a redelivery or a second task.
Begin(k) ==
    /\ handling[k] = "none"
    /\ \A j \in Handling : j < k => handling[j] # "none"
    /\ handling' = [handling EXCEPT ![k] = "running"]
    /\ UNCHANGED <<outcome, process, result, files, shared, troubles>>

Running(k, o) == handling[k] = "running" /\ result[k][o] = "none"

\* SubprocessRunner.run makes the directory, if there is none, and starts the process.
Spawn(k, o) ==
    /\ Running(k, o) /\ process[k][o] = "none"
    /\ ProcessTo(k, o, "computing")
    /\ shared' = IF \E j \in Handling \ {k} : process[j][o] \in Live
                 THEN shared \cup {o} ELSE shared
    /\ UNCHANGED <<outcome, handling, result, files, troubles>>

\* An OSError, or another exception of the runner, which gather returns.
CannotSpawn(k, o) ==
    /\ Running(k, o) /\ process[k][o] = "none"
    /\ Trouble
    /\ ProcessTo(k, o, "unstarted")
    /\ ResultIs(k, o, "failed")
    /\ UNCHANGED <<outcome, handling, files, shared>>

\* Mutant: what result.json says counts, whatever the exit code.
CollectAnyFile(k, o) ==
    /\ Running(k, o) /\ process[k][o] \in Exited
    /\ ResultIs(k, o, IF final[o] \in complete[o] THEN "succeeded" ELSE "failed")
    /\ UNCHANGED <<outcome, handling, process, files, shared, troubles>>

\* The exit code, then the file, if it is there and is JSON.
Collect(k, o) ==
    /\ Running(k, o) /\ process[k][o] \in Exited
    /\ ResultIs(k, o, IF process[k][o] = "done" /\ final[o] \in complete[o]
                      THEN "succeeded" ELSE "failed")
    /\ UNCHANGED <<outcome, handling, process, files, shared, troubles>>

TimeOut(k, o) ==
    /\ Running(k, o) /\ process[k][o] \in Live
    /\ Trouble
    /\ ProcessTo(k, o, "killed")
    /\ ResultIs(k, o, "failed")
    /\ UNCHANGED <<outcome, handling, files, shared>>

Collected(k) == handling[k] = "running" /\ \A o \in Operator : result[k][o] # "none"

HandlingTo(k, state) == handling' = [handling EXCEPT ![k] = state]

\* One callback with the results of all operators; the Platform judges the first one only.
Report(k) ==
    /\ Collected(k)
    /\ outcome' = IF outcome # "processing" THEN outcome
                  ELSE IF \A o \in Operator : result[k][o] = "succeeded"
                  THEN "verification_pending" ELSE "failed"
    /\ HandlingTo(k, "ended")
    /\ UNCHANGED <<process, result, files, shared, troubles>>

ReportFails(k) ==
    /\ Collected(k)
    /\ Trouble
    /\ HandlingTo(k, "ended")
    /\ UNCHANGED <<outcome, process, result, files, shared>>

Die(k) ==
    /\ handling[k] = "running"
    /\ Trouble
    /\ HandlingTo(k, "dead")
    /\ UNCHANGED <<outcome, process, result, files, shared>>

------------------------------------------------------------------------------
\* An operator's process: Operator.run, main

Raise(k, o) ==
    /\ process[k][o] = "computing"
    /\ Trouble
    /\ ProcessTo(k, o, "raised")
    /\ UNCHANGED <<outcome, handling, result, files, shared>>

\* Mutant: the temporary file is opened for update, and so not created.
OpenForUpdate(k, o) ==
    /\ process[k][o] = "computing"
    /\ open' = [open EXCEPT ![k][o] = temporary[o]]
    /\ complete' = [complete EXCEPT ![o] = @ \ {temporary[o]}]
    /\ ProcessTo(k, o, "writing")
    /\ UNCHANGED <<outcome, handling, result, temporary, final, shared, troubles>>

\* write_text opens the temporary file, and so empties one that is there,
Open(k, o) ==
    /\ process[k][o] = "computing"
    /\ LET f == IF temporary[o] = NoFile THEN k ELSE temporary[o] IN
         /\ temporary' = [temporary EXCEPT ![o] = f]
         /\ open' = [open EXCEPT ![k][o] = f]
         /\ complete' = [complete EXCEPT ![o] = @ \ {f}]
    /\ ProcessTo(k, o, "writing")
    /\ UNCHANGED <<outcome, handling, result, final, shared, troubles>>

\* writes to it, under whatever name it has by now,
Fill(k, o) ==
    /\ process[k][o] = "writing"
    /\ complete' = [complete EXCEPT ![o] = @ \cup {open[k][o]}]
    /\ ProcessTo(k, o, "written")
    /\ UNCHANGED <<outcome, handling, result, open, temporary, final, shared, troubles>>

\* and the temporary file, whose ever it is, is renamed.
Rename(k, o) ==
    /\ process[k][o] = "written"
    /\ IF temporary[o] = NoFile
       THEN ProcessTo(k, o, "lost") /\ UNCHANGED <<temporary, final>>
       ELSE /\ ProcessTo(k, o, "done")
            /\ final' = [final EXCEPT ![o] = temporary[o]]
            /\ temporary' = [temporary EXCEPT ![o] = NoFile]
    /\ UNCHANGED <<outcome, handling, result, open, complete, shared, troubles>>

\* With its worker, or later.
Perish(k, o) ==
    /\ handling[k] = "dead" /\ process[k][o] \in Live
    /\ ProcessTo(k, o, "killed")
    /\ UNCHANGED <<outcome, handling, result, files, shared, troubles>>

------------------------------------------------------------------------------
OperatorNext ==
    \/ \E k \in Handling : Begin(k) \/ Report(k) \/ ReportFails(k) \/ Die(k)
    \/ \E k \in Handling, o \in Operator :
         \/ Spawn(k, o) \/ CannotSpawn(k, o) \/ Collect(k, o) \/ TimeOut(k, o)
         \/ Raise(k, o) \/ Open(k, o) \/ Fill(k, o) \/ Rename(k, o) \/ Perish(k, o)

OperatorSpec == OperatorInit /\ [][OperatorNext]_operatorVars

------------------------------------------------------------------------------
\* The types of all parts.
OperatorTypeOK ==
    /\ outcome \in {"processing", "verification_pending", "failed"}
    /\ handling \in [Handling -> {"none", "running", "dead", "ended"}]
    /\ process \in [Handling -> [Operator -> ProcessState]]
    /\ result \in [Handling -> [Operator -> {"none", "succeeded", "failed"}]]
    /\ open \in [Handling -> [Operator -> File]]
    /\ temporary \in [Operator -> File]
    /\ final \in [Operator -> File]
    /\ complete \in [Operator -> SUBSET Handling]
    /\ shared \subseteq Operator
    /\ troubles \in 0 .. MaxTroubles

\* The report that moves the Episode on is right about the data: it fails the Episode for
\* an operator that did fail in that handling, and passes it when all of them ended well,
\* whatever earlier handlings left in the directories.  The one exception is two processes
\* of an operator at work at once: they share the temporary file (Operator.run).
VerdictIsFair ==
    [][\A k \in Handling :
         handling[k] = "running" /\ handling'[k] = "ended" /\ outcome' # outcome =>
            /\ outcome' = "failed" =>
                 \E o \in Operator : process[k][o] \in Troubled \/ o \in shared
            /\ outcome' = "verification_pending" =>
                 \A o \in Operator : process[k][o] = "done"]_operatorVars
=============================================================================
