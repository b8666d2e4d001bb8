--------------------------- MODULE DirectoryWatch ---------------------------
(***************************************************************************)
(* DirectoryWatcher: files are copied into the task directories while the  *)
(* Agent watches; the file system's event only says that a copy has begun. *)
(* run() takes one path at a time and samples the file's size until it has *)
(* not changed StableCount times running, or a marker file says that the   *)
(* copy is complete.  Names may come again once a file has been taken.     *)
(* Every directory has its .task.json here; TaskDirectory is about those   *)
(* that have not.                                                          *)
(***************************************************************************)
EXTENDS Integers, Sequences, FiniteSets, SequencesExt

CONSTANTS Name,
          FullSize,     \* of every file
          StableCount,  \* stable_count
          Timeout,      \* timeout_seconds, in samples
          MaxPause,     \* samples a copy's pause may last
          MaxFiles,     \* bound: files that come under one name
          MaxQueue,     \* bound: paths in the queue
          MaxRestarts   \* bound: restarts of the Agent

ASSUME WatchAssumption ==
    /\ FullSize \in Nat \ {0} /\ StableCount \in Nat \ {0} /\ Timeout \in Nat
    /\ MaxPause \in 0 .. StableCount
ASSUME WatchBounds == MaxFiles \in Nat /\ MaxQueue \in Nat /\ MaxRestarts \in Nat

VARIABLES size,         \* of the file of that name, -1: there is none
          generation,   \* files that have come under that name
          still,        \* samples since the copy wrote last
          marker,       \* is there a marker file?
          marked,       \* the generation the last marker was written for
          queue,
          watch,        \* the locals of wait_until_stable
          skipped,      \* names whose file was given up on (history)
          restarts

watchVars == <<size, generation, still, marker, marked, queue, watch, skipped, restarts>>
upstream == <<generation, still, marked>>

------------------------------------------------------------------------------
Nobody == "none"
NotWatching == [name |-> Nobody, last |-> -1, unchanged |-> 0, elapsed |-> 0]

Present == {n \in Name : size[n] >= 0}

WatchInit ==
    /\ size = [n \in Name |-> -1]
    /\ generation = [n \in Name |-> 0]
    /\ still = [n \in Name |-> 0]
    /\ marker = [n \in Name |-> FALSE]
    /\ marked = [n \in Name |-> 0]
    /\ queue = <<>>
    /\ watch = NotWatching
    /\ skipped = {}
    /\ restarts = 0

------------------------------------------------------------------------------
\* Those who put the files there.

\* A file appears: a copy begins, or a whole file is moved in.  Either event enqueues it.
Appear(n) ==
    /\ size[n] = -1
    /\ generation[n] < MaxFiles
    /\ Len(queue) < MaxQueue
    /\ \E s \in {0, FullSize} : size' = [size EXCEPT ![n] = s]
    /\ generation' = [generation EXCEPT ![n] = @ + 1]
    /\ still' = [still EXCEPT ![n] = 0]
    /\ queue' = Append(queue, n)
    /\ UNCHANGED <<marker, marked, watch, skipped, restarts>>

Grow(n) ==
    /\ size[n] \in 0 .. FullSize - 1
    /\ size' = [size EXCEPT ![n] = @ + 1]
    /\ still' = [still EXCEPT ![n] = 0]
    /\ UNCHANGED <<generation, marker, marked, queue, watch, skipped, restarts>>

\* A script writes the marker some time after its copy; the file may be gone by then.
WriteMarker(n) ==
    /\ marked[n] < generation[n]
    /\ size[n] \in {-1, FullSize}
    /\ marker' = [marker EXCEPT ![n] = TRUE]
    /\ marked' = [marked EXCEPT ![n] = generation[n]]
    /\ UNCHANGED <<size, generation, still, queue, watch, skipped, restarts>>

------------------------------------------------------------------------------
\* The Agent.

\* scan_existing, at the start and on an upload_trigger frame.
Scan ==
    /\ Len(queue) + Cardinality(Present) <= MaxQueue
    /\ queue' = queue \o SetToSeq(Present)
    /\ skipped' = skipped \ Present
    /\ UNCHANGED <<size, upstream, marker, watch, restarts>>

Get ==
    /\ watch = NotWatching
    /\ queue # <<>>
    /\ watch' = [NotWatching EXCEPT !.name = Head(queue)]
    /\ queue' = Tail(queue)
    /\ UNCHANGED <<size, upstream, marker, skipped, restarts>>

\* FileProcessor.process moves the file away.  A marker without a file only makes it fail.
HandOver(n) ==
    /\ size' = [size EXCEPT ![n] = -1]
    /\ watch' = NotWatching
    /\ UNCHANGED skipped

GiveUp(n) ==
    /\ watch' = NotWatching
    /\ skipped' = IF n \in Present THEN skipped \cup {n} ELSE skipped
    /\ UNCHANGED <<size, marker>>

Again(last, unchanged) ==
    /\ watch' = [watch EXCEPT !.last = last, !.unchanged = unchanged, !.elapsed = @ + 1]
    /\ UNCHANGED <<size, marker, skipped>>

\* Mutant: the count goes on when the size has changed.
JudgeWithoutReset(n) ==
    IF watch.unchanged + 1 >= StableCount THEN HandOver(n) /\ UNCHANGED marker
    ELSE Again(size[n], watch.unchanged + 1)

\* One sample of a file that is there.
Judge(n) ==
    IF size[n] = watch.last /\ size[n] > 0
    THEN IF watch.unchanged + 1 >= StableCount THEN HandOver(n) /\ UNCHANGED marker
         ELSE Again(watch.last, watch.unchanged + 1)
    ELSE Again(size[n], 0)

\* Mutant: without the time limit.
SampleForEver(n) ==
    /\ watch.name = n
    /\ size[n] \in 1 .. FullSize - 1 => still[n] < MaxPause
    /\ IF watch.elapsed = Timeout
       THEN watch' = [watch EXCEPT !.elapsed = 0] /\ UNCHANGED <<size, marker, skipped>>
       ELSE IF marker[n]
            THEN HandOver(n) /\ marker' = [marker EXCEPT ![n] = FALSE]
            ELSE IF n \in Present THEN Judge(n) ELSE GiveUp(n)
    /\ still' = [still EXCEPT ![n] = IF @ < MaxPause THEN @ + 1 ELSE @]
    /\ UNCHANGED <<generation, marked, queue, restarts>>

\* One turn of wait_until_stable's loop.
Sample(n) ==
    /\ watch.name = n
    /\ size[n] \in 1 .. FullSize - 1 => still[n] < MaxPause
    /\ IF watch.elapsed = Timeout THEN GiveUp(n)
       ELSE IF marker[n]
            THEN HandOver(n) /\ marker' = [marker EXCEPT ![n] = FALSE]
            ELSE IF n \in Present THEN Judge(n) ELSE GiveUp(n)
    /\ still' = [still EXCEPT ![n] = IF @ < MaxPause THEN @ + 1 ELSE @]
    /\ UNCHANGED <<generation, marked, queue, restarts>>

\* A new process: start() and scan_existing.
Restart ==
    /\ restarts < MaxRestarts
    /\ Cardinality(Present) <= MaxQueue
    /\ restarts' = restarts + 1
    /\ watch' = NotWatching
    /\ queue' = SetToSeq(Present)
    /\ skipped' = {}
    /\ UNCHANGED <<size, upstream, marker>>

------------------------------------------------------------------------------
WatcherStep == Get \/ \E n \in Name : Sample(n)

WatchNext ==
    \/ WatcherStep \/ Scan \/ Restart
    \/ \E n \in Name : Appear(n) \/ Grow(n) \/ WriteMarker(n)

\* The event loop runs, and a copy of which a byte has come goes on.
WatchFairness ==
    WF_watchVars(WatcherStep) /\ \A n \in Name : WF_watchVars(size[n] > 0 /\ Grow(n))

WatchSpec == WatchInit /\ [][WatchNext]_watchVars /\ WatchFairness

------------------------------------------------------------------------------
\* The types of the files, the markers and the watcher's locals.
WatchTypeOK ==
    /\ size \in [Name -> -1 .. FullSize]
    /\ generation \in [Name -> 0 .. MaxFiles]
    /\ still \in [Name -> 0 .. MaxPause]
    /\ marker \in [Name -> BOOLEAN]
    /\ \A n \in Name : marked[n] \in 0 .. generation[n]
    /\ queue \in Seq(Name) /\ Len(queue) <= MaxQueue
    /\ watch \in [name : Name \cup {Nobody}, last : -1 .. FullSize,
                  unchanged : 0 .. StableCount - 1, elapsed : 0 .. Timeout]
    /\ skipped \subseteq Name
    /\ restarts \in 0 .. MaxRestarts

\* No half-copied file is taken, if a copy never pauses for more than StableCount samples;
\* except under a marker left over from an earlier file of the same name, which was taken
\* before its marker came.
TakenWhole ==
    [][\A n \in Name : size[n] >= 0 /\ size'[n] = -1 =>
         size[n] = FullSize \/ (marker[n] /\ marked[n] # generation[n])]_watchVars

\* Every file that comes is taken or given up on, however slow those before it in the
\* queue are.
EveryFileIsDecided == \A n \in Name : n \in Present ~> n \notin Present \/ n \in skipped
=============================================================================
