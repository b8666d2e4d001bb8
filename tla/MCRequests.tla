----------------------------- MODULE MCRequests -----------------------------
(***************************************************************************)
(* DatasetBuild, TaskPush and TaskDirectory for TLC: parts that share no   *)
(* state here.  A behaviour is one of one of them; the others do not move. *)
(***************************************************************************)
EXTENDS DatasetBuild, TaskPush, TaskDirectory

VARIABLE scene      \* the part that moves

Scenes == {"build", "push", "directory"}

\* Calls, like tasks, can take each other's place: the first one's are fixed.
First(set) == CHOOSE x \in set : TRUE

MCInit ==
    /\ scene \in Scenes
    /\ BuildInit
    /\ PushInit
    /\ DirectoryInit
    /\ \A r \in Call : r = First(Call) \/ scene # "push" =>
         call[r].task = First(Task) /\ call[r].agent = First(Awake)

MCNext ==
    \/ scene = "build" /\ BuildNext /\ UNCHANGED <<scene, pushVars, directoryVars>>
    \/ scene = "push" /\ PushNext /\ UNCHANGED <<scene, buildVars, directoryVars>>
    \/ scene = "directory" /\ DirectoryNext /\ UNCHANGED <<scene, buildVars, pushVars>>

MCSpec ==
    /\ MCInit
    /\ [][MCNext]_<<scene, buildVars, pushVars, directoryVars>>
    /\ BuildFairness
    /\ PushFairness

\* The types of all modules.
TypesOK == BrokerTypeOK /\ DatasetTypeOK /\ PushTypeOK /\ DirectoryTypeOK
=============================================================================
