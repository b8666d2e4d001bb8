------------------------------- MODULE MCAgent -------------------------------
(***************************************************************************)
(* AgentUpload and DirectoryWatch for TLC.  The two share no variable: the *)
(* watcher hands a file over at AgentUpload's Take.  scene says which of   *)
(* the two a behaviour is about, so that TLC does not interleave them.     *)
(***************************************************************************)
EXTENDS AgentUpload, DirectoryWatch

VARIABLE scene

MCInit == scene \in {"upload", "watch"} /\ UploadInit /\ WatchInit

MCNext ==
    /\ UNCHANGED scene
    /\ \/ scene = "upload" /\ UploadNext /\ UNCHANGED watchVars
       \/ scene = "watch" /\ WatchNext /\ UNCHANGED uploadVars

MCSpec ==
    /\ MCInit
    /\ [][MCNext]_<<scene, uploadVars, watchVars>>
    /\ WF_uploadVars(scene = "upload" /\ AgentStep)
    /\ WatchFairness

\* The types of both modules.
AgentTypeOK == UploadTypeOK /\ WatchTypeOK
=============================================================================
