------------------------------ MODULE MCSafety ------------------------------
(***************************************************************************)
(* Parts of which nothing is promised but safety, for TLC: the operators'  *)
(* processes, a page of the console, a recording, the accounts, and a look *)
(* at the queues.  They share no state.  A behaviour is one of one of      *)
(* them; the others do not move.                                           *)
(***************************************************************************)
EXTENDS OperatorRuns, ConsoleStream, Recording, AccountSessions, QueueInspection

VARIABLE scene      \* the part that moves

Scenes == {"operators", "console", "record", "accounts", "queues"}

\* Where the inputs of the parts that do not move make no difference, they are fixed.
MCInit ==
    /\ scene \in Scenes
    /\ OperatorInit /\ StreamInit /\ RecordingInit /\ AccountInit /\ InspectionInit
    /\ scene # "console" => \A h, g \in Handler : owner[h] = owner[g]
    /\ \A c \in Client : client[c].right <=> client[c].user # "annotator"
    /\ scene # "accounts" => \A c \in Client : client[c].user = "admin" /\ client[c].keeps
    /\ scene # "queues" => backend = "file" /\ \A m \in Message : home[m] = CHOOSE q \in Queue : TRUE

MCNext ==
    \/ scene = "operators" /\ OperatorNext /\ UNCHANGED <<scene, streamVars, recordingVars, accountVars, inspectionVars>>
    \/ scene = "console" /\ StreamNext /\ UNCHANGED <<scene, operatorVars, recordingVars, accountVars, inspectionVars>>
    \/ scene = "record" /\ RecordingNext /\ UNCHANGED <<scene, operatorVars, streamVars, accountVars, inspectionVars>>
    \/ scene = "accounts" /\ AccountNext /\ UNCHANGED <<scene, operatorVars, streamVars, recordingVars, inspectionVars>>
    \/ scene = "queues" /\ InspectionNext /\ UNCHANGED <<scene, operatorVars, streamVars, recordingVars, accountVars>>

MCSpec == MCInit /\ [][MCNext]_<<scene, operatorVars, streamVars, recordingVars, accountVars, inspectionVars>>

\* The types of all modules.
SafetyTypesOK == OperatorTypeOK /\ StreamTypeOK /\ RecordingTypeOK /\ AccountTypeOK /\ InspectionTypeOK
=============================================================================
