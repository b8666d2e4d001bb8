------------------------------- MODULE MCTool -------------------------------
(***************************************************************************)
(* The annotation tool for TLC: the reviewers' pages, the annotator's, and *)
(* the player on them.  They share no state here.  A behaviour is one of   *)
(* one of them; the others do not move.                                    *)
(***************************************************************************)
EXTENDS ReviewDesk, SegmentEditor, PlayerSync

VARIABLE scene      \* the part that moves

Scenes == {"review", "edit", "play"}

\* Where the inputs of the parts that do not move make no difference, they are fixed.
MCInit ==
    /\ scene \in Scenes
    /\ DeskInit /\ PlayerInit
    /\ HookInit \/ PageInit
    /\ scene # "review" => \A p \in Desk : current[p] = Nothing
    /\ scene # "edit" => stored = <<>> /\ loaded
    /\ scene # "play" => cameras = {}

MCNext ==
    \/ scene = "review" /\ DeskNext /\ UNCHANGED <<scene, editorVars, playerVars>>
    \/ scene = "edit" /\ EditorNext /\ UNCHANGED <<scene, deskVars, playerVars>>
    \/ scene = "play" /\ PlayerNext /\ UNCHANGED <<scene, deskVars, editorVars>>

MCSpec == MCInit /\ [][MCNext]_<<scene, deskVars, editorVars, playerVars>>

\* The types of all modules.
ToolTypesOK == DeskTypeOK /\ EditorTypeOK /\ PlayerTypeOK
=============================================================================
