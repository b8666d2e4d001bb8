--------------------------- MODULE MCFileDelivery ---------------------------
(***************************************************************************)
(* Instances of FileDelivery for TLC.                                      *)
(***************************************************************************)
EXTENDS FileDelivery
=============================================================================
