------------------------------ MODULE MCRecall ------------------------------
(***************************************************************************)
(* Small instances of Recall for TLC.                                      *)
(***************************************************************************)
EXTENDS Recall, MCMnema
=============================================================================
