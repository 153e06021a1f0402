----------------------------- MODULE MCSqliteT1 -----------------------------
(***************************************************************************)
(* A small instance of SqliteT1 for TLC.                                   *)
(***************************************************************************)
EXTENDS SqliteT1, TLC

Symmetry == Permutations(Ids) \cup Permutations(Clients)
=============================================================================
