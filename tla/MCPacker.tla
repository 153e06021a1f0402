------------------------------ MODULE MCPacker ------------------------------
(***************************************************************************)
(* Packer for TLC: every ranking of at most three records.                 *)
(***************************************************************************)
EXTENDS Packer, TLC

Costs == {0, 1, 3}
Entries == [prot : BOOLEAN, fact : BOOLEAN, cost : Costs]
SmallRankings == UNION {[1..n -> Entries] : n \in 0..3}
=============================================================================
