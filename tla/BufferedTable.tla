--------------------------- MODULE BufferedTable ----------------------------
(***************************************************************************)
(* A record store whose operations take effect at once but reach the disk  *)
(* later: operations are whole, they reach the disk in their order, and a  *)
(* crash takes back those that have not.                                   *)
(***************************************************************************)
EXTENDS RecordTable

VARIABLE disk  \* what a crash leaves

Seen == [row |-> row, by |-> by, vec |-> vec]

BufferedInit == Init /\ disk = Seen

Operate == Next /\ disk' \in {disk, Seen'}

Sync == disk' = Seen /\ UNCHANGED vars

Lose ==
  /\ row' = disk.row /\ by' = disk.by /\ vec' = disk.vec
  /\ UNCHANGED disk

BufferedSpec == BufferedInit /\ [][Operate \/ Sync \/ Lose]_<<vars, disk>>
=============================================================================
