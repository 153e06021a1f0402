---------------------------- MODULE RecordTable ----------------------------
(***************************************************************************)
(* The T1 record store as its callers use it: every port operation happens *)
(* at once or not at all.  Stores is written over these operations; here   *)
(* a row is reduced to its status and its successor.                       *)
(***************************************************************************)
CONSTANTS Ids, None

VARIABLES
  row,   \* status of each id
  by,    \* superseded_by
  vec    \* ids in the vector index

vars == <<row, by, vec>>

Init ==
  /\ row = [r \in Ids |-> "absent"]
  /\ by = [r \in Ids |-> None]
  /\ vec = {}

\* upsert_with_vector
Put(r) ==
  /\ row[r] = "absent"
  /\ row' = [row EXCEPT ![r] = "live"]
  /\ vec' = vec \cup {r}
  /\ UNCHANGED by

\* supersede
Supersede(old, new) ==
  /\ row[old] # "absent"
  /\ row[new] = "absent"
  /\ row' = [row EXCEPT ![old] = "retired", ![new] = "live"]
  /\ by' = [by EXCEPT ![old] = new]
  /\ vec' = vec \cup {new}

\* update(valid_until = now)
Retire(r) ==
  /\ row[r] # "absent"
  /\ row' = [row EXCEPT ![r] = "retired"]
  /\ UNCHANGED <<by, vec>>

\* delete_vector
Unindex(r) ==
  /\ vec' = vec \ {r}
  /\ UNCHANGED <<row, by>>

\* upsert_vector
Reindex(r) ==
  /\ vec' = vec \cup {r}
  /\ UNCHANGED <<row, by>>

\* recreate_vector_store
Clear ==
  /\ vec' = {}
  /\ UNCHANGED <<row, by>>

Next ==
  \/ Clear
  \/ \E r \in Ids : Put(r) \/ Retire(r) \/ Unindex(r) \/ Reindex(r)
  \/ \E old, new \in Ids : Supersede(old, new)

Spec == Init /\ [][Next]_vars
=============================================================================
