---------------------------- MODULE T1Connection ----------------------------
(***************************************************************************)
(* What the two adapters of the T1 record store have in common: the tables *)
(* t1_records and the vector index, one database connection that all       *)
(* coroutines share, and the calls made to the adapter.  SqliteT1 and      *)
(* PostgresT1 say statement by statement what a call does.                 *)
(***************************************************************************)
EXTENDS Naturals, FiniteSets

CONSTANTS
  Ids,         \* record ids
  Clients,     \* coroutines that use the adapter
  Dims,        \* widths an embedding may have
  None,
  Ops,         \* the operations the coroutines call
  Failing,     \* the statements that may raise (disk full, lock or query timeout)
  Serialized,  \* whether an operation starts only when no other is under way
  CanCrash     \* whether the process may die

AllOps == {"put", "supersede", "retire", "unindex", "read", "search"}

Statements == {"begin", "retire", "insert", "vector", "update", "unindex", "delete",
               "reinsert", "drop", "create", "select", "knn"}

ASSUME ConnectionAssumption ==
  /\ None \notin Ids \cup Dims
  /\ Ops \subseteq AllOps
  /\ Failing \subseteq Statements
  /\ Serialized \in BOOLEAN /\ CanCrash \in BOOLEAN

VARIABLES
  backend,  \* the adapter build_engine opened
  phase,    \* what the process runs: an engine, the migration script, or nothing
  width,    \* the width of the process's embeddings (config.embedder_dim)
  db,       \* what the connection sees
  saved,    \* what is committed
  txn,      \* the connection's transaction: none, open, or failed and to be rolled back
  client,   \* per coroutine: its next statement and its arguments
  used,     \* history: ids that an operation was called with (uuid4: never reused)
  acked,    \* history: ids whose insert has returned and that no crash took back
  settled,  \* history: the acked ids at the last commit
  dropped   \* history: ids delete_vector was called with

process == <<backend, phase, width>>
history == <<used, acked, settled, dropped>>
connectionVars == <<process, db, saved, txn, client, history>>

\* A row is reduced to its status and its successor, the index to its ids and its
\* width (None: there is no index table).
Table == [row : [Ids -> {"absent", "live", "retired"}], by : [Ids -> Ids \cup {None}],
          vec : SUBSET Ids, dim : Dims \cup {None}]

EmptyTable == [row |-> [r \in Ids |-> "absent"], by |-> [r \in Ids |-> None],
               vec |-> {}, dim |-> None]

ClientState ==
  [pc : Statements \cup {"idle", "raised", "unmatched", "commit", "release", "rollback"},
   new : Ids \cup {None}, old : Ids \cup {None}]

Returned == [pc |-> "idle", new |-> None, old |-> None]
Raised == [Returned EXCEPT !.pc = "raised"]

Idle(c) == client[c].pc \in {"idle", "raised"}
Goto(c, pc) == client' = [client EXCEPT ![c].pc = pc]
Return(c) == client' = [client EXCEPT ![c] = Returned]
Raise(c) == client' = [client EXCEPT ![c] = Raised]

-----------------------------------------------------------------------------
(***************************************************************************)
(* What a statement does to the tables.                                    *)
(***************************************************************************)
WithRetired(table, r, new) ==
  IF table.row[r] = "absent" THEN table
  ELSE [table EXCEPT !.row[r] = "retired", !.by[r] = IF new = None THEN table.by[r] ELSE new]

WithRow(table, r) == [table EXCEPT !.row[r] = "live"]
WithVector(table, r) == [table EXCEPT !.vec = @ \cup {r}]
WithoutVector(table, r) == [table EXCEPT !.vec = @ \ {r}]
WithoutIndex(table) == [table EXCEPT !.vec = {}, !.dim = None]
WithIndex(table, d) == [table EXCEPT !.dim = d]

\* A vector is accepted when it is as wide as the index's column.
Fits == width = db.dim

-----------------------------------------------------------------------------
MayCall(c, op) ==
  /\ phase = "engine"
  /\ Idle(c)
  /\ op \in Ops
  /\ Serialized => \A d \in Clients : Idle(d)

\* An operation is called; pc is its first statement.
Call(c, pc, old, new) ==
  /\ client' = [client EXCEPT ![c] = [pc |-> pc, new |-> new, old |-> old]]
  /\ used' = used \cup ({new} \ {None})
  /\ dropped' = IF pc = "unindex" THEN dropped \cup {old} ELSE dropped
  /\ UNCHANGED <<process, db, saved, txn, acked, settled>>

\* upsert_with_vector and supersede; the engine supersedes a record it has read.
CallInsert(c) ==
  \/ MayCall(c, "put") /\ \E r \in Ids \ used : Call(c, "begin", None, r)
  \/ /\ MayCall(c, "supersede")
     /\ \E old \in Ids, r \in Ids \ used : old # r /\ Call(c, "begin", old, r)

\* update(valid_until = now), delete_vector
CallUpdate(c) ==
  \/ MayCall(c, "retire") /\ \E r \in used : Call(c, "update", r, None)
  \/ MayCall(c, "unindex") /\ \E r \in used : Call(c, "unindex", r, None)

\* The connection is gone, and with it what was not committed.
Drop ==
  /\ db' = saved
  /\ client' = [c \in Clients |-> Returned]
  /\ acked' = settled
  /\ UNCHANGED <<saved, used, settled, dropped>>

ConnectionInit ==
  /\ txn = "none"
  /\ client = [c \in Clients |-> Returned]
  /\ used = {} /\ acked = {} /\ settled = {} /\ dropped = {}

ConnectionTypeOK ==
  /\ backend \in {"sqlite", "postgres"}
  /\ phase \in {"engine", "script", "down"}
  /\ width \in Dims
  /\ db \in Table /\ saved \in Table
  /\ txn \in {"none", "open", "failed"}
  /\ client \in [Clients -> ClientState]
  /\ used \subseteq Ids /\ acked \subseteq Ids /\ settled \subseteq Ids
  /\ dropped \subseteq Ids

\* A record whose insert has returned is on disk, so that a crash does not take it
\* back.  PostgresT1 keeps this only from the next commit on.
AckedIsDurable ==
  \A r \in IF backend = "sqlite" THEN acked ELSE settled : saved.row[r] # "absent"
=============================================================================
