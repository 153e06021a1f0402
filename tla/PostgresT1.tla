----------------------------- MODULE PostgresT1 -----------------------------
(***************************************************************************)
(* The Postgres adapter, statement by statement, for operations that take  *)
(* turns.  The connection is opened with autocommit=False, so every        *)
(* statement, a SELECT too, opens a transaction when none is open, and     *)
(* nothing but commit() ends it.  conn.transaction() is BEGIN ... COMMIT   *)
(* outside of a transaction; inside of one it is only a savepoint.         *)
(*                                                                         *)
(* A statement that raises leaves the transaction failed: every later one  *)
(* is refused until a rollback, which the adapter has only in              *)
(* conn.transaction().                                                     *)
(***************************************************************************)
EXTENDS T1Connection

VARIABLE block  \* the conn.transaction() block that was entered

postgresVars == <<connectionVars, block>>

\* nested: it is a savepoint; mark: the tables when it was entered.
Outside == [inside |-> FALSE, nested |-> FALSE, mark |-> EmptyTable]

-----------------------------------------------------------------------------
\* A statement that runs, and where its operation goes on.
Execute(c, table, next) ==
  /\ txn # "failed"
  /\ db' = table
  /\ txn' = "open"
  /\ Goto(c, next)
  /\ UNCHANGED <<process, saved, history, block>>

\* A statement that raises, as every statement of a failed transaction does.
Refuse(c) ==
  /\ txn' = "failed"
  /\ IF block.inside THEN Goto(c, "rollback") ELSE Raise(c)
  /\ UNCHANGED <<process, db, saved, history, block>>

Enter(c) ==
  /\ client[c].pc = "begin" /\ txn # "failed"
  /\ block' = [inside |-> TRUE, nested |-> txn = "open", mark |-> db]
  /\ txn' = "open"
  /\ Goto(c, IF client[c].new = None THEN "drop"
             ELSE IF client[c].old = None THEN "insert" ELSE "retire")
  /\ UNCHANGED <<process, db, saved, history>>

\* Leaving a block: COMMIT, or RELEASE SAVEPOINT, which commits nothing.
Release(c) ==
  /\ client[c].pc = "release"
  /\ acked' = acked \cup ({client[c].new} \ {None})
  /\ IF block.nested THEN UNCHANGED <<saved, txn, settled>>
     ELSE saved' = db /\ txn' = "none" /\ settled' = acked'
  /\ block' = Outside
  /\ Return(c)
  /\ UNCHANGED <<process, db, used, dropped>>

\* Mutation: a savepoint is not rolled back to.
UnwindOutermost(c) ==
  /\ client[c].pc = "rollback"
  /\ db' = IF block.nested THEN db ELSE block.mark
  /\ txn' = IF block.nested THEN "open" ELSE "none"
  /\ block' = Outside
  /\ Raise(c)
  /\ UNCHANGED <<process, saved, history>>

\* Leaving it with an exception: ROLLBACK, or ROLLBACK TO SAVEPOINT.
Unwind(c) ==
  /\ client[c].pc = "rollback"
  /\ db' = block.mark
  /\ txn' = IF block.nested THEN "open" ELSE "none"
  /\ block' = Outside
  /\ Raise(c)
  /\ UNCHANGED <<process, saved, history>>

\* supersede; no matching row raises ValueError, a Python exception that does not
\* fail the transaction.
PgRetireOld(c) ==
  /\ client[c].pc = "retire"
  /\ Execute(c, WithRetired(db, client[c].old, client[c].new),
             IF db.row[client[c].old] = "absent" THEN "rollback" ELSE "insert")

PgInsertNew(c) ==
  /\ client[c].pc = "insert"
  /\ Execute(c, WithRow(db, client[c].new), "vector")

PgInsertVector(c) ==
  /\ client[c].pc = "vector"
  /\ IF Fits THEN Execute(c, WithVector(db, client[c].new), "release") ELSE Refuse(c)

\* recreate_vector_store, in a block: the column and its index are dropped and added.
PgDropColumn(c) == client[c].pc = "drop" /\ Execute(c, WithoutIndex(db), "create")
PgAddColumn(c) == client[c].pc = "create" /\ Execute(c, WithIndex(db, width), "release")

\* update, delete_vector, upsert_vector: one statement and commit().
PgUpdateRow(c) ==
  /\ client[c].pc = "update"
  /\ Execute(c, WithRetired(db, client[c].old, None), "commit")

PgDeleteVector(c) ==
  /\ client[c].pc = "unindex"
  /\ Execute(c, WithoutVector(db, client[c].old), "commit")

PgUpsertVector(c) ==
  /\ client[c].pc = "reinsert"
  /\ IF Fits THEN Execute(c, WithVector(db, client[c].old), "commit") ELSE Refuse(c)

\* get, find_by_t0_ref, live_records: a SELECT and nothing else.
Select(c) == client[c].pc = "select" /\ Execute(c, db, "idle")

\* vector_search commits "to close the implicit read transaction" (WR-02); the
\* distance to a vector of another width raises.
Knn(c) ==
  /\ client[c].pc = "knn"
  /\ IF Fits \/ db.vec = {} THEN Execute(c, db, "commit") ELSE Refuse(c)

PgCommit(c) ==
  /\ client[c].pc = "commit"
  /\ saved' = db
  /\ txn' = "none"
  /\ settled' = acked
  /\ Return(c)
  /\ UNCHANGED <<process, db, used, acked, dropped, block>>

\* A statement raises by itself, or because an earlier one did.
PgStatementFails(c) ==
  /\ client[c].pc \in Failing \/ (client[c].pc \in Statements /\ txn = "failed")
  /\ Refuse(c)

PostgresOp(c) ==
  \/ Enter(c) \/ Release(c) \/ Unwind(c)
  \/ PgRetireOld(c) \/ PgInsertNew(c) \/ PgInsertVector(c)
  \/ PgDropColumn(c) \/ PgAddColumn(c)
  \/ PgUpdateRow(c) \/ PgDeleteVector(c) \/ PgUpsertVector(c)
  \/ Select(c) \/ Knn(c) \/ PgCommit(c) \/ PgStatementFails(c)

CallRead(c) ==
  \/ MayCall(c, "read") /\ Call(c, "select", None, None)
  \/ MayCall(c, "search") /\ Call(c, "knn", None, None)

\* open() ends with the version check, a SELECT that is not committed.
PgOpened == txn' = "open" /\ block' = Outside

PostgresCrash == CanCrash /\ Drop /\ PgOpened /\ UNCHANGED process

-----------------------------------------------------------------------------
(***************************************************************************)
(* The adapter alone.                                                      *)
(***************************************************************************)
PostgresInit ==
  /\ backend = "postgres" /\ phase = "engine"
  /\ width \in Dims
  /\ db = WithIndex(EmptyTable, width) /\ saved = db
  /\ txn = "open" /\ block = Outside
  /\ client = [c \in Clients |-> Returned]
  /\ used = {} /\ acked = {} /\ settled = {} /\ dropped = {}

PostgresNext ==
  \/ \E c \in Clients : (CallInsert(c) \/ CallUpdate(c) \/ CallRead(c)) /\ UNCHANGED block
  \/ \E c \in Clients : PostgresOp(c)
  \/ PostgresCrash

PostgresSpec == PostgresInit /\ [][PostgresNext]_postgresVars

BlockType == [inside : BOOLEAN, nested : BOOLEAN, mark : Table]

\* The operations that have returned are what a caller sees; a crash takes some of
\* the last of them back, but never a part of one, and never one from before a
\* commit: the adapter implements BufferedTable.
Visible == IF backend = "sqlite" THEN EmptyTable
           ELSE IF block.inside THEN block.mark ELSE db
Kept == LET table == IF backend = "sqlite" THEN EmptyTable ELSE saved
        IN  [row |-> table.row, by |-> table.by, vec |-> table.vec]
Buffered == INSTANCE BufferedTable
              WITH row <- Visible.row, by <- Visible.by, vec <- Visible.vec, disk <- Kept
BufferedSpec == Buffered!BufferedSpec

\* supersede and upsert_with_vector: "in one transaction": what has returned is on
\* disk.
AckedOnDisk == \A r \in acked : saved.row[r] # "absent"
=============================================================================
