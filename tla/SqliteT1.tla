------------------------------ MODULE SqliteT1 ------------------------------
(***************************************************************************)
(* The SQLite adapter, statement by statement.  Each execute, commit and   *)
(* rollback is a call to the connection's thread that the coroutine        *)
(* awaits, so the statements of two operations may interleave.             *)
(*                                                                         *)
(* Python's sqlite3 opens a transaction before an INSERT, UPDATE or DELETE *)
(* when none is open, and neither before a SELECT nor before DDL; it stays *)
(* open when the statement then raises.  commit() ends the open            *)
(* transaction whoever opened it; BEGIN fails inside one.                  *)
(***************************************************************************)
EXTENDS T1Connection

sqliteVars == connectionVars

\* upsert_with_vector and supersede roll back when a statement raises; the other
\* operations do not.
RolledBack == {"begin", "retire", "insert", "vector"}

\* The INSERT, UPDATE and DELETE statements.
Writing == {"retire", "insert", "vector", "update", "unindex", "delete", "reinsert"}

-----------------------------------------------------------------------------
\* A statement that writes: it runs in the open transaction, or opens one.
Write(c, table, next) ==
  /\ db' = table
  /\ txn' = "open"
  /\ Goto(c, next)
  /\ UNCHANGED <<process, saved, history>>

\* Mutation: the exception is logged and the caller goes on.
SwallowError(c) ==
  /\ txn' = IF client[c].pc \in Writing THEN "open" ELSE txn
  /\ IF client[c].pc \in RolledBack THEN Goto(c, "rollback") ELSE Return(c)
  /\ UNCHANGED <<process, db, saved, history>>

\* The statement raises.  It has changed nothing, but the transaction Python opened
\* for it stays open; where the operation has no handler, nobody ends it.
Throws(c) ==
  /\ txn' = IF client[c].pc \in Writing THEN "open" ELSE txn
  /\ IF client[c].pc \in RolledBack THEN Goto(c, "rollback") ELSE Raise(c)
  /\ UNCHANGED <<process, db, saved, history>>

\* BEGIN, refused inside a transaction: the handler then rolls that one back.
Begin(c) ==
  /\ client[c].pc = "begin"
  /\ txn' = "open"
  /\ Goto(c, IF txn = "open" THEN "rollback"
             ELSE IF client[c].old = None THEN "insert" ELSE "retire")
  /\ UNCHANGED <<process, db, saved, history>>

\* Mutation: the old row is retired through update(), which commits.
RetireAndCommit(c) ==
  /\ client[c].pc = "retire"
  /\ db' = WithRetired(db, client[c].old, client[c].new)
  /\ saved' = db'
  /\ txn' = "none"
  /\ Goto(c, "insert")
  /\ UNCHANGED <<process, history>>

\* supersede, statement 1; no matching row (rowcount is not 1) is an error.
RetireOld(c) ==
  /\ client[c].pc = "retire"
  /\ Write(c, WithRetired(db, client[c].old, client[c].new),
           IF db.row[client[c].old] = "absent" THEN "unmatched" ELSE "insert")

InsertNew(c) ==
  /\ client[c].pc = "insert"
  /\ Write(c, WithRow(db, client[c].new), "vector")

\* Mutation: the vector is stored under the old row's id.
InsertVectorOfOld(c) ==
  /\ client[c].pc = "vector"
  /\ Write(c, WithVector(db, client[c].old), "commit")

InsertVector(c) ==
  /\ client[c].pc = "vector"
  /\ IF Fits THEN Write(c, WithVector(db, client[c].new), "commit") ELSE Throws(c)

\* update(valid_until = now); no such row is no error.
UpdateRow(c) ==
  /\ client[c].pc = "update"
  /\ Write(c, WithRetired(db, client[c].old, None), "commit")

\* delete_vector, and the first statement of upsert_vector.
DeleteVector(c) ==
  \/ /\ client[c].pc = "unindex"
     /\ Write(c, WithoutVector(db, client[c].old), "commit")
  \/ /\ client[c].pc = "delete"
     /\ Write(c, WithoutVector(db, client[c].old), "reinsert")

\* The second: vec0 raises when the id is in the index.
ReinsertVector(c) ==
  /\ client[c].pc = "reinsert"
  /\ IF Fits /\ client[c].old \notin db.vec
     THEN Write(c, WithVector(db, client[c].old), "commit")
     ELSE Throws(c)

\* recreate_vector_store: DDL opens no transaction, so outside of one each of its
\* statements is committed at once.
Define(c, table, next) ==
  /\ db' = table
  /\ saved' = IF txn = "none" THEN table ELSE saved
  /\ Goto(c, next)
  /\ UNCHANGED <<process, txn, history>>

DropIndex(c) == client[c].pc = "drop" /\ Define(c, WithoutIndex(db), "create")
CreateIndex(c) == client[c].pc = "create" /\ Define(c, WithIndex(db, width), "commit")

\* Mutation: the operation returns and leaves the commit to a later one.
ReturnWithoutCommit(c) ==
  /\ client[c].pc = "commit"
  /\ acked' = acked \cup ({client[c].new} \ {None})
  /\ Return(c)
  /\ UNCHANGED <<process, db, saved, txn, used, settled, dropped>>

Commit(c) ==
  /\ client[c].pc = "commit"
  /\ saved' = db
  /\ txn' = "none"
  /\ acked' = acked \cup ({client[c].new} \ {None})
  /\ settled' = acked'
  /\ Return(c)
  /\ UNCHANGED <<process, db, used, dropped>>

\* Mutation: the exception is raised to the caller as it is.
RaiseOnly(c) ==
  /\ client[c].pc \in {"unmatched", "rollback"}
  /\ Raise(c)
  /\ UNCHANGED <<process, db, saved, txn, history>>

\* rollback() undoes whatever is not committed and the exception goes to the
\* caller.  A row that is not matched is rolled back twice: before the raise and
\* in the handler.
Rollback(c) ==
  /\ client[c].pc \in {"unmatched", "rollback"}
  /\ db' = saved
  /\ txn' = "none"
  /\ IF client[c].pc = "unmatched" THEN Goto(c, "rollback") ELSE Raise(c)
  /\ UNCHANGED <<process, saved, history>>

StatementFails(c) == client[c].pc \in Failing /\ Throws(c)

SqliteOp(c) ==
  \/ Begin(c) \/ RetireOld(c) \/ InsertNew(c) \/ InsertVector(c)
  \/ UpdateRow(c) \/ DeleteVector(c) \/ ReinsertVector(c)
  \/ DropIndex(c) \/ CreateIndex(c)
  \/ Commit(c) \/ Rollback(c) \/ StatementFails(c)

\* SQLite rolls an unfinished transaction back when the file is opened again.
SqliteCrash == CanCrash /\ Drop /\ txn' = "none" /\ UNCHANGED process

-----------------------------------------------------------------------------
(***************************************************************************)
(* The adapter alone, in a process whose index has the width of its        *)
(* embeddings.                                                             *)
(***************************************************************************)
SqliteInit ==
  /\ backend = "sqlite" /\ phase = "engine"
  /\ width \in Dims
  /\ db = WithIndex(EmptyTable, width) /\ saved = db
  /\ ConnectionInit

SqliteNext ==
  \/ \E c \in Clients : CallInsert(c) \/ CallUpdate(c) \/ SqliteOp(c)
  \/ SqliteCrash

SqliteSpec == SqliteInit /\ [][SqliteNext]_sqliteVars

(***************************************************************************)
(* While no two operations overlap.                                        *)
(***************************************************************************)

\* What is on disk changes only by whole operations, whatever statement fails and
\* wherever the process dies (T-02-06, CR-04): the committed tables implement the
\* record store the engine is written against.
OnDisk == IF backend = "sqlite" THEN saved ELSE EmptyTable
Committed == INSTANCE RecordTable
               WITH row <- OnDisk.row, by <- OnDisk.by, vec <- OnDisk.vec
TableSpec == Committed!Spec

\* Between the engine's operations nothing waits to be committed, so that no operation
\* commits, or rolls back, what is not its own.  A transaction may be open, and the
\* next upsert_with_vector or supersede refused, but only after an operation has raised.
NothingPending ==
  backend = "sqlite" /\ phase # "script" /\ (\A c \in Clients : Idle(c)) =>
    /\ db = saved
    /\ txn # "none" => \E c \in Clients : client[c].pc = "raised"

(***************************************************************************)
(* Whatever overlaps.                                                      *)
(***************************************************************************)

\* supersede: "Atomically retire old_id and insert new_record": on disk, a row
\* that is superseded has its successor.
SupersedeAtomic ==
  \A r \in Ids : saved.by[r] # None => saved.row[saved.by[r]] # "absent"
=============================================================================
