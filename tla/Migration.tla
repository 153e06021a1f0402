----------------------------- MODULE Migration ------------------------------
(***************************************************************************)
(* The life of a T1 database: processes that open it one after another,    *)
(* each with the embedding width of its configuration, to run an engine or *)
(* migrate_embedder().                                                     *)
(***************************************************************************)
EXTENDS SqliteT1, PostgresT1

VARIABLES
  todo,   \* live records the script has still to re-embed
  last    \* history: how far the last migration came

migrationVars == <<postgresVars, todo, last>>

(***************************************************************************)
(* how: running (until it has finished), partial (it was given a user_id)  *)
(* or full; wrote: whether it has re-embedded a record.                    *)
(***************************************************************************)
Migrations == [how : {"none", "running", "partial", "full"}, width : Dims \cup {None},
               all : BOOLEAN, wrote : BOOLEAN]

Never == [how |-> "none", width |-> None, all |-> FALSE, wrote |-> FALSE]

Quiet == \A c \in Clients : client[c].pc = "idle"

-----------------------------------------------------------------------------
\* open(dim=d) creates what is missing: CREATE TABLE IF NOT EXISTS never changes
\* the width of an index that exists.
Open(d) ==
  /\ phase = "down"
  /\ width' = d
  /\ db' = IF db.dim = None THEN WithIndex(db, d) ELSE db
  /\ saved' = db'
  /\ txn' = IF backend = "sqlite" THEN "none" ELSE "open"
  /\ UNCHANGED <<backend, history, block>>

\* build_engine.  PROV-06 compares embedder.dim with the dim open() was called with;
\* both are config.embedder_dim.
StartEngine(d) ==
  /\ Open(d)
  /\ phase' = "engine"
  /\ UNCHANGED <<client, todo, last>>

\* migrate_embedder(t1, new_embedder, user_id): it recreates the vector store first.
StartScript(c, d, all) ==
  /\ Open(d)
  /\ phase' = "script"
  /\ client' = [client EXCEPT ![c] = [Returned EXCEPT !.pc =
                  IF backend = "sqlite" THEN "drop" ELSE "begin"]]
  /\ last' = [how |-> "running", width |-> d, all |-> all, wrote |-> FALSE]
  /\ todo' = {}

Step(c) ==
  /\ IF backend = "sqlite" THEN SqliteOp(c) /\ UNCHANGED block ELSE PostgresOp(c)
  /\ UNCHANGED <<todo, last>>

EngineCalls(c) ==
  /\ \/ CallInsert(c) \/ CallUpdate(c)
     \/ backend = "postgres" /\ CallRead(c)
  /\ UNCHANGED <<block, todo, last>>

LiveIds == {r \in Ids : db.row[r] = "live"}

\* Mutation: without a user_id, too, the records of one user are read.
ScanOneUser ==
  /\ phase = "script" /\ Quiet /\ last.how = "running" /\ todo = {} /\ ~ last.wrote
  /\ todo' \in SUBSET LiveIds \ {{}}
  /\ txn' = IF backend = "sqlite" THEN txn ELSE "open"
  /\ UNCHANGED <<process, db, saved, client, history, block, last>>

\* reindex_all reads all_live_records(), or live_records(user_id): any part of them.
Scan ==
  /\ phase = "script" /\ Quiet /\ last.how = "running" /\ todo = {} /\ ~ last.wrote
  /\ todo' \in (IF last.all THEN {LiveIds} ELSE SUBSET LiveIds) \ {{}}
  /\ txn' = IF backend = "sqlite" THEN txn ELSE "open"
  /\ UNCHANGED <<process, db, saved, client, history, block, last>>

\* One record is embedded and upsert_vector called.
Reembed(c) ==
  /\ phase = "script" /\ Quiet
  /\ \E r \in todo :
       /\ todo' = todo \ {r}
       /\ client' = [client EXCEPT ![c] = [Returned EXCEPT !.old = r, !.pc =
                       IF backend = "sqlite" THEN "delete" ELSE "reinsert"]]
  /\ last' = [last EXCEPT !.wrote = TRUE]
  /\ UNCHANGED <<process, db, saved, txn, history, block>>

\* Nothing is left to re-embed.
Finish ==
  /\ phase = "script" /\ Quiet /\ last.how = "running" /\ todo = {}
  /\ last.wrote \/ ~ last.all \/ LiveIds = {}
  /\ last' = [last EXCEPT !.how = IF last.all THEN "full" ELSE "partial"]
  /\ UNCHANGED <<connectionVars, block, todo>>

\* The t1 that was migrated is handed to MemoryEngine in the same process.
Continue ==
  /\ phase = "script" /\ Quiet /\ last.how # "running"
  /\ phase' = "engine"
  /\ UNCHANGED <<backend, width, db, saved, txn, client, history, block, todo, last>>

\* The process ends: it is killed, or stops, or the script has raised or finished.
Exit ==
  /\ phase # "down"
  /\ phase' = "down"
  /\ Drop
  /\ txn' = "none" /\ block' = Outside /\ todo' = {}
  /\ UNCHANGED <<backend, width, last>>

Init ==
  /\ backend \in {"sqlite", "postgres"}
  /\ phase = "down"
  /\ width \in Dims
  /\ db = EmptyTable /\ saved = EmptyTable
  /\ ConnectionInit
  /\ block = Outside /\ todo = {} /\ last = Never

Next ==
  \/ \E c \in Clients : Step(c) \/ EngineCalls(c) \/ Reembed(c)
  \/ \E d \in Dims : StartEngine(d)
  \/ \E c \in Clients, d \in Dims, all \in BOOLEAN : StartScript(c, d, all)
  \/ Scan \/ Finish \/ Continue \/ Exit

Spec == Init /\ [][Next]_migrationVars

-----------------------------------------------------------------------------
TypeOK ==
  /\ ConnectionTypeOK
  /\ block \in BlockType
  /\ todo \subseteq Ids
  /\ last \in Migrations

\* On disk a live record has its vector, unless delete_vector was called for it: a
\* migration may be cut short or be of one user only, but when one of the whole
\* store has finished, every vector is there again (CR-01, CR-04, PROV-07).
LiveIndexed ==
  last.how \in {"none", "full"} =>
    \A r \in Ids : saved.row[r] = "live" /\ r \notin dropped => r \in saved.vec

\* A migration that has finished has left the index in the width it was asked for,
\* on Postgres only if it re-embedded a record: recreate_vector_store is nested in
\* the transaction that open() began, and commits nothing.
MigratedWidth ==
  last.how \in {"partial", "full"} /\ (backend = "sqlite" \/ last.wrote) =>
    saved.dim = last.width
=============================================================================
