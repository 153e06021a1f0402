------------------------------- MODULE Stores -------------------------------
(***************************************************************************)
(* The state MNEMA's engine shares between its five verbs, at the level of *)
(* the storage ports (src/src/mnema/ports): the T1 record table with its   *)
(* vector index, the T0 object store with its cold archive and its audit   *)
(* log, the T2 vault, the in-memory staging queue and the in-memory buffer *)
(* of recent turns.                                                        *)
(*                                                                         *)
(* Every port operation is one step here, as the port's docstrings promise *)
(* and its callers take for granted: a coroutine that awaits one may be    *)
(* suspended before and after it but not inside.  Module SqliteT1 checks   *)
(* when the SQLite adapter keeps this promise.                             *)
(***************************************************************************)
EXTENDS Naturals, Sequences, FiniteSets

CONSTANTS
  Users,       \* the tenants: the hard isolation boundary of every verb
  Sessions,    \* session ids
  Turns,       \* the utterances given to remember(); also their t0_refs
  Records,     \* the record ids a run may use (uuid4 ids; this bounds them)
  Runs,        \* consolidation runs that may be in flight
  Calls,       \* forget() and evict() calls that may be in flight
  None,        \* Python's None
  Input,       \* what remember() is called with, for each turn
  BufferSize,  \* RecentSessionBuffer's k (20 in the engine)
  CanFail      \* whether an LLM, embedding or storage call may raise

(***************************************************************************)
(* A record type is "fact", "preference" (which stands for the three other *)
(* members of RecordType: the code only ever asks whether a type is FACT   *)
(* and whether two types are equal) or "invalid", a string that is not a   *)
(* member of RecordType.                                                   *)
(***************************************************************************)
ValidTypes == {"fact", "preference"}
RecordTypes == ValidTypes \cup {"invalid"}

(***************************************************************************)
(* remember(content, user_id, session_id, type_hint, durable): `safety`    *)
(* says whether the content holds a safety keyword, `durable` whether the  *)
(* classifier (or its flags) calls the turn a durable claim, `type` is the *)
(* type the hint resolves to.                                              *)
(***************************************************************************)
InputType == [user : Users, session : Sessions, safety : BOOLEAN, durable : BOOLEAN,
              type : ValidTypes]

ASSUME StoresAssumption ==
  /\ None \notin Users
  /\ None \notin Records
  /\ Runs \cap Calls = {}
  /\ Input \in [Turns -> InputType]
  /\ BufferSize \in Nat \ {0}
  /\ CanFail \in BOOLEAN

VARIABLES
  t1,        \* the T1 table: one row per record id
  vec,       \* the ids that have a vector in the index
  t0,        \* the T0 log: the turns in the order they were appended
  archived,  \* ids with a line in the cold store
  audited,   \* ids with a line in the eviction audit log
  vault,     \* ids whose bullet is in the T2 vault
  queue,     \* the staging queue: turns in order
  buffer,    \* per user and session, the last BufferSize turns
  pinned     \* history: ids that were inserted with protected = True

storeVars == <<t1, vec, t0, archived, audited, vault, queue, buffer, pinned>>

(***************************************************************************)
(* A row of t1_records.  `status` folds the existence of the row and its   *)
(* valid_until column; `said` is the turn its present content came from    *)
(* and `safety` whether that content holds a safety keyword; `high` is     *)
(* salience >= VAULT_SALIENCE_THRESHOLD; `over` and `pending` are the      *)
(* supersedes and contradiction_pending edges of graph_edges.              *)
(***************************************************************************)
Row == [status : {"absent", "live", "retired"},
        user : Users \cup {None}, turn : Turns \cup {None}, said : Turns \cup {None},
        type : RecordTypes, safety : BOOLEAN, prot : BOOLEAN, prov : BOOLEAN,
        high : BOOLEAN, by : Records \cup {None}, over : Records \cup {None},
        pending : SUBSET Turns]

NoRow == [status |-> "absent", user |-> None, turn |-> None, said |-> None,
          type |-> "preference", safety |-> FALSE, prot |-> FALSE, prov |-> FALSE,
          high |-> FALSE, by |-> None, over |-> None, pending |-> {}]

Exists(r) == t1[r].status # "absent"
Live(r) == t1[r].status = "live"
Unused == {r \in Records : ~ Exists(r)}

\* Reading a row builds a MemoryRecord from it, which raises on a record_type
\* that is not a member of the enum.
Readable(r) == t1[r].type \in ValidTypes

LiveOf(u) == {r \in Records : Live(r) /\ t1[r].user = u}
AllReadable(u) == \A r \in LiveOf(u) : Readable(r)

\* Mutations: the user filter, or the valid_until filter, dropped from the join.
SearchableByAnyone(u) == {r \in vec : Live(r)}
SearchableGhosts(u) == {r \in vec : t1[r].user = u}

\* The ids vector_search may return for a user: live rows with a vector.
Searchable(u) == LiveOf(u) \cap vec

-----------------------------------------------------------------------------
(***************************************************************************)
(* T1 operations.                                                          *)
(***************************************************************************)

\* Mutation: the vector is left to a later call.
UpsertRowOnly(r, row) ==
  /\ t1' = [t1 EXCEPT ![r] = row]
  /\ pinned' = IF row.prot THEN pinned \cup {r} ELSE pinned
  /\ UNCHANGED vec

\* upsert_with_vector: the row and its vector in one transaction.
UpsertWithVector(r, row) ==
  /\ t1' = [t1 EXCEPT ![r] = row]
  /\ vec' = vec \cup {r}
  /\ pinned' = IF row.prot THEN pinned \cup {r} ELSE pinned

\* update: a partial update of one row, whatever its state has become since
\* the caller read it.
Update(r, row) == t1' = [t1 EXCEPT ![r] = row]

\* Mutation: the old row is committed before the new one is written.
SupersedeHalf(old, new, row) ==
  /\ Exists(old) /\ t1[old].user = row.user
  /\ t1' = [t1 EXCEPT ![old] = [@ EXCEPT !.status = "retired", !.by = new]]
  /\ UNCHANGED <<vec, pinned>>

\* Mutation: superseded_by is given the new record, not its id.
SupersedeByRecord(old, new, row) ==
  /\ Exists(old) /\ t1[old].user = row.user
  /\ t1' = [t1 EXCEPT ![old] = [@ EXCEPT !.status = "retired", !.by = row],
                      ![new] = row]
  /\ vec' = vec \cup {new}
  /\ pinned' = IF row.prot THEN pinned \cup {new} ELSE pinned

\* supersede: retire the old row, insert the new one and its vector, in one
\* transaction.  The old vector stays in the index.
Supersede(old, new, row) ==
  /\ Exists(old) /\ t1[old].user = row.user
  /\ t1' = [t1 EXCEPT ![old] = [@ EXCEPT !.status = "retired", !.by = new],
                      ![new] = row]
  /\ vec' = vec \cup {new}
  /\ pinned' = IF row.prot THEN pinned \cup {new} ELSE pinned

(***************************************************************************)
(* T0 and T2 operations.  The log and the two side files are only ever     *)
(* appended to; a bullet that is in the vault is not written again.        *)
(***************************************************************************)
T0Append(t) == t0' = Append(t0, t)
T0Archive(r) == archived' = archived \cup {r}
T0AppendAudit(r) == audited' = audited \cup {r}
VaultPromote(some) == vault' = vault \cup some

\* Mutation: a full buffer takes no turn.
BufferPushIfRoom(t) ==
  LET key == <<Input[t].user, Input[t].session>>
  IN  buffer' = [buffer EXCEPT ![key] = IF Len(@) < BufferSize THEN Append(@, t) ELSE @]

(***************************************************************************)
(* RecentSessionBuffer.push: a deque with maxlen, so that the oldest turn  *)
(* falls out when it is full.                                              *)
(***************************************************************************)
BufferPush(t) ==
  LET key == <<Input[t].user, Input[t].session>>
      old == buffer[key]
  IN  buffer' = [buffer EXCEPT ![key] =
                   Append(IF Len(old) < BufferSize THEN old ELSE Tail(old), t)]

-----------------------------------------------------------------------------
EmptyBuffer == [key \in Users \X Sessions |-> <<>>]

StoresInit ==
  /\ t1 = [r \in Records |-> NoRow]
  /\ vec = {}
  /\ t0 = <<>>
  /\ archived = {}
  /\ audited = {}
  /\ vault = {}
  /\ queue = <<>>
  /\ buffer = EmptyBuffer
  /\ pinned = {}

StoresTypeOK ==
  /\ t1 \in [Records -> Row]
  /\ vec \subseteq Records
  /\ t0 \in Seq(Turns)
  /\ archived \subseteq Records
  /\ audited \subseteq Records
  /\ vault \subseteq Records
  /\ queue \in Seq(Turns)
  /\ buffer \in [Users \X Sessions -> Seq(Turns)]
  /\ pinned \subseteq Records
=============================================================================
