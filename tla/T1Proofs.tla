------------------------------ MODULE T1Proofs ------------------------------
(***************************************************************************)
(* The T1 adapters while their operations take turns, for any coroutines,  *)
(* ids and widths, any failing statements and any crash.                   *)
(*                                                                         *)
(* Part one is the SQLite adapter alone: the committed tables implement    *)
(* RecordTable, nothing is left uncommitted, and what is acknowledged is   *)
(* on disk.  Its invariant says, for each statement an operation may stand *)
(* at, what it has done to the committed tables so far; so a commit is one *)
(* step of RecordTable, and every other step leaves the committed tables   *)
(* alone.                                                                  *)
(*                                                                         *)
(* Part two is the life of a database on either adapter (Migration): what  *)
(* it takes, from process to process, for every live record to have its    *)
(* vector on disk, and for the index to have the width of the last         *)
(* migration.                                                              *)
(*                                                                         *)
(* Part three is about the same life: an operation is whole.  On SQLite    *)
(* the tables on disk implement RecordTable, on Postgres what the          *)
(* connection sees and what is on disk implement BufferedTable.            *)
(***************************************************************************)
EXTENDS Migration, TLAPS

-----------------------------------------------------------------------------
(***************************************************************************)
(* Part one: the SQLite adapter alone.                                     *)
(***************************************************************************)

\* The tables a put or supersede inserts its row into.
Retired(c) == IF client[c].old = None THEN saved
              ELSE WithRetired(saved, client[c].old, client[c].new)

\* The ids an insert was called with: a new one, and for supersede an old one.
InsertArgs(c) ==
  /\ client[c].new \in Ids \cap used /\ saved.row[client[c].new] = "absent"
  /\ client[c].old \in Ids \cup {None} /\ client[c].old # client[c].new

Matched(c) == client[c].old # None => saved.row[client[c].old] # "absent"

UpdateArgs(c) == client[c].new = None /\ client[c].old \in Ids

\* What the operation of c has done so far.
Progress(c) ==
  LET pc == client[c].pc IN
  /\ pc \in {"idle", "raised", "begin", "retire", "insert", "vector", "update", "unindex",
             "commit", "unmatched", "rollback"}
  /\ pc = "begin" => db = saved /\ InsertArgs(c)
  /\ pc = "retire" => db = saved /\ InsertArgs(c) /\ client[c].old # None
  /\ pc = "insert" => db = Retired(c) /\ InsertArgs(c) /\ Matched(c)
  /\ pc = "vector" => /\ db = WithRow(Retired(c), client[c].new)
                      /\ InsertArgs(c) /\ Matched(c)
  /\ pc \in {"update", "unindex"} => db = saved /\ UpdateArgs(c)
  /\ pc = "commit" =>
       \/ /\ db = WithVector(WithRow(Retired(c), client[c].new), client[c].new)
          /\ InsertArgs(c) /\ Matched(c)
       \/ UpdateArgs(c) /\ db = WithRetired(saved, client[c].old, None)
       \/ UpdateArgs(c) /\ db = WithoutVector(saved, client[c].old)

\* A transaction may be open at rest, with nothing in it, after an operation has raised.
AtRest ==
  (\A c \in Clients : Idle(c)) =>
    db = saved /\ (txn # "none" => \E c \in Clients : client[c].pc = "raised")

OneAtATime == \A c, d \in Clients : ~ Idle(c) /\ ~ Idle(d) => c = d

SInv ==
  /\ backend = "sqlite" /\ phase = "engine"
  /\ saved \in Table
  /\ used \subseteq Ids
  /\ \A r \in Ids : saved.row[r] # "absent" => r \in used
  /\ acked \subseteq Ids /\ settled \subseteq Ids
  /\ \A r \in acked \cup settled : saved.row[r] # "absent"
  /\ client \in [Clients -> ClientState]
  /\ \A c \in Clients : Progress(c)
  /\ OneAtATime
  /\ AtRest

-----------------------------------------------------------------------------
(***************************************************************************)
(* The operators of T1Connection on a table.                               *)
(***************************************************************************)
LEMMA RetiredFields ==
  ASSUME NEW table \in Table, NEW r \in Ids, NEW n \in Ids \cup {None}
  PROVE  /\ WithRetired(table, r, n) \in Table
         /\ WithRetired(table, r, n).vec = table.vec /\ WithRetired(table, r, n).dim = table.dim
         /\ table.row[r] = "absent" => WithRetired(table, r, n) = table
         /\ table.row[r] # "absent" =>
              /\ WithRetired(table, r, n).row = [table.row EXCEPT ![r] = "retired"]
              /\ n = None => WithRetired(table, r, n).by = table.by
              /\ n # None => WithRetired(table, r, n).by = [table.by EXCEPT ![r] = n]
<1>1. CASE table.row[r] = "absent"
  BY <1>1 DEF WithRetired
<1>2. CASE table.row[r] # "absent"
  <2> DEFINE b == IF n = None THEN table.by[r] ELSE n
             done == [table EXCEPT !.row[r] = "retired", !.by[r] = b]
  <2>1. WithRetired(table, r, n) = done
    <3> HIDE DEF done
    <3>1. WithRetired(table, r, n) = IF table.row[r] = "absent" THEN table ELSE done
      BY DEF WithRetired, done
    <3> QED BY <1>2, <3>1
  <2>2. /\ done.row = [table.row EXCEPT ![r] = "retired"]
        /\ done.by = [table.by EXCEPT ![r] = b]
        /\ done.vec = table.vec /\ done.dim = table.dim
    BY DEF Table
  <2>3. b \in Ids \cup {None}
    BY DEF Table
  <2>4. done.row \in [Ids -> {"absent", "live", "retired"}] /\ done.by \in [Ids -> Ids \cup {None}]
    BY <2>2, <2>3 DEF Table
  <2>5. n = None => done.by = table.by
    BY <2>2 DEF Table
  <2>6. done \in Table
    BY <2>3 DEF Table
  <2> HIDE DEF done
  <2>7. n # None => b = n
    OBVIOUS
  <2> QED BY <1>2, <2>1, <2>2, <2>5, <2>6, <2>7
<1> QED BY <1>1, <1>2

LEMMA RowFields ==
  ASSUME NEW table \in Table, NEW r \in Ids
  PROVE  /\ WithRow(table, r) \in Table
         /\ WithRow(table, r).row = [table.row EXCEPT ![r] = "live"]
         /\ WithRow(table, r).by = table.by /\ WithRow(table, r).vec = table.vec
         /\ WithRow(table, r).dim = table.dim
BY DEF WithRow, Table

LEMMA VectorFields ==
  ASSUME NEW table \in Table, NEW r \in Ids
  PROVE  /\ WithVector(table, r) \in Table
         /\ WithVector(table, r).row = table.row /\ WithVector(table, r).by = table.by
         /\ WithVector(table, r).vec = table.vec \cup {r} /\ WithVector(table, r).dim = table.dim
         /\ WithoutVector(table, r) \in Table
         /\ WithoutVector(table, r).row = table.row /\ WithoutVector(table, r).by = table.by
         /\ WithoutVector(table, r).vec = table.vec \ {r} /\ WithoutVector(table, r).dim = table.dim
BY DEF WithVector, WithoutVector, Table

-----------------------------------------------------------------------------
(***************************************************************************)
(* One operation of RecordTable, from the tables t to the tables u.        *)
(***************************************************************************)
Same(t, u) == u.row = t.row /\ u.by = t.by /\ u.vec = t.vec

OneOp(t, u) ==
  \/ u.row = t.row /\ u.by = t.by /\ u.vec = {}
  \/ \E r \in Ids :
       \/ /\ t.row[r] = "absent" /\ u.row = [t.row EXCEPT ![r] = "live"]
          /\ u.by = t.by /\ u.vec = t.vec \cup {r}
       \/ /\ t.row[r] # "absent" /\ u.row = [t.row EXCEPT ![r] = "retired"]
          /\ u.by = t.by /\ u.vec = t.vec
       \/ u.row = t.row /\ u.by = t.by /\ u.vec \in {t.vec \ {r}, t.vec \cup {r}}
  \/ \E old, new \in Ids :
       /\ t.row[old] # "absent" /\ t.row[new] = "absent"
       /\ u.row = [t.row EXCEPT ![old] = "retired", ![new] = "live"]
       /\ u.by = [t.by EXCEPT ![old] = new] /\ u.vec = t.vec \cup {new}

\* The ids of the rows that are there.
There(t) == {r \in Ids : t.row[r] # "absent"}

LEMMA InsertIsOneOp ==
  ASSUME NEW t \in Table, NEW new \in Ids, t.row[new] = "absent",
         NEW old \in Ids \cup {None}, old # new, old # None => t.row[old] # "absent",
         NEW u, u = WithVector(WithRow(IF old = None THEN t ELSE WithRetired(t, old, new), new), new)
  PROVE  u \in Table /\ OneOp(t, u) /\ There(u) = There(t) \cup {new}
<1>0. t.row \in [Ids -> {"absent", "live", "retired"}]
  BY DEF Table
<1>1. CASE old = None
  <2>1. u = WithVector(WithRow(t, new), new)
    BY <1>1
  <2> DEFINE w == WithRow(t, new)
  <2>2. w \in Table /\ w.row = [t.row EXCEPT ![new] = "live"] /\ w.by = t.by /\ w.vec = t.vec
    BY RowFields
  <2>3. u = WithVector(w, new)
    BY <2>1
  <2> HIDE DEF w
  <2>4. u \in Table /\ u.row = w.row /\ u.by = w.by /\ u.vec = w.vec \cup {new}
    BY <2>2, <2>3, VectorFields
  <2>5. u.row = [t.row EXCEPT ![new] = "live"] /\ u.by = t.by /\ u.vec = t.vec \cup {new}
    BY <2>2, <2>4
  <2>6. OneOp(t, u)
    BY <2>5 DEF OneOp
  <2>7. There(u) = There(t) \cup {new}
    BY <1>0, <2>5 DEF There
  <2> QED BY <2>4, <2>6, <2>7
<1>2. CASE old # None
  <2>0. old \in Ids /\ t.row[old] # "absent"
    BY <1>2
  <2>1. u = WithVector(WithRow(WithRetired(t, old, new), new), new)
    BY <1>2
  <2> DEFINE v == WithRetired(t, old, new)
  <2>2. /\ v \in Table /\ v.vec = t.vec
        /\ v.row = [t.row EXCEPT ![old] = "retired"]
        /\ v.by = [t.by EXCEPT ![old] = new]
    BY <2>0, RetiredFields, ConnectionAssumption
  <2>3. u = WithVector(WithRow(v, new), new)
    BY <2>1
  <2> HIDE DEF v
  <2> DEFINE w == WithRow(v, new)
  <2>4. w \in Table /\ w.row = [v.row EXCEPT ![new] = "live"] /\ w.by = v.by /\ w.vec = v.vec
    BY <2>2, RowFields
  <2>5. u = WithVector(w, new)
    BY <2>3
  <2> HIDE DEF w
  <2>6. u \in Table /\ u.row = w.row /\ u.by = w.by /\ u.vec = w.vec \cup {new}
    BY <2>4, <2>5, VectorFields
  <2>7. /\ u.row = [t.row EXCEPT ![old] = "retired", ![new] = "live"]
        /\ u.by = [t.by EXCEPT ![old] = new] /\ u.vec = t.vec \cup {new}
    BY <2>2, <2>4, <2>6
  <2>8. OneOp(t, u)
    BY <2>0, <2>7 DEF OneOp
  <2>9. There(u) = There(t) \cup {new}
    BY <1>0, <2>0, <2>7 DEF There
  <2> QED BY <2>6, <2>8, <2>9
<1> QED BY <1>1, <1>2

LEMMA RetireIsOneOp ==
  ASSUME NEW t \in Table, NEW old \in Ids, NEW u, u = WithRetired(t, old, None)
  PROVE  u \in Table /\ (Same(t, u) \/ OneOp(t, u)) /\ There(u) = There(t)
<1>0. t.row \in [Ids -> {"absent", "live", "retired"}] /\ None \in Ids \cup {None}
  BY DEF Table
<1>1. CASE t.row[old] = "absent"
  <2>1. u = t
    BY <1>1 DEF WithRetired
  <2> QED BY <2>1 DEF Same
<1>2. CASE t.row[old] # "absent"
  <2> DEFINE v == WithRetired(t, old, None)
  <2>0. v \in Table /\ v.vec = t.vec
        /\ v.row = [t.row EXCEPT ![old] = "retired"] /\ v.by = t.by
    <3> DEFINE done == [t EXCEPT !.row[old] = "retired", !.by[old] = t.by[old]]
    <3>1. v = done
      <4> HIDE DEF done
      <4>1. WithRetired(t, old, None) = IF t.row[old] = "absent" THEN t ELSE done
        BY DEF WithRetired, done
      <4> QED BY <1>2, <4>1
    <3>2. /\ done \in Table /\ done.vec = t.vec
          /\ done.row = [t.row EXCEPT ![old] = "retired"] /\ done.by = [t.by EXCEPT ![old] = t.by[old]]
      BY DEF Table
    <3> HIDE DEF v, done
    <3>3. t.by \in [Ids -> Ids \cup {None}]
      BY DEF Table
    <3> QED BY <3>1, <3>2, <3>3
  <2>4. u = v
    OBVIOUS
  <2> HIDE DEF v
  <2>5. OneOp(t, u)
    BY <1>2, <2>0, <2>4 DEF OneOp
  <2>6. There(u) = There(t)
    BY <1>0, <1>2, <2>0, <2>4 DEF There
  <2> QED BY <2>0, <2>4, <2>5, <2>6
<1> QED BY <1>1, <1>2

LEMMA VectorIsOneOp ==
  ASSUME NEW t \in Table, NEW r \in Ids
  PROVE  /\ OneOp(t, WithVector(t, r)) /\ There(WithVector(t, r)) = There(t)
         /\ OneOp(t, WithoutVector(t, r)) /\ There(WithoutVector(t, r)) = There(t)
         /\ OneOp(t, WithVector(WithoutVector(t, r), r))
         /\ There(WithVector(WithoutVector(t, r), r)) = There(t)
<1>1. /\ WithVector(t, r).row = t.row /\ WithVector(t, r).by = t.by
      /\ WithVector(t, r).vec = t.vec \cup {r}
  BY VectorFields
<1>2. /\ WithoutVector(t, r) \in Table
      /\ WithoutVector(t, r).row = t.row /\ WithoutVector(t, r).by = t.by
      /\ WithoutVector(t, r).vec = t.vec \ {r}
  BY VectorFields
<1> DEFINE v == WithoutVector(t, r)
<1>3. WithVector(v, r).row = v.row /\ WithVector(v, r).by = v.by /\ WithVector(v, r).vec = v.vec \cup {r}
  <2> HIDE DEF v
  <2>1. v \in Table
    BY <1>2 DEF v
  <2> QED BY <2>1, VectorFields
<1>4. /\ WithVector(v, r).row = t.row /\ WithVector(v, r).by = t.by
      /\ WithVector(v, r).vec = t.vec \cup {r}
  BY <1>2, <1>3
<1>5. OneOp(t, WithVector(t, r)) /\ There(WithVector(t, r)) = There(t)
  BY <1>1 DEF OneOp, There
<1>6. OneOp(t, v) /\ There(v) = There(t)
  BY <1>2 DEF OneOp, There
<1>7. OneOp(t, WithVector(v, r)) /\ There(WithVector(v, r)) = There(t)
  <2> HIDE DEF v
  <2> QED BY <1>4 DEF OneOp, There
<1> QED BY <1>5, <1>6, <1>7

\* In a table in which a superseded row has its successor, it has it after an operation.
Linked(t) == \A r \in Ids : t.by[r] # None => t.row[t.by[r]] # "absent"

LEMMA OneOpLinks ==
  ASSUME NEW t \in Table, NEW u, Same(t, u) \/ OneOp(t, u), Linked(t)
  PROVE  Linked(u)
<1>0. t.row \in [Ids -> {"absent", "live", "retired"}] /\ t.by \in [Ids -> Ids \cup {None}]
  BY DEF Table
<1>1. CASE u.row = t.row /\ u.by = t.by
  BY <1>1 DEF Linked
<1>2. ASSUME NEW r \in Ids, NEW s \in {"live", "retired"},
             u.row = [t.row EXCEPT ![r] = s], u.by = t.by
      PROVE  Linked(u)
  BY <1>0, <1>2 DEF Linked
<1>3. ASSUME NEW old \in Ids, NEW new \in Ids,
             u.row = [t.row EXCEPT ![old] = "retired", ![new] = "live"],
             u.by = [t.by EXCEPT ![old] = new]
      PROVE  Linked(u)
  <2>1. \A r \in Ids : t.row[r] # "absent" => u.row[r] # "absent"
    BY <1>0, <1>3
  <2>2. u.row[new] # "absent"
    BY <1>0, <1>3
  <2> QED BY <1>0, <1>3, <2>1, <2>2 DEF Linked
<1> QED BY <1>1, <1>2, <1>3 DEF Same, OneOp

LEMMA OneOpOnDisk ==
  ASSUME OneOp(OnDisk, OnDisk')
  PROVE  Committed!Next
BY DEF OneOp, Committed!Next, Committed!Clear, Committed!Put, Committed!Retire, Committed!Unindex,
       Committed!Reindex, Committed!Supersede

-----------------------------------------------------------------------------
(***************************************************************************)
(* Steps.                                                                  *)
(***************************************************************************)
TableStep == [Committed!Next]_(Committed!vars)

\* The coroutine that moves is the only one with an operation under way.
LEMMA StepKeeps ==
  ASSUME SInv, NEW c \in Clients, \A d \in Clients \ {c} : Idle(d), UNCHANGED process,
         saved' \in Table, acked' \subseteq Ids, settled' \subseteq Ids, used' \subseteq Ids,
         \A r \in Ids : saved'.row[r] # "absent" => r \in used',
         \A r \in acked' \cup settled' : saved'.row[r] # "absent",
         NEW s \in ClientState,
         client' = [client EXCEPT ![c] = s],
         Progress(c)', Idle(c)' => db' = saved' /\ (txn' = "none" \/ s.pc = "raised")
  PROVE  SInv'
<1>1. \A d \in Clients : d # c => client'[d] = client[d]
  BY DEF SInv
<1>2. client' \in [Clients -> ClientState]
  BY DEF SInv
<1>3. \A d \in Clients : d # c => Idle(d)'
  BY <1>1 DEF Idle
<1>4. \A d \in Clients : Progress(d)'
  BY <1>3 DEF Progress, Idle
<1>5. OneAtATime'
  BY <1>3 DEF OneAtATime
<1>6. AtRest'
  <2>1. client'[c] = s
    BY DEF SInv
  <2> QED BY <2>1 DEF AtRest
<1>7. backend' = "sqlite" /\ phase' = "engine"
  BY DEF SInv, process
<1> QED BY <1>2, <1>4, <1>5, <1>6, <1>7 DEF SInv

\* A step that commits nothing.
LEMMA OpenStepKeeps ==
  ASSUME SInv, NEW c \in Clients, \A d \in Clients \ {c} : Idle(d),
         UNCHANGED <<process, saved, acked, settled>>, used \subseteq used', used' \subseteq Ids,
         NEW s \in ClientState,
         client' = [client EXCEPT ![c] = s],
         Progress(c)', Idle(c)' => db' = saved' /\ (txn' = "none" \/ s.pc = "raised")
  PROVE  SInv' /\ TableStep
<1>1. SInv'
  <2>1. saved' \in Table /\ acked' \subseteq Ids /\ settled' \subseteq Ids
    BY DEF SInv
  <2>2. \A r \in Ids : saved'.row[r] # "absent" => r \in used'
    BY DEF SInv
  <2>3. \A r \in acked' \cup settled' : saved'.row[r] # "absent"
    BY DEF SInv
  <2> QED BY <2>1, <2>2, <2>3, StepKeeps
<1>2. TableStep
  BY DEF TableStep, Committed!vars, OnDisk, process
<1> QED BY <1>1, <1>2

\* An operation is called.
LEMMA CallKeeps ==
  ASSUME Serialized, SInv, NEW c \in Clients, CallInsert(c) \/ CallUpdate(c)
  PROVE  SInv' /\ TableStep
<1>1. ASSUME NEW pc \in {"begin", "update", "unindex"},
             NEW old \in Ids \cup {None}, NEW new \in Ids \cup {None}, Call(c, pc, old, new),
             \A d \in Clients : Idle(d), pc = "begin" => new \in Ids \ used /\ old # new,
             pc \in {"update", "unindex"} => new = None /\ old \in Ids
      PROVE  SInv' /\ TableStep
  <2> DEFINE s == [pc |-> pc, new |-> new, old |-> old]
  <2>1. /\ client' = [client EXCEPT ![c] = s]
        /\ UNCHANGED <<process, db, saved, txn, acked, settled>>
        /\ used' = used \cup ({new} \ {None})
    BY <1>1 DEF Call
  <2>2. s \in ClientState
    BY DEF ClientState, Statements
  <2>3. used \subseteq used' /\ used' \subseteq Ids
    BY <2>1 DEF SInv
  <2>4. db = saved
    BY <1>1 DEF SInv, AtRest
  <2>5. client'[c].pc = pc /\ client'[c].new = new /\ client'[c].old = old
    BY <2>1 DEF SInv
  <2>6. new \in Ids => (new \notin used => saved.row[new] = "absent")
    BY DEF SInv
  <2> HIDE DEF s
  <2>7. CASE pc = "begin"
    <3>1. new \in Ids \ used /\ old # new /\ new # None
      BY <1>1, <2>7, ConnectionAssumption
    <3>2. new \in Ids \cap used' /\ saved'.row[new] = "absent"
      BY <2>1, <2>6, <3>1
    <3>3. InsertArgs(c)'
      BY <2>5, <3>1, <3>2 DEF InsertArgs
    <3>4. Progress(c)' /\ ~ Idle(c)'
      BY <2>1, <2>4, <2>5, <2>7, <3>3 DEF Progress, Idle
    <3> QED BY <1>1, <2>1, <2>2, <2>3, <3>4, OpenStepKeeps
  <2>8. CASE pc # "begin"
    <3>1. UpdateArgs(c)'
      BY <1>1, <2>5, <2>8 DEF UpdateArgs
    <3>2. Progress(c)' /\ ~ Idle(c)'
      BY <2>1, <2>4, <2>5, <2>8, <3>1 DEF Progress, Idle
    <3> QED BY <1>1, <2>1, <2>2, <2>3, <3>2, OpenStepKeeps
  <2> QED BY <2>7, <2>8
<1>2. used \subseteq Ids /\ None \notin Ids
  BY ConnectionAssumption DEF SInv
<1>3. ASSUME NEW r \in Ids \ used, Call(c, "begin", None, r), \A d \in Clients : Idle(d)
      PROVE  SInv' /\ TableStep
  BY <1>1, <1>2, <1>3
<1>4. ASSUME NEW old \in Ids, NEW r \in Ids \ used, old # r, Call(c, "begin", old, r),
             \A d \in Clients : Idle(d)
      PROVE  SInv' /\ TableStep
  BY <1>1, <1>4
<1>5. ASSUME NEW r \in used, NEW pc \in {"update", "unindex"}, Call(c, pc, r, None),
             \A d \in Clients : Idle(d)
      PROVE  SInv' /\ TableStep
  BY <1>1, <1>2, <1>5
<1>6. CASE CallInsert(c)
  BY <1>3, <1>4, <1>6 DEF CallInsert, MayCall
<1>7. CASE CallUpdate(c)
  BY <1>5, <1>7 DEF CallUpdate, MayCall
<1> QED BY <1>6, <1>7

\* The other coroutines are idle, and a Goto changes the statement alone.
LEMMA Moving ==
  ASSUME SInv, NEW c \in Clients, ~ Idle(c), NEW pc, Goto(c, pc)
  PROVE  /\ \A d \in Clients \ {c} : Idle(d)
         /\ client[c] \in ClientState
         /\ client'[c].pc = pc /\ client'[c].new = client[c].new /\ client'[c].old = client[c].old
BY DEF SInv, OneAtATime, Goto, ClientState

\* An operation goes on to its next statement.
LEMMA GotoKeeps ==
  ASSUME SInv, NEW c \in Clients, ~ Idle(c), UNCHANGED <<process, saved, history>>,
         NEW pc \in {"retire", "insert", "vector", "commit", "unmatched", "rollback"},
         Goto(c, pc), Progress(c)'
  PROVE  SInv' /\ TableStep
<1> DEFINE s == [client[c] EXCEPT !.pc = pc]
<1>1. /\ \A d \in Clients \ {c} : Idle(d)
      /\ client[c] \in ClientState
      /\ client'[c].pc = pc
  BY Moving
<1>2. s \in ClientState
  BY <1>1 DEF ClientState, Statements
<1>3. client' = [client EXCEPT ![c] = s]
  BY DEF Goto
<1>4. ~ Idle(c)'
  BY <1>1 DEF Idle
<1>5. UNCHANGED <<process, saved, acked, settled>> /\ used \subseteq used' /\ used' \subseteq Ids
  BY DEF SInv, history
<1> HIDE DEF s
<1> QED BY <1>1, <1>2, <1>3, <1>4, <1>5, OpenStepKeeps

\* An operation raises and leaves nothing to be committed.
LEMMA RaiseKeeps ==
  ASSUME SInv, NEW c \in Clients, ~ Idle(c), UNCHANGED <<process, saved, history>>,
         Raise(c), db' = saved
  PROVE  SInv' /\ TableStep
<1>1. \A d \in Clients \ {c} : Idle(d)
  BY DEF SInv, OneAtATime
<1>2. Raised \in ClientState /\ Raised.pc = "raised"
  BY DEF Raised, Returned, ClientState, Statements
<1>3. client' = [client EXCEPT ![c] = Raised]
  BY DEF Raise
<1>4. client'[c].pc = "raised"
  BY <1>2, <1>3 DEF SInv
<1>5. Progress(c)'
  BY <1>4 DEF Progress
<1>6. /\ UNCHANGED <<process, saved, acked, settled>>
      /\ used \subseteq used' /\ used' \subseteq Ids /\ db' = saved'
  BY DEF SInv, history
<1> QED BY <1>1, <1>2, <1>3, <1>5, <1>6, OpenStepKeeps

LEMMA BeginKeeps ==
  ASSUME SInv, NEW c \in Clients, Begin(c)
  PROVE  SInv' /\ TableStep
<1> DEFINE next == IF client[c].old = None THEN "insert" ELSE "retire"
           pc == IF txn = "open" THEN "rollback" ELSE next
<1>1. client[c].pc = "begin" /\ Progress(c) /\ ~ Idle(c)
  BY DEF Begin, SInv, Idle
<1>2. /\ db' = db /\ saved' = saved /\ Goto(c, pc)
      /\ UNCHANGED <<process, saved, history>>
  BY DEF Begin
<1>3. pc \in {"retire", "insert", "rollback"}
  OBVIOUS
<1>4. db = saved /\ InsertArgs(c)
  BY <1>1 DEF Progress
<1>5. pc = "rollback" \/ pc = IF client[c].old = None THEN "insert" ELSE "retire"
  OBVIOUS
<1> HIDE DEF pc
<1>6. client'[c].pc = pc /\ client'[c].new = client[c].new /\ client'[c].old = client[c].old
  BY <1>1, <1>2, Moving
<1>7. Progress(c)'
  BY <1>2, <1>3, <1>4, <1>5, <1>6 DEF Progress, InsertArgs, Matched, history, Retired
<1> QED BY <1>1, <1>2, <1>3, <1>7, GotoKeeps

LEMMA RetireOldKeeps ==
  ASSUME SInv, NEW c \in Clients, RetireOld(c)
  PROVE  SInv' /\ TableStep
<1> DEFINE pc == IF db.row[client[c].old] = "absent" THEN "unmatched" ELSE "insert"
<1>1. client[c].pc = "retire" /\ Progress(c) /\ ~ Idle(c)
  BY DEF RetireOld, SInv, Idle
<1>2. /\ db' = WithRetired(db, client[c].old, client[c].new) /\ saved' = saved /\ Goto(c, pc)
      /\ UNCHANGED <<process, saved, history>>
  BY DEF RetireOld, Write
<1>3. db = saved /\ InsertArgs(c) /\ client[c].old # None
  BY <1>1 DEF Progress
<1>4. client'[c].pc = pc /\ client'[c].new = client[c].new /\ client'[c].old = client[c].old
  BY <1>1, <1>2, Moving
<1>5. CASE saved.row[client[c].old] = "absent"
  <2>1. pc = "unmatched"
    BY <1>3, <1>5
  <2> HIDE DEF pc
  <2>2. Progress(c)'
    BY <1>4, <2>1 DEF Progress
  <2> QED BY <1>1, <1>2, <2>1, <2>2, GotoKeeps
<1>6. CASE saved.row[client[c].old] # "absent"
  <2>1. pc = "insert"
    BY <1>3, <1>6
  <2> HIDE DEF pc
  <2>2. Progress(c)'
    BY <1>2, <1>3, <1>4, <1>6, <2>1 DEF Progress, InsertArgs, Matched, history, Retired
  <2> QED BY <1>1, <1>2, <2>1, <2>2, GotoKeeps
<1> QED BY <1>5, <1>6

LEMMA InsertNewKeeps ==
  ASSUME SInv, NEW c \in Clients, InsertNew(c)
  PROVE  SInv' /\ TableStep
<1>1. client[c].pc = "insert" /\ Progress(c) /\ ~ Idle(c)
  BY DEF InsertNew, SInv, Idle
<1>2. /\ db' = WithRow(db, client[c].new) /\ saved' = saved /\ Goto(c, "vector")
      /\ UNCHANGED <<process, saved, history>>
  BY DEF InsertNew, Write
<1>3. db = Retired(c) /\ InsertArgs(c) /\ Matched(c)
  BY <1>1 DEF Progress
<1>4. /\ client'[c].pc = "vector"
      /\ client'[c].new = client[c].new /\ client'[c].old = client[c].old
  BY <1>1, <1>2, Moving
<1>5. Retired(c)' = Retired(c)
  BY <1>2, <1>4 DEF Retired
<1>6. Progress(c)'
  BY <1>2, <1>3, <1>4, <1>5 DEF Progress, InsertArgs, Matched, history
<1> QED BY <1>1, <1>2, <1>6, GotoKeeps

LEMMA InsertVectorKeeps ==
  ASSUME SInv, NEW c \in Clients, InsertVector(c)
  PROVE  SInv' /\ TableStep
<1>1. client[c].pc = "vector" /\ Progress(c) /\ ~ Idle(c)
  BY DEF InsertVector, SInv, Idle
<1>2. UNCHANGED <<process, saved, history>>
  BY DEF InsertVector, Write, Throws
<1>3. CASE Fits
  <2>1. db' = WithVector(db, client[c].new) /\ Goto(c, "commit")
    BY <1>3 DEF InsertVector, Write
  <2>2. db = WithRow(Retired(c), client[c].new) /\ InsertArgs(c) /\ Matched(c)
    BY <1>1 DEF Progress
  <2>3. /\ client'[c].pc = "commit"
        /\ client'[c].new = client[c].new /\ client'[c].old = client[c].old
    BY <1>1, <2>1, Moving
  <2>4. Retired(c)' = Retired(c) /\ InsertArgs(c)' /\ Matched(c)'
    BY <1>2, <2>2, <2>3 DEF Retired, InsertArgs, Matched, history
  <2>5. Progress(c)'
    BY <2>1, <2>2, <2>3, <2>4 DEF Progress
  <2> QED BY <1>1, <1>2, <2>1, <2>5, GotoKeeps
<1>4. CASE ~ Fits
  <2>1. Goto(c, "rollback")
    BY <1>1, <1>4 DEF InsertVector, Throws, RolledBack
  <2>2. client'[c].pc = "rollback"
    BY <1>1, <2>1, Moving
  <2>3. Progress(c)'
    BY <2>2 DEF Progress
  <2> QED BY <1>1, <1>2, <2>1, <2>3, GotoKeeps
<1> QED BY <1>3, <1>4

LEMMA UpdateRowKeeps ==
  ASSUME SInv, NEW c \in Clients, UpdateRow(c)
  PROVE  SInv' /\ TableStep
<1>1. client[c].pc = "update" /\ Progress(c) /\ ~ Idle(c)
  BY DEF UpdateRow, SInv, Idle
<1>2. /\ db' = WithRetired(db, client[c].old, None) /\ Goto(c, "commit")
      /\ UNCHANGED <<process, saved, history>>
  BY DEF UpdateRow, Write
<1>3. db = saved /\ UpdateArgs(c)
  BY <1>1 DEF Progress
<1>4. /\ client'[c].pc = "commit"
      /\ client'[c].new = client[c].new /\ client'[c].old = client[c].old
  BY <1>1, <1>2, Moving
<1>5. Progress(c)'
  BY <1>2, <1>3, <1>4 DEF Progress, UpdateArgs
<1> QED BY <1>1, <1>2, <1>5, GotoKeeps

LEMMA DeleteVectorKeeps ==
  ASSUME SInv, NEW c \in Clients, DeleteVector(c)
  PROVE  SInv' /\ TableStep
<1>1. client[c].pc = "unindex" /\ Progress(c) /\ ~ Idle(c)
  BY DEF DeleteVector, SInv, Progress, Idle
<1>2. /\ db' = WithoutVector(db, client[c].old) /\ Goto(c, "commit")
      /\ UNCHANGED <<process, saved, history>>
  BY <1>1 DEF DeleteVector, Write
<1>3. db = saved /\ UpdateArgs(c)
  BY <1>1 DEF Progress
<1>4. /\ client'[c].pc = "commit"
      /\ client'[c].new = client[c].new /\ client'[c].old = client[c].old
  BY <1>1, <1>2, Moving
<1>5. Progress(c)'
  BY <1>2, <1>3, <1>4 DEF Progress, UpdateArgs
<1> QED BY <1>1, <1>2, <1>5, GotoKeeps

LEMMA RollbackKeeps ==
  ASSUME SInv, NEW c \in Clients, Rollback(c)
  PROVE  SInv' /\ TableStep
<1>1. ~ Idle(c) /\ UNCHANGED <<process, saved, history>> /\ db' = saved /\ txn' = "none"
  BY DEF Rollback, Idle
<1>2. CASE client[c].pc = "unmatched"
  <2>1. Goto(c, "rollback")
    BY <1>2 DEF Rollback
  <2>2. client'[c].pc = "rollback"
    BY <1>1, <2>1, Moving
  <2>3. Progress(c)'
    BY <2>2 DEF Progress
  <2> QED BY <1>1, <2>1, <2>3, GotoKeeps
<1>3. CASE client[c].pc # "unmatched"
  <2>1. Raise(c)
    BY <1>3 DEF Rollback
  <2> QED BY <1>1, <2>1, RaiseKeeps
<1> QED BY <1>2, <1>3

\* A statement that raises: the operations that insert roll back; of the others only
\* the first statement may, before anything is written.
LEMMA FailureKeeps ==
  ASSUME SInv, NEW c \in Clients, StatementFails(c)
  PROVE  SInv' /\ TableStep
<1>1. /\ client[c].pc \in Statements /\ Progress(c)
      /\ Throws(c) /\ UNCHANGED <<process, db, saved, history>>
  BY ConnectionAssumption DEF StatementFails, Throws, SInv
<1>2. ~ Idle(c)
  BY <1>1 DEF Idle, Statements
<1>3. CASE client[c].pc \in RolledBack
  <2>1. Goto(c, "rollback")
    BY <1>1, <1>3 DEF Throws
  <2>2. client'[c].pc = "rollback"
    BY <1>2, <2>1, Moving
  <2>3. Progress(c)'
    BY <2>2 DEF Progress
  <2> QED BY <1>1, <1>2, <2>1, <2>3, GotoKeeps
<1>4. CASE client[c].pc \notin RolledBack
  <2>1. Raise(c)
    BY <1>1, <1>4 DEF Throws
  <2>2. client[c].pc \in {"update", "unindex"}
    BY <1>1, <1>4 DEF Progress, Statements, RolledBack
  <2>3. db = saved
    BY <1>1, <2>2 DEF Progress
  <2> QED BY <1>1, <1>2, <2>1, <2>3, RaiseKeeps
<1> QED BY <1>3, <1>4

\* What a commit writes is one operation of RecordTable.
LEMMA CommitWrites ==
  ASSUME SInv, NEW c \in Clients, client[c].pc = "commit", saved' = db, UNCHANGED process
  PROVE  /\ saved' \in Table /\ TableStep
         /\ client[c].new \in (Ids \cap used) \cup {None}
         /\ There(saved') = There(saved) \cup ({client[c].new} \ {None})
<1> DEFINE new == client[c].new
           old == client[c].old
<1>1. Progress(c) /\ saved \in Table /\ None \notin Ids
  BY ConnectionAssumption DEF SInv
<1>2. /\ db \in Table /\ (Same(saved, db) \/ OneOp(saved, db))
      /\ new \in (Ids \cap used) \cup {None} /\ There(db) = There(saved) \cup ({new} \ {None})
  <2>1. CASE InsertArgs(c) /\ Matched(c) /\ db = WithVector(WithRow(Retired(c), new), new)
    <3>1. /\ new \in Ids \cap used /\ saved.row[new] = "absent"
          /\ old \in Ids \cup {None} /\ old # new /\ (old # None => saved.row[old] # "absent")
          /\ db = WithVector(WithRow(IF old = None THEN saved
                                     ELSE WithRetired(saved, old, new), new), new)
      BY <2>1 DEF InsertArgs, Matched, Retired
    <3> HIDE DEF new, old
    <3>2. db \in Table /\ OneOp(saved, db) /\ There(db) = There(saved) \cup {new}
      BY <1>1, <3>1, InsertIsOneOp
    <3> QED BY <1>1, <3>1, <3>2
  <2>2. CASE UpdateArgs(c) /\ db = WithRetired(saved, old, None)
    <3>1. new = None /\ old \in Ids
      BY <2>2 DEF UpdateArgs
    <3> HIDE DEF new, old
    <3>2. db \in Table /\ (Same(saved, db) \/ OneOp(saved, db)) /\ There(db) = There(saved)
      BY <1>1, <2>2, <3>1, RetireIsOneOp
    <3> QED BY <3>1, <3>2
  <2>3. CASE UpdateArgs(c) /\ db = WithoutVector(saved, old)
    <3>1. new = None /\ old \in Ids
      BY <2>3 DEF UpdateArgs
    <3> HIDE DEF new, old
    <3>2. db \in Table /\ OneOp(saved, db) /\ There(db) = There(saved)
      BY <1>1, <2>3, <3>1, VectorFields, VectorIsOneOp
    <3> QED BY <3>1, <3>2
  <2> QED BY <1>1, <2>1, <2>2, <2>3 DEF Progress
<1>3. OnDisk = saved /\ OnDisk' = db
  BY DEF SInv, OnDisk, process
<1>4. TableStep
  <2>1. CASE Same(OnDisk, OnDisk')
    BY <2>1 DEF Same, TableStep, Committed!vars
  <2>2. CASE OneOp(OnDisk, OnDisk')
    BY <2>2, OneOpOnDisk DEF TableStep
  <2> QED BY <1>2, <1>3, <2>1, <2>2
<1> QED BY <1>2, <1>4

LEMMA CommitKeeps ==
  ASSUME SInv, NEW c \in Clients, Commit(c)
  PROVE  SInv' /\ TableStep
<1>1. /\ client[c].pc = "commit" /\ ~ Idle(c)
      /\ saved' = db /\ db' = db /\ txn' = "none" /\ used' = used
      /\ acked' = acked \cup ({client[c].new} \ {None}) /\ settled' = acked'
      /\ client' = [client EXCEPT ![c] = Returned] /\ UNCHANGED process
  BY DEF Commit, Idle, Return
<1>2. \A d \in Clients \ {c} : Idle(d)
  BY <1>1 DEF SInv, OneAtATime
<1>3. /\ saved' \in Table /\ TableStep
      /\ client[c].new \in (Ids \cap used) \cup {None}
      /\ \A r \in Ids : saved'.row[r] # "absent" <=>
                          saved.row[r] # "absent" \/ r = client[c].new
  <2>1. /\ saved' \in Table /\ TableStep
        /\ client[c].new \in (Ids \cap used) \cup {None}
        /\ There(saved') = There(saved) \cup ({client[c].new} \ {None})
    BY <1>1, CommitWrites
  <2>2. \A r \in Ids : saved'.row[r] # "absent" <=> r \in There(saved')
    BY DEF There
  <2>3. \A r \in Ids : saved.row[r] # "absent" <=> r \in There(saved)
    BY DEF There
  <2> QED BY <2>1, <2>2, <2>3, ConnectionAssumption
<1>4. /\ used' \subseteq Ids /\ acked' \subseteq Ids /\ settled' \subseteq Ids
      /\ \A r \in acked' \cup settled' : saved'.row[r] # "absent"
      /\ \A r \in Ids : saved'.row[r] # "absent" => r \in used'
  <2> DEFINE new == client[c].new
  <2>1. /\ used \subseteq Ids /\ acked \subseteq Ids
        /\ \A r \in acked : saved.row[r] # "absent"
        /\ \A r \in Ids : saved.row[r] # "absent" => r \in used
    BY DEF SInv
  <2>2. /\ used' = used /\ acked' = acked \cup ({new} \ {None}) /\ settled' = acked'
        /\ new \in (Ids \cap used) \cup {None}
        /\ \A r \in Ids : saved'.row[r] # "absent" <=> saved.row[r] # "absent" \/ r = new
    BY <1>1, <1>3
  <2> HIDE DEF new
  <2>3. None \notin Ids
    BY ConnectionAssumption
  <2>4. used' \subseteq Ids /\ acked' \subseteq Ids /\ settled' \subseteq Ids
    BY <2>1, <2>2
  <2>5. ASSUME NEW r \in acked' \cup settled' PROVE saved'.row[r] # "absent"
    BY <2>1, <2>2, <2>4
  <2>6. ASSUME NEW r \in Ids, saved'.row[r] # "absent" PROVE r \in used'
    BY <2>1, <2>2, <2>3, <2>6
  <2> QED BY <2>4, <2>5, <2>6
<1>5. Returned \in ClientState /\ Returned.pc = "idle"
  BY DEF Returned, ClientState
<1>6. client'[c].pc = "idle"
  BY <1>1, <1>5 DEF SInv
<1>7. Progress(c)'
  BY <1>6 DEF Progress
<1> QED BY <1>1, <1>2, <1>3, <1>4, <1>5, <1>7, StepKeeps

LEMMA CrashKeeps ==
  ASSUME SInv, SqliteCrash
  PROVE  SInv' /\ TableStep
<1>1. /\ UNCHANGED <<process, saved, used, settled>> /\ acked' = settled
      /\ client' = [c \in Clients |-> Returned] /\ db' = saved /\ txn' = "none"
  BY DEF SqliteCrash, Drop
<1>2. Returned \in ClientState /\ Returned.pc = "idle"
  BY DEF Returned, ClientState
<1>3. client' \in [Clients -> ClientState] /\ \A c \in Clients : client'[c].pc = "idle"
  BY <1>1, <1>2
<1>4. (\A c \in Clients : Progress(c))' /\ OneAtATime' /\ AtRest'
  BY <1>1, <1>3 DEF Progress, OneAtATime, AtRest, Idle
<1>5. SInv'
  BY <1>1, <1>3, <1>4 DEF SInv, process
<1>6. TableStep
  BY <1>1 DEF TableStep, Committed!vars, OnDisk, process
<1> QED BY <1>5, <1>6

-----------------------------------------------------------------------------
(***************************************************************************)
(* Theorems.                                                               *)
(***************************************************************************)
LEMMA SInvInitially ==
  ASSUME SqliteInit
  PROVE  SInv /\ Committed!Init
<1>1. /\ saved = WithIndex(EmptyTable, width) /\ db = saved /\ width \in Dims
      /\ backend = "sqlite" /\ phase = "engine" /\ txn = "none"
      /\ client = [c \in Clients |-> Returned]
      /\ used = {} /\ acked = {} /\ settled = {}
  BY DEF SqliteInit, ConnectionInit
<1>2. /\ saved \in Table /\ saved.row = [r \in Ids |-> "absent"]
      /\ saved.by = [r \in Ids |-> None] /\ saved.vec = {}
  BY <1>1 DEF WithIndex, EmptyTable, Table
<1>3. Returned \in ClientState /\ Returned.pc = "idle"
  BY DEF Returned, ClientState
<1>4. client \in [Clients -> ClientState] /\ \A c \in Clients : client[c].pc = "idle"
  BY <1>1, <1>3
<1>5. (\A c \in Clients : Progress(c)) /\ OneAtATime /\ AtRest
  BY <1>1, <1>4 DEF Progress, OneAtATime, AtRest, Idle
<1>6. Committed!Init
  BY <1>1, <1>2 DEF Committed!Init, OnDisk
<1> QED BY <1>1, <1>2, <1>4, <1>5, <1>6 DEF SInv

LEMMA SInvKept ==
  ASSUME Serialized, SInv, [SqliteNext]_sqliteVars
  PROVE  SInv' /\ TableStep
<1>1. ASSUME NEW c \in Clients, SqliteOp(c)
      PROVE  SInv' /\ TableStep
  <2>1. Progress(c)
    BY DEF SInv
  <2>2. ~ ReinsertVector(c) /\ ~ DropIndex(c) /\ ~ CreateIndex(c)
    BY <2>1 DEF Progress, ReinsertVector, DropIndex, CreateIndex
  <2> QED BY <1>1, <2>2, BeginKeeps, RetireOldKeeps, InsertNewKeeps, InsertVectorKeeps,
             UpdateRowKeeps, DeleteVectorKeeps, CommitKeeps, RollbackKeeps, FailureKeeps
          DEF SqliteOp
<1>2. CASE UNCHANGED sqliteVars
  <2>1. SInv'
    BY <1>2 DEF SInv, sqliteVars, connectionVars, process, history, Progress, OneAtATime,
                AtRest, InsertArgs, UpdateArgs, Matched, Retired, Idle
  <2>2. TableStep
    BY <1>2 DEF sqliteVars, connectionVars, process, TableStep, Committed!vars, OnDisk
  <2> QED BY <2>1, <2>2
<1> QED BY <1>1, <1>2, CallKeeps, CrashKeeps DEF SqliteNext

\* While operations do not overlap, what is on disk changes by whole operations of
\* the record store only: a statement that fails, and a crash between two statements,
\* leave nothing of an operation behind (CR-04, T-02-06).
THEOREM SqliteImplementsTable ==
  ASSUME Serialized
  PROVE  SqliteSpec => TableSpec
<1>1. SqliteInit => SInv /\ Committed!Init
  BY SInvInitially
<1>2. SInv /\ [SqliteNext]_sqliteVars => SInv' /\ [Committed!Next]_(Committed!vars)
  BY SInvKept DEF TableStep
<1> QED BY <1>1, <1>2, PTL DEF SqliteSpec, TableSpec, Committed!Spec

\* While operations do not overlap, an operation that has returned or raised has left
\* no write uncommitted, and a transaction open only if it raised.
THEOREM SqliteNothingPending ==
  ASSUME Serialized
  PROVE  SqliteSpec => []NothingPending
<1>1. SqliteInit => SInv
  BY SInvInitially
<1>2. SInv /\ [SqliteNext]_sqliteVars => SInv'
  BY SInvKept
<1>3. SInv => NothingPending
  BY DEF SInv, AtRest, NothingPending
<1> QED BY <1>1, <1>2, <1>3, PTL DEF SqliteSpec

\* While operations do not overlap, a record whose insert has returned is on disk:
\* no crash takes it back.
THEOREM SqliteAckedIsDurable ==
  ASSUME Serialized
  PROVE  SqliteSpec => []AckedIsDurable
<1>1. SqliteInit => SInv
  BY SInvInitially
<1>2. SInv /\ [SqliteNext]_sqliteVars => SInv'
  BY SInvKept
<1>3. SInv => AckedIsDurable
  BY DEF SInv, AckedIsDurable
<1> QED BY <1>1, <1>2, <1>3, PTL DEF SqliteSpec

\* While operations take turns no crash leaves a row superseded by one that is not there
\* (T-02-06), as it may be when two coroutines share the connection.
THEOREM SqliteSupersedesWhole ==
  ASSUME Serialized
  PROVE  SqliteSpec => []SupersedeAtomic
<1>1. SqliteInit => SInv /\ Linked(saved)
  <2> SUFFICES ASSUME SqliteInit PROVE SInv /\ Linked(saved)
    OBVIOUS
  <2>1. saved = WithIndex(EmptyTable, width)
    BY DEF SqliteInit
  <2>2. saved.by = [r \in Ids |-> None]
    BY <2>1 DEF WithIndex, EmptyTable
  <2> QED BY <2>2, SInvInitially DEF Linked
<1>2. SInv /\ Linked(saved) /\ [SqliteNext]_sqliteVars => SInv' /\ Linked(saved)'
  <2> SUFFICES ASSUME SInv, Linked(saved), [SqliteNext]_sqliteVars
               PROVE  SInv' /\ Linked(saved)'
    OBVIOUS
  <2>1. SInv' /\ TableStep
    BY SInvKept
  <2>2. OnDisk = saved /\ OnDisk' = saved' /\ saved \in Table
    BY <2>1 DEF SInv, OnDisk
  <2>3. Same(OnDisk, OnDisk') \/ OneOp(OnDisk, OnDisk')
    BY <2>1 DEF TableStep, Same, OneOp, Committed!vars, Committed!Next, Committed!Clear,
                Committed!Put, Committed!Retire, Committed!Unindex, Committed!Reindex,
                Committed!Supersede
  <2>4. Linked(saved')
    BY <2>2, <2>3, OneOpLinks
  <2> QED BY <2>1, <2>4 DEF Linked
<1>3. Linked(saved) => SupersedeAtomic
  BY DEF Linked, SupersedeAtomic
<1> QED BY <1>1, <1>2, <1>3, PTL DEF SqliteSpec

-----------------------------------------------------------------------------
(***************************************************************************)
(* Part two: the life of a database, and its index.                        *)
(***************************************************************************)

\* What the next statement of an operation needs of its arguments.
Shape(k) ==
  /\ k.pc \in {"retire", "insert", "vector"} => k.new \in Ids
  /\ k.pc \in {"retire", "update", "unindex", "delete", "reinsert"} => k.old \in Ids
  /\ k.pc = "begin" /\ backend = "sqlite" => k.new \in Ids

MTypeInv == TypeOK /\ \A c \in Clients : Shape(client[c])

LEMMA IndexFields ==
  ASSUME NEW table \in Table, NEW d \in Dims
  PROVE  /\ WithoutIndex(table) \in Table
         /\ WithoutIndex(table).row = table.row /\ WithoutIndex(table).vec = {}
         /\ WithIndex(table, d) \in Table /\ WithIndex(table, d).by = table.by
         /\ WithIndex(table, d).row = table.row /\ WithIndex(table, d).vec = table.vec
         /\ WithIndex(table, d).dim = d
BY DEF WithoutIndex, WithIndex, Table

\* A step of one coroutine.
LEMMA MoveTypes ==
  ASSUME MTypeInv, NEW c \in Clients, UNCHANGED <<process, todo, last>>,
         db' \in Table, saved' \in Table, txn' \in {"none", "open", "failed"},
         used' \subseteq Ids, acked' \subseteq Ids, settled' \subseteq Ids, dropped' \subseteq Ids,
         block' \in BlockType,
         NEW s \in ClientState, client' = [client EXCEPT ![c] = s], Shape(s)
  PROVE  MTypeInv'
<1>0. TypeOK /\ ConnectionTypeOK
  BY DEF MTypeInv, TypeOK
<1>1. client' \in [Clients -> ClientState] /\ client'[c] = s
      /\ \A d \in Clients \ {c} : client'[d] = client[d]
  BY <1>0 DEF ConnectionTypeOK
<1>2. UNCHANGED <<backend, phase, width>>
  BY DEF process
<1>3. \A d \in Clients : Shape(client[d])'
  BY <1>1, <1>2 DEF MTypeInv, Shape
<1>4. TypeOK'
  BY <1>0, <1>1, <1>2 DEF TypeOK, ConnectionTypeOK
<1> QED BY <1>3, <1>4 DEF MTypeInv

\* A statement runs and its operation goes on to another one.
Runs(c, table, next) ==
  /\ db' = table
  /\ Goto(c, next)
  /\ UNCHANGED <<process, history, block, todo, last>>
  /\ saved' \in {saved, table}
  /\ txn' \in {"none", "open", "failed"}

PCs == Statements \cup {"idle", "raised", "unmatched", "commit", "release", "rollback"}

LEMMA GotoRecord ==
  ASSUME MTypeInv, NEW c \in Clients, NEW pc \in PCs, Goto(c, pc)
  PROVE  \E s \in ClientState :
           /\ client' = [client EXCEPT ![c] = s]
           /\ s.pc = pc /\ s.new = client[c].new /\ s.old = client[c].old
<1> DEFINE s == [client[c] EXCEPT !.pc = pc]
<1>1. client[c] \in ClientState
  BY DEF MTypeInv, TypeOK, ConnectionTypeOK
<1>2. s \in ClientState /\ s.pc = pc /\ s.new = client[c].new /\ s.old = client[c].old
  BY <1>1 DEF ClientState, PCs
<1>3. client' = [client EXCEPT ![c] = s]
  BY DEF Goto
<1> HIDE DEF s
<1> QED BY <1>2, <1>3

LEMMA RunTypes ==
  ASSUME MTypeInv, NEW c \in Clients, NEW table \in Table, NEW next \in PCs, Runs(c, table, next),
         Shape([client[c] EXCEPT !.pc = next])
  PROVE  MTypeInv'
<1>1. client[c] \in ClientState /\ ConnectionTypeOK /\ block \in BlockType
  BY DEF MTypeInv, TypeOK, ConnectionTypeOK
<1> DEFINE s == [client[c] EXCEPT !.pc = next]
<1>2. s \in ClientState
  BY <1>1 DEF ClientState, PCs
<1>3. client' = [client EXCEPT ![c] = s]
  BY DEF Runs, Goto
<1>4. /\ UNCHANGED <<process, todo, last>> /\ db' \in Table /\ saved' \in Table
      /\ txn' \in {"none", "open", "failed"} /\ block' \in BlockType
      /\ used' \subseteq Ids /\ acked' \subseteq Ids /\ settled' \subseteq Ids /\ dropped' \subseteq Ids
  BY <1>1 DEF Runs, history, ConnectionTypeOK
<1> HIDE DEF s
<1>5. Shape(s)
  BY DEF s
<1> QED BY <1>2, <1>3, <1>4, <1>5, MoveTypes

LEMMA MTypeFacts ==
  ASSUME MTypeInv, NEW c \in Clients
  PROVE  /\ client[c] \in ClientState /\ Shape(client[c])
         /\ client[c].new \in Ids \cup {None} /\ client[c].old \in Ids \cup {None}
         /\ db \in Table /\ saved \in Table /\ block \in BlockType /\ block.mark \in Table
         /\ txn \in {"none", "open", "failed"} /\ width \in Dims
         /\ backend \in {"sqlite", "postgres"}
         /\ used \subseteq Ids /\ acked \subseteq Ids /\ settled \subseteq Ids
         /\ dropped \subseteq Ids
BY DEF MTypeInv, TypeOK, ConnectionTypeOK, ClientState, BlockType

\* The coroutine's arguments stay while it moves on.
LEMMA ShapeMoved ==
  ASSUME MTypeInv, NEW c \in Clients, NEW next,
         next \in {"insert", "vector"} => client[c].new \in Ids,
         next = "retire" => client[c].new \in Ids /\ client[c].old \in Ids,
         next = "reinsert" => client[c].old \in Ids,
         next \notin {"begin", "update", "unindex", "delete"}
  PROVE  Shape([client[c] EXCEPT !.pc = next])
<1>1. client[c] \in ClientState
  BY MTypeFacts
<1> DEFINE s == [client[c] EXCEPT !.pc = next]
<1>2. s.pc = next /\ s.new = client[c].new /\ s.old = client[c].old
  BY <1>1 DEF ClientState
<1> HIDE DEF s
<1> QED BY <1>2 DEF Shape, s

\* Each statement that runs, and what it makes of the tables.
Statement(c, table, next) ==
  LET pc == client[c].pc
      new == client[c].new
      old == client[c].old IN
  \/ /\ pc = "begin" /\ backend = "sqlite" /\ table = db
     /\ next \in {"insert", "retire", "rollback"}
     /\ (next = "retire" => old # None) /\ (next = "insert" => old = None)
  \/ pc = "retire" /\ table = WithRetired(db, old, new) /\ next \in {"insert", "unmatched", "rollback"}
     /\ (next = "unmatched" => backend = "sqlite") /\ (next = "rollback" => backend = "postgres")
     /\ (next = "insert" => db.row[old] # "absent")
  \/ pc = "insert" /\ table = WithRow(db, new) /\ next = "vector"
  \/ pc = "vector" /\ table = WithVector(db, new) /\ next \in {"commit", "release"}
  \/ pc = "update" /\ table = WithRetired(db, old, None) /\ next = "commit"
  \/ pc = "unindex" /\ table = WithoutVector(db, old) /\ next = "commit"
  \/ pc = "delete" /\ table = WithoutVector(db, old) /\ next = "reinsert"
  \/ pc = "reinsert" /\ table = WithVector(db, old) /\ next = "commit"
  \/ pc = "drop" /\ table = WithoutIndex(db) /\ next = "create"
  \/ pc = "create" /\ table = WithIndex(db, width) /\ next \in {"commit", "release"}
  \/ pc = "select" /\ table = db /\ next = "idle"
  \/ pc = "knn" /\ table = db /\ next = "commit"

\* The statements inside a conn.transaction() block.
BlockPcs == {"retire", "insert", "vector", "drop", "create", "release", "rollback"}

\* The step of a statement is one of these, or one that ends an operation or a block.
Ran(c) == \E table, next :
  /\ Statement(c, table, next) /\ Runs(c, table, next)
  /\ IF client[c].pc \in {"drop", "create"} /\ backend = "sqlite"
     THEN txn' = txn /\ saved' = IF txn = "none" THEN table ELSE saved
     ELSE txn' = "open" /\ saved' = saved
  /\ (next = "release" => backend = "postgres")
  /\ (next = "commit" /\ client[c].pc \in BlockPcs => backend = "sqlite")

\* A statement that raised.
Threw(c) ==
  /\ UNCHANGED <<process, db, saved, history, block, todo, last>>
  /\ txn' = IF backend # "sqlite" THEN "failed"
            ELSE IF client[c].pc \in Writing THEN "open" ELSE txn
  /\ client[c].pc \in Statements
  /\ \/ /\ Goto(c, "rollback")
        /\ backend = "postgres" => block.inside
     \/ /\ Raise(c)
        /\ IF backend = "sqlite" THEN client[c].pc \notin RolledBack ELSE ~ block.inside

LEMMA SqliteRuns ==
  ASSUME MTypeInv, NEW c \in Clients, backend = "sqlite", SqliteOp(c), UNCHANGED <<block, todo, last>>
  PROVE  Ran(c) \/ Threw(c) \/ Commit(c) \/ Rollback(c)
<1>0. txn \in {"none", "open", "failed"} /\ Shape(client[c]) /\ client[c].new \in Ids \cup {None}
  BY MTypeFacts
<1> DEFINE pc == client[c].pc
<1> USE DEF Ran, BlockPcs
<1>1. CASE Begin(c)
  <2> DEFINE next == IF txn = "open" THEN "rollback" ELSE IF client[c].old = None THEN "insert" ELSE "retire"
  <2>1. /\ Runs(c, db, next) /\ Statement(c, db, next) /\ saved' = saved /\ txn' = "open"
        /\ client[c].pc = "begin"
    BY <1>1 DEF Begin, Runs, Statement
  <2>2. next # "release" /\ next # "commit"
    OBVIOUS
  <2> HIDE DEF next
  <2> QED BY <2>1, <2>2
<1>2. CASE RetireOld(c)
  BY <1>2 DEF RetireOld, Write, Runs, Statement
<1>3. CASE InsertNew(c)
  BY <1>3 DEF InsertNew, Write, Runs, Statement
<1>4. CASE InsertVector(c)
  <2>1. CASE Fits
    BY <1>4, <2>1 DEF InsertVector, Write, Runs, Statement
  <2>2. CASE ~ Fits
    BY <1>0, <1>4, <2>2 DEF InsertVector, Throws, Threw, RolledBack, Statements
  <2> QED BY <2>1, <2>2
<1>5. CASE UpdateRow(c)
  BY <1>5 DEF UpdateRow, Write, Runs, Statement
<1>6. CASE DeleteVector(c)
  BY <1>6 DEF DeleteVector, Write, Runs, Statement
<1>7. CASE ReinsertVector(c)
  <2>1. CASE Fits /\ client[c].old \notin db.vec
    BY <1>7, <2>1 DEF ReinsertVector, Write, Runs, Statement
  <2>2. CASE ~ (Fits /\ client[c].old \notin db.vec)
    BY <1>0, <1>7, <2>2 DEF ReinsertVector, Throws, Threw, RolledBack, Statements
  <2> QED BY <2>1, <2>2
<1>8. CASE DropIndex(c)
  BY <1>0, <1>8 DEF DropIndex, Define, Runs, Statement
<1>9. CASE CreateIndex(c)
  BY <1>0, <1>9 DEF CreateIndex, Define, Runs, Statement
<1>10. CASE StatementFails(c)
  BY <1>0, <1>10, ConnectionAssumption DEF StatementFails, Throws, Threw, RolledBack
<1> QED BY <1>1, <1>2, <1>3, <1>4, <1>5, <1>6, <1>7, <1>8, <1>9, <1>10 DEF SqliteOp

LEMMA PostgresRuns ==
  ASSUME MTypeInv, NEW c \in Clients, backend = "postgres", PostgresOp(c), UNCHANGED <<todo, last>>
  PROVE  Ran(c) \/ Threw(c) \/ Enter(c) \/ Release(c) \/ Unwind(c) \/ PgCommit(c)
<1>0. txn \in {"none", "open", "failed"}
  BY MTypeFacts
<1> USE DEF Ran, BlockPcs
<1>1. CASE PgRetireOld(c)
  BY <1>1 DEF PgRetireOld, Execute, Runs, Statement
<1>2. CASE PgInsertNew(c)
  BY <1>2 DEF PgInsertNew, Execute, Runs, Statement
<1>3. CASE PgInsertVector(c)
  <2>1. CASE Fits
    BY <1>3, <2>1 DEF PgInsertVector, Execute, Runs, Statement
  <2>2. CASE ~ Fits
    BY <1>3, <2>2 DEF PgInsertVector, Refuse, Threw, Statements
  <2> QED BY <2>1, <2>2
<1>4. CASE PgDropColumn(c)
  BY <1>4 DEF PgDropColumn, Execute, Runs, Statement
<1>5. CASE PgAddColumn(c)
  BY <1>5 DEF PgAddColumn, Execute, Runs, Statement
<1>6. CASE PgUpdateRow(c)
  BY <1>6 DEF PgUpdateRow, Execute, Runs, Statement
<1>7. CASE PgDeleteVector(c)
  BY <1>7 DEF PgDeleteVector, Execute, Runs, Statement
<1>8. CASE PgUpsertVector(c)
  <2>1. CASE Fits
    BY <1>8, <2>1 DEF PgUpsertVector, Execute, Runs, Statement
  <2>2. CASE ~ Fits
    BY <1>8, <2>2 DEF PgUpsertVector, Refuse, Threw, Statements
  <2> QED BY <2>1, <2>2
<1>9. CASE Select(c)
  BY <1>9 DEF Select, Execute, Runs, Statement
<1>10. CASE Knn(c)
  <2>1. CASE Fits \/ db.vec = {}
    BY <1>10, <2>1 DEF Knn, Execute, Runs, Statement
  <2>2. CASE ~ (Fits \/ db.vec = {})
    BY <1>10, <2>2 DEF Knn, Refuse, Threw, Statements
  <2> QED BY <2>1, <2>2
<1>11. CASE PgStatementFails(c)
  BY <1>11, ConnectionAssumption DEF PgStatementFails, Refuse, Threw
<1> QED BY <1>1, <1>2, <1>3, <1>4, <1>5, <1>6, <1>7, <1>8, <1>9, <1>10, <1>11 DEF PostgresOp

LEMMA RanTypes ==
  ASSUME MTypeInv, NEW c \in Clients, Ran(c)
  PROVE  MTypeInv'
<1>1. PICK table, next : Statement(c, table, next) /\ Runs(c, table, next)
  BY DEF Ran
<1>2. /\ db \in Table /\ Shape(client[c]) /\ width \in Dims /\ backend \in {"sqlite", "postgres"}
      /\ client[c].new \in Ids \cup {None} /\ client[c].old \in Ids \cup {None}
  BY MTypeFacts
<1>3. table \in Table
  <2> DEFINE new == client[c].new
             old == client[c].old
  <2>1. /\ client[c].pc \in {"retire", "insert", "vector"} => new \in Ids
        /\ client[c].pc \in {"retire", "update", "unindex", "delete", "reinsert"} => old \in Ids
    BY <1>2 DEF Shape
  <2>2. \/ client[c].pc = "retire" /\ table = WithRetired(db, old, new)
        \/ client[c].pc = "update" /\ table = WithRetired(db, old, None)
        \/ client[c].pc = "insert" /\ table = WithRow(db, new)
        \/ client[c].pc = "vector" /\ table = WithVector(db, new)
        \/ client[c].pc \in {"unindex", "delete"} /\ table = WithoutVector(db, old)
        \/ client[c].pc = "reinsert" /\ table = WithVector(db, old)
        \/ table = WithoutIndex(db) \/ table = WithIndex(db, width) \/ table = db
    BY <1>1 DEF Statement
  <2> HIDE DEF new, old
  <2>3. CASE client[c].pc = "retire" /\ table = WithRetired(db, old, new)
    BY <1>2, <2>1, <2>3, RetiredFields
  <2>4. CASE client[c].pc = "update" /\ table = WithRetired(db, old, None)
    BY <1>2, <2>1, <2>4, RetiredFields
  <2>5. CASE client[c].pc = "insert" /\ table = WithRow(db, new)
    BY <1>2, <2>1, <2>5, RowFields
  <2>6. CASE client[c].pc = "vector" /\ table = WithVector(db, new)
    BY <1>2, <2>1, <2>6, VectorFields
  <2>7. CASE client[c].pc \in {"unindex", "delete"} /\ table = WithoutVector(db, old)
    BY <1>2, <2>1, <2>7, VectorFields
  <2>8. CASE client[c].pc = "reinsert" /\ table = WithVector(db, old)
    BY <1>2, <2>1, <2>8, VectorFields
  <2>9. CASE table = WithoutIndex(db) \/ table = WithIndex(db, width) \/ table = db
    BY <1>2, <2>9, IndexFields
  <2> QED BY <2>2, <2>3, <2>4, <2>5, <2>6, <2>7, <2>8, <2>9
<1>4. next \in PCs
  BY <1>1 DEF Statement, PCs, Statements
<1>5. /\ next \in {"insert", "vector"} => client[c].new \in Ids
      /\ next = "retire" => client[c].new \in Ids /\ client[c].old \in Ids
      /\ next = "reinsert" => client[c].old \in Ids
      /\ next \notin {"begin", "update", "unindex", "delete"}
  BY <1>1, <1>2 DEF Statement, Shape
<1>6. Shape([client[c] EXCEPT !.pc = next])
  BY <1>5, ShapeMoved
<1> QED BY <1>1, <1>3, <1>4, <1>6, RunTypes

LEMMA IdleRecords ==
  /\ Returned \in ClientState /\ Returned.pc = "idle" /\ Returned.new = None /\ Returned.old = None
  /\ Raised \in ClientState /\ Raised.pc = "raised" /\ Raised.new = None /\ Raised.old = None
BY DEF Returned, Raised, ClientState

\* A coroutine goes on, or its operation ends.
LEMMA EndTypes ==
  ASSUME MTypeInv, NEW c \in Clients, UNCHANGED <<process, todo, last>>,
         db' \in {db, saved, block.mark}, saved' \in {saved, db},
         txn' \in {"none", "open", "failed"},
         used' = used, dropped' = dropped,
         acked' \in {acked, acked \cup ({client[c].new} \ {None})}, settled' \in {settled, acked, acked'},
         block' \in {block, Outside},
         Return(c) \/ Raise(c) \/ Goto(c, "rollback")
  PROVE  MTypeInv'
<1>1. /\ client[c] \in ClientState /\ client[c].new \in Ids \cup {None}
      /\ db \in Table /\ saved \in Table /\ block \in BlockType /\ block.mark \in Table
      /\ used \subseteq Ids /\ acked \subseteq Ids /\ settled \subseteq Ids
      /\ dropped \subseteq Ids
  BY MTypeFacts
<1>2. EmptyTable \in Table
  BY DEF EmptyTable, Table
<1>3. Outside \in BlockType
  BY <1>2 DEF Outside, BlockType
<1>4. /\ db' \in Table /\ saved' \in Table /\ block' \in BlockType
      /\ used' \subseteq Ids /\ acked' \subseteq Ids /\ settled' \subseteq Ids
      /\ dropped' \subseteq Ids
  BY <1>1, <1>3
<1>5. PICK s \in ClientState : client' = [client EXCEPT ![c] = s] /\ Shape(s)
  <2>1. CASE Return(c)
    BY <2>1, IdleRecords DEF Return, Shape
  <2>2. CASE Raise(c)
    BY <2>2, IdleRecords DEF Raise, Shape
  <2>3. CASE Goto(c, "rollback")
    <3>1. PICK s \in ClientState : client' = [client EXCEPT ![c] = s] /\ s.pc = "rollback"
      BY <2>3, GotoRecord DEF PCs
    <3> QED BY <3>1 DEF Shape
  <2> QED BY <2>1, <2>2, <2>3
<1> QED BY <1>4, <1>5, MoveTypes

LEMMA EnterTypes ==
  ASSUME MTypeInv, NEW c \in Clients, backend = "postgres", Enter(c), UNCHANGED <<todo, last>>
  PROVE  MTypeInv'
<1>1. /\ client[c] \in ClientState
      /\ client[c].new \in Ids \cup {None} /\ client[c].old \in Ids \cup {None}
      /\ db \in Table /\ saved \in Table
      /\ used \subseteq Ids /\ acked \subseteq Ids /\ settled \subseteq Ids
      /\ dropped \subseteq Ids
  BY MTypeFacts
<1> DEFINE pc == IF client[c].new = None THEN "drop"
                 ELSE IF client[c].old = None THEN "insert" ELSE "retire"
<1>2. /\ Goto(c, pc) /\ UNCHANGED <<process, db, saved, history>>
      /\ txn' = "open" /\ block' = [inside |-> TRUE, nested |-> txn = "open", mark |-> db]
  BY DEF Enter
<1>3. pc \in PCs
  BY DEF PCs, Statements
<1>4. PICK s \in ClientState : /\ client' = [client EXCEPT ![c] = s]
                               /\ s.pc = pc /\ s.new = client[c].new /\ s.old = client[c].old
  <2> HIDE DEF pc
  <2> QED BY <1>2, <1>3, GotoRecord
<1>5. Shape(s)
  BY <1>1, <1>4 DEF Shape
<1>6. block' \in BlockType
  BY <1>1, <1>2 DEF BlockType
<1> QED BY <1>1, <1>2, <1>4, <1>5, <1>6, MoveTypes DEF history

LEMMA StepTypes ==
  ASSUME MTypeInv, NEW c \in Clients, Step(c)
  PROVE  MTypeInv'
<1>1. UNCHANGED <<todo, last>> /\ txn \in {"none", "open", "failed"}
  BY MTypeFacts DEF Step
<1>2. CASE Ran(c)
  BY <1>2, RanTypes
<1>3. CASE Threw(c)
  <2>1. txn' \in {"none", "open", "failed"}
    BY <1>1, <1>3 DEF Threw
  <2> QED BY <1>3, <2>1, EndTypes DEF Threw, history
<1>4. CASE backend = "sqlite" /\ UNCHANGED block /\ Commit(c)
  BY <1>1, <1>4, EndTypes DEF Commit
<1>5. CASE backend = "sqlite" /\ UNCHANGED block /\ Rollback(c)
  BY <1>1, <1>5, EndTypes DEF Rollback, history
<1>6. CASE backend = "postgres" /\ Enter(c)
  BY <1>1, <1>6, EnterTypes
<1>7. CASE backend = "postgres" /\ Release(c)
  BY <1>1, <1>7, EndTypes DEF Release
<1>8. CASE backend = "postgres" /\ Unwind(c)
  BY <1>1, <1>8, EndTypes DEF Unwind, history
<1>9. CASE backend = "postgres" /\ PgCommit(c)
  BY <1>1, <1>9, EndTypes DEF PgCommit
<1>10. backend \in {"sqlite", "postgres"}
  BY MTypeFacts
<1> QED BY <1>1, <1>2, <1>3, <1>4, <1>5, <1>6, <1>7, <1>8, <1>9, <1>10, SqliteRuns, PostgresRuns DEF Step

LEMMA EngineCallTypes ==
  ASSUME MTypeInv, NEW c \in Clients, EngineCalls(c)
  PROVE  MTypeInv'
<1>1. ASSUME NEW pc \in {"begin", "update", "unindex", "select", "knn"},
             NEW old \in Ids \cup {None}, NEW new \in Ids \cup {None}, Call(c, pc, old, new),
             pc = "begin" => new \in Ids, pc \in {"update", "unindex"} => old \in Ids
      PROVE  MTypeInv'
  <2> DEFINE s == [pc |-> pc, new |-> new, old |-> old]
  <2>1. s \in ClientState
    BY DEF ClientState, Statements
  <2>2. Shape(s)
    BY <1>1 DEF Shape
  <2>3. /\ client' = [client EXCEPT ![c] = s]
        /\ UNCHANGED <<process, db, saved, txn, acked, settled, block, todo, last>>
        /\ used' = used \cup ({new} \ {None})
        /\ dropped' = IF pc = "unindex" THEN dropped \cup {old} ELSE dropped
    BY <1>1 DEF Call, EngineCalls
  <2>4. /\ db \in Table /\ saved \in Table /\ block \in BlockType
        /\ txn \in {"none", "open", "failed"}
        /\ used \subseteq Ids /\ acked \subseteq Ids /\ settled \subseteq Ids
        /\ dropped \subseteq Ids
    BY MTypeFacts
  <2>5. used' \subseteq Ids /\ dropped' \subseteq Ids
    BY <1>1, <2>3, <2>4
  <2> HIDE DEF s
  <2> QED BY <2>1, <2>2, <2>3, <2>4, <2>5, MoveTypes
<1>2. used \subseteq Ids
  BY MTypeFacts
<1>3. CASE CallInsert(c)
  BY <1>1, <1>2, <1>3 DEF CallInsert
<1>4. CASE CallUpdate(c)
  BY <1>1, <1>2, <1>4 DEF CallUpdate
<1>5. CASE CallRead(c)
  BY <1>1, <1>5 DEF CallRead
<1> QED BY <1>3, <1>4, <1>5 DEF EngineCalls

\* A step that only opens, scans or ends: no coroutine moves.
LEMMA StillTypes ==
  ASSUME MTypeInv, phase' \in {"engine", "script", "down"}, width' \in Dims, backend' = backend,
         db' \in Table, saved' \in Table, txn' \in {"none", "open", "failed"},
         block' \in BlockType, todo' \subseteq Ids, last' \in Migrations,
         UNCHANGED <<client, history>>
  PROVE  MTypeInv'
<1>1. TypeOK'
  BY DEF MTypeInv, TypeOK, ConnectionTypeOK, history
<1>2. \A c \in Clients : Shape(client[c])'
  BY DEF MTypeInv, Shape
<1> QED BY <1>1, <1>2 DEF MTypeInv

LEMMA OpenTypes ==
  ASSUME MTypeInv, NEW d \in Dims, Open(d)
  PROVE  /\ width' \in Dims /\ db' \in Table /\ saved' = db' /\ txn' \in {"none", "open"}
         /\ UNCHANGED <<backend, history, block>>
         /\ db' = IF db.dim = None THEN WithIndex(db, d) ELSE db
BY MTypeFacts, IndexFields DEF Open, MTypeInv, TypeOK, ConnectionTypeOK

LEMMA StartEngineTypes ==
  ASSUME MTypeInv, NEW d \in Dims, StartEngine(d)
  PROVE  MTypeInv'
<1>1. /\ width' \in Dims /\ db' \in Table /\ saved' = db' /\ txn' \in {"none", "open"}
      /\ UNCHANGED <<backend, history, block>>
  BY OpenTypes DEF StartEngine
<1>2. phase' = "engine" /\ UNCHANGED <<client, todo, last>>
  BY DEF StartEngine
<1>3. block \in BlockType /\ todo \subseteq Ids /\ last \in Migrations
  BY DEF MTypeInv, TypeOK
<1> QED BY <1>1, <1>2, <1>3, StillTypes

\* A coroutine of the script moves.
LEMMA ScriptTypes ==
  ASSUME MTypeInv, NEW c \in Clients, phase' \in {"engine", "script", "down"}, width' \in Dims,
         backend' = backend, db' \in Table, saved' \in Table, txn' \in {"none", "open", "failed"},
         block' \in BlockType, todo' \subseteq Ids, last' \in Migrations,
         UNCHANGED history,
         NEW s \in ClientState, client' = [client EXCEPT ![c] = s], Shape(s)'
  PROVE  MTypeInv'
<1>1. client' \in [Clients -> ClientState] /\ client'[c] = s
      /\ \A d \in Clients \ {c} : client'[d] = client[d]
  BY DEF MTypeInv, TypeOK, ConnectionTypeOK
<1>2. TypeOK'
  BY <1>1 DEF MTypeInv, TypeOK, ConnectionTypeOK, history
<1>3. \A d \in Clients : Shape(client[d])'
  BY <1>1 DEF MTypeInv, Shape
<1> QED BY <1>2, <1>3 DEF MTypeInv

LEMMA StartScriptTypes ==
  ASSUME MTypeInv, NEW c \in Clients, NEW d \in Dims, NEW all \in BOOLEAN, StartScript(c, d, all)
  PROVE  MTypeInv'
<1>0. PICK s : s = [Returned EXCEPT !.pc = IF backend = "sqlite" THEN "drop" ELSE "begin"]
  OBVIOUS
<1>1. /\ width' \in Dims /\ db' \in Table /\ saved' = db' /\ txn' \in {"none", "open"}
      /\ UNCHANGED <<backend, history, block>>
  BY OpenTypes DEF StartScript
<1>2. /\ phase' = "script" /\ todo' = {} /\ client' = [client EXCEPT ![c] = s]
      /\ last' = [how |-> "running", width |-> d, all |-> all, wrote |-> FALSE]
  BY <1>0 DEF StartScript
<1>3. s \in ClientState /\ s.pc = (IF backend = "sqlite" THEN "drop" ELSE "begin")
  BY <1>0 DEF Returned, ClientState, Statements
<1>4. backend \in {"sqlite", "postgres"} /\ block \in BlockType
  BY DEF MTypeInv, TypeOK, ConnectionTypeOK
<1>5. Shape(s)'
  BY <1>1, <1>3, <1>4 DEF Shape
<1>6. last' \in Migrations
  BY <1>2 DEF Migrations
<1> QED BY <1>1, <1>2, <1>3, <1>4, <1>5, <1>6, ScriptTypes

LEMMA ReembedTypes ==
  ASSUME MTypeInv, NEW c \in Clients, Reembed(c)
  PROVE  MTypeInv'
<1>1. PICK r \in todo :
        /\ todo' = todo \ {r}
        /\ client' = [client EXCEPT ![c] = [Returned EXCEPT !.old = r, !.pc =
                        IF backend = "sqlite" THEN "delete" ELSE "reinsert"]]
  BY DEF Reembed
<1>0. PICK s : s = [Returned EXCEPT !.old = r, !.pc =
                      IF backend = "sqlite" THEN "delete" ELSE "reinsert"]
  OBVIOUS
<1>2. /\ last' = [last EXCEPT !.wrote = TRUE]
      /\ UNCHANGED <<backend, phase, width, db, saved, txn, history, block>>
  BY DEF Reembed, process
<1>3. r \in Ids /\ todo \subseteq Ids /\ last \in Migrations /\ block \in BlockType
      /\ phase \in {"engine", "script", "down"} /\ width \in Dims
      /\ db \in Table /\ saved \in Table /\ txn \in {"none", "open", "failed"}
  BY DEF MTypeInv, TypeOK, ConnectionTypeOK
<1>4. s \in ClientState /\ s.pc \in {"delete", "reinsert"} /\ s.old = r
  BY <1>0, <1>3 DEF Returned, ClientState, Statements
<1>5. last' \in Migrations
  BY <1>2, <1>3 DEF Migrations
<1>6. client' = [client EXCEPT ![c] = s]
  BY <1>0, <1>1
<1>7. Shape(s)'
  BY <1>3, <1>4 DEF Shape
<1> QED BY <1>1, <1>2, <1>3, <1>4, <1>5, <1>6, <1>7, ScriptTypes

LEMMA ExitTypes ==
  ASSUME MTypeInv, Exit
  PROVE  MTypeInv'
<1>1. /\ phase' = "down" /\ db' = saved /\ client' = [c \in Clients |-> Returned]
      /\ acked' = settled /\ UNCHANGED <<saved, used, settled, dropped, backend, width, last>>
      /\ txn' = "none" /\ block' = Outside /\ todo' = {}
  BY DEF Exit, Drop
<1>2. Outside \in BlockType
  BY DEF Outside, BlockType, EmptyTable, Table
<1>3. Returned \in ClientState /\ Returned.pc = "idle"
  BY IdleRecords
<1>4. client' \in [Clients -> ClientState] /\ \A c \in Clients : client'[c].pc = "idle"
  BY <1>1, <1>3
<1>5. TypeOK'
  BY <1>1, <1>2, <1>4 DEF MTypeInv, TypeOK, ConnectionTypeOK
<1>6. \A c \in Clients : Shape(client[c])'
  BY <1>4 DEF Shape
<1> QED BY <1>5, <1>6 DEF MTypeInv

LEMMA MTypesKept ==
  ASSUME MTypeInv, [Next]_migrationVars
  PROVE  MTypeInv'
<1>0. /\ phase \in {"engine", "script", "down"} /\ width \in Dims
      /\ db \in Table /\ saved \in Table /\ txn \in {"none", "open", "failed"}
      /\ block \in BlockType /\ todo \subseteq Ids /\ last \in Migrations
  BY DEF MTypeInv, TypeOK, ConnectionTypeOK
<1>1. ASSUME NEW c \in Clients, Step(c) \/ EngineCalls(c) \/ Reembed(c)
      PROVE  MTypeInv'
  BY <1>1, StepTypes, EngineCallTypes, ReembedTypes
<1>2. ASSUME NEW d \in Dims, StartEngine(d)
      PROVE  MTypeInv'
  BY <1>2, StartEngineTypes
<1>3. ASSUME NEW c \in Clients, NEW d \in Dims, NEW all \in BOOLEAN, StartScript(c, d, all)
      PROVE  MTypeInv'
  BY <1>3, StartScriptTypes
<1>4. CASE Scan
  <2>1. todo' \subseteq Ids
    BY <1>4 DEF Scan, LiveIds
  <2>2. /\ txn' \in {"none", "open", "failed"}
        /\ UNCHANGED <<backend, phase, width, db, saved, client, history, block, last>>
    BY <1>0, <1>4 DEF Scan, process
  <2> QED BY <1>0, <2>1, <2>2, StillTypes
<1>5. CASE Finish
  <2>1. last' = [last EXCEPT !.how = IF last.all THEN "full" ELSE "partial"]
    BY <1>5 DEF Finish
  <2>2. last' \in Migrations
    BY <1>0, <2>1 DEF Migrations
  <2>3. UNCHANGED <<backend, phase, width, db, saved, txn, client, history, block, todo>>
    BY <1>5 DEF Finish, connectionVars, process
  <2> QED BY <1>0, <2>2, <2>3, StillTypes
<1>6. CASE Continue
  <2>1. phase' = "engine" /\ UNCHANGED <<backend, width, db, saved, txn, client, history, block,
                                         todo, last>>
    BY <1>6 DEF Continue
  <2> QED BY <1>0, <2>1, StillTypes
<1>7. CASE UNCHANGED migrationVars
  <2>1. UNCHANGED <<backend, phase, width, db, saved, txn, client, history, block, todo, last>>
    BY <1>7 DEF migrationVars, postgresVars, connectionVars, process
  <2> QED BY <1>0, <2>1, StillTypes
<1> QED BY <1>1, <1>2, <1>3, <1>4, <1>5, <1>6, <1>7, ExitTypes DEF Next

LEMMA MTypesInitially ==
  ASSUME Init
  PROVE  MTypeInv
<1>1. EmptyTable \in Table
  BY DEF EmptyTable, Table
<1>2. client = [c \in Clients |-> Returned]
  BY DEF Init, ConnectionInit
<1>3. client \in [Clients -> ClientState] /\ \A c \in Clients : client[c].pc = "idle"
  BY <1>2, IdleRecords
<1>4. Outside \in BlockType /\ Never \in Migrations
  BY <1>1 DEF Outside, BlockType, Never, Migrations
<1>5. TypeOK
  BY <1>1, <1>3, <1>4 DEF Init, ConnectionInit, TypeOK, ConnectionTypeOK
<1>6. \A c \in Clients : Shape(client[c])
  BY <1>3 DEF Shape
<1> QED BY <1>5, <1>6 DEF MTypeInv

\* Through every life of a database, whichever operations overlap: the tables, the
\* coroutines, the block and the script's list have their types, and a statement
\* that is reached has the ids it needs.
THEOREM MigrationTypes == Spec => []TypeOK
<1>1. Init => MTypeInv
  BY MTypesInitially
<1>2. MTypeInv /\ [Next]_migrationVars => MTypeInv'
  BY MTypesKept
<1>3. MTypeInv => TypeOK
  BY DEF MTypeInv
<1> QED BY <1>1, <1>2, <1>3, PTL DEF Spec

-----------------------------------------------------------------------------
(***************************************************************************)
(* What is on disk while operations take turns.  The invariant says for    *)
(* every statement what the connection's tables still lack: the vector of  *)
(* the row just inserted, those the script has deleted or not yet reached. *)
(***************************************************************************)

\* Where a coroutine may stand, by what the process runs.
At(k) ==
  /\ phase = "down" => k.pc = "idle"
  /\ k.pc \in {"drop", "create", "delete", "reinsert"} => phase = "script"
  /\ k.pc \in {"retire", "insert", "vector", "update", "unindex", "select", "knn", "unmatched"} =>
       phase = "engine"
  /\ phase = "script" =>
       /\ k.pc \notin {"idle", "raised"} => last.how = "running"
       /\ k.pc = "begin" => k.new = None
       /\ k.pc \in {"begin", "drop", "create", "release"} => todo = {} /\ ~ last.wrote
  /\ k.pc = "begin" /\ k.new = None => phase = "script"
  /\ k.pc = "unindex" => k.old \in dropped
  /\ backend = "postgres" /\ k.pc \in BlockPcs => block.inside

Entered == block.inside => backend = "postgres" /\ \E c \in Clients : client[c].pc \in BlockPcs

\* The script has made the index anew.
Redone == backend = "sqlite" \/ last.wrote

\* The script changes no row, and leaves nothing uncommitted that it wrote.
Steady ==
  /\ last.how # "running" => todo = {}
  /\ last.how # "none" => last.width \in Dims
  /\ phase = "script" =>
       /\ saved.row = db.row
       /\ block.inside => block.mark.row = db.row
       /\ Quiet /\ Redone => db = saved

Narrow == {"begin", "drop", "create", "rollback", "raised"}

Widths ==
  /\ last.how \in {"partial", "full"} /\ Redone =>
       /\ saved.dim = last.width /\ db.dim = last.width
       /\ block.inside => block.mark.dim = last.width
  /\ phase = "script" /\ last.how = "running" =>
       /\ width = last.width
       /\ (\A c \in Clients : client[c].pc \notin Narrow) => db.dim = width

\* Every live record but those of X has its vector.
Indexed(table, X) ==
  \A r \in Ids : table.row[r] = "live" /\ r \notin dropped \cup X => r \in table.vec

MissingOf(k) == IF k.pc = "vector" THEN {k.new}
                ELSE IF k.pc \in {"delete", "reinsert"} THEN {k.old} ELSE {}

Missing == todo \cup UNION {MissingOf(client[c]) : c \in Clients}

Claimed == last.how \in {"none", "full"}

\* A script that has read every live record and has them all or some in its list.
Rebuilt == phase = "script" /\ last.how = "running" /\ last.all /\ (todo # {} \/ last.wrote)

\* Nothing is about to be undone.
SettledAt(k) == k.pc \notin {"rollback", "unmatched"} /\ (phase = "script" => k.pc # "raised")
Settled == \A c \in Clients : SettledAt(client[c])

Searchable ==
  /\ Claimed => Indexed(saved, {}) /\ (block.inside => Indexed(block.mark, {}))
  /\ (Claimed \/ Rebuilt) /\ Settled => Indexed(db, Missing)

MInv ==
  /\ MTypeInv /\ OneAtATime /\ (\A c \in Clients : At(client[c]))
  /\ Entered /\ Steady /\ Widths /\ Searchable

-----------------------------------------------------------------------------
\* What the invariant says when c is the only one with an operation under way.
LEMMA Busy ==
  ASSUME MInv, NEW c \in Clients, ~ Idle(c)
  PROVE  /\ \A d \in Clients \ {c} : Idle(d)
         /\ phase \in {"engine", "script"} /\ (phase = "script" => last.how = "running")
         /\ At(client[c]) /\ Shape(client[c])
         /\ client[c].pc \notin BlockPcs => ~ block.inside
         /\ Missing = todo \cup MissingOf(client[c])
         /\ Claimed => phase = "engine" /\ todo = {}
         /\ Claimed /\ client[c].pc \notin {"rollback", "unmatched"} =>
              Indexed(db, MissingOf(client[c]))
<1>1. \A d \in Clients \ {c} : Idle(d)
  BY DEF MInv, OneAtATime
<1>2. /\ At(client[c]) /\ Shape(client[c]) /\ phase \in {"engine", "script", "down"}
  BY DEF MInv, MTypeInv, TypeOK, ConnectionTypeOK
<1>3. phase \in {"engine", "script"} /\ (phase = "script" => last.how = "running")
  BY <1>2 DEF At, Idle
<1>4. ASSUME client[c].pc \notin BlockPcs
      PROVE  ~ block.inside
  BY <1>1, <1>4 DEF MInv, Entered, BlockPcs, Idle
<1>5. Missing = todo \cup MissingOf(client[c])
  <2>1. \A d \in Clients \ {c} : MissingOf(client[d]) = {}
    BY <1>1 DEF MissingOf, Idle
  <2>2. UNION {MissingOf(client[d]) : d \in Clients} = MissingOf(client[c])
    BY <2>1
  <2> QED BY <2>2 DEF Missing
<1>6. Claimed => phase = "engine" /\ todo = {}
  BY <1>3 DEF Claimed, MInv, Steady
<1>7. ASSUME Claimed, client[c].pc \notin {"rollback", "unmatched"}
      PROVE  Indexed(db, MissingOf(client[c]))
  <2>1. Settled
    BY <1>1, <1>6, <1>7 DEF Settled, SettledAt, Idle
  <2>2. Indexed(db, Missing)
    BY <1>7, <2>1 DEF MInv, Searchable
  <2> QED BY <1>5, <1>6, <1>7, <2>2
<1> QED BY <1>1, <1>2, <1>3, <1>4, <1>5, <1>6, <1>7

\* A step of one coroutine: what has to be seen of it.
LEMMA MoveKeeps ==
  ASSUME MInv, MTypeInv', NEW c \in Clients, \A d \in Clients \ {c} : Idle(d),
         UNCHANGED <<process, todo, last>>, dropped \subseteq dropped',
         NEW s, client' = [client EXCEPT ![c] = s],
         At(s)', block'.inside => backend = "postgres" /\ s.pc \in BlockPcs,
         phase = "script" =>
           /\ saved'.row = db'.row
           /\ block'.inside => block'.mark.row = db'.row
           /\ s.pc = "idle" /\ Redone => db' = saved',
         last.how \in {"partial", "full"} /\ Redone =>
           /\ saved'.dim = last.width /\ db'.dim = last.width
           /\ block'.inside => block'.mark.dim = last.width,
         phase = "script" /\ last.how = "running" /\ s.pc \notin Narrow =>
           db'.dim = width \/ (client[c].pc \notin Narrow /\ db'.dim = db.dim),
         Claimed => Indexed(saved, {})' /\ (block'.inside => Indexed(block.mark, {})'),
         (Claimed \/ Rebuilt) /\ Settled' => Indexed(db, todo \cup MissingOf(s))'
  PROVE  MInv'
<1>1. client'[c] = s /\ \A d \in Clients \ {c} : client'[d] = client[d] /\ Idle(d)'
  BY DEF MInv, MTypeInv, TypeOK, ConnectionTypeOK, Idle
<1>2. OneAtATime'
  BY <1>1 DEF OneAtATime
<1>3. UNCHANGED <<backend, phase, width>>
  BY DEF process
<1>4. \A d \in Clients : At(client[d])'
  <2>1. ASSUME NEW d \in Clients \ {c}
        PROVE  At(client[d])'
    BY <1>1, <1>3 DEF MInv, At, Idle, BlockPcs
  <2> QED BY <1>1, <2>1
<1>5. Entered'
  BY <1>1, <1>3 DEF Entered
<1>6. Quiet' => s.pc = "idle"
  BY <1>1 DEF Quiet
<1>7. Redone' = Redone /\ Claimed' = Claimed /\ Rebuilt' = Rebuilt
  BY <1>3 DEF Redone, Claimed, Rebuilt
<1>8. Steady'
  BY <1>3, <1>6, <1>7 DEF MInv, Steady
<1>9. Widths'
  <2>1. ASSUME phase = "script", last.how = "running",
               \A d \in Clients : client'[d].pc \notin Narrow
        PROVE  db'.dim = width
    <3>1. s.pc \notin Narrow /\ \A d \in Clients \ {c} : client[d].pc \notin Narrow
      BY <1>1, <2>1
    <3>2. CASE client[c].pc \notin Narrow /\ db'.dim = db.dim
      BY <2>1, <3>1, <3>2 DEF MInv, Widths
    <3> QED BY <2>1, <3>1, <3>2
  <2> QED BY <1>3, <1>7, <2>1 DEF MInv, Widths
<1>10. Missing' = todo \cup MissingOf(s)
  <2>1. \A d \in Clients \ {c} : MissingOf(client'[d]) = {}
    BY <1>1 DEF MissingOf, Idle
  <2>2. UNION {MissingOf(client'[d]) : d \in Clients} = MissingOf(s)
    BY <1>1, <2>1
  <2> QED BY <2>2 DEF Missing
<1>11. Searchable'
  BY <1>7, <1>10 DEF Searchable
<1> QED BY <1>2, <1>4, <1>5, <1>8, <1>9, <1>11 DEF MInv

\* A coroutine that was settled and others that did not move: what is settled now was.
LEMMA WasSettled ==
  ASSUME MInv, NEW c \in Clients, SettledAt(client[c]), UNCHANGED process,
         NEW s, client' = [client EXCEPT ![c] = s], Settled'
  PROVE  Settled
<1>1. \A d \in Clients \ {c} : client'[d] = client[d]
  BY DEF MInv, MTypeInv, TypeOK, ConnectionTypeOK
<1> QED BY <1>1 DEF Settled, SettledAt, process

\* A row that is retired lacks no vector.
LEMMA RetiringKeeps ==
  ASSUME NEW table \in Table, NEW r \in Ids, NEW n \in Ids \cup {None}
  PROVE  /\ WithRetired(table, r, n).vec = table.vec /\ WithRetired(table, r, n).dim = table.dim
         /\ \A q \in Ids : WithRetired(table, r, n).row[q] = "live" => table.row[q] = "live"
<1>1. CASE table.row[r] = "absent"
  <2>1. WithRetired(table, r, n) = table
    BY <1>1 DEF WithRetired
  <2> QED BY <2>1
<1>2. CASE table.row[r] # "absent"
  <2> DEFINE b == IF n = None THEN table.by[r] ELSE n
             done == [table EXCEPT !.row[r] = "retired", !.by[r] = b]
  <2>1. WithRetired(table, r, n) = done
    <3> HIDE DEF done
    <3>1. WithRetired(table, r, n) = IF table.row[r] = "absent" THEN table ELSE done
      BY DEF WithRetired, done
    <3> QED BY <1>2, <3>1
  <2>2. done.row = [table.row EXCEPT ![r] = "retired"] /\ done.vec = table.vec /\ done.dim = table.dim
    BY DEF Table
  <2>3. table.row \in [Ids -> {"absent", "live", "retired"}]
    BY DEF Table
  <2> HIDE DEF done
  <2>4. \A q \in Ids : done.row[q] = "live" => table.row[q] = "live"
    BY <2>2, <2>3
  <2> QED BY <2>1, <2>2, <2>4
<1> QED BY <1>1, <1>2

\* What a statement makes of the tables, but for the script's two that make a new
\* index: what they lack, for any other reason too, they lacked before.
LEMMA StatementEffect ==
  ASSUME MInv, NEW c \in Clients, ~ Idle(c), NEW table, NEW next, Statement(c, table, next),
         client[c].pc \notin {"drop", "create"}, NEW X,
         NEW s, s.pc = next, s.new = client[c].new, s.old = client[c].old
  PROVE  /\ phase = "script" => table.row = db.row
         /\ table.dim = db.dim
         /\ Indexed(db, X \cup MissingOf(client[c])) => Indexed(table, X \cup MissingOf(s))
<1> DEFINE new == client[c].new
           old == client[c].old
<1>1. /\ db \in Table /\ None \in Ids \cup {None}
      /\ client[c].pc \in {"retire", "insert", "vector"} => new \in Ids /\ phase = "engine"
      /\ client[c].pc \in {"retire", "update", "unindex", "delete", "reinsert"} => old \in Ids
      /\ client[c].pc \in {"update", "unindex"} => phase = "engine"
      /\ client[c].pc = "unindex" => old \in dropped
  BY MTypeFacts DEF MInv, At, Shape
<1>2. db.vec \subseteq Ids /\ db.row \in [Ids -> {"absent", "live", "retired"}]
  BY <1>1 DEF Table
<1> HIDE DEF new, old
<1>3. CASE \/ client[c].pc = "retire" /\ table = WithRetired(db, old, new)
           \/ client[c].pc = "update" /\ table = WithRetired(db, old, None)
  <2>1. /\ table.vec = db.vec /\ table.dim = db.dim /\ phase = "engine"
        /\ \A r \in Ids : table.row[r] = "live" => db.row[r] = "live"
    <3>1. PICK n \in Ids \cup {None} : table = WithRetired(db, old, n)
      BY <1>1, <1>3
    <3>2. old \in Ids /\ phase = "engine" /\ db \in Table
      BY <1>1, <1>3
    <3> QED BY <3>1, <3>2, RetiringKeeps
  <2>2. MissingOf(client[c]) = {}
    BY <1>3 DEF MissingOf
  <2> QED BY <2>1, <2>2 DEF Indexed
<1>4. CASE client[c].pc = "insert" /\ table = WithRow(db, new) /\ next = "vector"
  <2>1. /\ table.vec = db.vec /\ table.dim = db.dim /\ phase = "engine"
        /\ table.row = [db.row EXCEPT ![new] = "live"]
    BY <1>1, <1>4, RowFields
  <2>2. MissingOf(client[c]) = {} /\ MissingOf(s) = {new}
    BY <1>4 DEF MissingOf, new
  <2>3. \A r \in Ids : r # new => table.row[r] = db.row[r]
    BY <1>2, <2>1
  <2> QED BY <2>1, <2>2, <2>3 DEF Indexed
<1>5. CASE client[c].pc = "vector" /\ table = WithVector(db, new)
  <2>1. /\ table.row = db.row /\ table.dim = db.dim /\ table.vec = db.vec \cup {new}
    BY <1>1, <1>5, VectorFields
  <2>2. MissingOf(client[c]) = {new}
    BY <1>5 DEF MissingOf, new
  <2> QED BY <2>1, <2>2 DEF Indexed
<1>6. CASE client[c].pc = "unindex" /\ table = WithoutVector(db, old)
  <2>1. /\ table.row = db.row /\ table.dim = db.dim /\ table.vec = db.vec \ {old}
    BY <1>1, <1>6, VectorFields
  <2>2. MissingOf(client[c]) = {} /\ old \in dropped
    BY <1>1, <1>6 DEF MissingOf
  <2> QED BY <2>1, <2>2 DEF Indexed
<1>7. CASE client[c].pc = "delete" /\ table = WithoutVector(db, old) /\ next = "reinsert"
  <2>1. /\ table.row = db.row /\ table.dim = db.dim /\ table.vec = db.vec \ {old}
    BY <1>1, <1>7, VectorFields
  <2>2. MissingOf(client[c]) = {old} /\ MissingOf(s) = {old}
    BY <1>7 DEF MissingOf, old
  <2> QED BY <2>1, <2>2 DEF Indexed
<1>8. CASE client[c].pc = "reinsert" /\ table = WithVector(db, old)
  <2>1. /\ table.row = db.row /\ table.dim = db.dim /\ table.vec = db.vec \cup {old}
    BY <1>1, <1>8, VectorFields
  <2>2. MissingOf(client[c]) = {old}
    BY <1>8 DEF MissingOf, old
  <2> QED BY <2>1, <2>2 DEF Indexed
<1>9. CASE client[c].pc \in {"begin", "select", "knn"} /\ table = db
  <2>1. MissingOf(client[c]) = {}
    BY <1>9 DEF MissingOf
  <2> QED BY <1>9, <2>1 DEF Indexed
<1> QED BY <1>3, <1>4, <1>5, <1>6, <1>7, <1>8, <1>9 DEF Statement, new, old

\* Where a statement leads.
LEMMA StatementMoves ==
  ASSUME MInv, NEW c \in Clients, ~ Idle(c), NEW table, NEW next, Statement(c, table, next),
         next = "release" => backend = "postgres",
         next = "commit" /\ client[c].pc \in BlockPcs => backend = "sqlite",
         UNCHANGED <<process, block, todo, last, dropped>>,
         NEW s, s.pc = next, s.new = client[c].new, s.old = client[c].old
  PROVE  /\ At(s)'
         /\ block.inside => backend = "postgres" /\ s.pc \in BlockPcs
         /\ client[c].pc \in Narrow => s.pc \in Narrow \/ phase = "engine" \/ client[c].pc = "create"
         /\ SettledAt(client[c])
<1>1. /\ At(client[c]) /\ Shape(client[c]) /\ phase \in {"engine", "script"}
      /\ phase = "script" => last.how = "running"
      /\ client[c].pc \notin BlockPcs => ~ block.inside
  BY Busy
<1>2. UNCHANGED <<backend, phase, block, todo, last, dropped>>
  BY DEF process
<1>3. block.inside => backend = "postgres"
  BY DEF MInv, Entered
<1>4. None \notin Ids
  BY ConnectionAssumption
<1>5. At(s)
  BY <1>1, <1>3, <1>4 DEF Statement, At, Shape, BlockPcs
<1>6. At(s)'
  BY <1>2, <1>5 DEF At
<1>7. block.inside => backend = "postgres" /\ s.pc \in BlockPcs
  BY <1>1, <1>3 DEF Statement, BlockPcs
<1>8. client[c].pc \in Narrow => s.pc \in Narrow \/ phase = "engine" \/ client[c].pc = "create"
  BY <1>1, <1>4 DEF Statement, Narrow, At, Shape
<1>9. SettledAt(client[c])
  BY DEF Statement, SettledAt
<1> QED BY <1>6, <1>7, <1>8, <1>9

\* A coroutine's record after a Goto.
LEMMA GotoSame ==
  ASSUME MInv, NEW c \in Clients, NEW pc, Goto(c, pc)
  PROVE  \E s : /\ client' = [client EXCEPT ![c] = s]
                /\ s.pc = pc /\ s.new = client[c].new /\ s.old = client[c].old
<1> DEFINE s == [client[c] EXCEPT !.pc = pc]
<1>1. client[c] \in ClientState
  BY MTypeFacts DEF MInv
<1>2. s.pc = pc /\ s.new = client[c].new /\ s.old = client[c].old
  BY <1>1 DEF ClientState
<1>3. client' = [client EXCEPT ![c] = s]
  BY DEF Goto
<1> HIDE DEF s
<1> QED BY <1>2, <1>3

\* The script makes a new index: it has claimed nothing yet.
LEMMA RemakesIndex ==
  ASSUME MInv, MTypeInv', NEW c \in Clients, client[c].pc \in {"drop", "create"}, Ran(c)
  PROVE  MInv'
<1>0. ~ Idle(c)
  BY DEF Idle
<1>1. PICK table, next : /\ Statement(c, table, next) /\ Runs(c, table, next)
                         /\ next = "release" => backend = "postgres"
                         /\ next = "commit" /\ client[c].pc \in BlockPcs => backend = "sqlite"
  BY DEF Ran
<1>2. PICK s : /\ client' = [client EXCEPT ![c] = s]
               /\ s.pc = next /\ s.new = client[c].new /\ s.old = client[c].old
  BY <1>1, GotoSame DEF Runs
<1>3. /\ UNCHANGED <<process, block, todo, last, dropped>> /\ db' = table
      /\ saved' = saved \/ saved' = table
  BY <1>1 DEF Runs, history
<1>4. /\ \A d \in Clients \ {c} : Idle(d)
      /\ phase = "script" /\ last.how = "running" /\ todo = {} /\ ~ last.wrote
  BY <1>0, Busy DEF At
<1>5. At(s)' /\ (block.inside => backend = "postgres" /\ s.pc \in BlockPcs)
  BY <1>0, <1>1, <1>2, <1>3, StatementMoves
<1>6. db \in Table /\ width \in Dims
  BY MTypeFacts DEF MInv
<1>7. table.row = db.row /\ (client[c].pc = "create" => table.dim = width)
  BY <1>1, <1>6, IndexFields DEF Statement
<1>8. saved.row = db.row /\ (block.inside => block.mark.row = db.row)
  BY <1>4 DEF MInv, Steady
<1>9. ~ Claimed /\ ~ Rebuilt
  BY <1>4 DEF Claimed, Rebuilt
<1>10. s.pc # "idle" /\ (client[c].pc = "drop" => s.pc \in Narrow)
  BY <1>1, <1>2 DEF Statement, Narrow
<1> QED BY <1>2, <1>3, <1>4, <1>5, <1>7, <1>8, <1>9, <1>10, MoveKeeps

LEMMA RanKeeps ==
  ASSUME MInv, MTypeInv', NEW c \in Clients, client[c].pc \notin {"drop", "create"}, Ran(c)
  PROVE  MInv'
<1>1. PICK table, next : /\ Statement(c, table, next) /\ Runs(c, table, next)
                         /\ next = "release" => backend = "postgres"
                         /\ next = "commit" /\ client[c].pc \in BlockPcs => backend = "sqlite"
  BY DEF Ran
<1>0. ~ Idle(c)
  BY <1>1 DEF Idle, Statement
<1>2. PICK s : /\ client' = [client EXCEPT ![c] = s]
               /\ s.pc = next /\ s.new = client[c].new /\ s.old = client[c].old
  BY <1>1, GotoSame DEF Runs
<1>3. /\ UNCHANGED <<process, block, todo, last, dropped, saved>> /\ db' = table
  BY <1>1 DEF Runs, history, Ran
<1>4. /\ \A d \in Clients \ {c} : Idle(d)
      /\ phase \in {"engine", "script"} /\ (phase = "script" => last.how = "running")
      /\ Missing = todo \cup MissingOf(client[c])
  BY <1>0, Busy
<1>5. /\ At(s)' /\ (block.inside => backend = "postgres" /\ s.pc \in BlockPcs)
      /\ client[c].pc \in Narrow => s.pc \in Narrow \/ phase = "engine"
      /\ SettledAt(client[c])
  BY <1>0, <1>1, <1>2, <1>3, StatementMoves
<1>6. /\ phase = "script" => table.row = db.row
      /\ table.dim = db.dim
      /\ Indexed(db, todo \cup MissingOf(client[c])) => Indexed(table, todo \cup MissingOf(s))
  BY <1>0, <1>1, <1>2, StatementEffect
<1>7. phase = "script" => saved.row = db.row /\ (block.inside => block.mark.row = db.row)
  BY DEF MInv, Steady
<1>8. last.how \in {"partial", "full"} /\ Redone =>
        /\ saved.dim = last.width /\ table.dim = last.width
        /\ block.inside => block.mark.dim = last.width
  BY <1>6 DEF MInv, Widths
<1>9. phase = "script" => s.pc # "idle"
  <2>1. client[c].pc = "select" => phase = "engine"
    BY <1>0, Busy DEF At
  <2> QED BY <1>1, <1>2, <1>4, <2>1 DEF Statement
<1>10. Claimed => Indexed(saved, {})' /\ (block'.inside => Indexed(block.mark, {})')
  BY <1>3 DEF MInv, Searchable, Indexed
<1>11. (Claimed \/ Rebuilt) /\ Settled' => Indexed(db, todo \cup MissingOf(s))'
  <2>1. ASSUME Claimed \/ Rebuilt, Settled'
        PROVE  Indexed(table, todo \cup MissingOf(s))
    <3>1. Settled
      BY <1>2, <1>3, <1>5, <2>1, WasSettled
    <3>2. Indexed(db, Missing)
      BY <2>1, <3>1 DEF MInv, Searchable
    <3> QED BY <1>4, <1>6, <3>2
  <2>2. Indexed(table, todo \cup MissingOf(s)) => Indexed(db, todo \cup MissingOf(s))'
    BY <1>3 DEF Indexed
  <2> QED BY <2>1, <2>2
<1> QED BY <1>2, <1>3, <1>4, <1>5, <1>6, <1>7, <1>8, <1>9, <1>10, <1>11, MoveKeeps

\* A step that makes nothing of the tables and unsettles, or ends, its operation.
LEMMA ThrewKeeps ==
  ASSUME MInv, MTypeInv', NEW c \in Clients, Threw(c)
  PROVE  MInv'
<1>0. ~ Idle(c) /\ UNCHANGED <<process, db, saved, history, block, todo, last>>
  BY DEF Threw, Idle, Statements
<1>1. /\ \A d \in Clients \ {c} : Idle(d)
      /\ phase \in {"engine", "script"} /\ (phase = "script" => last.how = "running")
      /\ At(client[c])
      /\ client[c].pc \notin BlockPcs => ~ block.inside
      /\ Missing = todo \cup MissingOf(client[c])
  BY <1>0, Busy
<1>2. block.inside => backend = "postgres"
  BY DEF MInv, Entered
<1>3. PICK s : /\ client' = [client EXCEPT ![c] = s] /\ s.pc \in {"rollback", "raised"}
               /\ s.pc = "rollback" /\ backend = "postgres" => block.inside
               /\ s.pc = "raised" => IF backend = "sqlite" THEN client[c].pc \notin RolledBack
                                     ELSE ~ block.inside
  <2>1. CASE Goto(c, "rollback") /\ (backend = "postgres" => block.inside)
    <3>1. PICK s : client' = [client EXCEPT ![c] = s] /\ s.pc = "rollback"
      BY <2>1, GotoSame
    <3> QED BY <2>1, <3>1
  <2>2. CASE /\ Raise(c)
             /\ IF backend = "sqlite" THEN client[c].pc \notin RolledBack ELSE ~ block.inside
    BY <2>2, IdleRecords DEF Raise
  <2> QED BY <2>1, <2>2 DEF Threw
<1>4. At(s)'
  <2>1. UNCHANGED <<backend, phase, block, todo, last, dropped>>
    BY <1>0 DEF process, history
  <2>2. At(s)
    BY <1>1, <1>3 DEF At, BlockPcs
  <2> QED BY <2>1, <2>2 DEF At
<1>5. block'.inside => backend = "postgres" /\ s.pc \in BlockPcs
  BY <1>0, <1>2, <1>3 DEF BlockPcs
<1>6. phase = "script" =>
        /\ saved'.row = db'.row
        /\ block'.inside => block'.mark.row = db'.row
  BY <1>0 DEF MInv, Steady
<1>7. last.how \in {"partial", "full"} /\ Redone =>
        /\ saved'.dim = last.width /\ db'.dim = last.width
        /\ block'.inside => block'.mark.dim = last.width
  BY <1>0 DEF MInv, Widths
<1>8. Claimed => Indexed(saved, {})' /\ (block'.inside => Indexed(block.mark, {})')
  BY <1>0 DEF MInv, Searchable, Indexed, history
<1>9. (Claimed \/ Rebuilt) /\ Settled' => Indexed(db, todo \cup MissingOf(s))'
  <2>1. ASSUME Claimed \/ Rebuilt, Settled'
        PROVE  Indexed(db, todo \cup MissingOf(s))
    <3>1. client'[c] = s
      BY <1>3 DEF MInv, MTypeInv, TypeOK, ConnectionTypeOK
    <3>2. s.pc = "raised" /\ phase = "engine"
      BY <1>0, <1>1, <1>3, <2>1, <3>1 DEF Settled, SettledAt, process
    <3>3. MissingOf(client[c]) = {}
      <4>1. backend \in {"sqlite", "postgres"}
        BY MTypeFacts DEF MInv
      <4>2. client[c].pc # "vector"
        BY <1>1, <1>3, <3>2, <4>1 DEF RolledBack, At, BlockPcs
      <4>3. client[c].pc \notin {"delete", "reinsert"}
        BY <1>1, <3>2 DEF At
      <4> QED BY <4>2, <4>3 DEF MissingOf
    <3>4. SettledAt(client[c])
      BY <1>0, <3>2 DEF SettledAt, Threw, Statements
    <3>5. Indexed(db, Missing)
      BY <1>0, <1>3, <2>1, <3>4, WasSettled DEF MInv, Searchable
    <3> QED BY <1>1, <3>3, <3>5 DEF Indexed
  <2>2. Indexed(db, todo \cup MissingOf(s)) => Indexed(db, todo \cup MissingOf(s))'
    BY <1>0 DEF Indexed, history
  <2> QED BY <2>1, <2>2
<1>10. s.pc \in Narrow /\ s.pc # "idle"
  BY <1>3 DEF Narrow
<1>11. UNCHANGED <<process, todo, last>> /\ dropped \subseteq dropped'
  BY <1>0 DEF history
<1> QED BY <1>1, <1>3, <1>4, <1>5, <1>6, <1>7, <1>8, <1>9, <1>10, <1>11, MoveKeeps

\* What has been written is committed, and the operation returns.
LEMMA CommittedKeeps ==
  ASSUME MInv, MTypeInv', NEW c \in Clients, client[c].pc = "commit", saved' = db, db' = db,
         Return(c), UNCHANGED <<process, dropped, todo, last, block>>
  PROVE  MInv'
<1>0. ~ Idle(c) /\ client' = [client EXCEPT ![c] = Returned] /\ Returned.pc = "idle"
  BY IdleRecords DEF Idle, Return
<1>1. /\ \A d \in Clients \ {c} : Idle(d)
      /\ phase \in {"engine", "script"} /\ (phase = "script" => last.how = "running")
      /\ ~ block.inside
      /\ Missing = todo \cup MissingOf(client[c])
      /\ Claimed => phase = "engine" /\ todo = {}
      /\ Claimed => Indexed(db, MissingOf(client[c]))
  BY <1>0, Busy DEF BlockPcs
<1>2. UNCHANGED <<backend, phase, block, todo, last, dropped>>
  BY DEF process
<1>3. At(Returned)'
  BY <1>0, <1>1, <1>2 DEF At, BlockPcs
<1>4. MissingOf(client[c]) = {} /\ MissingOf(Returned) = {}
  BY <1>0 DEF MissingOf
<1>5. last.how \in {"partial", "full"} /\ Redone => saved'.dim = last.width /\ db'.dim = last.width
  BY DEF MInv, Widths
<1>6. Claimed => Indexed(saved, {})'
  BY <1>1, <1>2, <1>4 DEF Indexed
<1>7. (Claimed \/ Rebuilt) /\ Settled' => Indexed(db, todo \cup MissingOf(Returned))'
  <2>1. ASSUME Claimed \/ Rebuilt, Settled'
        PROVE  Indexed(db, todo)
    <3>1. SettledAt(client[c])
      BY DEF SettledAt
    <3>2. Settled
      BY <1>0, <2>1, <3>1, WasSettled
    <3> QED BY <1>1, <1>4, <2>1, <3>2 DEF MInv, Searchable
  <2> QED BY <1>2, <1>4, <2>1 DEF Indexed
<1>8. client[c].pc \notin Narrow
  BY DEF Narrow
<1> QED BY <1>0, <1>1, <1>2, <1>3, <1>5, <1>6, <1>7, <1>8, MoveKeeps

LEMMA RollbackKeepsIndex ==
  ASSUME MInv, MTypeInv', NEW c \in Clients, backend = "sqlite", Rollback(c),
         UNCHANGED <<block, todo, last>>
  PROVE  MInv'
<1>0. /\ ~ Idle(c) /\ db' = saved /\ saved' = saved
      /\ client[c].pc \in {"unmatched", "rollback"}
      /\ UNCHANGED <<process, history>>
  BY DEF Rollback, Idle
<1>1. /\ \A d \in Clients \ {c} : Idle(d)
      /\ phase \in {"engine", "script"} /\ (phase = "script" => last.how = "running")
      /\ Claimed => phase = "engine" /\ todo = {}
  BY <1>0, Busy
<1>2. UNCHANGED <<backend, phase, block, todo, last, dropped>>
  BY <1>0 DEF process, history
<1>3. ~ block.inside
  BY DEF MInv, Entered
<1>4. PICK s : client' = [client EXCEPT ![c] = s] /\ s.pc \in {"rollback", "raised"}
  <2>1. CASE Goto(c, "rollback")
    <3>1. PICK s : client' = [client EXCEPT ![c] = s] /\ s.pc = "rollback"
      BY <2>1, GotoSame
    <3> QED BY <3>1
  <2>2. CASE Raise(c)
    BY <2>2, IdleRecords DEF Raise
  <2> QED BY <2>1, <2>2 DEF Rollback
<1>5. At(s)'
  BY <1>1, <1>2, <1>4 DEF At, BlockPcs
<1>6. last.how \in {"partial", "full"} /\ Redone => saved'.dim = last.width /\ db'.dim = last.width
  BY <1>0 DEF MInv, Widths
<1>7. Claimed => Indexed(saved, {})'
  BY <1>0, <1>2 DEF MInv, Searchable, Indexed
<1>8. (Claimed \/ Rebuilt) /\ Settled' => Indexed(db, todo \cup MissingOf(s))'
  <2>1. ASSUME Settled'
        PROVE  phase = "engine"
    <3>1. client'[c] = s
      BY <1>4 DEF MInv, MTypeInv, TypeOK, ConnectionTypeOK
    <3> QED BY <1>1, <1>2, <1>4, <2>1, <3>1 DEF Settled, SettledAt
  <2>2. Indexed(saved, {}) => Indexed(db, todo \cup MissingOf(s))'
    BY <1>0, <1>2 DEF Indexed
  <2> QED BY <2>1, <2>2 DEF MInv, Searchable, Rebuilt
<1>9. s.pc \in Narrow /\ s.pc # "idle"
  BY <1>4 DEF Narrow
<1> QED BY <1>0, <1>1, <1>2, <1>3, <1>4, <1>5, <1>6, <1>7, <1>8, <1>9, MoveKeeps

LEMMA EnterKeeps ==
  ASSUME MInv, MTypeInv', NEW c \in Clients, backend = "postgres", Enter(c), UNCHANGED <<todo, last>>
  PROVE  MInv'
<1> DEFINE pc == IF client[c].new = None THEN "drop"
                 ELSE IF client[c].old = None THEN "insert" ELSE "retire"
<1>0. /\ ~ Idle(c) /\ client[c].pc = "begin"
      /\ UNCHANGED <<process, db, saved, history>> /\ Goto(c, pc)
      /\ block' = [inside |-> TRUE, nested |-> txn = "open", mark |-> db]
  BY DEF Enter, Idle
<1>1. /\ \A d \in Clients \ {c} : Idle(d)
      /\ phase \in {"engine", "script"} /\ (phase = "script" => last.how = "running")
      /\ At(client[c])
      /\ Missing = todo \cup MissingOf(client[c])
      /\ Claimed => phase = "engine" /\ todo = {}
      /\ Claimed => Indexed(db, MissingOf(client[c]))
  BY <1>0, Busy
<1>2. /\ UNCHANGED <<backend, phase, todo, last, dropped>>
      /\ block'.inside /\ block'.mark = db
  BY <1>0 DEF process, history
<1>3. PICK s : /\ client' = [client EXCEPT ![c] = s]
               /\ s.pc = pc /\ s.new = client[c].new /\ s.old = client[c].old
  <2> HIDE DEF pc
  <2> QED BY <1>0, GotoSame
<1>4. s.pc = (IF phase = "script" THEN "drop" ELSE s.pc) /\ s.pc \in {"drop", "insert", "retire"}
      /\ (s.pc = "drop" => phase = "script")
  BY <1>0, <1>1, <1>3 DEF At
<1> HIDE DEF pc
<1>5. At(s)'
  BY <1>0, <1>1, <1>2, <1>4 DEF At
<1>6. s.pc \in BlockPcs /\ s.pc # "idle" /\ (phase = "script" => s.pc \in Narrow)
  BY <1>4 DEF BlockPcs, Narrow
<1>7. phase = "script" => saved.row = db.row
  BY DEF MInv, Steady
<1>8. last.how \in {"partial", "full"} /\ Redone => saved.dim = last.width /\ db.dim = last.width
  BY DEF MInv, Widths
<1>9. MissingOf(client[c]) = {} /\ MissingOf(s) = {}
  BY <1>0, <1>4 DEF MissingOf
<1>10. Claimed => Indexed(saved, {})' /\ Indexed(block.mark, {})'
  BY <1>0, <1>1, <1>2, <1>9 DEF MInv, Searchable, Indexed
<1>11. (Claimed \/ Rebuilt) /\ Settled' => Indexed(db, todo \cup MissingOf(s))'
  <2>1. ASSUME Claimed \/ Rebuilt, Settled'
        PROVE  Indexed(db, todo)
    <3>1. SettledAt(client[c])
      BY <1>0 DEF SettledAt
    <3>2. Settled
      BY <1>0, <1>3, <2>1, <3>1, WasSettled
    <3> QED BY <1>1, <1>9, <2>1, <3>2 DEF MInv, Searchable
  <2> QED BY <1>0, <1>2, <1>9, <2>1 DEF Indexed
<1> QED BY <1>0, <1>1, <1>2, <1>3, <1>5, <1>6, <1>7, <1>8, <1>10, <1>11, MoveKeeps

LEMMA ReleaseKeeps ==
  ASSUME MInv, MTypeInv', NEW c \in Clients, backend = "postgres", Release(c), UNCHANGED <<todo, last>>
  PROVE  MInv'
<1>0. /\ ~ Idle(c) /\ client[c].pc = "release" /\ Returned.pc = "idle"
      /\ client' = [client EXCEPT ![c] = Returned]
      /\ UNCHANGED <<process, db, dropped>> /\ saved' \in {saved, db}
      /\ block' = Outside
  BY IdleRecords DEF Release, Idle, Return
<1>1. /\ \A d \in Clients \ {c} : Idle(d)
      /\ phase \in {"engine", "script"} /\ (phase = "script" => last.how = "running")
      /\ phase = "script" => ~ last.wrote /\ todo = {}
      /\ Missing = todo \cup MissingOf(client[c])
      /\ Claimed => phase = "engine" /\ todo = {}
      /\ Claimed => Indexed(db, MissingOf(client[c]))
  BY <1>0, Busy DEF At
<1>2. UNCHANGED <<backend, phase, todo, last, dropped>> /\ ~ block'.inside
  BY <1>0 DEF process, Outside
<1>3. At(Returned)'
  BY <1>0, <1>1, <1>2 DEF At, BlockPcs
<1>4. MissingOf(client[c]) = {} /\ MissingOf(Returned) = {}
  BY <1>0 DEF MissingOf
<1>5. last.how \in {"partial", "full"} /\ Redone => saved'.dim = last.width /\ db'.dim = last.width
  BY <1>0 DEF MInv, Widths
<1>6. Claimed => Indexed(saved, {})'
  BY <1>0, <1>1, <1>2, <1>4 DEF MInv, Searchable, Indexed
<1>7. (Claimed \/ Rebuilt) /\ Settled' => Indexed(db, todo \cup MissingOf(Returned))'
  BY <1>0, <1>1, <1>2, <1>4 DEF Rebuilt, Indexed
<1>8. phase = "script" => saved'.row = db'.row /\ ~ Redone
  BY <1>0, <1>1 DEF MInv, Steady, Redone
<1>9. client[c].pc \notin Narrow
  BY <1>0 DEF Narrow
<1> QED BY <1>0, <1>1, <1>2, <1>3, <1>5, <1>6, <1>7, <1>8, <1>9, MoveKeeps

LEMMA UnwindKeeps ==
  ASSUME MInv, MTypeInv', NEW c \in Clients, backend = "postgres", Unwind(c), UNCHANGED <<todo, last>>
  PROVE  MInv'
<1>0. /\ ~ Idle(c) /\ client[c].pc = "rollback" /\ Raised.pc = "raised"
      /\ client' = [client EXCEPT ![c] = Raised]
      /\ UNCHANGED <<process, saved, history>> /\ db' = block.mark
      /\ block' = Outside
  BY IdleRecords DEF Unwind, Idle, Raise
<1>1. /\ \A d \in Clients \ {c} : Idle(d)
      /\ phase \in {"engine", "script"} /\ (phase = "script" => last.how = "running")
      /\ block.inside
      /\ Claimed => phase = "engine" /\ todo = {}
  BY <1>0, Busy DEF At, BlockPcs
<1>2. UNCHANGED <<backend, phase, todo, last, dropped>> /\ ~ block'.inside
  BY <1>0 DEF process, Outside, history
<1>3. At(Raised)'
  BY <1>0, <1>1, <1>2 DEF At, BlockPcs
<1>4. last.how \in {"partial", "full"} /\ Redone => saved'.dim = last.width /\ db'.dim = last.width
  BY <1>0, <1>1 DEF MInv, Widths
<1>5. Claimed => Indexed(saved, {})'
  BY <1>0, <1>2 DEF MInv, Searchable, Indexed
<1>6. (Claimed \/ Rebuilt) /\ Settled' => Indexed(db, todo \cup MissingOf(Raised))'
  <2>1. ASSUME Settled'
        PROVE  phase = "engine"
    <3>1. client'[c] = Raised
      BY <1>0 DEF MInv, MTypeInv, TypeOK, ConnectionTypeOK
    <3> QED BY <1>0, <1>1, <1>2, <2>1, <3>1 DEF Settled, SettledAt
  <2>2. Indexed(block.mark, {}) => Indexed(db, todo \cup MissingOf(Raised))'
    BY <1>0, <1>2 DEF Indexed
  <2> QED BY <1>1, <2>1, <2>2 DEF MInv, Searchable, Rebuilt
<1>7. phase = "script" => saved'.row = db'.row
  BY <1>0, <1>1 DEF MInv, Steady
<1>8. Raised.pc \in Narrow
  BY <1>0 DEF Narrow
<1> QED BY <1>0, <1>1, <1>2, <1>3, <1>4, <1>5, <1>6, <1>7, <1>8, MoveKeeps

LEMMA StepKeepsIndex ==
  ASSUME MInv, MTypeInv', NEW c \in Clients, Step(c)
  PROVE  MInv'
<1>1. UNCHANGED <<todo, last>> /\ MTypeInv
  BY DEF Step, MInv
<1>2. CASE Ran(c)
  BY <1>2, RanKeeps, RemakesIndex
<1>3. CASE Threw(c)
  BY <1>3, ThrewKeeps
<1>4. CASE backend = "sqlite" /\ UNCHANGED block /\ Commit(c)
  BY <1>1, <1>4, CommittedKeeps DEF Commit
<1>5. CASE backend = "sqlite" /\ UNCHANGED block /\ Rollback(c)
  BY <1>1, <1>5, RollbackKeepsIndex
<1>6. CASE backend = "postgres" /\ Enter(c)
  BY <1>1, <1>6, EnterKeeps
<1>7. CASE backend = "postgres" /\ Release(c)
  BY <1>1, <1>7, ReleaseKeeps
<1>8. CASE backend = "postgres" /\ Unwind(c)
  BY <1>1, <1>8, UnwindKeeps
<1>9. CASE backend = "postgres" /\ PgCommit(c)
  BY <1>1, <1>9, CommittedKeeps DEF PgCommit
<1>10. backend \in {"sqlite", "postgres"}
  BY <1>1, MTypeFacts
<1> QED BY <1>1, <1>2, <1>3, <1>4, <1>5, <1>6, <1>7, <1>8, <1>9, <1>10, SqliteRuns, PostgresRuns DEF Step

\* What the invariant says when no operation is under way.
LEMMA AtEase ==
  ASSUME MInv, \A c \in Clients : Idle(c)
  PROVE  /\ ~ block.inside /\ Missing = todo
         /\ Claimed => todo = {}
         /\ Claimed /\ (phase = "engine" \/ Quiet) => Indexed(db, {})
<1>1. ~ block.inside
  BY DEF MInv, Entered, BlockPcs, Idle
<1>2. Missing = todo
  BY DEF Missing, MissingOf, Idle
<1>3. Claimed => todo = {}
  BY DEF MInv, Steady, Claimed
<1>4. phase = "engine" \/ Quiet => Settled
  BY DEF Settled, SettledAt, Idle, Quiet
<1> QED BY <1>1, <1>2, <1>3, <1>4 DEF MInv, Searchable

LEMMA EngineCallsKeep ==
  ASSUME Serialized, MInv, MTypeInv', NEW c \in Clients, EngineCalls(c)
  PROVE  MInv'
<1>1. ASSUME NEW pc \in {"begin", "update", "unindex", "select", "knn"},
             NEW old \in Ids \cup {None}, NEW new \in Ids \cup {None}, Call(c, pc, old, new),
             phase = "engine", \A d \in Clients : Idle(d),
             pc = "begin" => new \in Ids
      PROVE  MInv'
  <2> DEFINE s == [pc |-> pc, new |-> new, old |-> old]
  <2>1. /\ client' = [client EXCEPT ![c] = s]
        /\ UNCHANGED <<process, db, saved, block, todo, last>>
        /\ dropped' = IF pc = "unindex" THEN dropped \cup {old} ELSE dropped
    BY <1>1 DEF Call, EngineCalls
  <2>2. s.pc = pc /\ s.new = new /\ s.old = old
    OBVIOUS
  <2> HIDE DEF s
  <2>3. dropped \subseteq dropped' /\ (pc = "unindex" => old \in dropped')
    BY <2>1
  <2>4. phase' = "engine" /\ None \notin Ids
    BY <1>1, <2>1, ConnectionAssumption DEF process
  <2>5. At(s)'
    BY <1>1, <2>2, <2>3, <2>4 DEF At, BlockPcs
  <2>6. ~ block.inside /\ Missing = todo
    BY <1>1, AtEase
  <2>7. Claimed => todo = {} /\ Indexed(db, {})
    BY <1>1, AtEase
  <2>8. last.how \in {"partial", "full"} /\ Redone => saved.dim = last.width /\ db.dim = last.width
    BY DEF MInv, Widths
  <2>9. Claimed => Indexed(saved, {})'
    BY <2>1, <2>3 DEF MInv, Searchable, Indexed
  <2>10. (Claimed \/ Rebuilt) /\ Settled' => Indexed(db, todo \cup MissingOf(s))'
    BY <1>1, <2>1, <2>3, <2>7 DEF Rebuilt, Indexed
  <2> QED BY <1>1, <2>1, <2>2, <2>3, <2>5, <2>6, <2>8, <2>9, <2>10, MoveKeeps
<1>2. used \subseteq Ids
  BY MTypeFacts DEF MInv
<1>3. CASE CallInsert(c)
  BY <1>1, <1>2, <1>3 DEF CallInsert, MayCall
<1>4. CASE CallUpdate(c)
  BY <1>1, <1>2, <1>4 DEF CallUpdate, MayCall
<1>5. CASE CallRead(c)
  BY <1>1, <1>5 DEF CallRead, MayCall
<1> QED BY <1>3, <1>4, <1>5 DEF EngineCalls

-----------------------------------------------------------------------------
(***************************************************************************)
(* The life of the database: opened, migrated, used, left.                 *)
(***************************************************************************)

\* open() changes an index only where there was none.
LEMMA OpenKeeps ==
  ASSUME MInv, NEW d \in Dims, Open(d)
  PROVE  /\ \A c \in Clients : client[c].pc = "idle"
         /\ ~ block.inside /\ block' = block /\ dropped' = dropped /\ backend' = backend
         /\ width' = d /\ saved' = db'
         /\ last.how \in {"partial", "full"} /\ Redone => db'.dim = last.width
         /\ Claimed => Indexed(db, {})'
<1>1. /\ phase = "down" /\ saved' = db' /\ width' = d
      /\ block' = block /\ dropped' = dropped /\ backend' = backend
      /\ db' = IF db.dim = None THEN WithIndex(db, d) ELSE db
  BY DEF Open, history
<1>2. \A c \in Clients : client[c].pc = "idle"
  BY <1>1 DEF MInv, At
<1>3. Quiet /\ \A c \in Clients : Idle(c)
  BY <1>2 DEF Quiet, Idle
<1>4. db \in Table
  BY DEF MInv, MTypeInv, TypeOK, ConnectionTypeOK
<1>5. db'.row = db.row /\ db'.vec = db.vec
  BY <1>1, <1>4, IndexFields
<1>6. ASSUME last.how \in {"partial", "full"}, Redone
      PROVE  db'.dim = last.width
  <2>1. db.dim = last.width /\ last.width \in Dims
    BY <1>6 DEF MInv, Widths, Steady
  <2> QED BY <1>1, <2>1, ConnectionAssumption
<1>7. Claimed => Indexed(db, {})
  BY <1>3, AtEase
<1>8. Indexed(db, {}) => Indexed(db, {})'
  BY <1>1, <1>5 DEF Indexed
<1> QED BY <1>1, <1>2, <1>3, <1>6, <1>7, <1>8, AtEase

LEMMA StartEngineKeeps ==
  ASSUME MInv, MTypeInv', NEW d \in Dims, StartEngine(d)
  PROVE  MInv'
<1>1. /\ \A c \in Clients : client[c].pc = "idle"
      /\ ~ block.inside /\ block' = block /\ dropped' = dropped /\ backend' = backend
      /\ saved' = db'
      /\ last.how \in {"partial", "full"} /\ Redone => db'.dim = last.width
      /\ Claimed => Indexed(db, {})'
  BY OpenKeeps DEF StartEngine
<1>2. phase' = "engine" /\ UNCHANGED <<client, todo, last>>
  BY DEF StartEngine
<1>3. OneAtATime' /\ \A c \in Clients : At(client[c])'
  BY <1>1, <1>2 DEF OneAtATime, Idle, At, BlockPcs
<1>4. Entered'
  BY <1>1, <1>2 DEF Entered
<1>5. Steady'
  BY <1>2 DEF MInv, Steady
<1>6. Redone' = Redone /\ Claimed' = Claimed /\ ~ Rebuilt'
  BY <1>1, <1>2 DEF Redone, Claimed, Rebuilt
<1>7. Widths'
  BY <1>1, <1>2, <1>6 DEF Widths
<1>8. Searchable'
  <2>1. Indexed(db, {})' => Indexed(saved, {})' /\ Indexed(db, Missing)'
    BY <1>1 DEF Indexed
  <2> QED BY <1>1, <1>6, <2>1 DEF Searchable
<1> QED BY <1>3, <1>4, <1>5, <1>7, <1>8 DEF MInv

LEMMA StartScriptKeeps ==
  ASSUME MInv, MTypeInv', NEW c \in Clients, NEW d \in Dims, NEW all \in BOOLEAN,
         StartScript(c, d, all)
  PROVE  MInv'
<1>0. PICK s : s = [Returned EXCEPT !.pc = IF backend = "sqlite" THEN "drop" ELSE "begin"]
  OBVIOUS
<1>1. /\ \A e \in Clients : client[e].pc = "idle"
      /\ ~ block.inside /\ block' = block /\ dropped' = dropped /\ backend' = backend
      /\ saved' = db' /\ width' = d
  BY OpenKeeps DEF StartScript
<1>2. /\ phase' = "script" /\ todo' = {} /\ client' = [client EXCEPT ![c] = s]
      /\ last'.how = "running" /\ last'.width = d /\ last'.wrote = FALSE
  BY <1>0 DEF StartScript
<1>3. s.pc = (IF backend = "sqlite" THEN "drop" ELSE "begin") /\ s.new = None
  BY <1>0 DEF Returned
<1>4. client'[c] = s /\ \A e \in Clients \ {c} : client'[e].pc = "idle"
  BY <1>1, <1>2 DEF MInv, MTypeInv, TypeOK, ConnectionTypeOK
<1>5. OneAtATime' /\ \A e \in Clients : At(client[e])'
  <2>1. OneAtATime'
    BY <1>4 DEF OneAtATime, Idle
  <2>2. At(s)'
    BY <1>1, <1>2, <1>3 DEF At, BlockPcs
  <2>3. \A e \in Clients \ {c} : At(client[e])'
    BY <1>2, <1>4 DEF At, BlockPcs
  <2> QED BY <1>4, <2>1, <2>2, <2>3
<1>6. Entered' /\ ~ Quiet'
  BY <1>1, <1>3, <1>4 DEF Entered, Quiet
<1>7. Steady'
  BY <1>1, <1>2, <1>6 DEF Steady
<1>8. ~ Claimed' /\ ~ Rebuilt'
  BY <1>2 DEF Claimed, Rebuilt
<1>9. Widths'
  <2>1. s.pc \in Narrow \/ backend # "sqlite"
    BY <1>3 DEF Narrow
  <2>2. s.pc \in Narrow \/ db'.dim = width'
    <3>1. CASE backend = "sqlite"
      BY <2>1, <3>1
    <3>2. CASE backend # "sqlite"
      BY <1>3, <3>2 DEF Narrow
    <3> QED BY <3>1, <3>2
  <2> QED BY <1>1, <1>2, <1>4, <2>2 DEF Widths
<1>10. Searchable'
  BY <1>8 DEF Searchable
<1> QED BY <1>5, <1>6, <1>7, <1>9, <1>10 DEF MInv

LEMMA ScanKeeps ==
  ASSUME MInv, MTypeInv', Scan
  PROVE  MInv'
<1>1. /\ phase = "script" /\ Quiet /\ last.how = "running" /\ todo = {} /\ ~ last.wrote
      /\ last.all => todo' = LiveIds
      /\ UNCHANGED <<process, db, saved, client, history, block, last>>
  BY DEF Scan
<1>2. UNCHANGED <<backend, phase, width, db, saved, client, dropped, block, last>>
  BY <1>1 DEF process, history
<1>3. \A c \in Clients : client[c].pc = "idle"
  BY <1>1 DEF Quiet
<1>4. OneAtATime' /\ \A c \in Clients : At(client[c])'
  BY <1>1, <1>2, <1>3 DEF OneAtATime, Idle, At, BlockPcs
<1>5. Entered'
  BY <1>2 DEF MInv, Entered
<1>6. Steady'
  BY <1>1, <1>2 DEF MInv, Steady, Quiet, Redone
<1>7. Widths'
  BY <1>1, <1>2 DEF MInv, Widths, Redone
<1>8. ~ Claimed' /\ (Rebuilt' => todo' = LiveIds)
  BY <1>1, <1>2 DEF Claimed, Rebuilt
<1>9. todo' = LiveIds => Indexed(db, Missing)'
  BY <1>2 DEF LiveIds, Indexed, Missing
<1>10. Searchable'
  BY <1>8, <1>9 DEF Searchable
<1> QED BY <1>4, <1>5, <1>6, <1>7, <1>10 DEF MInv

LEMMA ReembedKeeps ==
  ASSUME MInv, MTypeInv', NEW c \in Clients, Reembed(c)
  PROVE  MInv'
<1>1. PICK r \in todo :
        /\ todo' = todo \ {r}
        /\ client' = [client EXCEPT ![c] = [Returned EXCEPT !.old = r, !.pc =
                        IF backend = "sqlite" THEN "delete" ELSE "reinsert"]]
  BY DEF Reembed
<1>2. PICK s : s = [Returned EXCEPT !.old = r, !.pc =
                      IF backend = "sqlite" THEN "delete" ELSE "reinsert"]
  OBVIOUS
<1>3. /\ phase = "script" /\ Quiet /\ last' = [last EXCEPT !.wrote = TRUE]
      /\ UNCHANGED <<backend, phase, width, db, saved, dropped, block>>
  BY DEF Reembed, process, history
<1>4. s.pc \in {"delete", "reinsert"} /\ s.old = r /\ s.new = None
  BY <1>2 DEF Returned
<1>5. \A d \in Clients : client[d].pc = "idle" /\ Idle(d)
  BY <1>3 DEF Quiet, Idle
<1>6. client'[c] = s /\ \A d \in Clients \ {c} : client'[d].pc = "idle"
  BY <1>1, <1>2, <1>5 DEF MInv, MTypeInv, TypeOK, ConnectionTypeOK
<1>7. last.how = "running"
  BY <1>1 DEF MInv, Steady
<1>8. last'.how = "running" /\ last'.width = last.width /\ last'.all = last.all /\ last'.wrote
  BY <1>3, <1>7 DEF MInv, MTypeInv, TypeOK, Migrations
<1>9. OneAtATime' /\ \A d \in Clients : At(client[d])'
  <2>1. OneAtATime'
    BY <1>6 DEF OneAtATime, Idle
  <2>2. At(s)'
    BY <1>3, <1>4, <1>8 DEF At, BlockPcs
  <2>3. \A d \in Clients \ {c} : At(client[d])'
    BY <1>3, <1>6 DEF At, BlockPcs
  <2> QED BY <1>6, <2>1, <2>2, <2>3
<1>10. ~ block.inside /\ Missing = todo
  BY <1>5, AtEase
<1>11. Entered' /\ ~ Quiet'
  BY <1>3, <1>4, <1>6, <1>10 DEF Entered, Quiet
<1>12. Steady'
  BY <1>3, <1>8, <1>10, <1>11 DEF MInv, Steady
<1>13. db.dim = width /\ width = last.width
  BY <1>3, <1>5, <1>7 DEF MInv, Widths, Narrow
<1>14. Widths'
  BY <1>3, <1>8, <1>13 DEF Widths
<1>15. Missing' = todo
  <2>1. \A d \in Clients \ {c} : MissingOf(client'[d]) = {}
    BY <1>6 DEF MissingOf
  <2>2. UNION {MissingOf(client'[d]) : d \in Clients} = MissingOf(s)
    BY <1>6, <2>1
  <2>3. MissingOf(s) = {r}
    BY <1>4 DEF MissingOf
  <2> QED BY <1>1, <2>2, <2>3 DEF Missing
<1>16. Rebuilt' => Indexed(db, todo)
  <2>1. Settled
    BY <1>5 DEF Settled, SettledAt
  <2> QED BY <1>1, <1>3, <1>7, <1>8, <1>10, <2>1 DEF MInv, Searchable, Rebuilt
<1>17. ~ Claimed'
  BY <1>8 DEF Claimed
<1>18. Indexed(db, todo) => Indexed(db, Missing)'
  BY <1>3, <1>15 DEF Indexed
<1> QED BY <1>9, <1>11, <1>12, <1>14, <1>16, <1>17, <1>18 DEF MInv, Searchable

\* The script finishes: what it has committed is complete.
LEMMA FinishKeeps ==
  ASSUME MInv, MTypeInv', Finish
  PROVE  MInv'
<1>1. /\ phase = "script" /\ Quiet /\ last.how = "running" /\ todo = {}
      /\ last.wrote \/ ~ last.all \/ LiveIds = {}
      /\ last' = [last EXCEPT !.how = IF last.all THEN "full" ELSE "partial"]
      /\ UNCHANGED <<backend, phase, width, db, saved, client, dropped, block, todo>>
  BY DEF Finish, connectionVars, process, history
<1>2. \A c \in Clients : client[c].pc = "idle" /\ Idle(c)
  BY <1>1 DEF Quiet, Idle
<1>3. last'.how = (IF last.all THEN "full" ELSE "partial") /\ last'.width = last.width
      /\ last'.wrote = last.wrote
  BY <1>1 DEF MInv, MTypeInv, TypeOK, Migrations
<1>4. ~ block.inside /\ Missing = todo
  BY <1>2, AtEase
<1>5. OneAtATime' /\ \A c \in Clients : At(client[c])'
  BY <1>1, <1>2 DEF OneAtATime, Idle, At, BlockPcs
<1>6. Entered'
  BY <1>1, <1>4 DEF Entered
<1>7. Redone' = Redone /\ Quiet' = Quiet
  BY <1>1, <1>3 DEF Redone, Quiet
<1>8. saved.row = db.row /\ (Redone => db = saved) /\ last.width \in Dims
  BY <1>1 DEF MInv, Steady
<1>9. Steady'
  BY <1>1, <1>3, <1>4, <1>7, <1>8 DEF Steady
<1>10. db.dim = width /\ width = last.width
  BY <1>1, <1>2 DEF MInv, Widths, Narrow
<1>11. Widths'
  BY <1>1, <1>3, <1>4, <1>7, <1>8, <1>10 DEF Widths
<1>12. ~ Rebuilt'
  BY <1>3 DEF Rebuilt
<1>13. ASSUME Claimed'
       PROVE  Indexed(db, {}) /\ Indexed(saved, {})
  <2>1. last.all
    BY <1>3, <1>13 DEF Claimed
  <2>2. CASE last.wrote
    <3>1. Settled /\ Rebuilt
      BY <1>1, <1>2, <2>1, <2>2 DEF Settled, SettledAt, Rebuilt
    <3>2. Indexed(db, {})
      BY <1>1, <1>4, <3>1 DEF MInv, Searchable
    <3> QED BY <1>8, <2>2, <3>2 DEF Redone
  <2>3. CASE LiveIds = {}
    BY <1>8, <2>3 DEF LiveIds, Indexed
  <2> QED BY <1>1, <2>1, <2>2, <2>3
<1>14. Searchable'
  <2>1. Indexed(db, {}) /\ Indexed(saved, {}) => Indexed(saved, {})' /\ Indexed(db, Missing)'
    BY <1>1 DEF Indexed
  <2> QED BY <1>1, <1>4, <1>12, <1>13, <2>1 DEF Searchable
<1> QED BY <1>5, <1>6, <1>9, <1>11, <1>14 DEF MInv

LEMMA ContinueKeeps ==
  ASSUME MInv, MTypeInv', Continue
  PROVE  MInv'
<1>1. /\ Quiet /\ last.how # "running" /\ phase' = "engine"
      /\ UNCHANGED <<backend, width, db, saved, client, dropped, block, todo, last>>
  BY DEF Continue, history
<1>2. \A c \in Clients : client[c].pc = "idle" /\ Idle(c)
  BY <1>1 DEF Quiet, Idle
<1>3. ~ block.inside
  BY <1>2, AtEase
<1>4. Claimed => Indexed(db, {})
  BY <1>1, <1>2, AtEase
<1>5. OneAtATime' /\ \A c \in Clients : At(client[c])'
  BY <1>1, <1>2 DEF OneAtATime, Idle, At, BlockPcs
<1>6. Entered' /\ Steady' /\ Widths'
  BY <1>1, <1>3 DEF MInv, Entered, Steady, Widths, Redone
<1>7. Claimed' = Claimed /\ ~ Rebuilt'
  BY <1>1 DEF Claimed, Rebuilt
<1>8. Searchable'
  <2>1. Indexed(db, {}) => Indexed(db, Missing)'
    BY <1>1 DEF Indexed
  <2>2. Indexed(saved, {}) => Indexed(saved, {})'
    BY <1>1 DEF Indexed
  <2> QED BY <1>1, <1>3, <1>4, <1>7, <2>1, <2>2 DEF MInv, Searchable
<1> QED BY <1>5, <1>6, <1>8 DEF MInv

\* Whatever the process was doing when it died, what is on disk was complete.
LEMMA ExitKeeps ==
  ASSUME MInv, MTypeInv', Exit
  PROVE  MInv'
<1>1. /\ phase' = "down" /\ db' = saved /\ client' = [c \in Clients |-> Returned]
      /\ UNCHANGED <<saved, dropped, backend, width, last>>
      /\ block' = Outside /\ todo' = {}
  BY DEF Exit, Drop
<1>2. ~ block'.inside /\ \A c \in Clients : client'[c].pc = "idle"
  BY <1>1, IdleRecords DEF Outside
<1>3. OneAtATime' /\ \A c \in Clients : At(client[c])'
  BY <1>1, <1>2 DEF OneAtATime, Idle, At, BlockPcs
<1>4. Entered' /\ Steady' /\ Widths'
  BY <1>1, <1>2 DEF MInv, Entered, Steady, Widths, Redone
<1>5. Claimed' = Claimed /\ ~ Rebuilt'
  BY <1>1 DEF Claimed, Rebuilt
<1>6. Searchable'
  <2>1. Indexed(saved, {}) => Indexed(saved, {})' /\ Indexed(db, Missing)'
    BY <1>1 DEF Indexed
  <2> QED BY <1>2, <1>5, <2>1 DEF MInv, Searchable
<1> QED BY <1>3, <1>4, <1>6 DEF MInv

LEMMA MInvKept ==
  ASSUME Serialized, MInv, MTypeInv', [Next]_migrationVars
  PROVE  MInv'
<1>1. CASE UNCHANGED migrationVars
  <2>1. UNCHANGED <<backend, phase, width, db, saved, client, dropped, block, todo, last>>
    BY <1>1 DEF migrationVars, postgresVars, connectionVars, process, history
  <2>2. OneAtATime' /\ (\A c \in Clients : At(client[c])') /\ Entered'
    BY <2>1 DEF MInv, OneAtATime, Idle, At, Entered
  <2>3. Steady' /\ Widths'
    BY <2>1 DEF MInv, Steady, Widths, Redone, Quiet
  <2>4. Searchable'
    BY <2>1 DEF MInv, Searchable, Claimed, Rebuilt, Settled, SettledAt, Indexed, Missing, MissingOf
  <2> QED BY <2>2, <2>3, <2>4 DEF MInv
<1> QED BY <1>1, StepKeepsIndex, EngineCallsKeep, ReembedKeeps, StartEngineKeeps, StartScriptKeeps,
           ScanKeeps, FinishKeeps, ContinueKeeps, ExitKeeps DEF Next

LEMMA MInvInitially ==
  ASSUME Init
  PROVE  MInv
<1>1. /\ phase = "down" /\ db = EmptyTable /\ saved = EmptyTable /\ block = Outside
      /\ todo = {} /\ last = Never /\ client = [c \in Clients |-> Returned]
  BY DEF Init, ConnectionInit
<1>2. \A c \in Clients : client[c].pc = "idle"
  BY <1>1, IdleRecords
<1>3. ~ block.inside
  BY <1>1 DEF Outside
<1>4. OneAtATime /\ \A c \in Clients : At(client[c])
  BY <1>1, <1>2 DEF OneAtATime, Idle, At, BlockPcs
<1>5. Entered /\ Steady /\ Widths
  BY <1>1, <1>3 DEF Entered, Steady, Widths, Never
<1>6. \A r \in Ids : EmptyTable.row[r] = "absent"
  BY DEF EmptyTable
<1>7. Searchable
  BY <1>1, <1>3, <1>6 DEF Searchable, Indexed
<1> QED BY <1>4, <1>5, <1>7, MTypesInitially DEF MInv

LEMMA MInvAlways ==
  ASSUME Serialized
  PROVE  Spec => []MInv
<1>1. Init => MInv
  BY MInvInitially
<1>2. MInv /\ [Next]_migrationVars => MInv'
  BY MTypesKept, MInvKept DEF MInv
<1> QED BY <1>1, <1>2, PTL DEF Spec

\* While operations take turns, in any number of processes that open the database one
\* after another, migrate it in whole or part or die doing so: while the last
\* migration of the whole store has finished, each live record on disk has its vector.
THEOREM EveryLiveRecordIndexed ==
  ASSUME Serialized
  PROVE  Spec => []LiveIndexed
<1>1. MInv => LiveIndexed
  BY DEF MInv, Searchable, Claimed, Indexed, LiveIndexed
<1> QED BY <1>1, MInvAlways, PTL

\* A migration that has finished has left on disk the index of its own width.
THEOREM IndexAsWideAsMigrated ==
  ASSUME Serialized
  PROVE  Spec => []MigratedWidth
<1>1. MInv => MigratedWidth
  BY DEF MInv, Widths, Redone, MigratedWidth
<1> QED BY <1>1, MInvAlways, PTL

-----------------------------------------------------------------------------
(***************************************************************************)
(* Part three: the life of a database, and its operations.                 *)
(*                                                                         *)
(* Operations are whole.  The tables as the last whole operation left them *)
(* are, on SQLite, those on disk; on Postgres those the connection sees,   *)
(* or saw when it entered the block it is in.  The invariant says, for     *)
(* each statement an operation may stand at, what it has done to them.     *)
(***************************************************************************)
Whole == IF backend = "sqlite" THEN saved ELSE IF block.inside THEN block.mark ELSE db

\* An insert's arguments: a new id, and for supersede an old one.
Inserting(k) ==
  /\ k.new \in Ids \cap used /\ Whole.row[k.new] = "absent"
  /\ k.old \in Ids \cup {None} /\ k.old # k.new

\* The tables an insert puts its row into, once it has retired the old one.
RowsFor(k) == IF k.old = None THEN Whole ELSE WithRetired(Whole, k.old, k.new)

\* The whole of an insert.
Inserted(k) ==
  /\ Inserting(k) /\ (k.old # None => Whole.row[k.old] # "absent")
  /\ db = WithVector(WithRow(RowsFor(k), k.new), k.new)

\* The whole of an operation on one record that is there.
Changed(k) ==
  /\ k.new = None /\ k.old \in Ids
  /\ \/ db = WithRetired(Whole, k.old, None)
     \/ db = WithoutVector(Whole, k.old)
     \/ db = WithVector(WithoutVector(Whole, k.old), k.old)

\* The same rows, and no vector.
Emptied == db.row = Whole.row /\ db.by = Whole.by /\ db.vec = {}

Done(k) ==
  /\ k.pc = "begin" => db = Whole /\ (k.new # None => Inserting(k))
  /\ k.pc = "retire" => db = Whole /\ Inserting(k) /\ k.old # None
  /\ k.pc \in {"insert", "vector"} =>
       /\ Inserting(k) /\ (k.old # None => Whole.row[k.old] # "absent")
       /\ db = IF k.pc = "insert" THEN RowsFor(k) ELSE WithRow(RowsFor(k), k.new)
  /\ k.pc \in {"update", "unindex", "delete"} => db = Whole /\ k.new = None /\ k.old \in Ids
  /\ k.pc = "reinsert" =>
       /\ k.new = None /\ k.old \in Ids
       /\ db = IF backend = "sqlite" THEN WithoutVector(Whole, k.old) ELSE Whole
  /\ k.pc \in {"drop", "create"} => k.new = None
  /\ k.pc \in {"select", "knn"} => backend = "postgres"
  /\ k.pc = "delete" => backend = "sqlite"
  /\ k.pc = "drop" => db = Whole
  /\ k.pc = "create" => Emptied
  /\ k.pc = "release" => Inserted(k) \/ (k.new = None /\ Emptied)
  /\ k.pc = "commit" /\ backend = "sqlite" => Inserted(k) \/ Changed(k) \/ (k.new = None /\ db = Whole)
  /\ backend = "sqlite" /\ k.pc \in {"drop", "create"} => txn = "none" /\ db = saved

\* Between operations, but for one of the script that raised, nothing is left to be
\* committed; a transaction is left open only by an operation that raised.
Rested ==
  /\ backend = "sqlite" /\ (\A c \in Clients : Idle(c)) /\ (phase = "script" => Quiet) =>
       db = saved /\ (Quiet => txn = "none")
  /\ phase = "down" => db = saved

\* Ids are used once, and no acknowledged record is missing.
Accounted ==
  /\ \A r \in Ids : Whole.row[r] # "absent" \/ saved.row[r] # "absent" => r \in used
  /\ \A r \in acked : Whole.row[r] # "absent"
  /\ \A r \in settled : saved.row[r] # "absent"

WInv == MInv /\ (\A c \in Clients : Done(client[c])) /\ Rested /\ Accounted

\* What a step does to the tables and to the disk.
WholeStep ==
  \/ /\ Same(Whole, Whole') \/ OneOp(Whole, Whole')
     /\ Same(saved, saved') \/ Same(Whole', saved')
  \/ Same(saved, Whole') /\ Same(saved, saved')

LEMMA WholeIsTable ==
  ASSUME MInv
  PROVE  Whole \in Table /\ db \in Table /\ saved \in Table /\ backend \in {"sqlite", "postgres"}
BY DEF MInv, MTypeInv, TypeOK, ConnectionTypeOK, BlockType, Whole

\* A step of one coroutine.
LEMMA WholeMoved ==
  ASSUME WInv, MInv', NEW c \in Clients, \A d \in Clients \ {c} : Idle(d),
         UNCHANGED process, phase # "down",
         NEW s, client' = [client EXCEPT ![c] = s], Done(s)',
         backend = "sqlite" /\ s.pc \in {"idle", "raised"} /\ (phase = "script" => s.pc = "idle") =>
           db' = saved' /\ (s.pc = "idle" => txn' = "none"),
         Accounted'
  PROVE  WInv'
<1>1. client'[c] = s /\ \A d \in Clients \ {c} : client'[d] = client[d] /\ Idle(d)'
  BY DEF WInv, MInv, MTypeInv, TypeOK, ConnectionTypeOK, Idle
<1>2. \A d \in Clients : Done(client[d])'
  <2>1. \A d \in Clients \ {c} : Done(client[d])'
    BY <1>1 DEF Done, Idle
  <2> QED BY <1>1, <2>1
<1>3. Rested'
  <2>1. backend' = backend /\ phase' = phase
    BY DEF process
  <2>2. (\A d \in Clients : Idle(d))' => s.pc \in {"idle", "raised"}
    BY <1>1 DEF Idle
  <2>3. Quiet' => s.pc = "idle"
    BY <1>1 DEF Quiet
  <2> QED BY <2>1, <2>2, <2>3 DEF Rested
<1> QED BY <1>2, <1>3 DEF WInv

\* A step that leaves the tables of the last whole operation and the disk alone.
LEMMA WholeStayed ==
  ASSUME WInv, MInv', NEW c \in Clients, \A d \in Clients \ {c} : Idle(d),
         UNCHANGED process, phase # "down", Whole' = Whole, saved' = saved,
         used \subseteq used', acked' = acked, settled' = settled,
         NEW s, client' = [client EXCEPT ![c] = s], Done(s)',
         backend = "sqlite" /\ s.pc \in {"idle", "raised"} /\ (phase = "script" => s.pc = "idle") =>
           db' = saved' /\ (s.pc = "idle" => txn' = "none")
  PROVE  WInv' /\ WholeStep
<1>1. Accounted'
  BY DEF WInv, Accounted
<1>2. WholeStep
  BY DEF WholeStep, Same
<1> QED BY <1>1, <1>2, WholeMoved

\* A step that is a whole operation, or makes whole operations durable.
LEMMA WholeDone ==
  ASSUME WInv, MInv', NEW c \in Clients, \A d \in Clients \ {c} : Idle(d),
         UNCHANGED <<process, used>>, phase # "down",
         Same(Whole, Whole') \/ OneOp(Whole, Whole'), There(Whole) \subseteq There(Whole'),
         There(Whole') \subseteq used, acked' \subseteq acked \cup There(Whole'),
         \/ saved' = saved /\ settled' = settled
         \/ saved' = Whole' /\ (settled' = acked' \/ (saved = Whole /\ settled' = settled)),
         NEW s, client' = [client EXCEPT ![c] = s], Done(s)',
         backend = "sqlite" /\ s.pc \in {"idle", "raised"} /\ (phase = "script" => s.pc = "idle") =>
           db' = saved' /\ (s.pc = "idle" => txn' = "none")
  PROVE  WInv' /\ WholeStep
<1>1. PICK w : w = Whole'
  OBVIOUS
<1>2. /\ \A r \in acked : Whole.row[r] # "absent"
      /\ \A r \in settled : saved.row[r] # "absent"
      /\ \A r \in Ids : saved.row[r] # "absent" => r \in used
      /\ acked \subseteq Ids /\ settled \subseteq Ids
  BY DEF WInv, Accounted, MInv, MTypeInv, TypeOK, ConnectionTypeOK
<1>3. acked \subseteq There(Whole) /\ settled \subseteq There(saved) /\ There(saved) \subseteq used
  BY <1>2 DEF There
<1>4. acked' \subseteq There(w)
  BY <1>1, <1>3
<1>5. settled' \subseteq There(saved')
  <2>1. CASE saved' = saved /\ settled' = settled
    BY <1>3, <2>1
  <2>2. CASE saved' = Whole' /\ settled' = acked'
    BY <1>1, <1>4, <2>2
  <2>3. CASE saved' = Whole' /\ saved = Whole /\ settled' = settled
    BY <1>1, <1>3, <2>3
  <2> QED BY <2>1, <2>2, <2>3
<1>6. There(saved') \subseteq used
  BY <1>1, <1>3
<1>7. Accounted'
  BY <1>1, <1>4, <1>5, <1>6 DEF Accounted, There
<1>8. WholeStep
  BY DEF WholeStep, Same
<1> QED BY <1>7, <1>8, WholeMoved

LEMMA InsertedWhole ==
  ASSUME MInv, NEW k, Inserted(k)
  PROVE  OneOp(Whole, db) /\ There(db) = There(Whole) \cup {k.new} /\ k.new \in Ids \cap used
<1>1. Whole \in Table
  BY WholeIsTable
<1>2. /\ k.new \in Ids \cap used /\ Whole.row[k.new] = "absent"
      /\ k.old \in Ids \cup {None} /\ k.old # k.new /\ (k.old # None => Whole.row[k.old] # "absent")
      /\ db = WithVector(WithRow(IF k.old = None THEN Whole
                                 ELSE WithRetired(Whole, k.old, k.new), k.new), k.new)
  BY DEF Inserted, Inserting, RowsFor
<1> QED BY <1>1, <1>2, InsertIsOneOp

LEMMA ChangedWhole ==
  ASSUME MInv, NEW k, Changed(k)
  PROVE  (Same(Whole, db) \/ OneOp(Whole, db)) /\ There(db) = There(Whole)
<1>1. Whole \in Table /\ k.old \in Ids
  BY WholeIsTable DEF Changed
<1>2. CASE db = WithRetired(Whole, k.old, None)
  BY <1>1, <1>2, RetireIsOneOp
<1>3. CASE db = WithoutVector(Whole, k.old)
  BY <1>1, <1>3, VectorIsOneOp
<1>4. CASE db = WithVector(WithoutVector(Whole, k.old), k.old)
  BY <1>1, <1>4, VectorIsOneOp
<1> QED BY <1>2, <1>3, <1>4 DEF Changed

LEMMA EmptiedWhole ==
  ASSUME Emptied
  PROVE  OneOp(Whole, db) /\ There(db) = There(Whole)
BY DEF Emptied, OneOp, There

\* A statement inside its operation, which has not reached the disk.
LEMMA DoneNext ==
  ASSUME WInv, NEW c \in Clients, NEW table, NEW next, Statement(c, table, next),
         db' = table, Whole' = Whole, used' = used, backend' = backend,
         IF backend = "sqlite" THEN client[c].pc \notin {"drop", "create"}
         ELSE client[c].pc \in BlockPcs,
         NEW s, s.pc = next, s.new = client[c].new, s.old = client[c].old
  PROVE  Done(s)'
<1> DEFINE k == client[c]
<1>1. /\ Done(k) /\ Shape(k) /\ backend \in {"sqlite", "postgres"} /\ Whole \in Table /\ db \in Table
      /\ width \in Dims
  BY WholeIsTable, MTypeFacts DEF WInv, MInv
<1>2. None \notin Ids
  BY ConnectionAssumption
<1>3. s.pc = next /\ s.new = k.new /\ s.old = k.old
  OBVIOUS
<1> HIDE DEF k
<1>4. Inserting(s)' = Inserting(k) /\ RowsFor(s)' = RowsFor(k)
  BY <1>3 DEF Inserting, RowsFor
<1>5. CASE k.pc = "begin"
  <2>1. next \in {"insert", "retire", "rollback"} /\ (next = "retire" => k.old # None)
        /\ (next = "insert" => k.old = None) /\ table = db
    BY <1>5 DEF Statement, k
  <2>2. db = Whole /\ Inserting(k)
    BY <1>1, <1>2, <1>5 DEF Done, Shape, Statement, k, BlockPcs
  <2>3. next = "insert" => db' = RowsFor(s)'
    BY <1>4, <2>1, <2>2 DEF RowsFor
  <2> QED BY <1>3, <1>4, <2>1, <2>2, <2>3 DEF Done
<1>6. CASE k.pc = "retire"
  <2>1. next \in {"insert", "unmatched", "rollback"} /\ table = WithRetired(db, k.old, k.new)
        /\ (next = "insert" => db.row[k.old] # "absent")
    BY <1>6 DEF Statement, k
  <2>2. db = Whole /\ Inserting(k) /\ k.old # None
    BY <1>1, <1>6 DEF Done
  <2>3. db' = RowsFor(s)'
    BY <1>4, <2>1, <2>2 DEF RowsFor
  <2> QED BY <1>3, <1>4, <2>1, <2>2, <2>3 DEF Done
<1>7. CASE k.pc = "insert"
  <2>1. next = "vector" /\ table = WithRow(db, k.new)
    BY <1>7 DEF Statement, k
  <2>2. db = RowsFor(k) /\ Inserting(k) /\ (k.old # None => Whole.row[k.old] # "absent")
    BY <1>1, <1>7 DEF Done
  <2> QED BY <1>3, <1>4, <2>1, <2>2 DEF Done
<1>8. CASE k.pc = "vector"
  <2>1. next \in {"commit", "release"} /\ table = WithVector(db, k.new)
    BY <1>8 DEF Statement, k
  <2>2. db = WithRow(RowsFor(k), k.new) /\ Inserting(k) /\ (k.old # None => Whole.row[k.old] # "absent")
    BY <1>1, <1>8 DEF Done
  <2>3. Inserted(s)'
    BY <1>3, <1>4, <2>1, <2>2 DEF Inserted
  <2> QED BY <1>3, <2>1, <2>3 DEF Done
<1>9. CASE k.pc \in {"update", "unindex", "reinsert"} /\ backend = "sqlite"
  <2>1. /\ next = "commit"
        /\ \/ k.pc = "update" /\ table = WithRetired(db, k.old, None)
           \/ k.pc = "unindex" /\ table = WithoutVector(db, k.old)
           \/ k.pc = "reinsert" /\ table = WithVector(db, k.old)
    BY <1>9 DEF Statement, k
  <2>2. /\ k.new = None /\ k.old \in Ids
        /\ db = IF k.pc = "reinsert" THEN WithoutVector(Whole, k.old) ELSE Whole
    BY <1>1, <1>9 DEF Done
  <2>3. Changed(s)'
    BY <1>3, <2>1, <2>2 DEF Changed
  <2> QED BY <1>3, <2>1, <2>3 DEF Done
<1>10. CASE k.pc = "delete"
  <2>1. next = "reinsert" /\ table = WithoutVector(db, k.old)
    BY <1>10 DEF Statement, k
  <2>2. k.new = None /\ k.old \in Ids /\ db = Whole /\ backend = "sqlite"
    BY <1>1, <1>10 DEF Done
  <2> QED BY <1>3, <2>1, <2>2 DEF Done
<1>11. CASE k.pc = "drop"
  <2>1. next = "create" /\ table = WithoutIndex(db)
    BY <1>11 DEF Statement, k
  <2>2. db = Whole /\ k.new = None /\ backend = "postgres"
    BY <1>1, <1>11 DEF Done, k
  <2>3. table.row = db.row /\ table.by = db.by /\ table.vec = {}
    BY <1>1, <2>1 DEF WithoutIndex, Table
  <2>4. Emptied'
    BY <2>2, <2>3 DEF Emptied
  <2> QED BY <1>3, <2>1, <2>2, <2>4 DEF Done
<1>12. CASE k.pc = "create"
  <2>1. next \in {"commit", "release"} /\ table = WithIndex(db, width)
    BY <1>12 DEF Statement, k
  <2>2. Emptied /\ k.new = None /\ backend = "postgres"
    BY <1>1, <1>12 DEF Done, k
  <2>3. table.row = db.row /\ table.by = db.by /\ table.vec = db.vec
    BY <1>1, <2>1 DEF WithIndex, Table
  <2>4. Emptied'
    BY <2>2, <2>3 DEF Emptied
  <2> QED BY <1>3, <2>1, <2>2, <2>4 DEF Done
<1>13. backend = "sqlite" => k.pc \notin {"select", "knn"}
  BY <1>1 DEF Done
<1> QED BY <1>1, <1>5, <1>6, <1>7, <1>8, <1>9, <1>10, <1>11, <1>12, <1>13 DEF Statement, BlockPcs, k

LEMMA RanInside ==
  ASSUME WInv, MInv', NEW c \in Clients, Ran(c),
         IF backend = "sqlite" THEN client[c].pc \notin {"drop", "create"}
         ELSE client[c].pc \in BlockPcs
  PROVE  WInv' /\ WholeStep
<1>1. PICK table, next : /\ Statement(c, table, next) /\ Runs(c, table, next)
                         /\ saved' = saved
  BY DEF Ran
<1>2. PICK s : /\ client' = [client EXCEPT ![c] = s]
               /\ s.pc = next /\ s.new = client[c].new /\ s.old = client[c].old
  BY <1>1, GotoSame DEF Runs, WInv
<1>3. ~ Idle(c)
  BY <1>1 DEF Statement, Idle
<1>4. /\ \A d \in Clients \ {c} : Idle(d)
      /\ phase # "down" /\ At(client[c])
  BY <1>3, Busy DEF WInv
<1>5. /\ UNCHANGED <<process, history, block>> /\ db' = table
      /\ backend' = backend /\ backend \in {"sqlite", "postgres"}
  BY <1>1, WholeIsTable DEF Runs, process, WInv
<1>6. Whole' = Whole
  <2>1. CASE backend = "sqlite"
    BY <1>1, <1>5, <2>1 DEF Whole
  <2>2. CASE backend = "postgres"
    BY <1>4, <1>5, <2>2 DEF Whole, At
  <2> QED BY <1>5, <2>1, <2>2
<1>7. Done(s)'
  BY <1>1, <1>2, <1>5, <1>6, DoneNext DEF history
<1>8. s.pc \notin {"idle", "raised"} \/ backend = "postgres"
  <2>1. Done(client[c])
    BY DEF WInv
  <2> QED BY <1>1, <1>2, <1>5, <2>1 DEF Statement, Done
<1> QED BY <1>1, <1>2, <1>4, <1>5, <1>6, <1>7, <1>8, WholeStayed DEF history

\* SQLite commits each of the two DDL statements of the script at once.
LEMMA RanDDL ==
  ASSUME WInv, MInv', NEW c \in Clients, Ran(c), backend = "sqlite",
         client[c].pc \in {"drop", "create"}
  PROVE  WInv' /\ WholeStep
<1>1. PICK table, next : /\ Statement(c, table, next) /\ Runs(c, table, next)
                         /\ next # "release"
                         /\ txn' = txn /\ saved' = IF txn = "none" THEN table ELSE saved
  BY DEF Ran
<1>2. PICK s : /\ client' = [client EXCEPT ![c] = s]
               /\ s.pc = next /\ s.new = client[c].new /\ s.old = client[c].old
  BY <1>1, GotoSame DEF Runs, WInv
<1>3. ~ Idle(c) /\ Done(client[c])
  BY DEF Idle, WInv
<1>4. /\ \A d \in Clients \ {c} : Idle(d)
      /\ phase # "down"
  BY <1>3, Busy DEF WInv
<1>5. UNCHANGED <<process, history>> /\ db' = table /\ backend' = "sqlite"
  BY <1>1 DEF Runs, process
<1>6. txn = "none" /\ db = saved /\ client[c].new = None
  BY <1>3 DEF Done
<1>7. Whole = db /\ Whole' = table /\ saved' = table /\ saved = Whole
  BY <1>1, <1>5, <1>6 DEF Whole
<1>8. db \in Table /\ width \in Dims
  BY MTypeFacts DEF WInv, MInv
<1>9. There(Whole) \subseteq used
  BY DEF WInv, Accounted, There
<1>10. CASE client[c].pc = "drop"
  <2>1. table = WithoutIndex(db) /\ s.pc = "create" /\ s.new = None
    BY <1>1, <1>2, <1>6, <1>10 DEF Statement
  <2>2. table.row = db.row /\ table.by = db.by /\ table.vec = {}
    BY <1>8, <2>1 DEF WithoutIndex, Table
  <2>3. OneOp(Whole, Whole') /\ There(Whole') = There(Whole)
    BY <1>7, <2>2 DEF OneOp, There
  <2>4. Emptied'
    BY <1>5, <1>7, <2>2 DEF Emptied
  <2>5. Done(s)'
    BY <1>1, <1>5, <1>6, <1>7, <2>1, <2>4 DEF Done
  <2> QED BY <1>2, <1>4, <1>5, <1>7, <1>9, <2>1, <2>3, <2>5, WholeDone DEF history
<1>11. CASE client[c].pc = "create"
  <2>1. table = WithIndex(db, width) /\ s.pc = "commit" /\ s.new = None
    BY <1>1, <1>2, <1>6, <1>11 DEF Statement
  <2>2. table.row = db.row /\ table.by = db.by /\ table.vec = db.vec
    BY <1>8, <2>1 DEF WithIndex, Table
  <2>3. Same(Whole, Whole') /\ There(Whole') = There(Whole)
    BY <1>7, <2>2 DEF Same, There
  <2>4. Done(s)'
    BY <1>5, <1>7, <2>1 DEF Done
  <2> QED BY <1>2, <1>4, <1>5, <1>7, <1>9, <2>1, <2>3, <2>4, WholeDone DEF history
<1> QED BY <1>10, <1>11

\* On Postgres a statement outside of a block is an operation by itself.
LEMMA RanOutside ==
  ASSUME WInv, MInv', NEW c \in Clients, Ran(c), backend = "postgres",
         client[c].pc \notin BlockPcs
  PROVE  WInv' /\ WholeStep
<1>1. PICK table, next : /\ Statement(c, table, next) /\ Runs(c, table, next)
                         /\ saved' = saved
  BY DEF Ran
<1>2. PICK s : /\ client' = [client EXCEPT ![c] = s]
               /\ s.pc = next /\ s.new = client[c].new /\ s.old = client[c].old
  BY <1>1, GotoSame DEF Runs, WInv
<1>3. ~ Idle(c) /\ Done(client[c])
  BY <1>1 DEF Statement, Idle, WInv
<1>4. /\ \A d \in Clients \ {c} : Idle(d)
      /\ phase # "down" /\ ~ block.inside
  BY <1>3, Busy DEF WInv
<1>5. UNCHANGED <<process, history, block>> /\ db' = table /\ backend' = "postgres"
  BY <1>1 DEF Runs, process
<1>6. Whole = db /\ Whole' = table
  BY <1>4, <1>5 DEF Whole
<1>7. db \in Table
  BY WholeIsTable DEF WInv
<1>8. There(Whole) \subseteq used
  BY DEF WInv, Accounted, There
<1>9. s.pc \in {"commit", "idle"}
  BY <1>1, <1>2, <1>3 DEF Statement, BlockPcs, Done
<1>10. Done(s)'
  BY <1>5, <1>9 DEF Done
<1>11. (Same(db, table) \/ OneOp(db, table)) /\ There(table) = There(db)
  <2> DEFINE old == client[c].old
  <2>1. \/ client[c].pc = "update" /\ table = WithRetired(db, old, None) /\ old \in Ids
        \/ client[c].pc = "unindex" /\ table = WithoutVector(db, old) /\ old \in Ids
        \/ client[c].pc = "reinsert" /\ table = WithVector(db, old) /\ old \in Ids
        \/ table = db
    BY <1>1, <1>3 DEF Statement, BlockPcs, Done
  <2> HIDE DEF old
  <2>2. CASE table = WithRetired(db, old, None) /\ old \in Ids
    BY <1>7, <2>2, RetireIsOneOp
  <2>3. CASE table = WithoutVector(db, old) /\ old \in Ids
    BY <1>7, <2>3, VectorIsOneOp
  <2>4. CASE table = WithVector(db, old) /\ old \in Ids
    BY <1>7, <2>4, VectorIsOneOp
  <2>5. CASE table = db
    BY <2>5 DEF Same
  <2> QED BY <2>1, <2>2, <2>3, <2>4, <2>5
<1> QED BY <1>1, <1>2, <1>4, <1>5, <1>6, <1>8, <1>10, <1>11, WholeDone DEF history

LEMMA ThrewWhole ==
  ASSUME WInv, MInv', NEW c \in Clients, Threw(c)
  PROVE  WInv' /\ WholeStep
<1>0. /\ ~ Idle(c) /\ UNCHANGED <<process, db, saved, history, block, todo, last>>
      /\ client[c].pc \in Statements /\ Done(client[c])
  BY DEF Threw, Idle, Statements, WInv
<1>1. /\ \A d \in Clients \ {c} : Idle(d)
      /\ phase # "down" /\ At(client[c])
  BY <1>0, Busy DEF WInv
<1>2. backend' = backend /\ Whole' = Whole
  BY <1>0 DEF process, Whole
<1>3. CASE Goto(c, "rollback")
  <2>1. PICK s : client' = [client EXCEPT ![c] = s] /\ s.pc = "rollback"
    BY <1>3, GotoSame DEF WInv
  <2>2. Done(s)'
    BY <2>1 DEF Done
  <2> QED BY <1>0, <1>1, <1>2, <2>1, <2>2, WholeStayed DEF history
<1>4. CASE Raise(c) /\ (backend = "sqlite" => client[c].pc \notin RolledBack)
  <2>1. client' = [client EXCEPT ![c] = Raised] /\ Raised.pc = "raised"
    BY <1>4, IdleRecords DEF Raise
  <2>2. Done(Raised)'
    BY <2>1 DEF Done
  <2>3. ASSUME backend = "sqlite", phase # "script"
        PROVE  db' = saved'
    <3>1. client[c].pc \in {"update", "unindex"}
      BY <1>0, <1>1, <1>4, <2>3 DEF RolledBack, Statements, At, Done
    <3> QED BY <1>0, <2>3, <3>1 DEF Done, Whole
  <2> QED BY <1>0, <1>1, <1>2, <2>1, <2>2, <2>3, WholeStayed DEF history
<1> QED BY <1>3, <1>4 DEF Threw

LEMMA CommitWhole ==
  ASSUME WInv, MInv', NEW c \in Clients, backend = "sqlite", Commit(c)
  PROVE  WInv' /\ WholeStep
<1>0. /\ ~ Idle(c) /\ client[c].pc = "commit" /\ Done(client[c])
      /\ client' = [client EXCEPT ![c] = Returned] /\ Returned.pc = "idle"
      /\ saved' = db /\ db' = db /\ txn' = "none" /\ UNCHANGED <<process, used>>
      /\ acked' = acked \cup ({client[c].new} \ {None}) /\ settled' = acked'
  BY IdleRecords DEF Commit, Idle, Return, WInv
<1>1. /\ \A d \in Clients \ {c} : Idle(d)
      /\ phase # "down"
  BY <1>0, Busy DEF WInv
<1>2. Whole' = db
  BY <1>0 DEF process, Whole
<1>3. There(Whole) \subseteq used
  BY DEF WInv, Accounted, There
<1>4. Done(Returned)'
  BY <1>0 DEF Done
<1>5. /\ Same(Whole, db) \/ OneOp(Whole, db)
      /\ There(db) = There(Whole) \cup ({client[c].new} \ {None})
      /\ {client[c].new} \ {None} \subseteq used
  <2>1. CASE Inserted(client[c])
    <3>1. /\ OneOp(Whole, db) /\ There(db) = There(Whole) \cup {client[c].new}
          /\ client[c].new \in Ids \cap used
      BY <2>1, InsertedWhole DEF WInv
    <3> QED BY <3>1, ConnectionAssumption
  <2>2. CASE Changed(client[c])
    <3>1. (Same(Whole, db) \/ OneOp(Whole, db)) /\ There(db) = There(Whole) /\ client[c].new = None
      BY <2>2, ChangedWhole DEF WInv, Changed
    <3> QED BY <3>1
  <2>3. CASE client[c].new = None /\ db = Whole
    BY <2>3 DEF Same
  <2> QED BY <1>0, <2>1, <2>2, <2>3 DEF Done
<1> QED BY <1>0, <1>1, <1>2, <1>3, <1>4, <1>5, WholeDone

LEMMA RollbackWhole ==
  ASSUME WInv, MInv', NEW c \in Clients, backend = "sqlite", Rollback(c), UNCHANGED block
  PROVE  WInv' /\ WholeStep
<1>0. /\ ~ Idle(c) /\ db' = saved /\ saved' = saved /\ txn' = "none"
      /\ UNCHANGED <<process, history>>
  BY DEF Rollback, Idle
<1>1. /\ \A d \in Clients \ {c} : Idle(d)
      /\ phase # "down"
  BY <1>0, Busy DEF WInv
<1>2. Whole' = Whole
  BY <1>0 DEF process, Whole
<1>3. PICK s : client' = [client EXCEPT ![c] = s] /\ s.pc \in {"rollback", "raised"}
  <2>1. CASE Goto(c, "rollback")
    <3>1. PICK s : client' = [client EXCEPT ![c] = s] /\ s.pc = "rollback"
      BY <2>1, GotoSame DEF WInv
    <3> QED BY <3>1
  <2>2. CASE Raise(c)
    BY <2>2, IdleRecords DEF Raise
  <2> QED BY <2>1, <2>2 DEF Rollback
<1>4. Done(s)'
  BY <1>3 DEF Done
<1> QED BY <1>0, <1>1, <1>2, <1>3, <1>4, WholeStayed DEF history

LEMMA EnterWhole ==
  ASSUME WInv, MInv', NEW c \in Clients, backend = "postgres", Enter(c)
  PROVE  WInv' /\ WholeStep
<1> DEFINE pc == IF client[c].new = None THEN "drop"
                 ELSE IF client[c].old = None THEN "insert" ELSE "retire"
<1>0. /\ ~ Idle(c) /\ client[c].pc = "begin" /\ Done(client[c])
      /\ UNCHANGED <<process, db, saved, history>> /\ Goto(c, pc)
      /\ block' = [inside |-> TRUE, nested |-> txn = "open", mark |-> db]
  BY DEF Enter, Idle, WInv
<1>1. /\ \A d \in Clients \ {c} : Idle(d)
      /\ phase # "down" /\ ~ block.inside
  BY <1>0, Busy DEF WInv, BlockPcs
<1>2. PICK s : /\ client' = [client EXCEPT ![c] = s]
               /\ s.pc = pc /\ s.new = client[c].new /\ s.old = client[c].old
  <2> HIDE DEF pc
  <2> QED BY <1>0, GotoSame DEF WInv
<1>3. Whole = db /\ Whole' = db /\ backend' = "postgres"
  BY <1>0, <1>1 DEF Whole, process
<1>4. s.new # None => Inserting(client[c])
  BY <1>0, <1>2 DEF Done
<1>5. Inserting(s)' = Inserting(client[c])
  BY <1>0, <1>2, <1>3 DEF Inserting, history
<1>6. s.old = None => RowsFor(s)' = Whole
  BY <1>3 DEF RowsFor
<1>7. Done(s)'
  <2>1. CASE s.new = None
    BY <1>0, <1>2, <1>3, <2>1 DEF Done
  <2>2. CASE s.new # None /\ s.old = None
    BY <1>0, <1>2, <1>3, <1>4, <1>5, <1>6, <2>2 DEF Done
  <2>3. CASE s.new # None /\ s.old # None
    BY <1>0, <1>2, <1>3, <1>4, <1>5, <2>3 DEF Done
  <2> QED BY <2>1, <2>2, <2>3
<1> QED BY <1>0, <1>1, <1>2, <1>3, <1>7, WholeStayed DEF history

LEMMA ReleaseWhole ==
  ASSUME WInv, MInv', NEW c \in Clients, backend = "postgres", Release(c)
  PROVE  WInv' /\ WholeStep
<1>0. /\ ~ Idle(c) /\ client[c].pc = "release" /\ Done(client[c])
      /\ client' = [client EXCEPT ![c] = Returned] /\ Returned.pc = "idle"
      /\ db' = db /\ UNCHANGED <<process, used>> /\ block' = Outside
      /\ acked' = acked \cup ({client[c].new} \ {None})
      /\ \/ saved' = saved /\ settled' = settled
         \/ saved' = db /\ settled' = acked'
  BY IdleRecords DEF Release, Idle, Return, WInv
<1>1. /\ \A d \in Clients \ {c} : Idle(d)
      /\ phase # "down"
  BY <1>0, Busy DEF WInv
<1>2. Whole' = db /\ backend' = "postgres"
  BY <1>0 DEF process, Whole, Outside
<1>3. There(Whole) \subseteq used
  BY DEF WInv, Accounted, There
<1>4. Done(Returned)'
  BY <1>0 DEF Done
<1>5. /\ OneOp(Whole, db)
      /\ There(db) = There(Whole) \cup ({client[c].new} \ {None})
      /\ {client[c].new} \ {None} \subseteq used
  <2>1. CASE Inserted(client[c])
    <3>1. /\ OneOp(Whole, db) /\ There(db) = There(Whole) \cup {client[c].new}
          /\ client[c].new \in Ids \cap used
      BY <2>1, InsertedWhole DEF WInv
    <3> QED BY <3>1, ConnectionAssumption
  <2>2. CASE client[c].new = None /\ Emptied
    BY <2>2, EmptiedWhole
  <2> QED BY <1>0, <2>1, <2>2 DEF Done
<1> QED BY <1>0, <1>1, <1>2, <1>3, <1>4, <1>5, WholeDone

LEMMA UnwindWhole ==
  ASSUME WInv, MInv', NEW c \in Clients, backend = "postgres", Unwind(c)
  PROVE  WInv' /\ WholeStep
<1>0. /\ ~ Idle(c) /\ client[c].pc = "rollback"
      /\ client' = [client EXCEPT ![c] = Raised] /\ Raised.pc = "raised"
      /\ UNCHANGED <<process, saved, history>> /\ db' = block.mark /\ block' = Outside
  BY IdleRecords DEF Unwind, Idle, Raise
<1>1. /\ \A d \in Clients \ {c} : Idle(d)
      /\ phase # "down" /\ block.inside
  BY <1>0, Busy DEF WInv, At, BlockPcs
<1>2. Whole' = Whole
  BY <1>0, <1>1 DEF process, Whole, Outside
<1>3. Done(Raised)'
  BY <1>0 DEF Done
<1> QED BY <1>0, <1>1, <1>2, <1>3, WholeStayed DEF history

LEMMA PgCommitWhole ==
  ASSUME WInv, MInv', NEW c \in Clients, backend = "postgres", PgCommit(c)
  PROVE  WInv' /\ WholeStep
<1>0. /\ ~ Idle(c) /\ client[c].pc = "commit"
      /\ client' = [client EXCEPT ![c] = Returned] /\ Returned.pc = "idle"
      /\ db' = db /\ saved' = db /\ UNCHANGED <<process, used, acked, block>> /\ settled' = acked
  BY IdleRecords DEF PgCommit, Idle, Return
<1>1. /\ \A d \in Clients \ {c} : Idle(d)
      /\ phase # "down" /\ ~ block.inside
  BY <1>0, Busy DEF WInv, BlockPcs
<1>2. Whole' = db /\ Whole = db
  BY <1>0, <1>1 DEF process, Whole
<1>3. There(Whole) \subseteq used
  BY DEF WInv, Accounted, There
<1>4. Done(Returned)'
  BY <1>0 DEF Done, process
<1>5. Same(Whole, Whole')
  BY <1>2 DEF Same
<1> QED BY <1>0, <1>1, <1>2, <1>3, <1>4, <1>5, WholeDone

LEMMA StepWhole ==
  ASSUME WInv, MInv', NEW c \in Clients, Step(c)
  PROVE  WInv' /\ WholeStep
<1>1. UNCHANGED <<todo, last>> /\ MTypeInv /\ backend \in {"sqlite", "postgres"}
  BY WholeIsTable DEF Step, WInv, MInv
<1>2. CASE Ran(c)
  BY <1>1, <1>2, RanInside, RanDDL, RanOutside
<1>3. CASE backend = "sqlite" /\ UNCHANGED block /\ Rollback(c)
  BY <1>3, RollbackWhole
<1> QED BY <1>1, <1>2, <1>3, ThrewWhole, CommitWhole, EnterWhole, ReleaseWhole, UnwindWhole,
           PgCommitWhole, SqliteRuns, PostgresRuns DEF Step
-----------------------------------------------------------------------------
(***************************************************************************)
(* The steps that begin an operation, and those of the process.            *)
(***************************************************************************)

\* When no operation is under way the connection sees whole operations.
LEMMA AtEaseWhole ==
  ASSUME WInv, \A c \in Clients : Idle(c), phase = "script" => Quiet
  PROVE  db = Whole /\ (backend = "sqlite" => db = saved /\ (Quiet => txn = "none"))
<1>1. ~ block.inside
  BY AtEase DEF WInv
<1> QED BY <1>1 DEF WInv, Rested, Whole

LEMMA EngineCallsWhole ==
  ASSUME Serialized, WInv, MInv', NEW c \in Clients, EngineCalls(c)
  PROVE  WInv' /\ WholeStep
<1>1. ASSUME NEW pc \in {"begin", "update", "unindex", "select", "knn"},
             NEW old \in Ids \cup {None}, NEW new \in Ids \cup {None}, Call(c, pc, old, new),
             phase = "engine", \A d \in Clients : Idle(d),
             pc = "begin" => new \in Ids \ used /\ old # new,
             pc \in {"update", "unindex"} => new = None /\ old \in Ids,
             pc \in {"select", "knn"} => backend = "postgres"
      PROVE  WInv' /\ WholeStep
  <2> DEFINE s == [pc |-> pc, new |-> new, old |-> old]
  <2>1. /\ client' = [client EXCEPT ![c] = s]
        /\ UNCHANGED <<process, db, saved, txn, acked, settled, block, todo, last>>
        /\ used' = used \cup ({new} \ {None})
    BY <1>1 DEF Call, EngineCalls
  <2>2. s.pc = pc /\ s.new = new /\ s.old = old
    OBVIOUS
  <2> HIDE DEF s
  <2>3. backend' = backend /\ Whole' = Whole
    BY <2>1 DEF process, Whole
  <2>4. db = Whole
    BY <1>1, AtEaseWhole
  <2>5. pc = "begin" => Inserting(s)'
    <3>1. ASSUME pc = "begin"
          PROVE  new \in Ids /\ new \in used' /\ Whole.row[new] = "absent" /\ old # new
      <4>1. new \in Ids \ used /\ old # new /\ new # None
        BY <1>1, <3>1, ConnectionAssumption
      <4>2. Whole.row[new] = "absent"
        BY <4>1 DEF WInv, Accounted
      <4> QED BY <2>1, <4>1, <4>2
    <3> QED BY <2>2, <2>3, <3>1 DEF Inserting
  <2>6. Done(s)'
    <3>1. CASE pc = "begin"
      BY <2>1, <2>2, <2>3, <2>4, <2>5, <3>1 DEF Done
    <3>2. CASE pc \in {"update", "unindex"}
      BY <1>1, <2>1, <2>2, <2>3, <2>4, <3>2 DEF Done
    <3>3. CASE pc \in {"select", "knn"}
      BY <1>1, <2>2, <2>3, <3>3 DEF Done
    <3> QED BY <3>1, <3>2, <3>3
  <2>7. s.pc \notin {"idle", "raised"}
    BY <2>2
  <2> QED BY <1>1, <2>1, <2>3, <2>6, <2>7, WholeStayed
<1>2. used \subseteq Ids /\ None \notin Ids
  BY MTypeFacts, ConnectionAssumption DEF WInv, MInv
<1>3. CASE CallInsert(c)
  <2>1. ASSUME NEW r \in Ids \ used, Call(c, "begin", None, r),
               phase = "engine", \A d \in Clients : Idle(d)
        PROVE  WInv' /\ WholeStep
    BY <1>1, <1>2, <2>1
  <2>2. ASSUME NEW old \in Ids, NEW r \in Ids \ used, old # r, Call(c, "begin", old, r),
               phase = "engine", \A d \in Clients : Idle(d)
        PROVE  WInv' /\ WholeStep
    BY <1>1, <2>2
  <2> QED BY <1>3, <2>1, <2>2 DEF CallInsert, MayCall
<1>4. CASE CallUpdate(c)
  <2>1. ASSUME NEW r \in used, NEW pc \in {"update", "unindex"}, Call(c, pc, r, None),
               phase = "engine", \A d \in Clients : Idle(d)
        PROVE  WInv' /\ WholeStep
    BY <1>1, <1>2, <2>1
  <2> QED BY <1>4, <2>1 DEF CallUpdate, MayCall
<1>5. CASE backend = "postgres" /\ CallRead(c)
  <2>1. ASSUME NEW pc \in {"select", "knn"}, Call(c, pc, None, None), backend = "postgres",
               phase = "engine", \A d \in Clients : Idle(d)
        PROVE  WInv' /\ WholeStep
    BY <1>1, <2>1
  <2> QED BY <1>5, <2>1 DEF CallRead, MayCall
<1> QED BY <1>3, <1>4, <1>5 DEF EngineCalls

LEMMA OpenWhole ==
  ASSUME WInv, NEW d \in Dims, Open(d)
  PROVE  /\ \A c \in Clients : client[c].pc = "idle"
         /\ backend' = backend /\ Whole' = db' /\ saved' = db'
         /\ backend = "sqlite" => txn' = "none"
         /\ Accounted' /\ WholeStep
<1>1. /\ \A c \in Clients : client[c].pc = "idle"
      /\ ~ block.inside /\ block' = block /\ backend' = backend /\ saved' = db'
  BY OpenKeeps DEF WInv
<1>2. /\ phase = "down" /\ db' = IF db.dim = None THEN WithIndex(db, d) ELSE db
      /\ backend = "sqlite" => txn' = "none"
      /\ UNCHANGED history
  BY DEF Open
<1>3. db \in Table /\ backend \in {"sqlite", "postgres"}
  BY WholeIsTable DEF WInv
<1>4. db = saved /\ Whole = db /\ Whole' = db'
  BY <1>1, <1>2 DEF WInv, Rested, Whole
<1>5. db'.row = db.row /\ db'.by = db.by /\ db'.vec = db.vec
  <2>1. CASE db.dim = None
    BY <1>2, <1>3, <2>1, IndexFields
  <2>2. CASE db.dim # None
    BY <1>2, <2>2
  <2> QED BY <2>1, <2>2
<1>6. Accounted'
  BY <1>1, <1>2, <1>4, <1>5 DEF WInv, Accounted, history
<1>7. WholeStep
  BY <1>1, <1>4, <1>5 DEF WholeStep, Same
<1> QED BY <1>1, <1>2, <1>4, <1>6, <1>7

LEMMA StartEngineWhole ==
  ASSUME WInv, MInv', NEW d \in Dims, StartEngine(d)
  PROVE  WInv' /\ WholeStep
<1>1. /\ \A c \in Clients : client[c].pc = "idle"
      /\ backend' = backend /\ saved' = db' /\ (backend = "sqlite" => txn' = "none")
      /\ Accounted' /\ WholeStep
  BY OpenWhole DEF StartEngine
<1>2. client' = client /\ phase' = "engine"
  BY DEF StartEngine
<1>3. \A c \in Clients : Done(client[c])'
  BY <1>1, <1>2 DEF Done
<1>4. Rested'
  BY <1>1, <1>2 DEF Rested
<1> QED BY <1>1, <1>3, <1>4 DEF WInv

LEMMA StartScriptWhole ==
  ASSUME WInv, MInv', NEW c \in Clients, NEW d \in Dims, NEW all \in BOOLEAN,
         StartScript(c, d, all)
  PROVE  WInv' /\ WholeStep
<1>0. PICK s : s = [Returned EXCEPT !.pc = IF backend = "sqlite" THEN "drop" ELSE "begin"]
  OBVIOUS
<1>1. /\ \A e \in Clients : client[e].pc = "idle"
      /\ backend' = backend /\ saved' = db' /\ Whole' = db' /\ (backend = "sqlite" => txn' = "none")
      /\ Accounted' /\ WholeStep
  BY OpenWhole DEF StartScript
<1>2. phase' = "script" /\ client' = [client EXCEPT ![c] = s]
  BY <1>0 DEF StartScript
<1>3. s.pc = (IF backend = "sqlite" THEN "drop" ELSE "begin") /\ s.new = None
  BY <1>0 DEF Returned
<1>4. client'[c] = s /\ \A e \in Clients \ {c} : client'[e].pc = "idle"
  BY <1>1, <1>2 DEF WInv, MInv, MTypeInv, TypeOK, ConnectionTypeOK
<1>5. Done(s)'
  BY <1>1, <1>3 DEF Done
<1>6. \A e \in Clients \ {c} : Done(client[e])'
  BY <1>4 DEF Done
<1>7. Rested'
  BY <1>2, <1>3, <1>4 DEF Rested, Idle
<1> QED BY <1>1, <1>4, <1>5, <1>6, <1>7 DEF WInv

\* A step of the script that touches neither the tables nor a coroutine.
LEMMA ScriptWhole ==
  ASSUME WInv, MInv', phase = "script", Quiet, phase' # "down",
         UNCHANGED <<backend, db, saved, client, history, block>>, backend = "sqlite" => txn' = txn
  PROVE  WInv' /\ WholeStep
<1>1. \A c \in Clients : client'[c].pc = "idle" /\ Idle(c)
  BY DEF Quiet, Idle
<1>2. Whole' = Whole
  BY DEF Whole
<1>3. backend = "sqlite" => txn = "none" /\ db = saved
  BY <1>1, AtEaseWhole
<1>4. \A c \in Clients : Done(client[c])'
  BY <1>1 DEF Done
<1>5. Rested'
  BY <1>3 DEF Rested
<1>6. Accounted'
  BY <1>2 DEF WInv, Accounted, history
<1>7. WholeStep
  BY <1>2 DEF WholeStep, Same
<1> QED BY <1>4, <1>5, <1>6, <1>7 DEF WInv

LEMMA ReembedWhole ==
  ASSUME WInv, MInv', NEW c \in Clients, Reembed(c)
  PROVE  WInv' /\ WholeStep
<1>1. PICK r \in todo :
        client' = [client EXCEPT ![c] = [Returned EXCEPT !.old = r, !.pc =
                     IF backend = "sqlite" THEN "delete" ELSE "reinsert"]]
  BY DEF Reembed
<1>2. PICK s : s = [Returned EXCEPT !.old = r, !.pc =
                      IF backend = "sqlite" THEN "delete" ELSE "reinsert"]
  OBVIOUS
<1>3. phase = "script" /\ Quiet /\ UNCHANGED <<process, db, saved, txn, history, block>>
  BY DEF Reembed
<1>4. s.pc = (IF backend = "sqlite" THEN "delete" ELSE "reinsert") /\ s.old = r /\ s.new = None
  BY <1>2 DEF Returned
<1>5. \A d \in Clients : Idle(d)
  BY <1>3 DEF Quiet, Idle
<1>6. db = Whole /\ r \in Ids
  BY <1>3, <1>5, AtEaseWhole DEF WInv, MInv, MTypeInv, TypeOK
<1>7. Whole' = Whole /\ backend' = backend
  BY <1>3 DEF Whole, process
<1>8. Done(s)'
  BY <1>3, <1>4, <1>6, <1>7 DEF Done
<1>9. client' = [client EXCEPT ![c] = s] /\ s.pc \notin {"idle", "raised"}
  BY <1>1, <1>2, <1>4
<1>10. /\ UNCHANGED process /\ phase # "down" /\ saved' = saved
       /\ used \subseteq used' /\ acked' = acked /\ settled' = settled
  BY <1>3 DEF history
<1> QED BY <1>5, <1>7, <1>8, <1>9, <1>10, WholeStayed

LEMMA ExitWhole ==
  ASSUME WInv, MInv', Exit
  PROVE  WInv' /\ WholeStep
<1>1. /\ phase' = "down" /\ db' = saved /\ client' = [c \in Clients |-> Returned]
      /\ saved' = saved /\ used' = used /\ settled' = settled /\ acked' = settled
      /\ backend' = backend /\ block' = Outside /\ txn' = "none"
  BY DEF Exit, Drop
<1>2. Whole' = saved
  BY <1>1 DEF Whole, Outside
<1>3. \A c \in Clients : Done(client[c])'
  BY <1>1, IdleRecords DEF Done
<1>4. Rested'
  BY <1>1 DEF Rested
<1>5. Accounted'
  BY <1>1, <1>2 DEF WInv, Accounted
<1>6. WholeStep
  BY <1>1, <1>2 DEF WholeStep, Same
<1> QED BY <1>3, <1>4, <1>5, <1>6 DEF WInv

LEMMA WInvKept ==
  ASSUME Serialized, WInv, MInv', [Next]_migrationVars
  PROVE  WInv' /\ WholeStep
<1>1. CASE UNCHANGED migrationVars
  <2>1. UNCHANGED <<backend, phase, width, db, saved, txn, client, used, acked, settled, block>>
    BY <1>1 DEF migrationVars, postgresVars, connectionVars, process, history
  <2>2. Whole' = Whole
    BY <2>1 DEF Whole
  <2>3. \A c \in Clients : Done(client[c])'
    BY <2>1 DEF WInv, Done, Inserting, RowsFor, Inserted, Changed, Emptied, Whole
  <2>4. Rested' /\ Accounted' /\ WholeStep
    BY <2>1, <2>2 DEF WInv, Rested, Accounted, WholeStep, Same, Quiet, Idle
  <2> QED BY <2>3, <2>4 DEF WInv
<1>2. CASE Scan
  BY <1>2, ScriptWhole DEF Scan, process
<1>3. CASE Finish
  BY <1>3, ScriptWhole DEF Finish, connectionVars, process
<1>4. CASE Continue
  BY <1>4, ScriptWhole DEF Continue
<1> QED BY <1>1, <1>2, <1>3, <1>4, StepWhole, EngineCallsWhole, ReembedWhole, StartEngineWhole,
           StartScriptWhole, ExitWhole DEF Next

LEMMA WInvInitially ==
  ASSUME Init
  PROVE  WInv /\ Whole = EmptyTable /\ saved = EmptyTable
<1>1. /\ phase = "down" /\ db = EmptyTable /\ saved = EmptyTable /\ block = Outside
      /\ client = [c \in Clients |-> Returned] /\ txn = "none"
      /\ used = {} /\ acked = {} /\ settled = {}
  BY DEF Init, ConnectionInit
<1>2. \A c \in Clients : Done(client[c])
  BY <1>1, IdleRecords DEF Done
<1>3. Whole = EmptyTable
  BY <1>1 DEF Whole, Outside
<1>4. \A r \in Ids : EmptyTable.row[r] = "absent"
  BY DEF EmptyTable
<1>5. Rested /\ Accounted
  BY <1>1, <1>3, <1>4 DEF Rested, Accounted
<1> QED BY <1>1, <1>2, <1>3, <1>5, MInvInitially DEF WInv

\* The adapter never changes.
LEMMA BackendStays ==
  ASSUME WInv, [Next]_migrationVars
  PROVE  backend' = backend
<1>1. MTypeInv /\ backend \in {"sqlite", "postgres"}
  BY WholeIsTable DEF WInv, MInv
<1>2. ASSUME NEW c \in Clients, Step(c)
      PROVE  backend' = backend
  <2>1. UNCHANGED <<todo, last>>
    BY <1>2 DEF Step
  <2>2. CASE backend = "sqlite"
    <3>1. SqliteOp(c) /\ UNCHANGED block
      BY <1>2, <2>2 DEF Step
    <3>2. Ran(c) \/ Threw(c) \/ Commit(c) \/ Rollback(c)
      BY <1>1, <2>1, <2>2, <3>1, SqliteRuns
    <3> QED BY <3>2 DEF Ran, Runs, Threw, Commit, Rollback, process
  <2>3. CASE backend = "postgres"
    <3>1. PostgresOp(c)
      BY <1>2, <2>3 DEF Step
    <3>2. Ran(c) \/ Threw(c) \/ Enter(c) \/ Release(c) \/ Unwind(c) \/ PgCommit(c)
      BY <1>1, <2>1, <2>3, <3>1, PostgresRuns
    <3> QED BY <3>2 DEF Ran, Runs, Threw, Enter, Release, Unwind, PgCommit, process
  <2> QED BY <1>1, <2>2, <2>3
<1>3. ASSUME NEW c \in Clients, EngineCalls(c)
      PROVE  backend' = backend
  BY <1>3 DEF EngineCalls, CallInsert, CallUpdate, CallRead, Call, process
<1>4. CASE UNCHANGED migrationVars
  BY <1>4 DEF migrationVars, postgresVars, connectionVars, process
<1> QED BY <1>2, <1>3, <1>4 DEF Next, Reembed, StartEngine, StartScript, Open, Scan, Finish, Continue, Exit,
           process, connectionVars

LEMMA WInvStep ==
  ASSUME Serialized, WInv, [Next]_migrationVars
  PROVE  WInv' /\ WholeStep /\ backend' = backend
<1>1. MInv'
  BY MTypesKept, MInvKept DEF WInv, MInv
<1> QED BY <1>1, WInvKept, BackendStays

LEMMA WInvAlways ==
  ASSUME Serialized
  PROVE  Spec => []WInv
<1>1. Init => WInv
  BY WInvInitially
<1>2. WInv /\ [Next]_migrationVars => WInv'
  BY WInvStep
<1> QED BY <1>1, <1>2, PTL DEF Spec

-----------------------------------------------------------------------------
(***************************************************************************)
(* The refinements.                                                        *)
(***************************************************************************)
LEMMA OneOpVisible ==
  ASSUME OneOp(Visible, Visible')
  PROVE  Buffered!Next
BY DEF OneOp, Buffered!Next, Buffered!Clear, Buffered!Put, Buffered!Retire, Buffered!Unindex,
       Buffered!Reindex, Buffered!Supersede

LEMMA WholeImplementsTable ==
  ASSUME WInv, WInv', WholeStep, backend' = backend
  PROVE  [Committed!Next]_(Committed!vars)
<1>1. CASE backend = "sqlite"
  <2>1. OnDisk = Whole /\ OnDisk' = Whole' /\ OnDisk = saved /\ OnDisk' = saved'
    BY <1>1 DEF OnDisk, Whole
  <2>2. CASE OneOp(OnDisk, OnDisk')
    BY <2>2, OneOpOnDisk
  <2>3. CASE Same(OnDisk, OnDisk')
    BY <2>3 DEF Same, Committed!vars
  <2> QED BY <2>1, <2>2, <2>3 DEF WholeStep
<1>2. CASE backend # "sqlite"
  BY <1>2 DEF OnDisk, Committed!vars
<1> QED BY <1>1, <1>2

LEMMA WholeImplementsBuffered ==
  ASSUME WInv, WInv', WholeStep, backend' = backend
  PROVE  [Buffered!Operate \/ Buffered!Sync \/ Buffered!Lose]_<<Buffered!vars, Kept>>
<1>1. CASE backend # "sqlite"
  <2>1. Visible = Whole /\ Visible' = Whole'
    BY <1>1 DEF Visible, Whole
  <2>2. Kept = [row |-> saved.row, by |-> saved.by, vec |-> saved.vec]
    BY <1>1 DEF Kept
  <2>3. Kept' = [row |-> saved'.row, by |-> saved'.by, vec |-> saved'.vec]
    BY <1>1 DEF Kept
  <2>4. /\ Buffered!Seen = [row |-> Visible.row, by |-> Visible.by, vec |-> Visible.vec]
        /\ Buffered!Seen' = [row |-> Visible'.row, by |-> Visible'.by, vec |-> Visible'.vec]
    BY DEF Buffered!Seen
  <2>5. Same(saved, saved') => Kept' = Kept
    BY <2>2, <2>3 DEF Same
  <2>6. Same(Visible', saved') => Kept' = Buffered!Seen'
    BY <2>3, <2>4 DEF Same
  <2>7. Same(Visible, Visible') => UNCHANGED Buffered!vars /\ Buffered!Seen' = Buffered!Seen
    BY <2>4 DEF Same, Buffered!vars
  <2>8. CASE Same(saved, Visible') /\ Same(saved, saved')
    <3>1. Visible'.row = Kept.row /\ Visible'.by = Kept.by /\ Visible'.vec = Kept.vec
      BY <2>2, <2>8 DEF Same
    <3>2. Buffered!Lose
      BY <2>5, <2>8, <3>1 DEF Buffered!Lose
    <3> QED BY <3>2
  <2>9. CASE OneOp(Visible, Visible') /\ (Same(saved, saved') \/ Same(Visible', saved'))
    <3>1. Buffered!Next /\ Kept' \in {Kept, Buffered!Seen'}
      BY <2>5, <2>6, <2>9, OneOpVisible
    <3> QED BY <3>1 DEF Buffered!Operate
  <2>10. CASE Same(Visible, Visible') /\ Same(saved, saved')
    BY <2>5, <2>7, <2>10
  <2>11. CASE Same(Visible, Visible') /\ Same(Visible', saved')
    BY <2>6, <2>7, <2>11 DEF Buffered!Sync
  <2> QED BY <2>1, <2>8, <2>9, <2>10, <2>11 DEF WholeStep
<1>2. CASE backend = "sqlite"
  BY <1>2 DEF Visible, Kept, Buffered!vars
<1> QED BY <1>1, <1>2

\* While operations take turns, whatever statement raises, and wherever a process that
\* runs an engine or the migration script dies: on disk, the tables of the SQLite
\* adapter change by whole operations of the record store only.
THEOREM DatabaseImplementsTable ==
  ASSUME Serialized
  PROVE  Spec => TableSpec
<1>1. Init => WInv /\ Committed!Init
  <2> SUFFICES ASSUME Init PROVE WInv /\ Committed!Init
    OBVIOUS
  <2>1. WInv /\ saved = EmptyTable
    BY WInvInitially
  <2>2. OnDisk = EmptyTable
    BY <2>1 DEF OnDisk
  <2> QED BY <2>1, <2>2 DEF Committed!Init, EmptyTable
<1>2. WInv /\ [Next]_migrationVars => WInv' /\ [Committed!Next]_(Committed!vars)
  BY WInvStep, WholeImplementsTable
<1> QED BY <1>1, <1>2, PTL DEF Spec, TableSpec, Committed!Spec

\* The same for the Postgres adapter, but that what has returned may reach the disk
\* later: a crash takes back the last operations, each as a whole.
THEOREM DatabaseImplementsBuffered ==
  ASSUME Serialized
  PROVE  Spec => BufferedSpec
<1>1. Init => WInv /\ Buffered!BufferedInit
  <2> SUFFICES ASSUME Init PROVE WInv /\ Buffered!BufferedInit
    OBVIOUS
  <2>1. WInv /\ Whole = EmptyTable /\ saved = EmptyTable
    BY WInvInitially
  <2>2. Visible = EmptyTable
    BY <2>1 DEF Visible, Whole
  <2>3. Kept = [row |-> EmptyTable.row, by |-> EmptyTable.by, vec |-> EmptyTable.vec]
    BY <2>1 DEF Kept
  <2> QED BY <2>1, <2>2, <2>3 DEF Buffered!BufferedInit, Buffered!Init, Buffered!Seen, EmptyTable
<1>2. WInv /\ [Next]_migrationVars =>
        /\ WInv'
        /\ [Buffered!Operate \/ Buffered!Sync \/ Buffered!Lose]_<<Buffered!vars, Kept>>
  BY WInvStep, WholeImplementsBuffered
<1> QED BY <1>1, <1>2, PTL DEF Spec, BufferedSpec, Buffered!BufferedSpec

\* The same through migrations and the deaths of processes: between the engine's
\* operations nothing is uncommitted, and a transaction open only after one raised.
THEOREM DatabaseNothingPending ==
  ASSUME Serialized
  PROVE  Spec => []NothingPending
<1>1. WInv => NothingPending
  BY DEF WInv, Rested, NothingPending, Quiet, Idle
<1> QED BY <1>1, WInvAlways, PTL

\* What is acknowledged on SQLite, and what was at the last commit on Postgres, is on
\* disk, through migrations and the deaths of processes.
THEOREM DatabaseAckedIsDurable ==
  ASSUME Serialized
  PROVE  Spec => []AckedIsDurable
<1>1. WInv => AckedIsDurable
  <2> SUFFICES ASSUME WInv PROVE AckedIsDurable
    OBVIOUS
  <2>1. backend = "sqlite" => Whole = saved
    BY DEF Whole
  <2> QED BY <2>1 DEF WInv, Accounted, AckedIsDurable
<1> QED BY <1>1, WInvAlways, PTL

\* The same of both adapters, through migrations and the deaths of processes.
THEOREM DatabaseSupersedesWhole ==
  ASSUME Serialized
  PROVE  Spec => []SupersedeAtomic
<1> DEFINE Links == Linked(Whole) /\ Linked(saved)
<1>1. Init => WInv /\ Links
  <2> SUFFICES ASSUME Init PROVE WInv /\ Links
    OBVIOUS
  <2>1. Linked(EmptyTable)
    BY DEF Linked, EmptyTable
  <2> QED BY <2>1, WInvInitially
<1>2. WInv /\ Links /\ [Next]_migrationVars => WInv' /\ Links'
  <2> SUFFICES ASSUME WInv, Links, [Next]_migrationVars
               PROVE  WInv' /\ Links'
    OBVIOUS
  <2>1. WInv' /\ WholeStep
    BY WInvStep
  <2>2. Whole \in Table /\ saved \in Table
    BY WholeIsTable DEF WInv
  <2>3. Linked(Whole')
    BY <2>1, <2>2, OneOpLinks DEF WholeStep
  <2>4. Linked(saved')
    <3>1. Same(saved, saved') \/ Same(Whole', saved')
      BY <2>1 DEF WholeStep
    <3> QED BY <2>2, <2>3, <3>1, OneOpLinks DEF Same, Linked
  <2> QED BY <2>1, <2>3, <2>4 DEF Linked
<1>3. Links => SupersedeAtomic
  BY DEF Linked, SupersedeAtomic
<1> QED BY <1>1, <1>2, <1>3, PTL DEF Spec
=============================================================================
