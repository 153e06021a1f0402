------------------------- MODULE MnemaSafetyProofs --------------------------
(***************************************************************************)
(* What no interleaving, failure or crash can break, for all constants:    *)
(* protected-from-birth records are kept, the table and its index agree,   *)
(* the eviction log tells the truth, T1 implements MemoryLedger, and no    *)
(* write crosses from one user to another.                                 *)
(*                                                                         *)
(* The invariant has three parts: what is true of the stores, what every   *)
(* consolidation run knows of the row it read before an await, and what    *)
(* every eviction knows of its victims.  `Grows` is what each step lets    *)
(* the other coroutines rely on.                                           *)
(***************************************************************************)
EXTENDS MnemaTypeProofs

\* The stores: pinned rows are live, protected and indexed.
PinnedKept == \A r \in pinned : Live(r) /\ t1[r].prot /\ r \in vec

StoreInv ==
  /\ PinnedKept
  /\ LiveSearchable
  /\ SuccessorExists
  /\ AuditTrailOrdered

\* A run: the row it read exists; if it was born protected, the snapshot says so;
\* the snapshot's supersedes edge is still the row's.
RunKnows(c) ==
  /\ runs[c].near # None => Exists(runs[c].near)
  /\ runs[c].pc \in {"reconcile", "judge"} /\ runs[c].near \in pinned => runs[c].seen.prot
  /\ runs[c].pc = "judge" => runs[c].seen.over = t1[runs[c].near].over

\* An eviction: no victim was born protected, and the steps already taken still hold.
VictimKnown(k) ==
  LET e == evictor[k] IN
  /\ \A r \in e.victims : Exists(r) /\ r \notin pinned
  /\ e.pc \in {"unvector", "archive", "audit"} => t1[e.victim].status = "retired"
  /\ e.pc \in {"archive", "audit"} => e.victim \notin vec
  /\ e.pc = "audit" => e.victim \in archived

\* A remember() that has stored safety content has a pinned record.
ClaimPinned(t) == write[t] \in {"stage", "done"} /\ Input[t].safety => t1id[t] \in pinned

IInv ==
  /\ TypeInv
  /\ StoreInv
  /\ \A c \in Runs : RunKnows(c)
  /\ \A k \in Evictors : VictimKnown(k)
  /\ \A t \in Turns : ClaimPinned(t)

-----------------------------------------------------------------------------
(***************************************************************************)
(* What a step may do to the stores.                                       *)
(***************************************************************************)

\* What the other coroutines can rely on across a step.
Grows ==
  /\ \A r \in Records : Exists(r) =>
       /\ Exists(r)'
       /\ t1'[r].over = t1[r].over
       /\ t1[r].status = "retired" => t1'[r].status = "retired"
  /\ pinned \subseteq pinned'
  /\ \A r \in pinned' \ pinned : ~ Exists(r)
  /\ \A r \in vec' \ vec : ~ Exists(r)
  /\ archived \subseteq archived'

LedgerStep == [Ledger!Next]_(Ledger!vars)

\* A step that leaves the table, the index and the logs alone.
LEMMA QuietStep ==
  ASSUME StoreInv, UNCHANGED <<t1, vec, pinned, archived, audited>>
  PROVE  StoreInv' /\ Grows /\ LedgerStep
<1>1. StoreInv'
  BY DEF StoreInv, PinnedKept, LiveSearchable, SuccessorExists, AuditTrailOrdered, Live, Exists
<1>2. Grows
  BY DEF Grows, Exists
<1>3. LedgerStep
  BY DEF LedgerStep, Ledger!vars, Live
<1> QED BY <1>1, <1>2, <1>3

\* A new row with its vector.
LEMMA InsertStep ==
  ASSUME StoreInv, StoresTypeOK, NEW r \in Unused, NEW row \in Row, UpsertWithVector(r, row),
         row.status = "live", row.by = None, UNCHANGED <<archived, audited>>
  PROVE  StoreInv' /\ Grows /\ LedgerStep
<1>0. r \in Records /\ t1[r].status = "absent" /\ ~ Exists(r)
  BY DEF Unused, Exists
<1>1. \A s \in Records : t1'[s] = IF s = r THEN row ELSE t1[s]
  BY DEF UpsertWithVector, StoresTypeOK
<1>2. vec' = vec \cup {r} /\ pinned' = IF row.prot THEN pinned \cup {r} ELSE pinned
  BY DEF UpsertWithVector
<1>3. pinned \subseteq Records /\ archived \subseteq Records
  BY DEF StoresTypeOK
<1>4. PinnedKept'
  BY <1>0, <1>1, <1>2, <1>3 DEF StoreInv, PinnedKept, Live
<1>5. LiveSearchable'
  BY <1>1, <1>2 DEF StoreInv, LiveSearchable, Live
<1>6. SuccessorExists'
  <2> SUFFICES ASSUME NEW s \in Records, t1'[s].by # None
               PROVE  /\ t1'[s].status = "retired"
                      /\ t1'[t1'[s].by].status # "absent"
                      /\ t1'[t1'[s].by].user = t1'[s].user
                      /\ t1'[t1'[s].by].over = s
    BY DEF SuccessorExists, Exists
  <2>1. s # r /\ t1'[s] = t1[s]
    BY <1>1
  <2>2. t1[s].by \in Records
    BY <2>1 DEF StoresTypeOK, Row
  <2>3. t1[s].by # r
    BY <1>0, <2>1 DEF StoreInv, SuccessorExists, Exists
  <2> QED BY <1>1, <2>1, <2>2, <2>3 DEF StoreInv, SuccessorExists, Exists
<1>7. AuditTrailOrdered'
  BY <1>0, <1>1, <1>2, <1>3 DEF StoreInv, AuditTrailOrdered
<1>8. Grows
  BY <1>0, <1>1, <1>2 DEF Grows, Exists
<1>9. LedgerStep
  <2> DEFINE live == {s \in Records : Live(s)}
             retired == {s \in Records : t1[s].status = "retired"}
  <2>1. r \in Records \ (live \cup retired)
    BY <1>0 DEF Live
  <2>2. live' = live \cup {r}
    BY <1>0, <1>1 DEF Live
  <2>3. retired' = retired
    BY <1>0, <1>1
  <2>4. [s \in Records |-> t1[s].by]' = [s \in Records |-> t1[s].by]
    <3>1. \A s \in Records : t1'[s].by = t1[s].by
      <4>1. t1[r].by = None
        BY <1>0 DEF StoreInv, SuccessorExists
      <4> QED BY <1>1, <4>1
    <3> QED BY <3>1
  <2>5. pinned' \in {pinned, pinned \cup {r}}
    BY <1>2
  <2>6. Ledger!Write(r)
    BY <2>1, <2>2, <2>3, <2>4, <2>5 DEF Ledger!Write, Ledger!Fresh
  <2> QED BY <1>0, <2>6 DEF LedgerStep, Ledger!Next
<1> QED BY <1>4, <1>5, <1>6, <1>7, <1>8, <1>9 DEF StoreInv

\* A rewrite of one row that keeps its status, its user and its edges, and the flag
\* of a row that was born protected.
LEMMA RewriteStep ==
  ASSUME StoreInv, StoresTypeOK, NEW r \in Records, NEW row \in Row, Update(r, row),
         row.status = t1[r].status, row.user = t1[r].user, row.by = t1[r].by,
         row.over = t1[r].over, r \in pinned => row.prot,
         UNCHANGED <<vec, pinned, archived, audited>>
  PROVE  StoreInv' /\ Grows /\ LedgerStep
<1>1. \A s \in Records : t1'[s] = IF s = r THEN row ELSE t1[s]
  BY DEF Update, StoresTypeOK
<1>2. \A s \in Records : /\ t1'[s].status = t1[s].status
                         /\ t1'[s].user = t1[s].user
                         /\ t1'[s].by = t1[s].by
                         /\ t1'[s].over = t1[s].over
  BY <1>1
<1>3. pinned \subseteq Records /\ archived \subseteq Records
  BY DEF StoresTypeOK
<1>4. PinnedKept'
  BY <1>1, <1>2, <1>3 DEF StoreInv, PinnedKept, Live
<1>5. LiveSearchable'
  BY <1>2 DEF StoreInv, LiveSearchable, Live
<1>6. SuccessorExists'
  <2>1. \A s \in Records : t1[s].by \in Records \cup {None}
    BY DEF StoresTypeOK, Row
  <2> QED BY <1>2, <2>1 DEF StoreInv, SuccessorExists, Exists
<1>7. AuditTrailOrdered'
  BY <1>2, <1>3 DEF StoreInv, AuditTrailOrdered
<1>8. Grows
  BY <1>2 DEF Grows, Exists
<1>9. LedgerStep
  BY <1>2 DEF LedgerStep, Ledger!vars, Live
<1> QED BY <1>4, <1>5, <1>6, <1>7, <1>8, <1>9 DEF StoreInv

\* Retiring a row that was not born protected.
LEMMA RetireStep ==
  ASSUME StoreInv, StoresTypeOK, NEW r \in Records, Exists(r), r \notin pinned,
         Update(r, [t1[r] EXCEPT !.status = "retired"]),
         UNCHANGED <<vec, pinned, archived, audited>>
  PROVE  StoreInv' /\ Grows /\ LedgerStep /\ t1'[r].status = "retired"
<1>0. t1[r] \in Row
  BY DEF StoresTypeOK
<1>1. /\ t1'[r].status = "retired"
      /\ \A s \in Records : /\ s # r => t1'[s] = t1[s]
                            /\ t1'[s].prot = t1[s].prot
                            /\ t1'[s].user = t1[s].user
                            /\ t1'[s].by = t1[s].by
                            /\ t1'[s].over = t1[s].over
  <2> DEFINE row == [t1[r] EXCEPT !.status = "retired"]
  <2>1. row.status = "retired" /\ row.prot = t1[r].prot /\ row.user = t1[r].user
        /\ row.by = t1[r].by /\ row.over = t1[r].over
    BY <1>0 DEF Row
  <2>2. \A s \in Records : t1'[s] = IF s = r THEN row ELSE t1[s]
    BY DEF Update, StoresTypeOK
  <2> HIDE DEF row
  <2> QED BY <2>1, <2>2
<1>2. pinned \subseteq Records /\ archived \subseteq Records
  BY DEF StoresTypeOK
<1>3. PinnedKept'
  BY <1>1, <1>2 DEF StoreInv, PinnedKept, Live
<1>4. LiveSearchable'
  BY <1>1 DEF StoreInv, LiveSearchable, Live
<1>5. SuccessorExists'
  <2>1. \A s \in Records : t1[s].by \in Records \cup {None}
    BY DEF StoresTypeOK, Row
  <2>2. \A s \in Records : t1'[s].status \in {t1[s].status, "retired"}
    BY <1>1
  <2> QED BY <1>1, <2>1, <2>2 DEF StoreInv, SuccessorExists, Exists
<1>6. AuditTrailOrdered'
  BY <1>1, <1>2 DEF StoreInv, AuditTrailOrdered
<1>7. Grows
  BY <1>1 DEF Grows, Exists
<1>8. LedgerStep
  <2> DEFINE live == {s \in Records : Live(s)}
             retired == {s \in Records : t1[s].status = "retired"}
  <2>1. [s \in Records |-> t1[s].by]' = [s \in Records |-> t1[s].by]
    BY <1>1
  <2>2. live' = live \ {r} /\ retired' = retired \cup {r}
    BY <1>1 DEF Live
  <2>3. CASE t1[r].status = "retired"
    <3>1. live' = live /\ retired' = retired
      BY <2>2, <2>3 DEF Live
    <3> QED BY <2>1, <3>1 DEF LedgerStep, Ledger!vars
  <2>4. CASE t1[r].status # "retired"
    <3>1. r \in live \ pinned
      BY <1>0, <2>4 DEF Live, Exists, Row
    <3>2. Ledger!Retire(r)
      BY <2>1, <2>2, <3>1 DEF Ledger!Retire
    <3> QED BY <3>2 DEF LedgerStep, Ledger!Next
  <2> QED BY <2>3, <2>4
<1> QED BY <1>1, <1>3, <1>4, <1>5, <1>6, <1>7, <1>8 DEF StoreInv

\* Superseding a row that was not born protected.
LEMMA SupersedeStep ==
  ASSUME StoreInv, StoresTypeOK, NEW old \in Records, NEW r \in Unused, NEW row \in Row,
         old \notin pinned, Supersede(old, r, row), UNCHANGED <<archived, audited>>,
         row.status = "live", row.by = None, row.over = old
  PROVE  StoreInv' /\ Grows /\ LedgerStep
<1> DEFINE gone == [t1[old] EXCEPT !.status = "retired", !.by = r]
<1>0. /\ r \in Records /\ t1[r].status = "absent" /\ t1[old] \in Row
      /\ t1[old].status # "absent" /\ r # old /\ t1[old].user = row.user
  BY DEF Unused, Exists, Supersede, StoresTypeOK
<1>1. /\ gone.status = "retired" /\ gone.by = r
      /\ gone.user = t1[old].user /\ gone.over = t1[old].over
  BY <1>0 DEF Row
<1>2. \A s \in Records : t1'[s] = IF s = r THEN row ELSE IF s = old THEN gone ELSE t1[s]
  <2>1. t1' = [t1 EXCEPT ![old] = gone, ![r] = row]
    BY DEF Supersede
  <2> HIDE DEF gone
  <2> QED BY <1>0, <2>1 DEF StoresTypeOK
<1> HIDE DEF gone
<1>3. vec' = vec \cup {r} /\ pinned' = IF row.prot THEN pinned \cup {r} ELSE pinned
  BY DEF Supersede
<1>4. pinned \subseteq Records /\ archived \subseteq Records
  BY DEF StoresTypeOK
<1>5. PinnedKept'
  BY <1>0, <1>2, <1>3, <1>4 DEF StoreInv, PinnedKept, Live
<1>6. LiveSearchable'
  BY <1>1, <1>2, <1>3 DEF StoreInv, LiveSearchable, Live
<1>7. SuccessorExists'
  <2> SUFFICES ASSUME NEW s \in Records, t1'[s].by # None
               PROVE  /\ t1'[s].status = "retired"
                      /\ t1'[t1'[s].by].status # "absent"
                      /\ t1'[t1'[s].by].user = t1'[s].user
                      /\ t1'[t1'[s].by].over = s
    BY DEF SuccessorExists, Exists
  <2>1. s # r
    BY <1>2
  <2>2. CASE s = old
    BY <1>0, <1>1, <1>2, <2>1, <2>2
  <2>3. CASE s # old
    <3>1. t1'[s] = t1[s] /\ t1[s].by # None
      BY <1>2, <2>1, <2>3
    <3>2. t1[s].by \in Records
      BY <3>1 DEF StoresTypeOK, Row
    <3>3. /\ t1[s].status = "retired" /\ t1[t1[s].by].status # "absent"
          /\ t1[t1[s].by].user = t1[s].user /\ t1[t1[s].by].over = s
      BY <3>1 DEF StoreInv, SuccessorExists, Exists
    <3>4. t1[s].by # r
      BY <1>0, <3>3
    <3> QED BY <1>1, <1>2, <3>1, <3>2, <3>3, <3>4
  <2> QED BY <2>2, <2>3
<1>8. AuditTrailOrdered'
  BY <1>0, <1>1, <1>2, <1>3, <1>4 DEF StoreInv, AuditTrailOrdered
<1>9. Grows
  BY <1>0, <1>1, <1>2, <1>3 DEF Grows, Exists
<1>10. LedgerStep
  <2> DEFINE live == {s \in Records : Live(s)}
             retired == {s \in Records : t1[s].status = "retired"}
             successor == [s \in Records |-> t1[s].by]
  <2>1. r \in Records \ (live \cup retired)
    BY <1>0 DEF Live
  <2>2. old \in (live \cup retired) \ pinned
    BY <1>0 DEF Live, Row
  <2>3. live' = (live \ {old}) \cup {r}
    BY <1>0, <1>1, <1>2 DEF Live
  <2>4. retired' = retired \cup {old}
    BY <1>0, <1>1, <1>2
  <2>5. successor' = [successor EXCEPT ![old] = r]
    <3>1. t1[r].by = None
      BY <1>0 DEF StoreInv, SuccessorExists
    <3>2. \A s \in Records : t1'[s].by = IF s = old THEN r ELSE t1[s].by
      BY <1>0, <1>1, <1>2, <3>1
    <3> QED BY <3>2
  <2>6. pinned' \in {pinned, pinned \cup {r}}
    BY <1>3
  <2>7. Ledger!Supersede(old, r)
    BY <2>1, <2>2, <2>3, <2>4, <2>5, <2>6 DEF Ledger!Supersede, Ledger!Fresh
  <2> QED BY <1>0, <2>7 DEF LedgerStep, Ledger!Next
<1> QED BY <1>5, <1>6, <1>7, <1>8, <1>9, <1>10 DEF StoreInv

\* The index and the logs, for a row that is retired.
LEMMA LogStep ==
  ASSUME StoreInv, StoresTypeOK, NEW r \in Records, t1[r].status = "retired",
         UNCHANGED <<t1, pinned>>,
         \/ vec' = vec \ {r} /\ UNCHANGED <<archived, audited>>
         \/ r \notin vec /\ archived' = archived \cup {r} /\ UNCHANGED <<vec, audited>>
         \/ r \in archived /\ audited' = audited \cup {r} /\ UNCHANGED <<vec, archived>>
  PROVE  StoreInv' /\ Grows /\ LedgerStep
<1>1. r \notin pinned
  BY DEF StoreInv, PinnedKept, Live
<1>2. PinnedKept' /\ LiveSearchable' /\ SuccessorExists'
  <2>1. \A s \in vec \ vec' : s = r
    OBVIOUS
  <2>2. PinnedKept'
    BY <1>1, <2>1 DEF StoreInv, PinnedKept, Live
  <2>3. LiveSearchable'
    BY <2>1 DEF StoreInv, LiveSearchable, Live
  <2>4. SuccessorExists'
    BY DEF StoreInv, SuccessorExists, Exists
  <2> QED BY <2>2, <2>3, <2>4
<1>3. AuditTrailOrdered'
  <2>1. audited' \subseteq archived'
    BY DEF StoreInv, AuditTrailOrdered
  <2>2. \A s \in archived' : t1'[s].status = "retired" /\ s \notin vec'
    BY DEF StoreInv, AuditTrailOrdered
  <2> QED BY <2>1, <2>2 DEF AuditTrailOrdered
<1>4. Grows
  BY DEF Grows, Exists
<1>5. LedgerStep
  BY DEF LedgerStep, Ledger!vars, Live
<1> QED BY <1>2, <1>3, <1>4, <1>5 DEF StoreInv

-----------------------------------------------------------------------------
(***************************************************************************)
(* What the other coroutines know survives every such step.                *)
(***************************************************************************)

LEMMA RunKnowledgeStable ==
  ASSUME TypeInv, Grows, NEW c \in Runs, RunKnows(c), runs'[c] = runs[c]
  PROVE  RunKnows(c)'
<1> DEFINE r == runs[c].near
<1>0. r \in Records \cup {None}
  BY RunFields DEF TypeInv, TypeOK
<1>1. r # None => /\ t1'[r].status # "absent"
                  /\ t1'[r].over = t1[r].over
                  /\ r \in pinned' => r \in pinned
  BY <1>0 DEF RunKnows, Grows, Exists
<1>2. None \notin pinned /\ (runs[c].pc \in {"reconcile", "judge"} => r # None)
  BY StoresAssumption DEF TypeInv, TypeOK, StoresTypeOK, RunShape
<1> QED BY <1>1, <1>2 DEF RunKnows, Exists

LEMMA VictimKnowledgeStable ==
  ASSUME TypeInv, Grows, NEW k \in Evictors, VictimKnown(k), evictor'[k] = evictor[k]
  PROVE  VictimKnown(k)'
<1> DEFINE e == evictor[k]
<1>0. e.victims \subseteq Records
  BY DEF TypeInv, TypeOK, ForgetTypeOK, EvictorType
<1>1. \A r \in e.victims : Exists(r)' /\ r \notin pinned'
  BY <1>0 DEF VictimKnown, Grows
<1>2. ASSUME e.pc \in {"unvector", "archive", "audit"}
      PROVE  /\ t1'[e.victim].status = "retired"
             /\ e.pc \in {"archive", "audit"} => e.victim \notin vec'
             /\ e.pc = "audit" => e.victim \in archived'
  <2>1. e.victim \in Records /\ t1[e.victim].status = "retired"
    BY <1>2 DEF TypeInv, VictimShape, VictimKnown
  <2>2. Exists(e.victim)
    BY <2>1 DEF Exists
  <2> QED BY <1>2, <2>1, <2>2 DEF Grows, VictimKnown
<1> QED BY <1>1, <1>2 DEF VictimKnown, Exists

\* All of them, when one run at most has moved and no evictor has.
LEMMA OthersKnow ==
  ASSUME IInv, Grows, UNCHANGED <<write, t1id>>, UNCHANGED evictor,
         \A c \in Runs : runs'[c] = runs[c] \/ RunKnows(c)'
  PROVE  /\ \A c \in Runs : RunKnows(c)'
         /\ \A k \in Evictors : VictimKnown(k)'
         /\ \A t \in Turns : ClaimPinned(t)'
<1>1. \A c \in Runs : RunKnows(c)'
  BY RunKnowledgeStable DEF IInv
<1>2. \A k \in Evictors : VictimKnown(k)'
  BY VictimKnowledgeStable DEF IInv
<1>3. \A t \in Turns : ClaimPinned(t)'
  BY DEF IInv, ClaimPinned, Grows
<1> QED BY <1>1, <1>2, <1>3

-----------------------------------------------------------------------------
(***************************************************************************)
(* One lemma per component.                                                *)
(***************************************************************************)
LEMMA RememberKeeps ==
  ASSUME IInv, NEW t \in Turns, Remember(t)
  PROVE  IInv' /\ LedgerStep
<1>0. /\ TypeInv /\ StoreInv /\ StoresTypeOK /\ WriteTypeOK
      /\ UNCHANGED evictor /\ UNCHANGED runs
  BY DEF IInv, TypeInv, TypeOK, Remember, runVars
<1>1. TypeInv'
  BY <1>0, RememberTypes
<1>2. ASSUME StoreInv', Grows, LedgerStep, \A s \in Turns : ClaimPinned(s)'
      PROVE  IInv' /\ LedgerStep
  <2>1. \A c \in Runs : RunKnows(c)'
    BY <1>0, <1>2, RunKnowledgeStable DEF IInv
  <2>2. \A k \in Evictors : VictimKnown(k)'
    BY <1>0, <1>2, VictimKnowledgeStable DEF IInv
  <2> QED BY <1>1, <1>2, <2>1, <2>2 DEF IInv
<1>3. ASSUME NEW s \in Turns, s # t, Grows, write'[s] = write[s], t1id'[s] = t1id[s]
      PROVE  ClaimPinned(s)'
  BY <1>3 DEF IInv, ClaimPinned, Grows
<1>4. CASE RememberAppend(t) \/ RememberPush(t)
  <2>1. StoreInv' /\ Grows /\ LedgerStep
    BY <1>0, <1>4, QuietStep DEF RememberAppend, T0Append, RememberPush
  <2>2. ClaimPinned(t)'
    BY <1>0, <1>4 DEF RememberAppend, T0Append, RememberPush, NeedsRecord, ClaimPinned, WriteTypeOK
  <2>3. \A s \in Turns : s # t => ClaimPinned(s)'
    BY <1>0, <1>3, <1>4, <2>1 DEF RememberAppend, T0Append, RememberPush, WriteTypeOK
  <2> QED BY <1>2, <2>1, <2>2, <2>3
<1>5. CASE RememberStore(t)
  <2>1. PICK r \in Unused : UpsertWithVector(r, ProvisionalRow(t)) /\ t1id' = [t1id EXCEPT ![t] = r]
    BY <1>5 DEF RememberStore
  <2>2. /\ ProvisionalRow(t).status = "live" /\ ProvisionalRow(t).by = None
        /\ ProvisionalRow(t).prot = Input[t].safety
    BY DEF ProvisionalRow, NoRow
  <2>3. StoreInv' /\ Grows /\ LedgerStep
    BY <1>0, <1>5, <2>1, <2>2, ProvisionalRowType, InsertStep DEF RememberStore
  <2>4. ClaimPinned(t)'
    BY <1>0, <1>5, <2>1, <2>2 DEF UpsertWithVector, ClaimPinned, WriteTypeOK
  <2>5. \A s \in Turns : s # t => ClaimPinned(s)'
    BY <1>0, <1>3, <1>5, <2>1, <2>3 DEF RememberStore, WriteTypeOK
  <2> QED BY <1>2, <2>3, <2>4, <2>5
<1>6. CASE RememberStage(t) \/ RememberFails(t)
  <2>1. StoreInv' /\ Grows /\ LedgerStep
    BY <1>0, <1>6, QuietStep DEF RememberStage, RememberFails, storeVars
  <2>2. ClaimPinned(t)'
    BY <1>0, <1>6, <2>1 DEF IInv, RememberStage, RememberFails, ClaimPinned, WriteTypeOK, Grows
  <2>3. \A s \in Turns : s # t => ClaimPinned(s)'
    BY <1>0, <1>3, <1>6, <2>1 DEF RememberStage, RememberFails, WriteTypeOK
  <2> QED BY <1>2, <2>1, <2>2, <2>3
<1> QED BY <1>4, <1>5, <1>6 DEF Remember, WriteNext

\* An eviction that starts knows its victims.
LEMMA StartEvictionKnows ==
  ASSUME IInv, Grows, NEW k \in Evictors, NEW victims \in SUBSET Records,
         StartEviction(k, victims), \A r \in victims : Exists(r) /\ r \notin pinned
  PROVE  \A j \in Evictors : VictimKnown(j)'
<1> DEFINE e == IF victims = {} THEN IdleEvictor
                ELSE [pc |-> "retire", victims |-> victims, victim |-> None]
<1>1. e.victims \subseteq victims /\ e.pc \in {"idle", "retire"}
  BY DEF IdleEvictor
<1>2. evictor' = [evictor EXCEPT ![k] = e]
  BY DEF StartEviction
<1> HIDE DEF e
<1>3. evictor'[k] = e /\ \A j \in Evictors \ {k} : evictor'[j] = evictor[j]
  BY <1>2 DEF IInv, TypeInv, TypeOK, ForgetTypeOK
<1>4. VictimKnown(k)'
  BY <1>1, <1>3 DEF VictimKnown, Grows, Exists
<1>5. \A j \in Evictors \ {k} : VictimKnown(j)'
  BY <1>3, VictimKnowledgeStable DEF IInv
<1> QED BY <1>4, <1>5

LEMMA EvictKeeps ==
  ASSUME IInv, NEW k \in Evictors, EvictStep(k)
  PROVE  IInv' /\ LedgerStep
<1>0. /\ TypeInv /\ StoreInv /\ StoresTypeOK /\ VictimKnown(k) /\ VictimShape
      /\ evictor \in [Evictors -> EvictorType]
      /\ UNCHANGED runs /\ UNCHANGED <<write, t1id>>
  BY DEF IInv, TypeInv, TypeOK, ForgetTypeOK, EvictStep, writeVars, runVars
<1>1. TypeInv'
  BY <1>0, EvictTypes
<1>2. ASSUME StoreInv', Grows, LedgerStep, VictimKnown(k)',
             \A j \in Evictors \ {k} : evictor'[j] = evictor[j]
      PROVE  IInv' /\ LedgerStep
  <2>1. \A c \in Runs : RunKnows(c)'
    BY <1>0, <1>2, RunKnowledgeStable DEF IInv
  <2>2. \A j \in Evictors : VictimKnown(j)'
    BY <1>0, <1>2, VictimKnowledgeStable DEF IInv
  <2>3. \A t \in Turns : ClaimPinned(t)'
    BY <1>0, <1>2 DEF IInv, ClaimPinned, Grows
  <2> QED BY <1>1, <1>2, <2>1, <2>2, <2>3 DEF IInv
<1>3. CASE RetireVictim(k)
  <2>1. PICK r \in evictor[k].victims :
          /\ Update(r, [t1[r] EXCEPT !.status = "retired"])
          /\ evictor' = [evictor EXCEPT ![k] = [pc |-> "unvector", victim |-> r,
                                                victims |-> evictor[k].victims \ {r}]]
    BY <1>3 DEF RetireVictim
  <2>2. r \in Records /\ Exists(r) /\ r \notin pinned
    BY <1>0 DEF VictimKnown, EvictorType
  <2>3. StoreInv' /\ Grows /\ LedgerStep /\ t1'[r].status = "retired"
    BY <1>0, <1>3, <2>1, <2>2, RetireStep DEF RetireVictim
  <2>4. evictor'[k] = [pc |-> "unvector", victim |-> r, victims |-> evictor[k].victims \ {r}]
        /\ \A j \in Evictors \ {k} : evictor'[j] = evictor[j]
    BY <1>0, <2>1
  <2>5. \A s \in evictor[k].victims : s \in Records /\ Exists(s)' /\ s \notin pinned'
    BY <1>0, <2>3 DEF VictimKnown, EvictorType, Grows
  <2>6. VictimKnown(k)'
    BY <2>3, <2>4, <2>5 DEF VictimKnown, Exists
  <2> QED BY <1>2, <2>3, <2>4, <2>6
<1>4. ASSUME NEW pc \in {"archive", "audit"}, evictor' = [evictor EXCEPT ![k].pc = pc],
             StoreInv', Grows, LedgerStep, evictor[k].pc \in {"unvector", "archive"},
             evictor[k].victim \notin vec', pc = "audit" => evictor[k].victim \in archived'
      PROVE  IInv' /\ LedgerStep
  <2>1. /\ evictor'[k].pc = pc /\ evictor'[k].victim = evictor[k].victim
        /\ evictor'[k].victims = evictor[k].victims
        /\ \A j \in Evictors \ {k} : evictor'[j] = evictor[j]
    BY <1>0, <1>4 DEF EvictorType
  <2>2. evictor[k].victim \in Records /\ t1[evictor[k].victim].status = "retired"
    BY <1>0, <1>4 DEF VictimShape, VictimKnown
  <2>3. t1'[evictor[k].victim].status = "retired"
    BY <1>4, <2>2 DEF Grows, Exists
  <2>4. \A s \in evictor[k].victims : Exists(s)' /\ s \notin pinned'
    BY <1>0, <1>4 DEF VictimKnown, EvictorType, Grows
  <2>5. VictimKnown(k)'
    BY <1>4, <2>1, <2>3, <2>4 DEF VictimKnown, Exists
  <2> QED BY <1>2, <1>4, <2>1, <2>5
<1>5. CASE DeleteVector(k)
  <2>1. evictor[k].victim \in Records /\ t1[evictor[k].victim].status = "retired"
    BY <1>0, <1>5 DEF DeleteVector, VictimShape, VictimKnown
  <2>2. StoreInv' /\ Grows /\ LedgerStep
    BY <1>0, <1>5, <2>1, LogStep DEF DeleteVector
  <2> QED BY <1>4, <1>5, <2>2 DEF DeleteVector
<1>6. CASE ArchiveVictim(k)
  <2>1. evictor[k].victim \in Records /\ t1[evictor[k].victim].status = "retired"
        /\ evictor[k].victim \notin vec
    BY <1>0, <1>6 DEF ArchiveVictim, T0Archive, VictimShape, VictimKnown
  <2>2. StoreInv' /\ Grows /\ LedgerStep
    BY <1>0, <1>6, <2>1, LogStep DEF ArchiveVictim, T0Archive
  <2> QED BY <1>4, <1>6, <2>1, <2>2 DEF ArchiveVictim, T0Archive
<1>7. CASE AuditVictim(k)
  <2>1. evictor[k].victim \in Records /\ t1[evictor[k].victim].status = "retired"
        /\ evictor[k].victim \in archived
    BY <1>0, <1>7 DEF AuditVictim, T0AppendAudit, VictimShape, VictimKnown
  <2>2. StoreInv' /\ Grows /\ LedgerStep
    BY <1>0, <1>7, <2>1, LogStep DEF AuditVictim, T0AppendAudit
  <2>3. evictor[k].victims \in SUBSET Records
    BY <1>0 DEF EvictorType
  <2>4. \A j \in Evictors : VictimKnown(j)'
    BY <1>0, <1>7, <2>2, <2>3, StartEvictionKnows DEF AuditVictim, T0AppendAudit, VictimKnown
  <2>5. \A j \in Evictors \ {k} : evictor'[j] = evictor[j]
    BY <1>0, <1>7 DEF AuditVictim, T0AppendAudit, StartEviction
  <2> QED BY <1>2, <2>2, <2>4, <2>5
<1> QED BY <1>3, <1>5, <1>6, <1>7 DEF EvictStep, EvictionStep

\* forget() and evict() choose victims that were not born protected: an unpinned row
\* is what the protection check, and decay_pass, let through.
LEMMA StartKeeps ==
  ASSUME IInv, NEW k \in Calls, NEW u \in Users,
         StartEvict(k, u) \/ \E r \in Records : StartForget(k, u, r)
  PROVE  IInv' /\ LedgerStep
<1>0. /\ TypeInv /\ StoreInv /\ k \in Evictors /\ UNCHANGED storeVars
      /\ UNCHANGED runs /\ UNCHANGED <<write, t1id>>
  BY DEF IInv, StartEvict, StartForget, Evict, Forget, writeVars, runVars, Evictors
<1>1. TypeInv'
  BY <1>0, StartTypes
<1>2. StoreInv' /\ Grows /\ LedgerStep
  BY <1>0, QuietStep DEF storeVars
<1>3. PICK victims \in SUBSET Records :
        StartEviction(k, victims) /\ \A r \in victims : Exists(r) /\ r \notin pinned
  <2> DEFINE Chosen(victims) ==
               StartEviction(k, victims) /\ \A r \in victims : Exists(r) /\ r \notin pinned
  <2> SUFFICES \E victims \in SUBSET Records : Chosen(victims)
    OBVIOUS
  <2>1. ASSUME NEW r \in Records, StartForget(k, u, r)
        PROVE  Chosen({r})
    BY <1>0, <2>1 DEF StartForget, Forget, StoreInv, PinnedKept
  <2>2. CASE StartEvict(k, u)
    <3>1. PICK low \in SUBSET DecayCandidates(u) : StartEviction(k, low)
      BY <2>2 DEF StartEvict, Evict
    <3>2. \A r \in low : r \in Records /\ Exists(r) /\ r \notin pinned
      BY <1>0 DEF DecayCandidates, LiveOf, Live, Exists, StoreInv, PinnedKept
    <3>3. low \in SUBSET Records /\ Chosen(low)
      BY <3>1, <3>2
    <3> HIDE DEF Chosen
    <3> QED BY <3>3
  <2> HIDE DEF Chosen
  <2>3. \A r \in Records : {r} \in SUBSET Records
    OBVIOUS
  <2> QED BY <2>1, <2>2, <2>3
<1>4. \A j \in Evictors : VictimKnown(j)'
  BY <1>0, <1>2, <1>3, StartEvictionKnows
<1>5. \A c \in Runs : RunKnows(c)'
  BY <1>0, <1>2, RunKnowledgeStable DEF IInv
<1>6. \A t \in Turns : ClaimPinned(t)'
  BY <1>0, <1>2 DEF IInv, ClaimPinned, Grows
<1> QED BY <1>1, <1>2, <1>4, <1>5, <1>6 DEF IInv

LEMMA DrainKeeps ==
  ASSUME IInv, NEW c \in Runs, NEW s \in Scopes, StartRun(c, s)
  PROVE  IInv' /\ LedgerStep
<1>0. /\ TypeInv /\ StoreInv /\ UNCHANGED evictor /\ UNCHANGED <<write, t1id>>
      /\ runs \in [Runs -> RunType]
  BY DEF IInv, TypeInv, TypeOK, RunTypeOK, StartRun, Drain, writeVars
<1>1. TypeInv'
  BY <1>0, DrainTypes
<1>2. StoreInv' /\ Grows /\ LedgerStep
  BY <1>0, QuietStep DEF StartRun, Drain
<1>3. runs'[c].near = None /\ runs'[c].pc \notin {"reconcile", "judge"}
      /\ \A d \in Runs \ {c} : runs'[d] = runs[d]
  BY <1>0 DEF StartRun, Drain, IdleRun
<1>4. RunKnows(c)'
  BY <1>3 DEF RunKnows
<1> QED BY <1>0, <1>1, <1>2, <1>3, <1>4, OthersKnow DEF IInv

\* After a failure or a crash nothing is in flight and the stores stand as they were.
LEMMA FailKeeps ==
  ASSUME IInv, (\E k \in Calls : CallFails(k)) \/ (\E c \in Runs : ConsolidateFails(c)) \/ Crash
  PROVE  IInv' /\ LedgerStep
<1>0. TypeInv /\ StoreInv /\ runs \in [Runs -> RunType] /\ evictor \in [Evictors -> EvictorType]
      /\ write \in [Turns -> WriteStates]
  BY DEF IInv, TypeInv, TypeOK, RunTypeOK, ForgetTypeOK, WriteTypeOK
<1>1. TypeInv'
  BY <1>0, FailTypes
<1>2. StoreInv' /\ Grows /\ LedgerStep
  BY <1>0, QuietStep DEF CallFails, EvictionFails, ConsolidateFails, RunFails, Crash, storeVars
<1>3. \A c \in Runs : runs'[c] = runs[c] \/ runs'[c] = IdleRun
  BY <1>0 DEF CallFails, ConsolidateFails, RunFails, Abort, Crash, RunCrash, runVars
<1>4. \A k \in Evictors : evictor'[k] = evictor[k] \/ evictor'[k] = IdleEvictor
  BY <1>0 DEF CallFails, EvictionFails, ConsolidateFails, RunFails, Crash, ForgetCrash
<1>5. \A t \in Turns : t1id'[t] = t1id[t] /\ (write'[t] = write[t] \/ write'[t] = "failed")
  BY <1>0 DEF CallFails, ConsolidateFails, Crash, WriteCrash, writeVars
<1>6. ASSUME NEW c \in Runs PROVE RunKnows(c)'
  <2>1. CASE runs'[c] = runs[c]
    BY <1>0, <1>2, <2>1, RunKnowledgeStable DEF IInv
  <2>2. CASE runs'[c] = IdleRun
    BY <2>2 DEF RunKnows, IdleRun
  <2> QED BY <1>3, <2>1, <2>2
<1>7. ASSUME NEW k \in Evictors PROVE VictimKnown(k)'
  <2>1. CASE evictor'[k] = evictor[k]
    BY <1>0, <1>2, <2>1, VictimKnowledgeStable DEF IInv
  <2>2. CASE evictor'[k] = IdleEvictor
    BY <2>2 DEF VictimKnown, IdleEvictor
  <2> QED BY <1>4, <2>1, <2>2
<1>8. \A t \in Turns : ClaimPinned(t)'
  BY <1>2, <1>5 DEF IInv, ClaimPinned, Grows
<1> QED BY <1>1, <1>2, <1>6, <1>7, <1>8 DEF IInv

LEMMA ConsolidateKeeps ==
  ASSUME IInv, NEW c \in Runs, Consolidate(c)
  PROVE  IInv' /\ LedgerStep
<1> DEFINE near == runs[c].near
<1>0. /\ TypeInv /\ StoreInv /\ StoresTypeOK /\ RunTypeOK /\ RunShape /\ RunKnows(c)
      /\ runs \in [Runs -> RunType] /\ runs[c] \in RunType
      /\ UNCHANGED <<write, t1id>> /\ pinned \subseteq Records
  BY DEF IInv, TypeInv, TypeOK, StoresTypeOK, RunTypeOK, Consolidate, writeVars
<1>1. TypeInv'
  BY <1>0, ConsolidateTypes
<1>2. ASSUME StoreInv', Grows, LedgerStep, UNCHANGED evictor, NEW s, RunKnows(c)',
             runs' = [runs EXCEPT ![c] = s]
      PROVE  IInv' /\ LedgerStep
  <2>1. \A d \in Runs \ {c} : runs'[d] = runs[d]
    BY <1>0, <1>2
  <2> QED BY <1>0, <1>1, <1>2, <2>1, OthersKnow DEF IInv
<1>3. ASSUME StoreInv', Grows, LedgerStep, UNCHANGED evictor, NextItem(c)
      PROVE  IInv' /\ LedgerStep
  <2> DEFINE s == [runs[c] EXCEPT !.pc = "item", !.ext = NoItem, !.near = None, !.seen = NoRow]
  <2>1. runs' = [runs EXCEPT ![c] = s]
    BY <1>3 DEF NextItem
  <2>2. s.near = None /\ s.pc = "item"
    BY <1>0 DEF RunType
  <2> HIDE DEF s
  <2>3. RunKnows(c)'
    BY <1>0, <2>1, <2>2 DEF RunKnows
  <2> QED BY <1>2, <1>3, <2>1, <2>3
\* A step of the run itself that reads nothing new.
<1>4. ASSUME UNCHANGED <<t1, vec, pinned, archived, audited>>, UNCHANGED evictor, NEW s,
             runs' = [runs EXCEPT ![c] = s], s.near \in {None, near},
             s.pc \notin {"reconcile", "judge"}
      PROVE  IInv' /\ LedgerStep
  <2>1. StoreInv' /\ Grows /\ LedgerStep
    BY <1>0, <1>4, QuietStep
  <2>2. runs'[c] = s
    BY <1>0, <1>4
  <2>3. RunKnows(c)'
    BY <1>0, <1>4, <2>2 DEF RunKnows, Exists
  <2> QED BY <1>2, <1>4, <2>1, <2>3
\* A step in which the run reads a live row, or reads its near row again.
<1>5. ASSUME UNCHANGED <<t1, vec, pinned, archived, audited>>, UNCHANGED evictor, NEW s,
             runs' = [runs EXCEPT ![c] = s], s.near \in Records, Exists(s.near),
             s.pc \in {"reconcile", "judge"} => s.seen = t1[s.near]
      PROVE  IInv' /\ LedgerStep
  <2>1. StoreInv' /\ Grows /\ LedgerStep
    BY <1>0, <1>5, QuietStep
  <2>2. runs'[c] = s
    BY <1>0, <1>5
  <2>3. RunKnows(c)'
    BY <1>0, <1>5, <2>2 DEF RunKnows, Exists, StoreInv, PinnedKept
  <2> QED BY <1>2, <1>5, <2>1, <2>3
<1>6. CASE Extract(c)
  <2>1. PICK n \in 0..MaxItems : runs' = [runs EXCEPT ![c] = [runs[c] EXCEPT !.pc = "item", !.left = n]]
    BY <1>6 DEF Extract
  <2>2. /\ [runs[c] EXCEPT !.pc = "item", !.left = n].near = near
        /\ [runs[c] EXCEPT !.pc = "item", !.left = n].pc = "item"
    BY <1>0 DEF RunType
  <2> QED BY <1>4, <1>6, <2>1, <2>2 DEF Extract, storeVars
<1>7. CASE TakeItem(c)
  <2>1. PICK x \in Extractions :
          LET rest == [runs[c] EXCEPT !.left = @ - 1, !.ext = Pin(x)]
          IN  \/ runs' = [runs EXCEPT ![c] = [rest EXCEPT !.pc = "search"]]
              \/ \E r \in Drafts(Turn(c)) :
                   runs' = [runs EXCEPT ![c] = [rest EXCEPT !.pc = "reconcile",
                                                            !.near = r, !.seen = t1[r]]]
    BY <1>7 DEF TakeItem
  <2> DEFINE rest == [runs[c] EXCEPT !.left = runs[c].left - 1, !.ext = Pin(x)]
  <2>2. \/ runs' = [runs EXCEPT ![c] = [rest EXCEPT !.pc = "search"]]
        \/ \E r \in Drafts(Turn(c)) :
             runs' = [runs EXCEPT ![c] = [rest EXCEPT !.pc = "reconcile",
                                                      !.near = r, !.seen = t1[r]]]
    BY <2>1
  <2>3. CASE runs' = [runs EXCEPT ![c] = [rest EXCEPT !.pc = "search"]]
    <3>1. [rest EXCEPT !.pc = "search"].near = near /\ [rest EXCEPT !.pc = "search"].pc = "search"
      BY <1>0 DEF RunType
    <3> HIDE DEF rest
    <3> QED BY <1>4, <1>7, <2>3, <3>1 DEF TakeItem, storeVars
  <2>4. ASSUME NEW r \in Drafts(Turn(c)),
               runs' = [runs EXCEPT ![c] = [rest EXCEPT !.pc = "reconcile",
                                                        !.near = r, !.seen = t1[r]]]
        PROVE  IInv' /\ LedgerStep
    <3> DEFINE s == [rest EXCEPT !.pc = "reconcile", !.near = r, !.seen = t1[r]]
    <3>1. s.near = r /\ s.seen = t1[r]
      BY <1>0 DEF RunType
    <3>2. r \in Records /\ Exists(r)
      BY DEF Drafts, Live, Exists
    <3>3. runs' = [runs EXCEPT ![c] = s]
      BY <2>4
    <3> HIDE DEF s
    <3>4. Exists(s.near)
      BY <3>1, <3>2
    <3> QED BY <1>5, <1>7, <3>1, <3>2, <3>3, <3>4 DEF TakeItem, storeVars
  <2> QED BY <2>2, <2>3, <2>4
<1>8. CASE Search(c)
  <2>1. CASE runs' = [runs EXCEPT ![c].pc = "insert"]
    <3>1. /\ [runs[c] EXCEPT !.pc = "insert"].near = near
          /\ [runs[c] EXCEPT !.pc = "insert"].pc = "insert"
      BY <1>0 DEF RunType
    <3> QED BY <1>4, <1>8, <2>1, <3>1 DEF Search, storeVars
  <2>2. ASSUME NEW r \in Searchable(UserOfTurn(c)),
               runs' = [runs EXCEPT ![c] = [runs[c] EXCEPT !.pc = "fetch", !.near = r]]
        PROVE  IInv' /\ LedgerStep
    <3> DEFINE s == [runs[c] EXCEPT !.pc = "fetch", !.near = r]
    <3>1. s.near = r /\ s.pc = "fetch"
      BY <1>0 DEF RunType
    <3>2. r \in Records /\ Exists(r)
      BY DEF Searchable, LiveOf, Live, Exists
    <3>3. runs' = [runs EXCEPT ![c] = s]
      BY <2>2
    <3> HIDE DEF s
    <3>4. Exists(s.near)
      BY <3>1, <3>2
    <3> QED BY <1>5, <1>8, <3>1, <3>2, <3>3, <3>4 DEF Search, storeVars
  <2> QED BY <1>8, <2>1, <2>2 DEF Search
<1>9. CASE Fetch(c)
  <2>1. near \in Records /\ Exists(near)
    BY <1>0, <1>9, StoresAssumption DEF Fetch, RunShape, RunKnows
  <2>2. UNCHANGED <<t1, vec, pinned, archived, audited>> /\ UNCHANGED evictor
    BY <1>9 DEF Fetch, storeVars
  <2>3. CASE runs' = [runs EXCEPT ![c] = IdleRun]
    BY <1>4, <2>2, <2>3 DEF IdleRun
  <2>4. CASE runs' = [runs EXCEPT ![c] = [runs[c] EXCEPT !.pc = "judge", !.seen = t1[near]]]
    <3> DEFINE s == [runs[c] EXCEPT !.pc = "judge", !.seen = t1[near]]
    <3>1. s.near = near /\ s.seen = t1[near]
      BY <1>0 DEF RunType
    <3>2. runs' = [runs EXCEPT ![c] = s]
      BY <2>4
    <3> HIDE DEF s
    <3>3. s.near \in Records /\ Exists(s.near) /\ s.seen = t1[s.near]
      BY <2>1, <3>1
    <3> QED BY <1>5, <2>2, <3>2, <3>3
  <2>5. CASE runs' = [runs EXCEPT ![c] = [runs[c] EXCEPT !.pc = "insert", !.near = None]]
    <3>1. /\ [runs[c] EXCEPT !.pc = "insert", !.near = None].near = None
          /\ [runs[c] EXCEPT !.pc = "insert", !.near = None].pc = "insert"
      BY <1>0 DEF RunType
    <3> QED BY <1>4, <2>2, <2>5, <3>1
  <2> QED BY <1>9, <2>3, <2>4, <2>5 DEF Fetch, Abort
\* A rewrite by a run of the row it read: reconcile, refine or a contradiction edge.
<1>10. ASSUME NEW row \in Row, NEW r \in Records, Update(r, row), NextItem(c), r = near,
              row.status = t1[r].status, row.user = t1[r].user, row.by = t1[r].by,
              row.over = t1[r].over, r \in pinned => row.prot,
              UNCHANGED <<vec, pinned, archived, audited>>, UNCHANGED evictor
       PROVE  IInv' /\ LedgerStep
  BY <1>0, <1>3, <1>10, RewriteStep
<1>11. CASE Reconcile(c)
  <2> DEFINE row == [t1[near] EXCEPT !.prov = FALSE, !.type = runs[c].ext.type,
                                     !.high = runs[c].ext.high,
                                     !.prot = runs[c].ext.prot \/ runs[c].seen.prot]
  <2>1. near \in Records /\ runs[c].items # <<>>
    BY <1>0, <1>11 DEF Reconcile, RunShape
  <2>2. t1[near] \in Row /\ row \in Row
    BY <1>0, <2>1, RewrittenRowType DEF StoresTypeOK
  <2>3. /\ row.status = t1[near].status /\ row.user = t1[near].user /\ row.by = t1[near].by
        /\ row.over = t1[near].over /\ row.prot = (runs[c].ext.prot \/ runs[c].seen.prot)
    BY <2>2 DEF Row
  <2>4. near \in pinned => row.prot
    BY <1>0, <1>11, <2>3 DEF Reconcile, RunKnows
  <2>5. Update(near, row)
    BY <1>11 DEF Reconcile
  <2> HIDE DEF row
  <2> QED BY <1>10, <1>11, <2>1, <2>2, <2>3, <2>4, <2>5 DEF Reconcile
<1>12. CASE Refine(c)
  <2> DEFINE row == RefinedRow(c, near)
  <2>1. near \in Records /\ runs[c].items # <<>>
    BY <1>0, <1>12 DEF Refine, RunShape
  <2>2. t1[near] \in Row /\ row \in Row
    BY <1>0, <2>1, RewrittenRowType DEF StoresTypeOK
  <2>3. /\ row.status = t1[near].status /\ row.user = t1[near].user /\ row.by = t1[near].by
        /\ row.over = t1[near].over /\ row.prot = (runs[c].ext.prot \/ runs[c].seen.prot)
    BY <2>2 DEF Row, RefinedRow
  <2>4. near \in pinned => row.prot
    BY <1>0, <1>12, <2>3 DEF Refine, RunKnows
  <2>5. Update(near, row)
    BY <1>12 DEF Refine
  <2> HIDE DEF row
  <2> QED BY <1>10, <1>12, <2>1, <2>2, <2>3, <2>4, <2>5 DEF Refine
<1>13. CASE MarkPending(c)
  <2> DEFINE row == [t1[near] EXCEPT !.pending = runs[c].seen.pending \cup {Turn(c)},
                                     !.over = runs[c].seen.over]
  <2>1. near \in Records /\ runs[c].items # <<>>
    BY <1>0, <1>13 DEF MarkPending, RunShape
  <2>2. t1[near] \in Row /\ row \in Row
    BY <1>0, <2>1, RewrittenRowType DEF StoresTypeOK
  <2>3. runs[c].seen.over = t1[near].over
    BY <1>0, <1>13 DEF MarkPending, RunKnows
  <2>4. /\ row.status = t1[near].status /\ row.user = t1[near].user /\ row.by = t1[near].by
        /\ row.over = t1[near].over /\ row.prot = t1[near].prot
    BY <2>2, <2>3 DEF Row
  <2>5. near \in pinned => row.prot
    BY <1>0, <2>4 DEF StoreInv, PinnedKept
  <2>6. Update(near, row)
    BY <1>13 DEF MarkPending
  <2> HIDE DEF row
  <2> QED BY <1>10, <1>13, <2>1, <2>2, <2>4, <2>5, <2>6 DEF MarkPending
<1>14. CASE InsertNew(c) \/ InsertDistinct(c)
  <2>1. runs[c].items # <<>> /\ Insert(c)
    BY <1>0, <1>14 DEF InsertNew, InsertDistinct, RunShape
  <2>2. PICK r \in Unused : UpsertWithVector(r, ConfirmedRow(c, None))
    BY <2>1 DEF Insert
  <2>3. ConfirmedRow(c, None) \in Row
    BY <1>0, <2>1, ConfirmedRowType
  <2>4. ConfirmedRow(c, None).status = "live" /\ ConfirmedRow(c, None).by = None
    BY DEF ConfirmedRow, NoRow
  <2>5. StoreInv' /\ Grows /\ LedgerStep
    BY <1>0, <2>1, <2>2, <2>3, <2>4, InsertStep DEF Insert
  <2> QED BY <1>3, <2>1, <2>5 DEF Insert
<1>15. CASE SupersedeOld(c)
  <2> DEFINE row == ConfirmedRow(c, near)
  <2>1. near \in Records /\ runs[c].items # <<>>
    BY <1>0, <1>15 DEF SupersedeOld, RunShape
  <2>2. PICK r \in Unused : Supersede(near, r, row)
    BY <1>15 DEF SupersedeOld
  <2>3. row \in Row
    BY <1>0, <2>1, ConfirmedRowType
  <2>4. row.status = "live" /\ row.by = None /\ row.over = near
    BY DEF ConfirmedRow, NoRow
  <2>5. near \notin pinned
    BY <1>0, <1>15 DEF SupersedeOld, Gated, RunKnows
  <2> HIDE DEF row
  <2>6. StoreInv' /\ Grows /\ LedgerStep
    BY <1>0, <1>15, <2>1, <2>2, <2>3, <2>4, <2>5, SupersedeStep DEF SupersedeOld
  <2> QED BY <1>3, <1>15, <2>6 DEF SupersedeOld
<1>16. CASE FinishTurn(c)
  <2> DEFINE s == [runs[c] EXCEPT !.items = Tail(runs[c].items),
                                  !.pc = IF Tail(runs[c].items) = <<>> THEN "sweep" ELSE "extract"]
  <2>1. s.near = near /\ s.pc \in {"sweep", "extract"}
    BY <1>0 DEF RunType
  <2>2. runs' = [runs EXCEPT ![c] = s]
    BY <1>16 DEF FinishTurn
  <2> HIDE DEF s
  <2> QED BY <1>4, <1>16, <2>1, <2>2 DEF FinishTurn, storeVars
<1>17. CASE PromoteUser(c)
  <2>1. PICK u \in runs[c].uids :
          \/ runs' = [runs EXCEPT ![c] = [runs[c] EXCEPT !.pc = "decay", !.uid = u,
                                                         !.uids = runs[c].uids \ {u}]]
          \/ runs' = [runs EXCEPT ![c] = IdleRun]
    BY <1>17, Zenon DEF PromoteUser, VaultPromote, Abort
  <2> DEFINE s == [runs[c] EXCEPT !.pc = "decay", !.uid = u, !.uids = runs[c].uids \ {u}]
  <2>2. s.near = near /\ s.pc = "decay" /\ IdleRun.near = None /\ IdleRun.pc = "idle"
    BY <1>0 DEF RunType, IdleRun
  <2>3. runs' = [runs EXCEPT ![c] = s] \/ runs' = [runs EXCEPT ![c] = IdleRun]
    BY <2>1
  <2> HIDE DEF s
  <2> QED BY <1>4, <1>17, <2>2, <2>3 DEF PromoteUser, VaultPromote
<1>18. CASE DecayScan(c)
  <2>1. StoreInv' /\ Grows /\ LedgerStep
    BY <1>0, <1>18, QuietStep DEF DecayScan, storeVars
  <2>2. \A k \in Evictors : VictimKnown(k)'
    <3>1. PICK low \in SUBSET DecayCandidates(runs[c].uid) : StartEviction(c, low)
      BY <1>18 DEF DecayScan
    <3>2. \A r \in low : r \in Records /\ Exists(r) /\ r \notin pinned
      BY <1>0 DEF DecayCandidates, LiveOf, Live, Exists, StoreInv, PinnedKept
    <3>3. low \in SUBSET Records /\ c \in Evictors
      BY <3>2 DEF Evictors
    <3> QED BY <2>1, <3>1, <3>2, <3>3, StartEvictionKnows
  <2>3. ASSUME NEW d \in Runs PROVE RunKnows(d)'
    <3> DEFINE uids == IF AllReadable(runs[c].uid) THEN runs[c].uids ELSE {}
               s == [runs[c] EXCEPT !.pc = "evict", !.uids = uids]
    <3>2. runs' = [runs EXCEPT ![c] = s]
      BY <1>18 DEF DecayScan
    <3> HIDE DEF uids
    <3>1. s.near = near /\ s.pc = "evict"
      BY <1>0 DEF RunType
    <3> HIDE DEF s
    <3>3. CASE d = c
      <4>1. runs'[c] = s
        BY <1>0, <3>2
      <4>2. runs'[c].near \in {None, near} /\ runs'[c].pc \notin {"reconcile", "judge"}
        BY <3>1, <4>1
      <4>3. UNCHANGED t1
        BY <1>18 DEF DecayScan, storeVars
      <4> QED BY <1>0, <3>3, <4>2, <4>3 DEF RunKnows, Exists
    <3>4. CASE d # c
      <4>1. runs'[d] = runs[d]
        BY <1>0, <3>2, <3>4
      <4> QED BY <1>0, <2>1, <4>1, RunKnowledgeStable DEF IInv
    <3> QED BY <3>3, <3>4
  <2>4. \A t \in Turns : ClaimPinned(t)'
    BY <1>0, <2>1 DEF IInv, ClaimPinned, Grows
  <2> QED BY <1>1, <2>1, <2>2, <2>3, <2>4 DEF IInv
<1>19. CASE FinishUser(c)
  <2> DEFINE s == [runs[c] EXCEPT !.pc = "sweep", !.uid = None]
  <2>1. s.near = near /\ s.pc = "sweep" /\ IdleRun.near = None /\ IdleRun.pc = "idle"
    BY <1>0 DEF RunType, IdleRun
  <2>2. runs' = [runs EXCEPT ![c] = s] \/ runs' = [runs EXCEPT ![c] = IdleRun]
    BY <1>19 DEF FinishUser
  <2> HIDE DEF s
  <2> QED BY <1>4, <1>19, <2>1, <2>2 DEF FinishUser, storeVars
<1> QED BY <1>6, <1>7, <1>8, <1>9, <1>11, <1>12, <1>13, <1>14, <1>15, <1>16, <1>17, <1>18, <1>19
        DEF Consolidate, RunStep

-----------------------------------------------------------------------------
LEMMA InitKnows == Init => IInv
<1> SUFFICES ASSUME Init PROVE IInv
  OBVIOUS
<1>1. TypeInv
  BY InitTypes
<1>2. \A r \in Records : t1[r] = NoRow
  BY DEF Init, StoresInit
<1>3. StoreInv
  BY <1>2 DEF Init, StoresInit, StoreInv, PinnedKept, LiveSearchable, SuccessorExists,
              AuditTrailOrdered, Live, NoRow
<1>4. \A c \in Runs : RunKnows(c)
  BY DEF Init, RunInit, RunKnows, IdleRun
<1>5. \A k \in Evictors : VictimKnown(k)
  BY DEF Init, ForgetInit, VictimKnown, IdleEvictor
<1>6. \A t \in Turns : ClaimPinned(t)
  BY DEF Init, WriteInit, ClaimPinned
<1> QED BY <1>1, <1>3, <1>4, <1>5, <1>6 DEF IInv

LEMMA NextKeeps == IInv /\ [Next]_vars => IInv' /\ LedgerStep
<1> SUFFICES ASSUME IInv, [Next]_vars PROVE IInv' /\ LedgerStep
  OBVIOUS
<1>1. CASE UNCHANGED vars
  <2>1. TypeInv'
    BY <1>1, NextTypes DEF IInv
  <2>2. StoreInv' /\ Grows /\ LedgerStep
    BY <1>1, QuietStep DEF IInv, vars, storeVars
  <2> QED BY <1>1, <2>1, <2>2, OthersKnow DEF IInv, vars, writeVars, runVars
<1>2. CASE Next
  BY <1>2, RememberKeeps, ConsolidateKeeps, DrainKeeps, StartKeeps, EvictKeeps, FailKeeps DEF Next, Work
<1> QED BY <1>1, <1>2

\* The strengthened invariant holds in every reachable state: each step of remember(),
\* consolidate(), forget(), evict() and a crash preserves it.
THEOREM Invariant == Spec => []IInv
BY InitKnows, NextKeeps, PTL DEF Spec

\* Once remember() has returned for safety content, its record stays live, protected
\* and searchable for good, whatever consolidation runs, forget() and evict() calls
\* interleave, fail or are cut off by a crash.
THEOREM SafetyClaims == Spec => []SafetyClaimsKept
<1>1. IInv => SafetyClaimsKept
  <2> SUFFICES ASSUME IInv, NEW t \in Turns, write[t] = "done", Input[t].safety
               PROVE  /\ t1id[t] # None
                      /\ Live(t1id[t]) /\ t1[t1id[t]].prot /\ t1id[t] \in vec
    BY DEF SafetyClaimsKept
  <2>1. t1id[t] \in pinned
    BY DEF IInv, ClaimPinned
  <2>2. pinned \subseteq Records
    BY DEF IInv, TypeInv, TypeOK, StoresTypeOK
  <2> QED BY <2>1, <2>2, StoresAssumption DEF IInv, StoreInv, PinnedKept
<1> QED BY <1>1, Invariant, PTL

\* No interleaving leaves a dangling or one-way superseded_by.
THEOREM Successors == Spec => []SuccessorExists
<1>1. IInv => SuccessorExists
  BY DEF IInv, StoreInv
<1> QED BY <1>1, Invariant, PTL

\* The eviction log never claims more than what has happened.
THEOREM AuditTrail == Spec => []AuditTrailOrdered
<1>1. IInv => AuditTrailOrdered
  BY DEF IInv, StoreInv
<1> QED BY <1>1, Invariant, PTL

\* No interleaving, failure or crash leaves a live record without a vector.
THEOREM Searchability == Spec => []LiveSearchable
<1>1. IInv => LiveSearchable
  BY DEF IInv, StoreInv
<1> QED BY <1>1, Invariant, PTL

\* The T1 of a MNEMA engine implements the memory ledger: only records that were not
\* born protected leave, none comes back, and supersession is one step.
THEOREM ImplementsLedger == Spec => LedgerSpec
<1>1. Init => Ledger!Init
  BY DEF Init, StoresInit, NoRow, Live, Ledger!Init
<1>2. IInv /\ [Next]_vars => [Ledger!Next]_(Ledger!vars)
  BY NextKeeps DEF LedgerStep
<1> QED BY <1>1, <1>2, Invariant, PTL DEF Spec, LedgerSpec, Ledger!Spec

-----------------------------------------------------------------------------
(***************************************************************************)
(* No write crosses from one user to another.  A run knows that the row it *)
(* found belongs to the user of its turn, and no step of another coroutine *)
(* changes whose a row is.                                                 *)
(***************************************************************************)
\* A supersedes edge names a row.
EdgesExist == \A r \in Records : Exists(r) /\ t1[r].over # None => Exists(t1[r].over)

Owned == TenantProvenance /\ EdgesExist

\* The draft or near record a run has found is of its turn's user.
NearIsOwn(c) ==
  runs[c].pc \in {"fetch", "judge", "reconcile"} => t1[runs[c].near].user = UserOfTurn(c)

TenantInv == Owned /\ \A c \in Runs : NearIsOwn(c)

\* What a new row must be.
RowOwned(row) ==
  /\ Input[row.turn].user = row.user
  /\ Input[row.said].user = row.user
  /\ row.over # None => row.over \in Records /\ Exists(row.over) /\ t1[row.over].user = row.user

\* What the runs can rely on.
UsersKept == \A r \in Records : Exists(r) => Exists(r)' /\ t1'[r].user = t1[r].user

-----------------------------------------------------------------------------
(***************************************************************************)
(* What a step may do to the table.                                        *)
(***************************************************************************)
LEMMA OwnedStep ==
  ASSUME StoresTypeOK, Owned,
         \A r \in Records : Exists(r) =>
           /\ Exists(r)'
           /\ t1'[r].user = t1[r].user /\ t1'[r].turn = t1[r].turn /\ t1'[r].over = t1[r].over
           /\ Input[t1'[r].said].user = t1[r].user,
         \A r \in Records : ~ Exists(r) => t1'[r] = t1[r] \/ RowOwned(t1'[r])
  PROVE  Owned' /\ UsersKept
<1>1. UsersKept
  BY DEF UsersKept
<1>2. ASSUME NEW r \in Records, Exists(r)'
      PROVE  /\ Input[t1'[r].turn].user = t1'[r].user
             /\ Input[t1'[r].said].user = t1'[r].user
             /\ t1'[r].over # None =>
                  Exists(t1[r].over)' /\ t1'[t1'[r].over].user = t1'[r].user
  <2>1. CASE Exists(r)
    <3>1. t1[r].over \in Records \cup {None}
      BY DEF StoresTypeOK, Row
    <3>2. /\ Input[t1[r].turn].user = t1[r].user
          /\ t1[r].over # None =>
               Exists(t1[r].over) /\ t1[t1[r].over].user = t1[r].user
      BY <2>1 DEF Owned, TenantProvenance, EdgesExist
    <3> QED BY <1>1, <2>1, <3>1, <3>2 DEF UsersKept
  <2>2. CASE ~ Exists(r)
    <3>1. RowOwned(t1'[r])
      BY <1>2, <2>2 DEF Exists
    <3> QED BY <1>1, <3>1 DEF RowOwned, UsersKept
  <2> QED BY <2>1, <2>2
<1>3. Owned'
  BY <1>2 DEF Owned, TenantProvenance, EdgesExist, Exists
<1> QED BY <1>1, <1>3

LEMMA TableUnchanged ==
  ASSUME Owned, UNCHANGED t1
  PROVE  Owned' /\ UsersKept
BY DEF Owned, TenantProvenance, EdgesExist, UsersKept, Exists

LEMMA RowInserted ==
  ASSUME StoresTypeOK, Owned, NEW r \in Unused, NEW row, UpsertWithVector(r, row), RowOwned(row)
  PROVE  Owned' /\ UsersKept
<1>1. r \in Records /\ ~ Exists(r)
  BY DEF Unused
<1>2. \A s \in Records : t1'[s] = IF s = r THEN row ELSE t1[s]
  BY DEF UpsertWithVector, StoresTypeOK
<1>3. \A s \in Records : Exists(s) =>
        /\ Exists(s)'
        /\ t1'[s].user = t1[s].user /\ t1'[s].turn = t1[s].turn /\ t1'[s].over = t1[s].over
        /\ Input[t1'[s].said].user = t1[s].user
  BY <1>1, <1>2 DEF Exists, Owned, TenantProvenance
<1> QED BY <1>2, <1>3, OwnedStep

LEMMA RowUpdated ==
  ASSUME StoresTypeOK, Owned, NEW r \in Records, Exists(r), NEW row, Update(r, row),
         row.status # "absent", row.user = t1[r].user, row.turn = t1[r].turn,
         row.over = t1[r].over, Input[row.said].user = t1[r].user
  PROVE  Owned' /\ UsersKept
<1>1. \A s \in Records : t1'[s] = IF s = r THEN row ELSE t1[s]
  BY DEF Update, StoresTypeOK
<1>2. \A s \in Records : Exists(s) =>
        /\ Exists(s)'
        /\ t1'[s].user = t1[s].user /\ t1'[s].turn = t1[s].turn /\ t1'[s].over = t1[s].over
        /\ Input[t1'[s].said].user = t1[s].user
  BY <1>1 DEF Exists, Owned, TenantProvenance
<1> QED BY <1>1, <1>2, OwnedStep

LEMMA RowSuperseded ==
  ASSUME StoresTypeOK, Owned, NEW old \in Records, NEW r \in Unused, NEW row,
         Supersede(old, r, row), RowOwned(row)
  PROVE  Owned' /\ UsersKept
<1> DEFINE gone == [t1[old] EXCEPT !.status = "retired", !.by = r]
<1>1. /\ r \in Records /\ ~ Exists(r) /\ Exists(old) /\ r # old /\ t1[old] \in Row
  BY DEF Unused, Supersede, StoresTypeOK
<1>2. /\ gone.status = "retired" /\ gone.user = t1[old].user /\ gone.turn = t1[old].turn
      /\ gone.said = t1[old].said /\ gone.over = t1[old].over
  BY <1>1 DEF Row
<1>3. \A s \in Records : t1'[s] = IF s = r THEN row ELSE IF s = old THEN gone ELSE t1[s]
  <2>1. t1' = [t1 EXCEPT ![old] = gone, ![r] = row]
    BY DEF Supersede
  <2> HIDE DEF gone
  <2> QED BY <1>1, <2>1 DEF StoresTypeOK
<1> HIDE DEF gone
<1>4. \A s \in Records : Exists(s) =>
        /\ Exists(s)'
        /\ t1'[s].user = t1[s].user /\ t1'[s].turn = t1[s].turn /\ t1'[s].over = t1[s].over
        /\ Input[t1'[s].said].user = t1[s].user
  BY <1>1, <1>2, <1>3 DEF Exists, Owned, TenantProvenance
<1>5. \A s \in Records : ~ Exists(s) => t1'[s] = t1[s] \/ RowOwned(t1'[s])
  BY <1>1, <1>3
<1> QED BY <1>4, <1>5, OwnedStep

-----------------------------------------------------------------------------
(***************************************************************************)
(* What the runs know.                                                     *)
(***************************************************************************)
LEMMA NearStaysOwn ==
  ASSUME IInv, UsersKept, NEW c \in Runs, NearIsOwn(c), runs'[c] = runs[c]
  PROVE  NearIsOwn(c)'
<1>1. ASSUME runs[c].pc \in {"fetch", "judge", "reconcile"}
      PROVE  t1'[runs[c].near].user = UserOfTurn(c)
  <2>1. runs[c].near \in Records /\ Exists(runs[c].near)
    BY <1>1, StoresAssumption DEF IInv, TypeInv, RunShape, RunKnows
  <2> QED BY <1>1, <2>1 DEF NearIsOwn, UsersKept
<1> QED BY <1>1 DEF NearIsOwn, UserOfTurn, Turn

\* A step after which every run stands where it stood or at no record.
LEMMA TenantsKept ==
  ASSUME IInv, TenantInv, Owned', UsersKept,
         \A c \in Runs : runs'[c] = runs[c] \/ NearIsOwn(c)'
  PROVE  TenantInv'
BY NearStaysOwn DEF TenantInv

LEMMA RunMoves ==
  ASSUME IInv, TenantInv, Owned', UsersKept, NEW c \in Runs, NEW s,
         runs' = [runs EXCEPT ![c] = s], s.pc \notin {"fetch", "judge", "reconcile"}
  PROVE  TenantInv'
<1>1. runs'[c] = s /\ \A d \in Runs \ {c} : runs'[d] = runs[d]
  BY DEF IInv, TypeInv, TypeOK, RunTypeOK
<1> QED BY <1>1, TenantsKept DEF NearIsOwn

LEMMA ItemDone ==
  ASSUME IInv, TenantInv, Owned', UsersKept, NEW c \in Runs, NextItem(c)
  PROVE  TenantInv'
<1> DEFINE s == [runs[c] EXCEPT !.pc = "item", !.ext = NoItem, !.near = None, !.seen = NoRow]
<1>1. s.pc = "item"
  BY DEF IInv, TypeInv, TypeOK, RunTypeOK, RunType
<1>2. runs' = [runs EXCEPT ![c] = s]
  BY DEF NextItem
<1> HIDE DEF s
<1> QED BY <1>1, <1>2, RunMoves

\* A run that finds a row of its turn's user.
LEMMA RunFinds ==
  ASSUME IInv, TenantInv, UNCHANGED t1, NEW c \in Runs, NEW s,
         runs' = [runs EXCEPT ![c] = s], s.items = runs[c].items,
         t1[s.near].user = UserOfTurn(c)
  PROVE  TenantInv'
<1>1. runs'[c] = s /\ \A d \in Runs \ {c} : runs'[d] = runs[d]
  BY DEF IInv, TypeInv, TypeOK, RunTypeOK
<1>2. NearIsOwn(c)'
  BY <1>1 DEF NearIsOwn, UserOfTurn, Turn
<1>3. Owned' /\ UsersKept
  BY TableUnchanged DEF TenantInv
<1> QED BY <1>1, <1>2, <1>3, TenantsKept

-----------------------------------------------------------------------------
(***************************************************************************)
(* The actions.                                                            *)
(***************************************************************************)
\* The row of a turn is its user's.
LEMMA ProvisionalOwned ==
  ASSUME NEW t \in Turns
  PROVE  RowOwned(ProvisionalRow(t))
<1>1. ProvisionalRow(t).user = Input[t].user /\ ProvisionalRow(t).turn = t
      /\ ProvisionalRow(t).said = t /\ ProvisionalRow(t).over = None
  BY DEF ProvisionalRow, NoRow
<1> QED BY <1>1 DEF RowOwned

LEMMA ConfirmedOwned ==
  ASSUME NEW c \in Runs, NEW over \in Records \cup {None},
         over # None => Exists(over) /\ t1[over].user = UserOfTurn(c)
  PROVE  RowOwned(ConfirmedRow(c, over))
<1>1. ConfirmedRow(c, over).user = UserOfTurn(c) /\ ConfirmedRow(c, over).turn = Turn(c)
      /\ ConfirmedRow(c, over).said = Turn(c) /\ ConfirmedRow(c, over).over = over
  BY DEF ConfirmedRow, NoRow
<1> QED BY <1>1 DEF RowOwned, UserOfTurn

LEMMA RememberOwns ==
  ASSUME IInv, TenantInv, NEW t \in Turns, Remember(t)
  PROVE  TenantInv'
<1>1. Owned /\ StoresTypeOK /\ UNCHANGED runs
  BY DEF TenantInv, IInv, TypeInv, TypeOK, Remember, runVars
<1>2. Owned' /\ UsersKept
  <2>1. CASE RememberStore(t)
    BY <1>1, <2>1, ProvisionalOwned, RowInserted DEF RememberStore
  <2>2. CASE ~ RememberStore(t)
    <3>1. UNCHANGED t1
      BY <2>2 DEF Remember, WriteNext, RememberAppend, RememberPush, RememberStage,
                  RememberFails, storeVars
    <3> QED BY <1>1, <3>1, TableUnchanged
  <2> QED BY <2>1, <2>2
<1> QED BY <1>1, <1>2, TenantsKept

LEMMA EvictOwns ==
  ASSUME IInv, TenantInv, NEW k \in Evictors, EvictStep(k)
  PROVE  TenantInv'
<1>1. Owned /\ StoresTypeOK /\ UNCHANGED runs /\ VictimKnown(k)
      /\ evictor \in [Evictors -> EvictorType]
  BY DEF TenantInv, IInv, TypeInv, TypeOK, ForgetTypeOK, EvictStep, runVars
<1>2. Owned' /\ UsersKept
  <2>1. CASE RetireVictim(k)
    <3>1. PICK r \in evictor[k].victims : Update(r, [t1[r] EXCEPT !.status = "retired"])
      BY <2>1 DEF RetireVictim
    <3>2. r \in Records /\ Exists(r) /\ t1[r] \in Row
      BY <1>1 DEF VictimKnown, EvictorType, StoresTypeOK
    <3> DEFINE row == [t1[r] EXCEPT !.status = "retired"]
    <3>3. /\ row.status # "absent" /\ row.user = t1[r].user /\ row.turn = t1[r].turn
          /\ row.over = t1[r].over /\ row.said = t1[r].said
      BY <3>2 DEF Row
    <3>4. Input[t1[r].said].user = t1[r].user
      BY <1>1, <3>2 DEF Owned, TenantProvenance
    <3> HIDE DEF row
    <3>5. Update(r, row)
      BY <3>1 DEF row
    <3> QED BY <1>1, <3>2, <3>3, <3>4, <3>5, RowUpdated
  <2>2. CASE ~ RetireVictim(k)
    <3>1. UNCHANGED t1
      BY <2>2 DEF EvictStep, EvictionStep, DeleteVector, ArchiveVictim, AuditVictim
    <3> QED BY <1>1, <3>1, TableUnchanged
  <2> QED BY <2>1, <2>2
<1> QED BY <1>1, <1>2, TenantsKept

\* Calls that start or fail, and a crash.
LEMMA CallsOwn ==
  ASSUME IInv, TenantInv, \/ \E c \in Runs, s \in Scopes : StartRun(c, s)
                          \/ \E k \in Calls, u \in Users, r \in Records : StartForget(k, u, r)
                          \/ \E k \in Calls, u \in Users : StartEvict(k, u)
                          \/ \E k \in Calls : CallFails(k)
                          \/ \E c \in Runs : ConsolidateFails(c)
                          \/ Crash
  PROVE  TenantInv'
<1>1. UNCHANGED t1
  BY DEF StartRun, Drain, StartForget, Forget, StartEvict, Evict, CallFails, EvictionFails,
         ConsolidateFails, RunFails, Crash, storeVars
<1>2. Owned' /\ UsersKept
  BY <1>1, TableUnchanged DEF TenantInv
<1>3. runs \in [Runs -> RunType]
  BY DEF IInv, TypeInv, TypeOK, RunTypeOK
<1>4. \A c \in Runs : runs'[c] = runs[c]
                        \/ runs'[c].pc \notin {"fetch", "judge", "reconcile"}
  <2>1. ASSUME NEW c \in Runs, NEW s \in Scopes, StartRun(c, s), NEW d \in Runs
        PROVE  runs'[d] = runs[d] \/ runs'[d].pc \notin {"fetch", "judge", "reconcile"}
    BY <1>3, <2>1 DEF StartRun, Drain, IdleRun
  <2>2. ASSUME NEW c \in Runs, ConsolidateFails(c), NEW d \in Runs
        PROVE  runs'[d] = runs[d] \/ runs'[d].pc \notin {"fetch", "judge", "reconcile"}
    BY <1>3, <2>2 DEF ConsolidateFails, RunFails, Abort, IdleRun
  <2>3. Crash => \A d \in Runs : runs'[d].pc \notin {"fetch", "judge", "reconcile"}
    BY DEF Crash, RunCrash, IdleRun
  <2>4. (\/ \E k \in Calls, u \in Users, r \in Records : StartForget(k, u, r)
         \/ \E k \in Calls, u \in Users : StartEvict(k, u)
         \/ \E k \in Calls : CallFails(k)) => UNCHANGED runs
    BY DEF StartForget, StartEvict, CallFails, runVars
  <2> QED BY <2>1, <2>2, <2>3, <2>4
<1> QED BY <1>2, <1>4, TenantsKept DEF NearIsOwn

LEMMA ConsolidateOwns ==
  ASSUME IInv, TenantInv, NEW c \in Runs, Consolidate(c)
  PROVE  TenantInv'
<1> DEFINE near == runs[c].near
<1>0. /\ Owned /\ StoresTypeOK /\ RunTypeOK /\ RunShape /\ RunKnows(c) /\ NearIsOwn(c)
      /\ runs[c] \in RunType
  BY DEF TenantInv, IInv, TypeInv, TypeOK, RunTypeOK
\* A step of the run itself that finds nothing.
<1>1. ASSUME UNCHANGED t1, NEW s, runs' = [runs EXCEPT ![c] = s],
             s.pc \notin {"fetch", "judge", "reconcile"}
      PROVE  TenantInv'
  BY <1>0, <1>1, TableUnchanged, RunMoves
<1>2. CASE Extract(c)
  <2>1. PICK n \in 0..MaxItems : runs' = [runs EXCEPT ![c] = [runs[c] EXCEPT !.pc = "item", !.left = n]]
    BY <1>2 DEF Extract
  <2>2. [runs[c] EXCEPT !.pc = "item", !.left = n].pc = "item"
    BY <1>0 DEF RunType
  <2> QED BY <1>1, <1>2, <2>1, <2>2 DEF Extract, storeVars
<1>3. CASE TakeItem(c)
  <2>1. PICK x \in Extractions :
          LET rest == [runs[c] EXCEPT !.left = @ - 1, !.ext = Pin(x)]
          IN  \/ runs' = [runs EXCEPT ![c] = [rest EXCEPT !.pc = "search"]]
              \/ \E r \in Drafts(Turn(c)) :
                   runs' = [runs EXCEPT ![c] = [rest EXCEPT !.pc = "reconcile",
                                                            !.near = r, !.seen = t1[r]]]
    BY <1>3 DEF TakeItem
  <2> DEFINE rest == [runs[c] EXCEPT !.left = runs[c].left - 1, !.ext = Pin(x)]
  <2>2. CASE runs' = [runs EXCEPT ![c] = [rest EXCEPT !.pc = "search"]]
    <3>1. [rest EXCEPT !.pc = "search"].pc = "search"
      BY <1>0 DEF RunType
    <3> HIDE DEF rest
    <3> QED BY <1>1, <1>3, <2>2, <3>1 DEF TakeItem, storeVars
  <2>3. ASSUME NEW r \in Drafts(Turn(c)),
               runs' = [runs EXCEPT ![c] = [rest EXCEPT !.pc = "reconcile",
                                                        !.near = r, !.seen = t1[r]]]
        PROVE  TenantInv'
    <3> DEFINE s == [rest EXCEPT !.pc = "reconcile", !.near = r, !.seen = t1[r]]
    <3>1. s.near = r /\ s.items = runs[c].items
      BY <1>0 DEF RunType
    <3>2. t1[r].user = UserOfTurn(c)
      BY DEF Drafts, UserOfTurn
    <3>3. runs' = [runs EXCEPT ![c] = s]
      BY <2>3
    <3> HIDE DEF s
    <3> QED BY <1>3, <3>1, <3>2, <3>3, RunFinds DEF TakeItem, storeVars
  <2> QED BY <2>1, <2>2, <2>3
<1>4. CASE Search(c)
  <2>1. CASE runs' = [runs EXCEPT ![c].pc = "insert"]
    <3>1. [runs[c] EXCEPT !.pc = "insert"].pc = "insert"
      BY <1>0 DEF RunType
    <3> QED BY <1>1, <1>4, <2>1, <3>1 DEF Search, storeVars
  <2>2. ASSUME NEW r \in Searchable(UserOfTurn(c)),
               runs' = [runs EXCEPT ![c] = [runs[c] EXCEPT !.pc = "fetch", !.near = r]]
        PROVE  TenantInv'
    <3> DEFINE s == [runs[c] EXCEPT !.pc = "fetch", !.near = r]
    <3>1. s.near = r /\ s.items = runs[c].items
      BY <1>0 DEF RunType
    <3>2. t1[r].user = UserOfTurn(c)
      BY DEF Searchable, LiveOf
    <3>3. runs' = [runs EXCEPT ![c] = s]
      BY <2>2
    <3> HIDE DEF s
    <3> QED BY <1>4, <3>1, <3>2, <3>3, RunFinds DEF Search, storeVars
  <2> QED BY <1>4, <2>1, <2>2 DEF Search
<1>5. CASE Fetch(c)
  <2>1. UNCHANGED t1
    BY <1>5 DEF Fetch, storeVars
  <2>2. CASE runs' = [runs EXCEPT ![c] = IdleRun]
    BY <1>1, <2>1, <2>2 DEF IdleRun
  <2>3. CASE runs' = [runs EXCEPT ![c] = [runs[c] EXCEPT !.pc = "judge", !.seen = t1[near]]]
    <3> DEFINE s == [runs[c] EXCEPT !.pc = "judge", !.seen = t1[near]]
    <3>1. s.near = near /\ s.items = runs[c].items
      BY <1>0 DEF RunType
    <3>2. t1[near].user = UserOfTurn(c)
      BY <1>0, <1>5 DEF Fetch, NearIsOwn
    <3>3. runs' = [runs EXCEPT ![c] = s]
      BY <2>3
    <3> HIDE DEF s
    <3> QED BY <2>1, <3>1, <3>2, <3>3, RunFinds
  <2>4. CASE runs' = [runs EXCEPT ![c] = [runs[c] EXCEPT !.pc = "insert", !.near = None]]
    <3>1. [runs[c] EXCEPT !.pc = "insert", !.near = None].pc = "insert"
      BY <1>0 DEF RunType
    <3> QED BY <1>1, <2>1, <2>4, <3>1
  <2> QED BY <1>5, <2>2, <2>3, <2>4 DEF Fetch, Abort
\* A rewrite of the row that was found.
<1>6. ASSUME NEW row, runs[c].pc \in {"judge", "reconcile"}, Update(near, row), NextItem(c),
             row.status = t1[near].status, row.user = t1[near].user,
             row.turn = t1[near].turn, row.over = t1[near].over,
             row.said \in {t1[near].said, Turn(c)}
      PROVE  TenantInv'
  <2>1. near \in Records /\ Exists(near) /\ t1[near].user = UserOfTurn(c)
    BY <1>0, <1>6, StoresAssumption DEF RunShape, RunKnows, NearIsOwn
  <2>2. Input[row.said].user = t1[near].user
    BY <1>0, <1>6, <2>1 DEF Owned, TenantProvenance, UserOfTurn
  <2>3. row.status # "absent"
    BY <1>6, <2>1 DEF Exists
  <2>4. Owned' /\ UsersKept
    BY <1>0, <1>6, <2>1, <2>2, <2>3, RowUpdated
  <2> QED BY <1>6, <2>4, ItemDone
<1>7. CASE Reconcile(c)
  <2> DEFINE row == [t1[near] EXCEPT !.prov = FALSE, !.type = runs[c].ext.type,
                                     !.high = runs[c].ext.high,
                                     !.prot = runs[c].ext.prot \/ runs[c].seen.prot]
  <2>1. runs[c].pc = "reconcile" /\ t1[near] \in Row
    BY <1>0, <1>7 DEF Reconcile, RunShape, StoresTypeOK
  <2>2. /\ row.status = t1[near].status /\ row.user = t1[near].user
        /\ row.turn = t1[near].turn /\ row.over = t1[near].over /\ row.said = t1[near].said
    BY <2>1 DEF Row
  <2>3. Update(near, row) /\ NextItem(c)
    BY <1>7 DEF Reconcile
  <2> HIDE DEF row
  <2> QED BY <1>6, <2>1, <2>2, <2>3
<1>8. CASE Refine(c)
  <2> DEFINE row == RefinedRow(c, near)
  <2>1. runs[c].pc = "judge" /\ t1[near] \in Row
    BY <1>0, <1>8 DEF Refine, RunShape, StoresTypeOK
  <2>2. /\ row.status = t1[near].status /\ row.user = t1[near].user
        /\ row.turn = t1[near].turn /\ row.over = t1[near].over /\ row.said = Turn(c)
    BY <2>1 DEF Row, RefinedRow
  <2>3. Update(near, row) /\ NextItem(c)
    BY <1>8 DEF Refine
  <2> HIDE DEF row
  <2> QED BY <1>6, <2>1, <2>2, <2>3
<1>9. CASE MarkPending(c)
  <2> DEFINE row == [t1[near] EXCEPT !.pending = runs[c].seen.pending \cup {Turn(c)},
                                     !.over = runs[c].seen.over]
  <2>1. /\ runs[c].pc = "judge" /\ t1[near] \in Row
        /\ runs[c].seen.over = t1[near].over
    BY <1>0, <1>9 DEF MarkPending, RunShape, RunKnows, StoresTypeOK
  <2>2. /\ row.status = t1[near].status /\ row.user = t1[near].user
        /\ row.turn = t1[near].turn /\ row.over = t1[near].over /\ row.said = t1[near].said
    BY <2>1 DEF Row
  <2>3. Update(near, row) /\ NextItem(c)
    BY <1>9 DEF MarkPending
  <2> HIDE DEF row
  <2> QED BY <1>6, <2>1, <2>2, <2>3
<1>10. CASE InsertNew(c) \/ InsertDistinct(c)
  <2>1. Insert(c)
    BY <1>10 DEF InsertNew, InsertDistinct
  <2>2. PICK r \in Unused : UpsertWithVector(r, ConfirmedRow(c, None))
    BY <2>1 DEF Insert
  <2>3. RowOwned(ConfirmedRow(c, None))
    BY ConfirmedOwned
  <2>4. Owned' /\ UsersKept
    BY <1>0, <2>2, <2>3, RowInserted
  <2> QED BY <2>1, <2>4, ItemDone DEF Insert
<1>11. CASE SupersedeOld(c)
  <2>1. near \in Records /\ Exists(near) /\ t1[near].user = UserOfTurn(c)
    BY <1>0, <1>11, StoresAssumption DEF SupersedeOld, RunShape, RunKnows, NearIsOwn
  <2>2. PICK r \in Unused : Supersede(near, r, ConfirmedRow(c, near))
    BY <1>11 DEF SupersedeOld
  <2>3. RowOwned(ConfirmedRow(c, near))
    BY <2>1, ConfirmedOwned
  <2>4. Owned' /\ UsersKept
    BY <1>0, <2>1, <2>2, <2>3, RowSuperseded
  <2> QED BY <1>11, <2>4, ItemDone DEF SupersedeOld
<1>12. CASE FinishTurn(c)
  <2> DEFINE s == [runs[c] EXCEPT !.items = Tail(runs[c].items),
                                  !.pc = IF Tail(runs[c].items) = <<>> THEN "sweep" ELSE "extract"]
  <2>1. s.pc \in {"sweep", "extract"}
    BY <1>0 DEF RunType
  <2>2. runs' = [runs EXCEPT ![c] = s] /\ UNCHANGED t1
    BY <1>12 DEF FinishTurn, storeVars
  <2> HIDE DEF s
  <2> QED BY <1>1, <2>1, <2>2
<1>13. CASE PromoteUser(c)
  <2>1. PICK u \in runs[c].uids :
          \/ runs' = [runs EXCEPT ![c] = [runs[c] EXCEPT !.pc = "decay", !.uid = u,
                                                         !.uids = runs[c].uids \ {u}]]
          \/ runs' = [runs EXCEPT ![c] = IdleRun]
    BY <1>13, Zenon DEF PromoteUser, VaultPromote, Abort
  <2> DEFINE s == [runs[c] EXCEPT !.pc = "decay", !.uid = u, !.uids = runs[c].uids \ {u}]
  <2>2. s.pc = "decay" /\ IdleRun.pc = "idle"
    BY <1>0 DEF RunType, IdleRun
  <2>3. runs' = [runs EXCEPT ![c] = s] \/ runs' = [runs EXCEPT ![c] = IdleRun]
    BY <2>1
  <2> HIDE DEF s
  <2> QED BY <1>1, <1>13, <2>2, <2>3 DEF PromoteUser
<1>14. CASE DecayScan(c)
  <2> DEFINE uids == IF AllReadable(runs[c].uid) THEN runs[c].uids ELSE {}
             s == [runs[c] EXCEPT !.pc = "evict", !.uids = uids]
  <2>1. runs' = [runs EXCEPT ![c] = s] /\ UNCHANGED t1
    BY <1>14 DEF DecayScan, storeVars
  <2> HIDE DEF uids
  <2>2. s.pc = "evict"
    BY <1>0 DEF RunType
  <2> HIDE DEF s
  <2> QED BY <1>1, <2>1, <2>2
<1>15. CASE FinishUser(c)
  <2> DEFINE s == [runs[c] EXCEPT !.pc = "sweep", !.uid = None]
  <2>1. s.pc = "sweep" /\ IdleRun.pc = "idle"
    BY <1>0 DEF RunType, IdleRun
  <2>2. runs' = [runs EXCEPT ![c] = s] \/ runs' = [runs EXCEPT ![c] = IdleRun]
    BY <1>15 DEF FinishUser
  <2> HIDE DEF s
  <2> QED BY <1>1, <1>15, <2>1, <2>2 DEF FinishUser, storeVars
<1> QED BY <1>2, <1>3, <1>4, <1>5, <1>7, <1>8, <1>9, <1>10, <1>11, <1>12, <1>13, <1>14, <1>15
        DEF Consolidate, RunStep

-----------------------------------------------------------------------------
LEMMA InitOwns == Init => TenantInv
<1> SUFFICES ASSUME Init PROVE TenantInv
  OBVIOUS
<1>1. Owned
  BY DEF Init, StoresInit, NoRow, Owned, TenantProvenance, EdgesExist, Exists
<1>2. \A c \in Runs : NearIsOwn(c)
  BY DEF Init, RunInit, IdleRun, NearIsOwn
<1> QED BY <1>1, <1>2 DEF TenantInv

LEMMA NextOwns == IInv /\ TenantInv /\ [Next]_vars => TenantInv'
<1> SUFFICES ASSUME IInv, TenantInv, [Next]_vars PROVE TenantInv'
  OBVIOUS
<1>1. CASE UNCHANGED vars
  <2>1. Owned' /\ UsersKept /\ UNCHANGED runs
    BY <1>1, TableUnchanged DEF TenantInv, vars, storeVars, runVars
  <2> QED BY <2>1, TenantsKept
<1>2. CASE Next
  BY <1>2, RememberOwns, ConsolidateOwns, EvictOwns, CallsOwn DEF Next, Work
<1> QED BY <1>1, <1>2

\* No interleaving of remember(), consolidation runs, forget() and evict(), no failure
\* and no crash writes content of one user into a row of another, or supersedes it.
THEOREM TenantsApart == Spec => []TenantProvenance
<1>1. IInv /\ TenantInv /\ [Next]_vars => (IInv /\ TenantInv)'
  BY NextKeeps, NextOwns
<1>2. TenantInv => TenantProvenance
  BY DEF TenantInv, Owned
<1>3. Init => IInv /\ TenantInv
  BY InitKnows, InitOwns
<1> QED BY <1>1, <1>2, <1>3, PTL DEF Spec
=============================================================================
