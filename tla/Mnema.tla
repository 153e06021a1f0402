------------------------------- MODULE Mnema --------------------------------
(***************************************************************************)
(* MemoryEngine: the write path, consolidation and forgetting over the     *)
(* shared stores, in one process that may crash and be started again on    *)
(* the same files.                                                         *)
(***************************************************************************)
EXTENDS WritePath, Consolidation

CONSTANTS
  MaxActive,   \* how many consolidate(), forget() and evict() may be in flight
  CanCrash     \* whether the process may crash

ASSUME MnemaAssumption == MaxActive \in Nat /\ CanCrash \in BOOLEAN

vars == <<storeVars, writeVars, evictor, runVars>>

Active == {k \in Evictors : Evicting(k)} \cup {c \in Runs : Running(c)}
MayStart == Cardinality(Active) < MaxActive

\* consolidate(user_id=s), forget(r, user_id=u) and evict(user_id=u) start.
StartRun(c, s) == MayStart /\ Drain(c, s) /\ UNCHANGED writeVars
StartForget(k, u, r) == MayStart /\ Forget(k, u, r) /\ UNCHANGED <<writeVars, runVars>>
StartEvict(k, u) == MayStart /\ Evict(k, u) /\ UNCHANGED <<writeVars, runVars>>

Remember(t) == WriteNext(t) /\ UNCHANGED <<evictor, runVars>>
Consolidate(c) == RunStep(c) /\ UNCHANGED writeVars
EvictStep(k) == EvictionStep(k) /\ UNCHANGED <<writeVars, runVars>>

CallFails(k) == EvictionFails(k) /\ UNCHANGED <<writeVars, runVars>>
ConsolidateFails(c) == RunFails(c) /\ UNCHANGED writeVars

(***************************************************************************)
(* The process dies and the engine is built again on the same stores: the  *)
(* queue and the buffer are in memory, so they start empty, and every call *)
(* in flight is gone.                                                      *)
(***************************************************************************)
Crash ==
  /\ CanCrash
  /\ queue' = <<>>
  /\ buffer' = EmptyBuffer
  /\ WriteCrash /\ ForgetCrash /\ RunCrash
  /\ UNCHANGED <<t1, vec, t0, archived, audited, vault, pinned>>

Init == StoresInit /\ WriteInit /\ ForgetInit /\ RunInit

Work ==
  \/ \E t \in Turns : Remember(t)
  \/ \E c \in Runs : Consolidate(c) \/ ConsolidateFails(c)
  \/ \E c \in Runs, s \in Scopes : StartRun(c, s)
  \/ \E k \in Calls, u \in Users, r \in Records : StartForget(k, u, r)
  \/ \E k \in Calls, u \in Users : StartEvict(k, u)
  \/ \E k \in Evictors : EvictStep(k)
  \/ \E k \in Calls : CallFails(k)

Next == Work \/ Crash

Spec == Init /\ [][Next]_vars

-----------------------------------------------------------------------------
TypeOK == StoresTypeOK /\ WriteTypeOK /\ ForgetTypeOK /\ RunTypeOK

(***************************************************************************)
(* Whatever interleaves, fails or crashes.                                 *)
(***************************************************************************)

\* Once remember() has returned for a turn with safety content, the record it
\* wrote is live, protected and searchable for good (README: "Protected facts
\* can't be forgotten").
SafetyClaimsKept ==
  \A t \in Turns : write[t] = "done" /\ Input[t].safety =>
    /\ t1id[t] # None
    /\ Live(t1id[t]) /\ t1[t1id[t]].prot /\ t1id[t] \in vec

\* superseded_by never dangles: it names an existing row of the same user whose
\* supersedes edge points back, and the row that carries it is retired (CONS-04).
SuccessorExists ==
  \A r \in Records : t1[r].by # None =>
    /\ t1[r].status = "retired"
    /\ Exists(t1[r].by)
    /\ t1[t1[r].by].user = t1[r].user
    /\ t1[t1[r].by].over = r

\* The eviction log tells the truth: what is audited is archived, and what is
\* archived is out of the live table and out of the vector index (FORG-02).
AuditTrailOrdered ==
  /\ audited \subseteq archived
  /\ \A r \in archived : t1[r].status = "retired" /\ r \notin vec

\* A live provisional row is the only row of its turn: consolidation upgrades the
\* draft and never writes a record beside it (CONS-06/07).
DraftIsAlone ==
  \A r, s \in Records :
    /\ Live(r) /\ t1[r].prov
    /\ Exists(s) /\ t1[s].turn = t1[r].turn
    => r = s

\* A row, the turn it is traced to and the turn its content came from belong to
\* one user, and so does what it supersedes (D-02: no cross-user write).
TenantProvenance ==
  \A r \in Records : Exists(r) =>
    /\ Input[t1[r].turn].user = t1[r].user
    /\ Input[t1[r].said].user = t1[r].user
    /\ t1[r].over # None => t1[t1[r].over].user = t1[r].user

\* A live row has its vector, in every state another coroutine or a crash can
\* expose (CR-04: no record that recall cannot see).
LiveSearchable == \A r \in Records : Live(r) => r \in vec

\* A staged turn is delivered once: it is never in two runs, nor in a run and in
\* the queue, nor twice in one of them, nor delivered again when done (CONS-07).
Places(t) == {p \in Runs \X (1..Cardinality(Turns)) :
                p[2] <= Len(runs[p[1]].items) /\ runs[p[1]].items[p[2]] = t}
             \cup {<<None, i>> : i \in {j \in DOMAIN queue : queue[j] = t}}
SingleDelivery ==
  \A t \in Turns : Cardinality(Places(t)) + (IF t \in processed THEN 1 ELSE 0) <= 1

\* Whatever happens to T1 is a step of the ledger of MemoryLedger: a record that
\* was protected from birth is never retired, a retired one never comes back, and
\* a superseded one leaves in the step that writes its successor.
Ledger == INSTANCE MemoryLedger
            WITH live <- {r \in Records : Live(r)},
                 retired <- {r \in Records : t1[r].status = "retired"},
                 kept <- pinned,
                 successor <- [r \in Records |-> t1[r].by]
LedgerSpec == Ledger!Spec

\* What has been retired without a successor is in both logs, or an eviction is at it.
Accounted(r) ==
  t1[r].status = "retired" /\ t1[r].by = None =>
    \/ r \in archived \cap audited
    \/ \E k \in Evictors : evictor[k].victim = r

\* Nothing leaves the live table unlogged, however many evictions overlap, except when
\* the eviction that is at the record raises or the process dies (FORG-02, FORG-04).
EvictionsTracked ==
  [][\A r \in Records : Accounted(r) /\ ~ Accounted(r)' =>
       \/ Crash
       \/ \E k \in Evictors : /\ evictor[k].victim = r
                              /\ CallFails(k) \/ (k \in Runs /\ ConsolidateFails(k))]_vars

\* A turn remember() has returned for is in the queue, in a run, or processed.
Queued(t) == \E i \in DOMAIN queue : queue[i] = t
Taken(c, t) == \E i \in DOMAIN runs[c].items : runs[c].items[i] = t
Tracked(t) ==
  write[t] = "done" => t \in processed \/ Queued(t) \/ \E c \in Runs : Taken(c, t)

\* The run raises: at a call of its own, or at a near record that cannot be read.
Dies(c) ==
  \/ ConsolidateFails(c)
  \/ runs[c].pc = "fetch" /\ ~ Readable(runs[c].near) /\ Abort(c)

\* A staged turn is lost in three ways only, whatever overlaps: the process dies, the
\* run that has taken it raises, or a run for another user drains it (CONS-01, CONS-07).
TurnsTracked ==
  [][\A t \in Turns : Tracked(t) /\ ~ Tracked(t)' =>
       \/ Crash
       \/ \E c \in Runs : Taken(c, t) /\ Dies(c)
       \/ \E c \in Runs, s \in Users \ {Input[t].user} : StartRun(c, s)]_vars

(***************************************************************************)
(* What overlapping calls break (Contention says what they leave).         *)
(***************************************************************************)

\* A protected row stays live whatever the engine does (FORG-03).
ProtectedStaysLive ==
  [][\A r \in Records : Live(r) /\ t1[r].prot => t1'[r].status = "live"]_vars

\* No staged turn is lost.
StagedNotLost == \A t \in Turns : Tracked(t)
=============================================================================
