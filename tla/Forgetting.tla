----------------------------- MODULE Forgetting -----------------------------
(***************************************************************************)
(* forget(), evict() and the eviction loop of a consolidation run.  The    *)
(* code writes the same four steps three times: retire the row, remove its *)
(* vector, archive it, audit it.  They are awaited one after another, so   *)
(* other coroutines run between them and a crash may fall between them.    *)
(*                                                                         *)
(* An evictor is a forget() or evict() call, or a consolidation run in its *)
(* eviction loop.  The rows it works on were read before its first step    *)
(* (by get, or by decay_pass in one fetch of the cursor: aiosqlite reads   *)
(* 64 rows at a time) and are not read again.                              *)
(***************************************************************************)
EXTENDS Stores

Evictors == Runs \cup Calls

VARIABLE evictor     \* per evictor: its next step, its victims to come, its victim

EvictorType == [pc : {"idle", "retire", "unvector", "archive", "audit"},
                victims : SUBSET Records, victim : Records \cup {None}]

IdleEvictor == [pc |-> "idle", victims |-> {}, victim |-> None]

Evicting(k) == evictor[k].pc # "idle"

\* Start on a non-empty set of victims; nothing to do on an empty one.
StartEviction(k, victims) ==
  evictor' = [evictor EXCEPT ![k] =
                IF victims = {} THEN IdleEvictor
                ELSE [pc |-> "retire", victims |-> victims, victim |-> None]]

\* Mutation: the scan yields protected rows too.
DecayEverything(u) == LiveOf(u)

(***************************************************************************)
(* decay_pass: the rows of LiveOf(u) that are not protected, each with a   *)
(* keep_score.  The score is not modelled: any subset may fall below       *)
(* KEEP_THRESHOLD.  Protected rows are skipped before any score is looked  *)
(* at.  The pass raises at the first row that is not readable; the rows    *)
(* before it have been yielded by then.                                    *)
(***************************************************************************)
DecayCandidates(u) == {r \in LiveOf(u) : Readable(r) /\ ~ t1[r].prot}

\* The four steps.
RetireVictim(k) ==
  /\ evictor[k].pc = "retire"
  /\ \E r \in evictor[k].victims :
       /\ Update(r, [t1[r] EXCEPT !.status = "retired"])
       /\ evictor' = [evictor EXCEPT ![k] = [pc |-> "unvector", victim |-> r,
                                             victims |-> evictor[k].victims \ {r}]]
  /\ UNCHANGED <<vec, t0, archived, audited, vault, queue, buffer, pinned>>

\* Mutation: the vector stays in the index.
KeepVector(k) ==
  /\ evictor[k].pc = "unvector"
  /\ evictor' = [evictor EXCEPT ![k].pc = "archive"]
  /\ UNCHANGED storeVars

DeleteVector(k) ==
  /\ evictor[k].pc = "unvector"
  /\ vec' = vec \ {evictor[k].victim}
  /\ evictor' = [evictor EXCEPT ![k].pc = "archive"]
  /\ UNCHANGED <<t1, t0, archived, audited, vault, queue, buffer, pinned>>

\* Mutation: the sequence ends after the archive.
ArchiveOnly(k) ==
  /\ evictor[k].pc = "archive"
  /\ T0Archive(evictor[k].victim)
  /\ StartEviction(k, evictor[k].victims)
  /\ UNCHANGED <<t1, vec, t0, audited, vault, queue, buffer, pinned>>

ArchiveVictim(k) ==
  /\ evictor[k].pc = "archive"
  /\ T0Archive(evictor[k].victim)
  /\ evictor' = [evictor EXCEPT ![k].pc = "audit"]
  /\ UNCHANGED <<t1, vec, t0, audited, vault, queue, buffer, pinned>>

AuditVictim(k) ==
  /\ evictor[k].pc = "audit"
  /\ T0AppendAudit(evictor[k].victim)
  /\ StartEviction(k, evictor[k].victims)
  /\ UNCHANGED <<t1, vec, t0, archived, vault, queue, buffer, pinned>>

EvictionStep(k) ==
  RetireVictim(k) \/ DeleteVector(k) \/ ArchiveVictim(k) \/ AuditVictim(k)

\* A storage call raises: the rest of the sequence is abandoned.
EvictionFails(k) ==
  /\ CanFail
  /\ Evicting(k)
  /\ evictor' = [evictor EXCEPT ![k] = IdleEvictor]
  /\ UNCHANGED storeVars

-----------------------------------------------------------------------------
\* Mutation: no protection check.
ForgetAnything(k, u, r) ==
  /\ ~ Evicting(k)
  /\ Exists(r) /\ Readable(r)
  /\ t1[r].user = u
  /\ StartEviction(k, {r})
  /\ UNCHANGED storeVars

(***************************************************************************)
(* forget(r, user_id=u): get, scope check, protection check, then the four *)
(* steps.  A call on a missing, foreign or protected record changes        *)
(* nothing.  A record that is already retired is retired again.            *)
(***************************************************************************)
Forget(k, u, r) ==
  /\ ~ Evicting(k)
  /\ Exists(r) /\ Readable(r)
  /\ t1[r].user = u
  /\ ~ t1[r].prot
  /\ StartEviction(k, {r})
  /\ UNCHANGED storeVars

\* evict(user_id=u): the rows decay_pass yields with a low score.
Evict(k, u) ==
  /\ ~ Evicting(k)
  /\ \E low \in SUBSET DecayCandidates(u) : low # {} /\ StartEviction(k, low)
  /\ UNCHANGED storeVars

ForgetInit == evictor = [k \in Evictors |-> IdleEvictor]
ForgetCrash == evictor' = [k \in Evictors |-> IdleEvictor]
ForgetTypeOK == evictor \in [Evictors -> EvictorType]
=============================================================================
