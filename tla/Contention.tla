----------------------------- MODULE Contention -----------------------------
(***************************************************************************)
(* Mnema with a history variable that tells which calls are behind.  A     *)
(* consolidate(), forget() or evict() finds a record, suspends, and writes *)
(* by what it has found.  Calls overlap freely: MemoryEngine takes no lock *)
(* and consolidate() arms a job of its own.  What overlapping calls may    *)
(* break is said per record: a call breaks it only where another one has   *)
(* written the record since this call found it.                            *)
(***************************************************************************)
EXTENDS Mnema

VARIABLE touched  \* history: per call in flight, the records written by others since
                  \* the call has found them

contentionVars == <<vars, touched>>

\* The call whose step this is; every step of a call changes its local state.
Moves(k) == evictor'[k] # evictor[k] \/ (k \in Runs /\ runs'[k] # runs[k])

WrittenByOthers(k) ==
  {r \in Records : t1'[r] # t1[r] /\ \E j \in Evictors \ {k} : Moves(j)}

\* A run finds the draft of its turn or a record near its item, and its vault loop
\* finds the rows of a user.  forget() and evict() find theirs in their first step.
Finds(k) ==
  {r \in Records : k \in Runs /\ \/ runs[k].near # r /\ runs'[k].near = r
                                 \/ runs[k].pc = "sweep" /\ runs'[k].pc = "decay"}

NoteWrites ==
  touched' = [k \in Evictors |->
                IF k \in Active' THEN (touched[k] \cup WrittenByOthers(k)) \ Finds(k) ELSE {}]

ContentionInit == Init /\ touched = [k \in Evictors |-> {}]
ContentionNext == Next /\ NoteWrites
ContentionSpec == ContentionInit /\ [][ContentionNext]_contentionVars

\* The call that takes this step is behind on r: another has written r since it found r.
Behind(r) == \E k \in Evictors : Moves(k) /\ r \in touched[k]

-----------------------------------------------------------------------------
(***************************************************************************)
(* However many calls are in flight, whatever fails and whenever the       *)
(* process dies.                                                           *)
(***************************************************************************)

\* A protected row is retired only by a call that is behind on it: no forget(),
\* decay pass or verdict takes a record whose protection it could have read (FORG-03).
ProtectedUnlessBehind ==
  [][\A r \in Records : Live(r) /\ t1[r].prot /\ ~ Behind(r)
       => t1'[r].status = "live"]_contentionVars

\* The protected flag is cleared only by a run that is behind on the row (T-02-11, WR-01).
FlagUnlessBehind ==
  [][\A r \in Records : t1[r].prot /\ ~ Behind(r) => t1'[r].prot]_contentionVars

\* Content with a safety keyword becomes unprotected only by a run that is behind on
\* the row; write, reconcile, refine, insert and supersede pin it otherwise (D-05).
SafetyUnlessBehind ==
  [][\A r \in Records : t1'[r].safety /\ ~ t1'[r].prot /\ ~ Behind(r)
       => t1[r].safety /\ ~ t1[r].prot]_contentionVars

\* A record that has a successor gets another one only from a run that is behind on
\* it (CONS-04).
SuccessorUnlessBehind ==
  [][\A r \in Records : t1[r].by # None /\ ~ Behind(r)
       => t1'[r].by = t1[r].by]_contentionVars

\* Only a run that is behind on a row drops an unresolved contradiction from the
\* row's audit trail (CONS-08).
TrailUnlessBehind ==
  [][\A r \in Records : ~ Behind(r)
       => t1[r].pending \subseteq t1'[r].pending]_contentionVars

\* A run evicts a confirmed, high-salience record that is not in the vault only when
\* another call wrote the record since the vault loop (Pitfall 8: Loop 1 before Loop 2).
PromotedUnlessBehind ==
  \A c \in Runs : \A r \in evictor[c].victims \cup ({evictor[c].victim} \ {None}) :
    t1[r].high /\ ~ t1[r].prov => r \in vault \cup touched[c]
=============================================================================
