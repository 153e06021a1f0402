----------------------------- MODULE WritePath ------------------------------
(***************************************************************************)
(* WritePath.execute, the body of MemoryEngine.remember: append the turn   *)
(* to T0 and push it to the buffer; when it is a safety or a durable claim *)
(* write a provisional T1 record; stage the turn for consolidation.  Each  *)
(* action is the code between two awaits that really suspend.              *)
(***************************************************************************)
EXTENDS Stores

VARIABLES
  write,   \* how far remember(t) has come
  t1id     \* the id of the record remember(t) wrote, or None

writeVars == <<write, t1id>>

WriteStates == {"new", "push", "embed", "stage", "done", "failed"}

\* Safety content always forces a durable write.
NeedsRecord(t) == Input[t].safety \/ Input[t].durable

ProvisionalRow(t) ==
  [NoRow EXCEPT !.status = "live", !.user = Input[t].user, !.turn = t, !.said = t,
                !.type = Input[t].type, !.safety = Input[t].safety,
                !.prot = Input[t].safety, !.prov = TRUE]

\* T0 append: with the OSS adapter it suspends.  (A call that fails here has done
\* nothing, like one that was never made.)
RememberAppend(t) ==
  /\ write[t] = "new"
  /\ T0Append(t)
  /\ write' = [write EXCEPT ![t] = "push"]
  /\ UNCHANGED <<t1, vec, archived, audited, vault, queue, buffer, pinned, t1id>>

\* Push to the buffer.  A turn without a record is staged in the same step:
\* neither push nor put (on an unbounded queue) suspends.
RememberPush(t) ==
  /\ write[t] = "push"
  /\ BufferPush(t)
  /\ queue' = IF NeedsRecord(t) THEN queue ELSE Append(queue, t)
  /\ write' = [write EXCEPT ![t] = IF NeedsRecord(t) THEN "embed" ELSE "done"]
  /\ UNCHANGED <<t1, vec, t0, archived, audited, vault, pinned, t1id>>

\* One embedding call, then upsert_with_vector.
RememberStore(t) ==
  /\ write[t] = "embed"
  /\ \E r \in Unused :
       /\ UpsertWithVector(r, ProvisionalRow(t))
       /\ t1id' = [t1id EXCEPT ![t] = r]
  /\ write' = [write EXCEPT ![t] = "stage"]
  /\ UNCHANGED <<t0, archived, audited, vault, queue, buffer>>

\* Stage the turn that has its record, and return to the caller.
RememberStage(t) ==
  /\ write[t] = "stage"
  /\ queue' = Append(queue, t)
  /\ write' = [write EXCEPT ![t] = "done"]
  /\ UNCHANGED <<t1, vec, t0, archived, audited, vault, buffer, pinned, t1id>>

\* The embedding call or the insert raises: the caller gets the exception, the
\* turn stays in T0 and in the buffer and is never staged.
RememberFails(t) ==
  /\ CanFail
  /\ write[t] = "embed"
  /\ write' = [write EXCEPT ![t] = "failed"]
  /\ UNCHANGED <<storeVars, t1id>>

WriteNext(t) ==
  \/ RememberAppend(t) \/ RememberPush(t) \/ RememberStore(t) \/ RememberStage(t)
  \/ RememberFails(t)

\* A crash ends every remember() that has not returned.
WriteCrash ==
  /\ write' = [t \in Turns |-> IF write[t] \in {"push", "embed", "stage"} THEN "failed"
                            ELSE write[t]]
  /\ UNCHANGED t1id

WriteInit ==
  /\ write = [t \in Turns |-> "new"]
  /\ t1id = [t \in Turns |-> None]

WriteTypeOK ==
  /\ write \in [Turns -> WriteStates]
  /\ t1id \in [Turns -> Records \cup {None}]
=============================================================================
