----------------------------- MODULE MCAdapters -----------------------------
(***************************************************************************)
(* A small instance of the two stores' adapters for TLC.  The T1 record    *)
(* store and the T0 object store share nothing, so a behaviour is one of   *)
(* the one or of the other, and the other stands still.                    *)
(***************************************************************************)
EXTENDS Migration, ObjectStore, TLC

VARIABLE store_of  \* the tier whose adapters run: "t1" or "t0"

AdaptersInit ==
  /\ store_of \in {"t1", "t0"}
  /\ Init /\ T0Init
  /\ store_of = "t1" => store = "local_fs"
  /\ store_of = "t0" => backend = "sqlite"

T1(A) == store_of = "t1" /\ A /\ UNCHANGED <<store_of, objectVars>>
T0(A) == store_of = "t0" /\ A /\ UNCHANGED <<store_of, migrationVars>>

T1Statement(c) == T1(Step(c))
T1Call(c) == T1(EngineCalls(c))
T1Reembed(c) == T1(Reembed(c))
T1StartEngine(d) == T1(StartEngine(d))
T1StartScript(c, d, all) == T1(StartScript(c, d, all))
T1Scan == T1(Scan)
T1Finish == T1(Finish)
T1Continue == T1(Continue)
T1Exit == T1(Exit)
T0Lines(s, t, r) == T0(LocalAppend(s, t) \/ LocalArchive(r) \/ LocalAudit(r))
T0Start(c, s, t) == T0(StartAppend(c, s, t))
T0Append(c) == T0(ListPage(c) \/ PutTurn(c) \/ Answer(c))
T0Fault(c) == T0(GiveUp(c) \/ AppendFails(c) \/ T0Crash)
T0Evict(r) == T0(OssArchive(r) \/ OssAudit(r))

AdaptersNext ==
  \/ \E c \in Clients : T1Statement(c) \/ T1Call(c) \/ T1Reembed(c)
  \/ \E d \in Dims : T1StartEngine(d)
  \/ \E c \in Clients, d \in Dims, all \in BOOLEAN : T1StartScript(c, d, all)
  \/ T1Scan \/ T1Finish \/ T1Continue \/ T1Exit
  \/ \E s \in Sessions, t \in Turns, r \in Evicted : T0Lines(s, t, r)
  \/ \E c \in Callers, s \in Sessions, t \in Turns : T0Start(c, s, t)
  \/ \E c \in Callers : T0Append(c) \/ T0Fault(c)
  \/ \E r \in Evicted : T0Evict(r)

AdaptersSpec == AdaptersInit /\ [][AdaptersNext]_<<migrationVars, objectVars, store_of>>

JustArchived == {Archived}

Symmetry == Permutations(Ids) \cup Permutations(Dims)
=============================================================================
