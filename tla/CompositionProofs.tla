-------------------------- MODULE CompositionProofs --------------------------
(***************************************************************************)
(* Mnema with what runs beside it.                                         *)
(*                                                                         *)
(* With its scheduler the engine does nothing that Mnema does not: a       *)
(* firing of the job is one more consolidate().  recall() reads what the   *)
(* other verbs write while it awaits, and changes nothing of it.  So       *)
(* whatever is proved of Mnema holds of both.                              *)
(***************************************************************************)
EXTENDS DeliveryProofs, Scheduler, Recall

LEMMA ScheduledStep == [ScheduledNext]_schedulerVars => [Next]_vars
<1> SUFFICES ASSUME [ScheduledNext]_schedulerVars PROVE [Next]_vars
  OBVIOUS
<1>1. CASE UNCHANGED schedulerVars
  BY <1>1 DEF schedulerVars
<1>2. ASSUME NEW t \in Turns, Aside(Remember(t)) PROVE Next
  BY <1>2 DEF Aside, Next, Work
<1>3. ASSUME NEW c \in Runs, RunGoesOn(c) \/ RunRaises(c) PROVE Next
  BY <1>3 DEF RunGoesOn, RunRaises, Next, Work
<1>4. ASSUME NEW c \in Runs, NEW s \in Scopes, CallConsolidate(c, s) PROVE Next
  BY <1>4 DEF CallConsolidate, Next, Work
<1>5. ASSUME NEW k \in Calls, NEW u \in Users, NEW r \in Records, Call(StartForget(k, u, r))
      PROVE  Next
  BY <1>5 DEF Call, Aside, Next, Work
<1>6. ASSUME NEW k \in Calls, NEW u \in Users, Call(StartEvict(k, u)) PROVE Next
  BY <1>6 DEF Call, Aside, Next, Work
<1>7. ASSUME NEW k \in Evictors, Aside(EvictStep(k)) PROVE Next
  BY <1>7 DEF Aside, Next, Work
<1>8. ASSUME NEW k \in Calls, CallFails(k) PROVE Next
  BY <1>8 DEF Next, Work
<1>9. CASE Fire
  BY <1>9, SchedulerAssumption DEF Fire, Next, Work
<1>10. CASE SkipFiring \/ Tick
  BY <1>10 DEF SkipFiring, Tick
<1>11. CASE Restart
  BY <1>11 DEF Restart, Next
<1> QED BY <1>1, <1>2, <1>3, <1>4, <1>5, <1>6, <1>7, <1>8, <1>9, <1>10, <1>11
        DEF ScheduledNext

\* Every behaviour of the scheduled engine is one of Mnema: firings, skipped and missed
\* firings, and restarts that pause the job again add no effect on the stores.
THEOREM ScheduledIsMnema == ScheduledSpec => Spec
<1>1. ScheduledInit => Init
  BY DEF ScheduledInit
<1> QED BY <1>1, ScheduledStep, PTL DEF ScheduledSpec, Spec

\* While the job runs by itself beside explicit calls, what remember() was told of an
\* allergy stays live and protected, and T1 stays a memory ledger (CR-03).
THEOREM ScheduledSafety == ScheduledSpec => []SafetyClaimsKept /\ LedgerSpec
BY ScheduledIsMnema, SafetyClaims, ImplementsLedger, PTL

\* No firing of the job, whatever it overlaps with, writes from one user to another.
THEOREM ScheduledTenantsApart == ScheduledSpec => []TenantProvenance
BY ScheduledIsMnema, TenantsApart, PTL

\* No firing of the job delivers a turn twice, or writes a record beside a draft.
THEOREM ScheduledDelivery ==
  ASSUME IsFiniteSet(Turns)
  PROVE  ScheduledSpec => []SingleDelivery /\ []DraftIsAlone
BY ScheduledIsMnema, DeliveredOnce, DraftsAlone, PTL

-----------------------------------------------------------------------------
(***************************************************************************)
(* recall()                                                                *)
(***************************************************************************)
LEMMA RecallMoves ==
  ASSUME [RecallNext]_recallVars
  PROVE  \/ Work /\ NotePush /\ UNCHANGED <<recall, earlier>>
         \/ UNCHANGED vars /\ \E q \in Readers, u \in Users : RecallStart(q, u)
         \/ UNCHANGED vars /\ \E q \in Readers : RecallStep(q)
         \/ RecallCrash
         \/ UNCHANGED recallVars
BY DEF RecallNext, RecallStart, RecallStep, RecallSearch, RecallFetch, RecallMerge

\* recall() writes to none of the stores.
THEOREM RecallIsMnema == RecallSpec => Spec
<1>1. [RecallNext]_recallVars => [Next]_vars
  BY RecallMoves DEF Next, RecallCrash, recallVars
<1> QED BY <1>1, PTL DEF RecallSpec, Spec

\* What a reader can rely on while it awaits: a row stays, with its user, and does not
\* come back once it is retired.
RowsKept ==
  \A r \in Records : Exists(r) =>
    /\ Exists(r)'
    /\ t1'[r].user = t1[r].user
    /\ t1[r].status = "retired" => t1'[r].status = "retired"

\* The content of a row is that of a turn.
Said == \A r \in Records : Exists(r) => t1[r].said \in Turns

LEMMA RowStays ==
  ASSUME Said, UNCHANGED t1
  PROVE  Said' /\ RowsKept
BY DEF Said, RowsKept, Exists

LEMMA RowComes ==
  ASSUME Said, NEW r \in Unused, NEW row, Writes(r, row), row.said \in Turns
  PROVE  Said' /\ RowsKept
BY DEF Said, RowsKept, Exists, Unused, Writes

LEMMA RowIsRewritten ==
  ASSUME Said, NEW r \in Records, Exists(r), NEW row, Writes(r, row),
         row.user = t1[r].user, row.said = t1[r].said \/ row.said \in Turns,
         row.status = t1[r].status \/ row.status = "retired"
  PROVE  Said' /\ RowsKept
BY DEF Said, RowsKept, Exists, Writes

LEMMA ConsolidateRowsKept ==
  ASSUME IInv, Said, NEW c \in Runs, Consolidate(c)
  PROVE  Said' /\ RowsKept
<1> DEFINE near == runs[c].near
<1>0. t1 \in [Records -> Row] /\ RunTypeOK /\ RunShape
  BY DEF IInv, TypeInv, TypeOK, StoresTypeOK
<1>1. UNCHANGED t1 \/ Turn(c) \in Turns
  <2>1. runs[c].pc \in {"sweep", "decay", "evict"} => UNCHANGED t1
    BY DEF Consolidate, RunStep, Extract, TakeItem, Reconcile, Search, Fetch, InsertNew, Refine,
           MarkPending, SupersedeOld, InsertDistinct, FinishTurn, PromoteUser, DecayScan,
           FinishUser, storeVars
  <2>2. runs[c].pc \notin {"sweep", "decay", "evict"} => runs[c].items # <<>>
    BY <1>0, RunAfter DEF RunShape, RunTypeOK, RunType, Running
  <2> QED BY <1>0, <2>1, <2>2, TurnType
<1>2. \A over : /\ ConfirmedRow(c, over).said = Turn(c)
                /\ ConfirmedRow(c, over).status = "live"
  BY DEF ConfirmedRow, NoRow
<1>3. CASE RowRewritten(c) /\ Turn(c) \in Turns
  <2>1. PICK row : Writes(near, row) /\ RewrittenRow(c, row)
    BY <1>3 DEF RowRewritten
  <2>2. near \in Records /\ Exists(near)
    BY <1>3 DEF RowRewritten
  <2>3. /\ row.user = t1[near].user /\ (row.said = t1[near].said \/ row.said \in Turns)
        /\ row.status = t1[near].status
    BY <1>3, <2>1, <2>2 DEF RewrittenRow
  <2> HIDE DEF near
  <2> QED BY <2>1, <2>2, <2>3, RowIsRewritten
<1>4. CASE RowAdded(c) /\ Turn(c) \in Turns
  BY <1>2, <1>4, RowComes DEF RowAdded
<1>5. CASE RowReplaced(c) /\ Turn(c) \in Turns
  <2> DEFINE new == ConfirmedRow(c, near)
  <2>1. near \in Records /\ Exists(near)
    BY <1>5 DEF RowReplaced
  <2>2. PICK r \in Unused : \A s \in Records :
          t1'[s] = IF s = r THEN new
                   ELSE IF s = near THEN [t1[s] EXCEPT !.status = "retired", !.by = r]
                   ELSE t1[s]
    BY <1>5 DEF RowReplaced
  <2> DEFINE old == [t1[near] EXCEPT !.status = "retired", !.by = r]
  <2>3. old.status = "retired" /\ old.user = t1[near].user /\ old.said = t1[near].said
    BY <1>0, <2>1 DEF Row
  <2>4. new.said = Turn(c) /\ new.status = "live"
    BY <1>2
  <2>5. \A s \in Records : \/ s = r /\ t1'[s] = new
                           \/ s = near /\ t1'[s] = old
                           \/ s # r /\ s # near /\ t1'[s] = t1[s]
    BY <2>2
  <2>6. r \in Records /\ ~ Exists(r)
    BY DEF Unused
  <2> HIDE DEF old, new, near
  <2> QED BY <1>5, <2>1, <2>3, <2>4, <2>5, <2>6 DEF Said, RowsKept, Exists
<1> QED BY <1>1, <1>3, <1>4, <1>5, RowsAfter, RowStays

LEMMA RememberRowsKept ==
  ASSUME TypeOK, Said, NEW t \in Turns, Remember(t)
  PROVE  Said' /\ RowsKept
<1>1. ProvisionalRow(t).said = t
  BY DEF ProvisionalRow, NoRow
<1>2. UNCHANGED t1 \/ \E r \in Unused : t1' = [t1 EXCEPT ![r] = ProvisionalRow(t)]
  BY DEF Remember, WriteNext, RememberAppend, RememberPush, RememberStore, RememberStage,
         RememberFails, UpsertWithVector, storeVars
<1>3. ASSUME NEW r \in Unused, t1' = [t1 EXCEPT ![r] = ProvisionalRow(t)]
      PROVE  Writes(r, ProvisionalRow(t))
  BY <1>3 DEF Writes, TypeOK, StoresTypeOK, Unused
<1> QED BY <1>1, <1>2, <1>3, RowStays, RowComes

LEMMA EvictRowsKept ==
  ASSUME IInv, PlainInv, Said, NEW k \in Evictors, EvictStep(k)
  PROVE  Said' /\ RowsKept
<1>1. CASE Retires(k)
  <2>1. PICK v \in evictor[k].victims : Update(v, [t1[v] EXCEPT !.status = "retired"])
    BY <1>1 DEF Retires
  <2>2. v \in Records /\ Exists(v) /\ t1 \in [Records -> Row]
    BY DEF IInv, TypeInv, TypeOK, ForgetTypeOK, EvictorType, StoresTypeOK, VictimKnown
  <2> DEFINE row == [t1[v] EXCEPT !.status = "retired"]
  <2>3. row.user = t1[v].user /\ row.said = t1[v].said /\ row.status = "retired"
    BY <2>2 DEF Row
  <2>4. Writes(v, row)
    BY <2>1, <2>2 DEF Update, Writes
  <2> HIDE DEF row
  <2> QED BY <2>2, <2>3, <2>4, RowIsRewritten
<1> QED BY <1>1, EvictorMoves, RowStays DEF PlainInv

LEMMA NextRowsKept == IInv /\ PlainInv /\ Said /\ [Next]_vars => Said' /\ RowsKept
BY StepsOf, RememberRowsKept, EvictRowsKept, ConsolidateRowsKept, RowsStand, RowStays
   DEF IInv, TypeInv

\* A turn is in the buffer of its own user and session.
BufferOwned ==
  \A key \in Users \X Sessions : \A i \in DOMAIN buffer[key] :
    Input[buffer[key][i]].user = key[1] /\ Input[buffer[key][i]].session = key[2]

LEMMA BufferMoves ==
  ASSUME [Next]_vars
  PROVE  \/ \E t \in Turns : Remember(t) /\ RememberPush(t)
         \/ UNCHANGED buffer
         \/ buffer' = EmptyBuffer /\ Crash
<1>1. ASSUME NEW t \in Turns, Remember(t) PROVE RememberPush(t) \/ UNCHANGED buffer
  BY <1>1 DEF Remember, WriteNext, RememberAppend, RememberStore, RememberStage, RememberFails,
              storeVars
<1>2. ASSUME NEW c \in Runs, Consolidate(c) PROVE UNCHANGED buffer
  BY <1>2 DEF Consolidate, RunStep, Extract, TakeItem, Reconcile, Search, Fetch, InsertNew, Insert,
     Refine, MarkPending, SupersedeOld, InsertDistinct, FinishTurn, PromoteUser, DecayScan,
     FinishUser, storeVars
<1>3. ASSUME NEW k \in Evictors, EvictStep(k) PROVE UNCHANGED buffer
  BY <1>3 DEF EvictStep, EvictionStep, RetireVictim, DeleteVector, ArchiveVictim, AuditVictim
<1>4. CASE CallsMove
  BY <1>4 DEF CallsMove, StartRun, Drain, StartForget, Forget, StartEvict, Evict, CallFails,
     EvictionFails, ConsolidateFails, RunFails, Crash, storeVars, vars
<1> QED BY <1>1, <1>2, <1>3, <1>4, StepsOf

\* The buffer of t's session once t is pushed.
LEMMA Pushed ==
  ASSUME TypeOK, NEW t \in Turns, RememberPush(t)
  PROVE  LET own == <<Input[t].user, Input[t].session>>
             kept == IF Len(buffer[own]) < BufferSize THEN buffer[own] ELSE Tail(buffer[own])
         IN  /\ own \in Users \X Sessions
             /\ buffer'[own] = Append(kept, t)
             /\ \A key \in Users \X Sessions : key # own => buffer'[key] = buffer[key]
<1>1. Input[t] \in InputType /\ buffer \in [Users \X Sessions -> Seq(Turns)]
  BY StoresAssumption DEF TypeOK, StoresTypeOK
<1>2. <<Input[t].user, Input[t].session>> \in Users \X Sessions
  BY <1>1 DEF InputType
<1> QED BY <1>1, <1>2 DEF RememberPush, BufferPush

\* What is left when room is made for a turn: all of it, or all but the first.
Room(q) == IF Len(q) < BufferSize THEN q ELSE Tail(q)

LEMMA RoomMade ==
  ASSUME NEW q \in Seq(Turns)
  PROVE  /\ Room(q) \in Seq(Turns)
         /\ Len(Room(q)) = IF Len(q) < BufferSize THEN Len(q) ELSE Len(q) - 1
         /\ \A i \in DOMAIN Room(q) :
              \/ Len(q) < BufferSize /\ Room(q)[i] = q[i] /\ i \in DOMAIN q
              \/ Len(q) >= BufferSize /\ Room(q)[i] = q[i + 1] /\ i + 1 \in DOMAIN q
<1>0. BufferSize \in Nat /\ BufferSize # 0
  BY StoresAssumption
<1>1. Room(q) \in Seq(Turns)
  BY <1>0 DEF Room
<1>2. Len(Room(q)) = IF Len(q) < BufferSize THEN Len(q) ELSE Len(q) - 1
  BY <1>0 DEF Room
<1>3. ASSUME NEW i \in DOMAIN Room(q)
      PROVE  \/ Len(q) < BufferSize /\ Room(q)[i] = q[i] /\ i \in DOMAIN q
             \/ Len(q) >= BufferSize /\ Room(q)[i] = q[i + 1] /\ i + 1 \in DOMAIN q
  BY <1>0 DEF Room
<1> QED BY <1>1, <1>2, <1>3

LEMMA BufferStaysOwned ==
  ASSUME TypeOK, BufferOwned, [Next]_vars
  PROVE  BufferOwned'
<1>1. CASE UNCHANGED buffer
  BY <1>1 DEF BufferOwned
<1>2. CASE buffer' = EmptyBuffer
  <2>1. \A key \in Users \X Sessions : buffer'[key] = <<>>
    BY <1>2 DEF EmptyBuffer
  <2> QED BY <2>1 DEF BufferOwned
<1>3. ASSUME NEW t \in Turns, RememberPush(t) PROVE BufferOwned'
  <2> DEFINE own == <<Input[t].user, Input[t].session>>
             q == buffer[own]
  <2>1. /\ own \in Users \X Sessions
        /\ buffer'[own] = Append(Room(q), t)
        /\ \A key \in Users \X Sessions : key # own => buffer'[key] = buffer[key]
    BY <1>3, Pushed DEF Room
  <2>2. q \in Seq(Turns)
    BY <2>1 DEF TypeOK, StoresTypeOK
  <2>3. ASSUME NEW i \in DOMAIN buffer'[own]
        PROVE  buffer'[own][i] = t \/ \E j \in DOMAIN q : buffer'[own][i] = q[j]
    <3> HIDE DEF q
    <3>1. Room(q) \in Seq(Turns) /\ \A j \in DOMAIN Room(q) : \E k \in DOMAIN q : Room(q)[j] = q[k]
      BY <2>2, RoomMade
    <3>2. buffer'[own][i] = t \/ (i \in DOMAIN Room(q) /\ buffer'[own][i] = Room(q)[i])
      BY <2>1, <3>1
    <3> QED BY <3>1, <3>2
  <2>4. own[1] = Input[t].user /\ own[2] = Input[t].session
    OBVIOUS
  <2>5. \A j \in DOMAIN q : Input[q[j]].user = own[1] /\ Input[q[j]].session = own[2]
    BY <2>1 DEF BufferOwned
  <2> HIDE DEF q
  <2>6. \A i \in DOMAIN buffer'[own] :
          Input[buffer'[own][i]].user = own[1] /\ Input[buffer'[own][i]].session = own[2]
    BY <2>3, <2>4, <2>5
  <2> HIDE DEF own
  <2> QED BY <2>1, <2>6 DEF BufferOwned
<1> QED BY <1>1, <1>2, <1>3, BufferMoves

(***************************************************************************)
(* What a call of recall() knows while it awaits: the records it has found *)
(* or fetched exist and are its user's, and none of them is one that was   *)
(* retired when it started.                                                *)
(***************************************************************************)
Knows(x) ==
  /\ \A r \in x.hits : Exists(r) /\ t1[r].user = x.user /\ r \notin x.gone
  /\ \A g \in x.got : Exists(g.id) /\ t1[g.id].user = x.user /\ g.id \notin x.gone
  /\ \A r \in x.gone : t1[r].status = "retired"

\* What it returns of the buffer is its user's.
Merged(x) ==
  /\ x.pc # "idle" => x.user \in Users
  /\ \A t \in x.turns : Input[t].user = x.user
  /\ x.pc # "done" => x.turns = {}

RecallInv ==
  /\ recall \in [Readers -> RecallType] /\ earlier \subseteq Turns
  /\ pushed \in [Users \X Sessions -> Seq(Turns)]
  /\ \A q \in Readers : Knows(recall[q]) /\ Merged(recall[q])

\* What recall() relies on of the rest of the engine.
RecallBase == IInv /\ PlainInv /\ Said /\ BufferOwned

LEMMA StillKnows ==
  ASSUME RowsKept, NEW x \in RecallType, Knows(x)
  PROVE  Knows(x)'
<1>1. \A g \in x.got : g.id \in Records
  BY DEF RecallType, Hit
<1>2. x.hits \subseteq Records /\ x.gone \subseteq Records
  BY DEF RecallType
<1>3. \A r \in Records : t1[r].status = "retired" => Exists(r)
  BY DEF Exists
<1> QED BY <1>1, <1>2, <1>3 DEF Knows, RowsKept

LEMMA IdleKnows == IdleRecall \in RecallType /\ Knows(IdleRecall) /\ Merged(IdleRecall)
BY DEF IdleRecall, RecallType, Knows, Merged

\* One call goes on, and the engine stands still.
LEMMA ReaderMoves ==
  ASSUME RecallInv, NEW q \in Readers, NEW x \in RecallType, Knows(x), Merged(x),
         recall' = [recall EXCEPT ![q] = x], UNCHANGED <<vars, earlier, pushed>>
  PROVE  RecallInv'
<1>1. /\ recall' \in [Readers -> RecallType]
      /\ \A p \in Readers : recall'[p] = IF p = q THEN x ELSE recall[p]
  BY DEF RecallInv
<1>2. UNCHANGED t1
  BY DEF vars, storeVars
<1>3. ASSUME NEW p \in Readers PROVE Knows(recall[p])' /\ Merged(recall[p])'
  <2>1. PICK y : y = recall'[p]
    OBVIOUS
  <2>2. Knows(y) /\ Merged(y)
    BY <1>1, <2>1 DEF RecallInv
  <2>3. Knows(y)'
    BY <1>2, <2>2 DEF Knows, Exists
  <2>4. Knows(recall[p])'
    BY <2>1, <2>3 DEF Knows
  <2>5. Merged(recall[p])'
    BY <2>1, <2>2 DEF Merged
  <2> QED BY <2>4, <2>5
<1>4. earlier' \subseteq Turns /\ pushed' \in [Users \X Sessions -> Seq(Turns)]
  BY DEF RecallInv
<1> QED BY <1>1, <1>3, <1>4 DEF RecallInv

LEMMA StartRecalls ==
  ASSUME RecallInv, NEW q \in Readers, NEW u \in Users, RecallStart(q, u), UNCHANGED vars
  PROVE  RecallInv'
<1> DEFINE due == {t \in Turns \ earlier : write[t] = "done" /\ Input[t].user = u}
           gone == {r \in Records : t1[r].status = "retired"}
           x == [IdleRecall EXCEPT !.pc = "search", !.user = u, !.due = due, !.gone = gone]
<1>1. recall' = [recall EXCEPT ![q] = x] /\ UNCHANGED <<vars, earlier, pushed>>
  BY DEF RecallStart
<1>2. due \in SUBSET Turns /\ gone \in SUBSET Records /\ \A r \in gone : t1[r].status = "retired"
  OBVIOUS
<1> HIDE DEF due, gone
<1>3. x \in RecallType /\ Knows(x) /\ Merged(x)
  BY <1>2 DEF IdleRecall, RecallType, Knows, Merged
<1> HIDE DEF x
<1> QED BY <1>1, <1>3, ReaderMoves

LEMMA StepRecalls ==
  ASSUME RecallInv, RecallBase, NEW q \in Readers, RecallStep(q), UNCHANGED vars
  PROVE  RecallInv'
<1> DEFINE old == recall[q]
<1>0. old \in RecallType /\ Knows(old) /\ Merged(old) /\ t1 \in [Records -> Row]
  BY DEF RecallInv, RecallBase, IInv, TypeInv, TypeOK, StoresTypeOK
<1>1. CASE RecallSearch(q)
  <2>1. PICK near \in SUBSET vec :
          recall' = [recall EXCEPT ![q] =
            [old EXCEPT !.pc = "fetch", !.hits = near \cap Searchable(old.user)]]
    BY <1>1 DEF RecallSearch
  <2> DEFINE hits == near \cap Searchable(old.user)
             x == [old EXCEPT !.pc = "fetch", !.hits = hits]
  <2>2. \A r \in hits : r \in Records /\ Exists(r) /\ t1[r].user = old.user /\ r \notin old.gone
    BY <1>0 DEF Searchable, LiveOf, Live, Exists, Knows
  <2> HIDE DEF hits
  <2>3. /\ x \in RecallType /\ x.hits = hits /\ x.pc = "fetch"
        /\ x.user = old.user /\ x.got = old.got /\ x.turns = old.turns /\ x.gone = old.gone
    BY <1>0, <2>2 DEF RecallType
  <2>4. recall' = [recall EXCEPT ![q] = x]
    BY <2>1 DEF hits
  <2>5. old.turns = {} /\ old.user \in Users
    BY <1>0, <1>1 DEF RecallSearch, Merged
  <2> HIDE DEF x
  <2>6. Knows(x) /\ Merged(x)
    BY <1>0, <2>2, <2>3, <2>5 DEF Knows, Merged
  <2>7. UNCHANGED <<vars, earlier, pushed>>
    BY <1>1 DEF RecallSearch
  <2> QED BY <2>3, <2>4, <2>6, <2>7, ReaderMoves
<1>2. CASE RecallFetch(q)
  <2>1. PICK r \in old.hits :
          recall' = [recall EXCEPT ![q] =
            IF Readable(r)
            THEN [old EXCEPT !.hits = old.hits \ {r},
                             !.got = old.got \cup
                               {[id |-> r, said |-> t1[r].said, draft |-> t1[r].prov]}]
            ELSE IdleRecall]
    BY <1>2 DEF RecallFetch
  <2> DEFINE hit == [id |-> r, said |-> t1[r].said, draft |-> t1[r].prov]
             x == [old EXCEPT !.hits = old.hits \ {r}, !.got = old.got \cup {hit}]
  <2>2. r \in Records /\ Exists(r) /\ t1[r].user = old.user /\ r \notin old.gone
    BY <1>0 DEF RecallType, Knows
  <2>3. hit \in Hit /\ hit.id = r
    <3>1. t1[r].said \in Turns
      BY <2>2 DEF RecallBase, Said
    <3>2. t1[r].prov \in BOOLEAN
      BY <1>0, <2>2 DEF Row
    <3> QED BY <2>2, <3>1, <3>2 DEF Hit
  <2> HIDE DEF hit
  <2>4. /\ x \in RecallType /\ x.hits = old.hits \ {r} /\ x.got = old.got \cup {hit}
        /\ x.pc = old.pc /\ x.user = old.user /\ x.turns = old.turns /\ x.gone = old.gone
    BY <1>0, <2>3 DEF RecallType
  <2>5. old.turns = {}
    BY <1>0, <1>2 DEF RecallFetch, Merged
  <2>6. recall' = [recall EXCEPT ![q] = IF Readable(r) THEN x ELSE IdleRecall]
    BY <2>1 DEF hit
  <2> HIDE DEF x
  <2>7. Knows(x) /\ Merged(x)
    BY <1>0, <2>2, <2>3, <2>4, <2>5 DEF Knows, Merged
  <2> QED BY <1>2, <2>4, <2>6, <2>7, IdleKnows, ReaderMoves DEF RecallFetch
<1>3. CASE RecallMerge(q)
  <2>1. PICK kept \in NotInT1(old.got, Buffered(old.user)) :
          recall' = [recall EXCEPT ![q] = [old EXCEPT !.pc = "done", !.turns = kept]]
    BY <1>3 DEF RecallMerge
  <2> DEFINE x == [old EXCEPT !.pc = "done", !.turns = kept]
  <2>2. kept \subseteq Buffered(old.user)
    BY DEF NotInT1
  <2>3. old.user \in Users /\ old.hits = {}
    BY <1>0, <1>3 DEF RecallMerge, Merged
  <2>4. \A t \in kept : t \in Turns /\ Input[t].user = old.user
    <3> SUFFICES ASSUME NEW t \in kept PROVE t \in Turns /\ Input[t].user = old.user
      OBVIOUS
    <3>1. PICK s \in Sessions : \E i \in DOMAIN buffer[<<old.user, s>>] :
                                  buffer[<<old.user, s>>][i] = t
      BY <2>2 DEF Buffered
    <3>2. t \in Turns
      BY <2>2 DEF Buffered
    <3> DEFINE key == <<old.user, s>>
    <3>3. key \in Users \X Sessions /\ key[1] = old.user
      BY <2>3
    <3>4. \E i \in DOMAIN buffer[key] : buffer[key][i] = t
      BY <3>1
    <3> HIDE DEF key
    <3> QED BY <3>2, <3>3, <3>4 DEF RecallBase, BufferOwned
  <2>5. /\ x \in RecallType /\ x.turns = kept /\ x.pc = "done"
        /\ x.user = old.user /\ x.got = old.got /\ x.hits = old.hits /\ x.gone = old.gone
    BY <1>0, <2>4 DEF RecallType
  <2> HIDE DEF x
  <2>6. Knows(x) /\ Merged(x)
    BY <1>0, <2>2, <2>3, <2>4, <2>5 DEF Knows, Merged
  <2>7. recall' = [recall EXCEPT ![q] = x]
    BY <2>1 DEF x
  <2> QED BY <1>3, <2>5, <2>6, <2>7, ReaderMoves DEF RecallMerge
<1> QED BY <1>1, <1>2, <1>3 DEF RecallStep

LEMMA PushNoted ==
  ASSUME pushed \in [Users \X Sessions -> Seq(Turns)], NotePush \/ UNCHANGED pushed
  PROVE  pushed' \in [Users \X Sessions -> Seq(Turns)]
<1>1. ASSUME NEW t \in Turns, pushed' = [pushed EXCEPT ![Own(t)] = Append(@, t)]
      PROVE  pushed' \in [Users \X Sessions -> Seq(Turns)]
  <2>1. Own(t) \in Users \X Sessions
    BY StoresAssumption DEF Own, InputType
  <2>2. pushed[Own(t)] \in Seq(Turns)
    BY <2>1
  <2> DEFINE longer == Append(pushed[Own(t)], t)
  <2>3. longer \in Seq(Turns)
    BY <2>2
  <2>4. pushed' = [pushed EXCEPT ![Own(t)] = longer]
    BY <1>1
  <2> HIDE DEF longer
  <2> QED BY <2>3, <2>4
<1> QED BY <1>1 DEF NotePush

LEMMA EngineMoves ==
  ASSUME RecallInv, RecallBase, [Next]_vars, UNCHANGED <<recall, earlier>>,
         NotePush \/ UNCHANGED pushed
  PROVE  RecallInv'
<1>1. RowsKept
  BY NextRowsKept DEF RecallBase
<1>2. ASSUME NEW q \in Readers PROVE Knows(recall[q])' /\ Merged(recall[q])'
  <2>1. PICK y : y = recall[q]
    OBVIOUS
  <2>2. y \in RecallType /\ Knows(y) /\ Merged(y)
    BY <2>1 DEF RecallInv
  <2>3. Knows(y)'
    BY <1>1, <2>2, StillKnows
  <2>4. y = recall'[q]
    BY <2>1
  <2>5. Knows(recall[q])'
    BY <2>3, <2>4 DEF Knows
  <2>6. Merged(recall[q])'
    BY <2>2, <2>4 DEF Merged
  <2> QED BY <2>5, <2>6
<1> QED BY <1>2, PushNoted DEF RecallInv

LEMMA EmptyBufferType == EmptyBuffer \in [Users \X Sessions -> Seq(Turns)]
BY DEF EmptyBuffer

LEMMA CrashRecalls ==
  ASSUME RecallInv, RecallCrash
  PROVE  RecallInv'
<1>1. recall' = [q \in Readers |-> IdleRecall] /\ earlier' \subseteq Turns
  BY DEF RecallCrash
<1>2. recall' \in [Readers -> RecallType]
  BY <1>1, IdleKnows
<1>3. ASSUME NEW q \in Readers PROVE Knows(recall[q])' /\ Merged(recall[q])'
  BY <1>1 DEF Knows, Merged, IdleRecall
<1>4. pushed' \in [Users \X Sessions -> Seq(Turns)]
  BY EmptyBufferType DEF RecallCrash
<1> QED BY <1>1, <1>2, <1>3, <1>4 DEF RecallInv

LEMMA NextRecalls == RecallInv /\ RecallBase /\ [RecallNext]_recallVars => RecallInv'
<1> SUFFICES ASSUME RecallInv, RecallBase, [RecallNext]_recallVars PROVE RecallInv'
  OBVIOUS
<1>1. CASE Work /\ NotePush /\ UNCHANGED <<recall, earlier>>
  BY <1>1, EngineMoves DEF Next
<1>2. CASE UNCHANGED recallVars
  BY <1>2, EngineMoves DEF recallVars
<1> QED BY <1>1, <1>2, RecallMoves, StartRecalls, StepRecalls, CrashRecalls

LEMMA InitRecalls == Init /\ RecallInit => RecallInv /\ Said /\ BufferOwned
<1> SUFFICES ASSUME Init, RecallInit PROVE RecallInv /\ Said /\ BufferOwned
  OBVIOUS
<1>1. RecallInv
  BY IdleKnows, EmptyBufferType DEF RecallInit, RecallInv
<1>2. Said
  BY DEF Init, StoresInit, Said, Exists, NoRow
<1>3. BufferOwned
  <2>1. \A key \in Users \X Sessions : buffer[key] = <<>>
    BY DEF Init, StoresInit, EmptyBuffer
  <2> QED BY <2>1 DEF BufferOwned
<1> QED BY <1>1, <1>2, <1>3

LEMMA AlwaysRecalls == RecallSpec => [](Always /\ RecallBase /\ RecallInv)
<1>1. RecallSpec => []Always
  BY RecallIsMnema, AlwaysPlain, PTL
<1>2. [RecallNext]_recallVars => [Next]_vars
  BY RecallMoves DEF Next, RecallCrash, recallVars
<1>3. Always /\ Said /\ BufferOwned /\ [Next]_vars => Said' /\ BufferOwned'
  BY NextRowsKept, BufferStaysOwned DEF Always, IInv, TypeInv
<1>4. Always /\ Said /\ BufferOwned => RecallBase
  BY DEF Always, RecallBase
<1> QED BY <1>1, <1>2, <1>3, <1>4, InitRecalls, NextRecalls, PTL DEF RecallSpec

\* Every value of recall() and of the engine beside it has its type.
THEOREM RecallTypes == RecallSpec => []RecallTypeOK
<1>1. Always /\ RecallInv => RecallTypeOK
  BY DEF Always, IInv, TypeInv, RecallInv, RecallTypeOK
<1> QED BY <1>1, AlwaysRecalls, PTL

\* recall() returns nobody else's records and nobody else's turns, whatever is written
\* between its search, its fetches and its reading of the buffer (D-02).
THEOREM RecallIsScoped == RecallSpec => []RecallScoped
<1>1. RecallInv => RecallScoped
  BY DEF RecallInv, Knows, Merged, Returned, RecallScoped
<1> QED BY <1>1, AlwaysRecalls, PTL

\* A record that was superseded, forgotten or evicted before the call is not returned:
\* a retired row never becomes live again (RECALL-01).
THEOREM RetiredRecordsStayOut == RecallSpec => []RetiredStaysOut
<1>1. RecallInv => RetiredStaysOut
  BY DEF RecallInv, Knows, RetiredStaysOut
<1> QED BY <1>1, AlwaysRecalls, PTL

-----------------------------------------------------------------------------
(***************************************************************************)
(* What remember() has returned for is recalled: of every session the      *)
(* buffer holds the last BufferSize turns that this process pushed, in the *)
(* order in which it pushed them.                                          *)
(***************************************************************************)
Out(t) == write[t] \notin {"new", "push"}
In(q, t) == \E i \in DOMAIN q : q[i] = t

\* q is the end of the sequence h.
EndOf(q, h) ==
  /\ Len(q) = IF Len(h) < BufferSize THEN Len(h) ELSE BufferSize
  /\ \A i \in DOMAIN q : q[i] = h[Len(h) - Len(q) + i]

Recent(key) ==
  /\ EndOf(buffer[key], pushed[key])
  /\ \A t \in Turns \ earlier : Own(t) = key /\ Out(t) => In(pushed[key], t)

BufferRecent == \A key \in Users \X Sessions : Recent(key)

\* What was handed over stays so.
StaysOut ==
  /\ \A t \in Turns : Out(t) => Out(t)'
  /\ \A t \in Turns : write[t] = "done" => write'[t] = "done"

\* No remember() gets past its push.
NonePushed == \A t \in Turns : Out(t)' = Out(t) /\ (write[t] = "push" => write'[t] = "push")

LEMMA WriteMoves ==
  ASSUME TypeOK, Work \/ UNCHANGED vars
  PROVE  /\ StaysOut
         /\ \/ \E t \in Turns : RememberPush(t) /\ \A s \in Turns : s # t => write'[s] = write[s]
            \/ UNCHANGED buffer /\ NonePushed
<1>0. write \in [Turns -> WriteStates]
  BY DEF TypeOK, WriteTypeOK
<1> DEFINE Led == /\ StaysOut
                  /\ \/ \E t \in Turns : RememberPush(t) /\ \A s \in Turns : s # t => write'[s] = write[s]
                     \/ UNCHANGED buffer /\ NonePushed
<1> SUFFICES Led
  OBVIOUS
<1>1. CASE UNCHANGED <<write, buffer>>
  BY <1>1 DEF StaysOut, Out, NonePushed
<1>2. ASSUME NEW t \in Turns, Remember(t) PROVE Led
  <2>1. CASE RememberPush(t)
    BY <1>0, <2>1 DEF RememberPush, StaysOut, Out
  <2>2. CASE ~ RememberPush(t)
    <3>1. /\ UNCHANGED buffer
          /\ \/ write[t] = "new" /\ write' = [write EXCEPT ![t] = "push"]
             \/ write[t] = "embed" /\ write' = [write EXCEPT ![t] = "stage"]
             \/ write[t] = "stage" /\ write' = [write EXCEPT ![t] = "done"]
             \/ write[t] = "embed" /\ write' = [write EXCEPT ![t] = "failed"]
      BY <1>2, <2>2 DEF Remember, WriteNext, RememberAppend, RememberStore, RememberStage,
                        RememberFails, storeVars
    <3> QED BY <1>0, <3>1 DEF StaysOut, Out, NonePushed
  <2> QED BY <2>1, <2>2
<1>3. UNCHANGED vars => UNCHANGED <<write, buffer>>
  BY DEF vars, storeVars, writeVars
<1>4. ASSUME NEW c \in Runs, Consolidate(c) PROVE UNCHANGED <<write, buffer>>
  BY <1>4 DEF Consolidate, RunStep, Extract, TakeItem, Reconcile, Search, Fetch, InsertNew, Insert,
     Refine, MarkPending, SupersedeOld, InsertDistinct, FinishTurn, PromoteUser, DecayScan,
     FinishUser, storeVars, writeVars
<1>5. ASSUME NEW k \in Evictors, EvictStep(k) PROVE UNCHANGED <<write, buffer>>
  BY <1>5 DEF EvictStep, EvictionStep, RetireVictim, DeleteVector, ArchiveVictim, AuditVictim,
     writeVars
<1>6. CASE \/ \E c \in Runs, s \in Scopes : StartRun(c, s)
           \/ \E k \in Calls, u \in Users, r \in Records : StartForget(k, u, r)
           \/ \E k \in Calls, u \in Users : StartEvict(k, u)
           \/ \E k \in Calls : CallFails(k)
           \/ \E c \in Runs : ConsolidateFails(c)
  <2>1. UNCHANGED <<write, buffer>>
    BY <1>6 DEF StartRun, Drain, StartForget, Forget, StartEvict, Evict, CallFails,
     EvictionFails, ConsolidateFails, RunFails, storeVars, writeVars
  <2> QED BY <1>1, <2>1
<1> QED BY <1>1, <1>2, <1>3, <1>4, <1>5, <1>6 DEF Work

\* One more turn in the buffer of its session.
LEMMA PushStaysRecent ==
  ASSUME TypeOK, BufferRecent, pushed \in [Users \X Sessions -> Seq(Turns)],
         UNCHANGED earlier, NEW t \in Turns, RememberPush(t),
         \A s \in Turns : s # t => write'[s] = write[s], NotePush
  PROVE  BufferRecent'
<1> DEFINE own == Own(t)
           q == buffer[own]
           h == pushed[own]
           kept == Room(q)
<1>0. /\ own \in Users \X Sessions
      /\ buffer'[own] = Append(kept, t)
      /\ \A key \in Users \X Sessions : key # own => buffer'[key] = buffer[key]
  BY Pushed DEF Room, Own
<1>1. q \in Seq(Turns) /\ h \in Seq(Turns) /\ EndOf(q, h) /\ BufferSize \in Nat /\ BufferSize # 0
  BY <1>0, StoresAssumption DEF BufferRecent, Recent, TypeOK, StoresTypeOK
<1>2. write[t] = "push" /\ write'[t] # "push"
  <2>1. write' = [write EXCEPT ![t] = IF NeedsRecord(t) THEN "embed" ELSE "done"]
    BY DEF RememberPush
  <2> QED BY <2>1 DEF RememberPush, TypeOK, WriteTypeOK
<1>3. /\ pushed'[own] = Append(h, t)
      /\ \A key \in Users \X Sessions : key # own => pushed'[key] = pushed[key]
  <2>1. PICK s \in Turns : /\ write[s] = "push" /\ write'[s] # "push"
                           /\ pushed' = [pushed EXCEPT ![Own(s)] = Append(@, s)]
    BY <1>2 DEF NotePush
  <2>2. s = t
    BY <2>1
  <2>3. pushed' = [pushed EXCEPT ![own] = Append(h, t)]
    BY <2>1, <2>2
  <2> HIDE DEF own
  <2> QED BY <1>0, <2>3
<1>4. ASSUME NEW key \in Users \X Sessions, key # own PROVE Recent(key)'
  <2>1. buffer'[key] = buffer[key] /\ pushed'[key] = pushed[key] /\ Recent(key)
    BY <1>0, <1>3, <1>4 DEF BufferRecent
  <2>2. \A s \in Turns : Own(s) = key => Out(s)' = Out(s)
    BY <1>4 DEF Out
  <2> HIDE DEF own, q, h, kept
  <2> QED BY <2>1, <2>2 DEF Recent, EndOf, In
<1>5. /\ kept \in Seq(Turns)
      /\ Len(kept) = IF Len(q) < BufferSize THEN Len(q) ELSE Len(q) - 1
      /\ \A i \in DOMAIN kept :
              \/ Len(q) < BufferSize /\ kept[i] = q[i] /\ i \in DOMAIN q
              \/ Len(q) >= BufferSize /\ kept[i] = q[i + 1] /\ i + 1 \in DOMAIN q
  BY <1>1, RoomMade
<1> HIDE DEF own, q, h, kept
<1>6. EndOf(Append(kept, t), Append(h, t))
  <2>1. PICK new : new = Append(kept, t)
    OBVIOUS
  <2>2. PICK more : more = Append(h, t)
    OBVIOUS
  <2>3. /\ Len(new) = Len(kept) + 1 /\ new[Len(kept) + 1] = t /\ DOMAIN new = 1..(Len(kept) + 1)
        /\ \A i \in 1..Len(kept) : new[i] = kept[i]
    BY <1>5, <2>1
  <2>4. /\ Len(more) = Len(h) + 1 /\ more[Len(h) + 1] = t
        /\ \A i \in 1..Len(h) : more[i] = h[i]
    BY <1>1, <2>2
  <2>5. Len(new) = IF Len(more) < BufferSize THEN Len(more) ELSE BufferSize
    BY <1>1, <1>5, <2>3, <2>4 DEF EndOf
  <2>6. ASSUME NEW i \in DOMAIN new PROVE new[i] = more[Len(more) - Len(new) + i]
    <3>0. Len(h) \in Nat /\ Len(q) \in Nat /\ Len(kept) \in Nat /\ i \in Nat
      BY <1>1, <1>5, <2>3
    <3>1. CASE i = Len(kept) + 1
      BY <2>3, <2>4, <3>0, <3>1
    <3>2. CASE i # Len(kept) + 1
      <4>1. i \in 1..Len(kept) /\ i \in DOMAIN kept /\ new[i] = kept[i]
        BY <1>5, <2>3, <3>0, <3>2
      <4>2. kept[i] = h[Len(h) - Len(kept) + i]
        <5>1. CASE Len(q) < BufferSize
          BY <1>1, <1>5, <3>0, <4>1, <5>1 DEF EndOf
        <5>2. CASE Len(q) >= BufferSize
          <6>1. kept[i] = q[i + 1] /\ i + 1 \in DOMAIN q /\ Len(kept) = Len(q) - 1
            BY <1>1, <1>5, <3>0, <4>1, <5>2
          <6>2. q[i + 1] = h[Len(h) - Len(q) + (i + 1)]
            BY <1>1, <6>1 DEF EndOf
          <6>3. Len(h) - Len(q) + (i + 1) = Len(h) - Len(kept) + i
            BY <3>0, <6>1
          <6> QED BY <6>1, <6>2, <6>3
        <5> QED BY <1>1, <3>0, <5>1, <5>2
      <4>3. Len(h) - Len(kept) + i \in 1..Len(h)
        <5>1. Len(kept) <= Len(h)
          BY <1>1, <1>5, <3>0 DEF EndOf
        <5> QED BY <3>0, <4>1, <5>1
      <4>4. Len(more) - Len(new) + i = Len(h) - Len(kept) + i
        BY <2>3, <2>4, <3>0
      <4> QED BY <2>4, <4>1, <4>2, <4>3, <4>4
    <3> QED BY <3>1, <3>2
  <2>7. EndOf(new, more)
    BY <2>5, <2>6 DEF EndOf
  <2> QED BY <2>1, <2>2, <2>7
<1>7. ASSUME NEW s \in Turns \ earlier, Own(s) = own, Out(s)' PROVE In(Append(h, t), s)
  <2>1. /\ DOMAIN Append(h, t) = DOMAIN h \cup {Len(h) + 1}
        /\ Append(h, t)[Len(h) + 1] = t
        /\ \A i \in DOMAIN h : Append(h, t)[i] = h[i]
    BY <1>1
  <2>2. CASE s = t
    BY <2>1, <2>2 DEF In
  <2>3. CASE s # t
    <3>1. Out(s)
      BY <1>7, <2>3 DEF Out
    <3>2. In(h, s)
      BY <1>0, <1>7, <3>1 DEF BufferRecent, Recent, h
    <3> QED BY <2>1, <3>2 DEF In
  <2> QED BY <2>2, <2>3
<1>8. Recent(own)'
  <2>1. buffer'[own] = Append(kept, t) /\ pushed'[own] = Append(h, t)
    BY <1>0, <1>3
  <2> QED BY <1>6, <1>7, <2>1 DEF Recent, EndOf, In
<1> QED BY <1>4, <1>8 DEF BufferRecent

LEMMA StaysRecent ==
  ASSUME BufferRecent, UNCHANGED <<buffer, pushed, earlier>>, \A t \in Turns : Out(t)' = Out(t)
  PROVE  BufferRecent'
BY DEF BufferRecent, Recent, EndOf, In

LEMMA EmptyIsRecent == EndOf(<<>>, <<>>)
BY StoresAssumption DEF EndOf

\* In a new process the buffer is empty and every turn that is not new is an earlier one.
LEMMA CrashRecent ==
  ASSUME TypeOK, RecallCrash
  PROVE  BufferRecent'
<1>1. /\ buffer' = EmptyBuffer /\ pushed' = EmptyBuffer
      /\ earlier' = {t \in Turns : write[t] # "new"}
      /\ \A t \in Turns : write'[t] = IF write[t] \in {"push", "embed", "stage"} THEN "failed"
                                      ELSE write[t]
  BY DEF RecallCrash, Crash, WriteCrash
<1> SUFFICES ASSUME NEW key \in Users \X Sessions PROVE Recent(key)'
  BY DEF BufferRecent
<1>2. buffer'[key] = <<>> /\ pushed'[key] = <<>>
  BY <1>1 DEF EmptyBuffer
<1>3. \A t \in Turns \ earlier' : ~ Out(t)'
  BY <1>1 DEF Out
<1> QED BY <1>2, <1>3, EmptyIsRecent DEF Recent, EndOf

\* A turn that is not in the buffer of its session has been overtaken.
LEMMA NotRecentIsOvertaken ==
  ASSUME TypeOK, BufferRecent, pushed \in [Users \X Sessions -> Seq(Turns)],
         NEW t \in Turns \ earlier, Out(t), ~ In(buffer[Own(t)], t)
  PROVE  Overtaken(t)
<1> DEFINE q == buffer[Own(t)]
           h == pushed[Own(t)]
<1>1. Own(t) \in Users \X Sessions /\ BufferSize \in Nat
  BY StoresAssumption DEF Own, InputType
<1>2. /\ q \in Seq(Turns) /\ h \in Seq(Turns) /\ EndOf(q, h)
      /\ In(h, t) /\ ~ In(q, t)
  BY <1>1 DEF BufferRecent, Recent, TypeOK, StoresTypeOK
<1> HIDE DEF q, h
<1>3. PICK i \in DOMAIN h : h[i] = t
  BY <1>2 DEF In
<1>4. i \in Nat /\ i >= 1 /\ i <= Len(h) /\ Len(h) \in Nat /\ Len(q) \in Nat
  BY <1>2, <1>3
<1>5. ASSUME ~ (Len(h) - i >= BufferSize) PROVE FALSE
  <2>1. PICK j : j = i - (Len(h) - Len(q))
    OBVIOUS
  <2>2. j \in 1..Len(q)
    BY <1>1, <1>2, <1>4, <1>5, <2>1 DEF EndOf
  <2>3. j \in DOMAIN q /\ Len(h) - Len(q) + j = i
    BY <1>2, <1>4, <2>1, <2>2
  <2>4. q[j] = t
    BY <1>2, <1>3, <2>3 DEF EndOf
  <2> QED BY <1>2, <2>3, <2>4 DEF In
<1> QED BY <1>3, <1>5 DEF Overtaken, h

\* Being overtaken is for good.
LEMMA StaysOvertaken ==
  ASSUME pushed \in [Users \X Sessions -> Seq(Turns)], NotePush \/ UNCHANGED pushed,
         NEW t \in Turns, Overtaken(t)
  PROVE  Overtaken(t)'
<1> DEFINE h == pushed[Own(t)]
<1>1. h \in Seq(Turns) /\ Own(t) \in Users \X Sessions /\ BufferSize \in Nat
  BY StoresAssumption DEF Own, InputType
<1>2. PICK i \in DOMAIN h : h[i] = t /\ Len(h) - i >= BufferSize
  BY DEF Overtaken
<1>3. pushed'[Own(t)] = h \/ \E s \in Turns : pushed'[Own(t)] = Append(h, s)
  <2>1. ASSUME NEW s \in Turns, pushed' = [pushed EXCEPT ![Own(s)] = Append(@, s)]
        PROVE  pushed'[Own(t)] = h \/ pushed'[Own(t)] = Append(h, s)
    <3>1. PICK own : own = Own(s)
      OBVIOUS
    <3>2. PICK mine : mine = Own(t)
      OBVIOUS
    <3>3. pushed' = [pushed EXCEPT ![own] = Append(pushed[own], s)] /\ mine \in DOMAIN pushed
      BY <1>1, <2>1, <3>1, <3>2
    <3>4. pushed'[mine] = pushed[mine] \/ pushed'[mine] = Append(pushed[mine], s)
      BY <3>3
    <3> QED BY <3>2, <3>4
  <2> QED BY <2>1 DEF NotePush
<1> HIDE DEF h
<1>4. ASSUME NEW s \in Turns, pushed'[Own(t)] = Append(h, s) PROVE Overtaken(t)'
  <2>1. PICK g : g = Append(h, s)
    OBVIOUS
  <2>2. /\ i \in DOMAIN g /\ g[i] = t /\ Len(g) = Len(h) + 1 /\ i \in Nat /\ Len(h) \in Nat
    BY <1>1, <1>2, <2>1
  <2>3. Len(g) - i >= BufferSize
    BY <1>1, <1>2, <2>2
  <2>4. pushed'[Own(t)] = g
    BY <1>4, <2>1
  <2> QED BY <2>2, <2>3, <2>4 DEF Overtaken, Own
<1>5. ASSUME pushed'[Own(t)] = h PROVE Overtaken(t)'
  BY <1>2, <1>5 DEF Overtaken, Own
<1> QED BY <1>3, <1>4, <1>5

\* What is due is recalled, once recall() is done, or has been overtaken.
Covered(x, t) == t \in x.turns \/ (\E g \in x.got : g.said = t) \/ Overtaken(t)
Due(x) ==
  /\ \A t \in x.due : t \in Turns \ earlier /\ write[t] = "done" /\ Input[t].user = x.user
  /\ x.pc = "done" => \A t \in x.due : Covered(x, t)

DueInv == BufferRecent /\ \A q \in Readers : Due(recall[q])

LEMMA ReaderOwes ==
  ASSUME DueInv, RecallInv, NEW q \in Readers, NEW x, Due(x),
         recall' = [recall EXCEPT ![q] = x], UNCHANGED <<vars, earlier, pushed>>
  PROVE  DueInv'
<1>1. \A p \in Readers : recall'[p] = IF p = q THEN x ELSE recall[p]
  BY DEF RecallInv
<1>2. UNCHANGED <<write, buffer, earlier, pushed>>
  BY DEF vars, storeVars, writeVars
<1>3. BufferRecent'
  BY <1>2, StaysRecent DEF DueInv, Out
<1>4. ASSUME NEW p \in Readers PROVE Due(recall[p])'
  <2>1. PICK y : y = recall'[p]
    OBVIOUS
  <2>2. Due(y)
    BY <1>1, <2>1 DEF DueInv
  <2>3. Due(y)'
    BY <1>2, <2>2 DEF Due, Covered, Overtaken
  <2> QED BY <2>1, <2>3 DEF Due, Covered
<1> QED BY <1>3, <1>4 DEF DueInv

LEMMA StartOwes ==
  ASSUME DueInv, RecallInv, TypeOK, NEW q \in Readers, NEW u \in Users, RecallStart(q, u),
         UNCHANGED vars
  PROVE  DueInv'
<1> DEFINE due == {t \in Turns \ earlier : write[t] = "done" /\ Input[t].user = u}
           gone == {r \in Records : t1[r].status = "retired"}
           x == [IdleRecall EXCEPT !.pc = "search", !.user = u, !.due = due, !.gone = gone]
<1>1. recall' = [recall EXCEPT ![q] = x] /\ UNCHANGED <<vars, earlier, pushed>>
  BY DEF RecallStart
<1>2. x.due = due /\ x.user = u /\ x.pc = "search"
  BY DEF IdleRecall
<1> HIDE DEF x
<1>3. Due(x)
  BY <1>2 DEF Due
<1> QED BY <1>1, <1>3, ReaderOwes

LEMMA StepOwes ==
  ASSUME DueInv, RecallInv, RecallBase, NEW q \in Readers, RecallStep(q), UNCHANGED vars
  PROVE  DueInv'
<1> DEFINE old == recall[q]
<1>0. /\ old \in RecallType /\ Due(old) /\ TypeOK /\ BufferRecent
      /\ pushed \in [Users \X Sessions -> Seq(Turns)]
  BY DEF DueInv, RecallInv, RecallBase, IInv, TypeInv
<1>1. UNCHANGED <<earlier, pushed>>
  BY DEF RecallStep, RecallSearch, RecallFetch, RecallMerge
<1>2. ASSUME NEW x, x.pc = "fetch", x.due = old.due, x.user = old.user,
             recall' = [recall EXCEPT ![q] = x]
      PROVE  DueInv'
  <2>1. Due(x)
    BY <1>0, <1>2 DEF Due
  <2> QED BY <1>0, <1>1, <1>2, <2>1, ReaderOwes
<1>3. recall' = [recall EXCEPT ![q] = IdleRecall] => DueInv'
  <2>1. Due(IdleRecall)
    BY DEF Due, IdleRecall
  <2> QED BY <1>0, <1>1, <2>1, ReaderOwes
<1>4. CASE RecallSearch(q)
  <2>1. PICK near \in SUBSET vec :
          recall' = [recall EXCEPT ![q] =
            [old EXCEPT !.pc = "fetch", !.hits = near \cap Searchable(old.user)]]
    BY <1>4 DEF RecallSearch
  <2> DEFINE x == [old EXCEPT !.pc = "fetch", !.hits = near \cap Searchable(old.user)]
  <2>2. x.pc = "fetch" /\ x.due = old.due /\ x.user = old.user
    BY <1>0 DEF RecallType
  <2>3. recall' = [recall EXCEPT ![q] = x]
    BY <2>1
  <2> HIDE DEF x
  <2> QED BY <1>2, <2>2, <2>3
<1>5. CASE RecallFetch(q)
  <2>1. PICK r \in old.hits :
          recall' = [recall EXCEPT ![q] =
            IF Readable(r)
            THEN [old EXCEPT !.hits = old.hits \ {r},
                             !.got = old.got \cup
                               {[id |-> r, said |-> t1[r].said, draft |-> t1[r].prov]}]
            ELSE IdleRecall]
    BY <1>5 DEF RecallFetch
  <2> DEFINE x == [old EXCEPT !.hits = old.hits \ {r},
                              !.got = old.got \cup
                               {[id |-> r, said |-> t1[r].said, draft |-> t1[r].prov]}]
  <2>2. x.pc = "fetch" /\ x.due = old.due /\ x.user = old.user
    BY <1>0, <1>5 DEF RecallType, RecallFetch
  <2>3. recall' = [recall EXCEPT ![q] = IF Readable(r) THEN x ELSE IdleRecall]
    BY <2>1
  <2> HIDE DEF x
  <2> QED BY <1>2, <1>3, <2>2, <2>3
<1>6. CASE RecallMerge(q)
  <2>1. PICK kept \in NotInT1(old.got, Buffered(old.user)) :
          recall' = [recall EXCEPT ![q] = [old EXCEPT !.pc = "done", !.turns = kept]]
    BY <1>6 DEF RecallMerge
  <2> DEFINE x == [old EXCEPT !.pc = "done", !.turns = kept]
  <2>2. \A t \in Buffered(old.user) : t \in kept \/ \E g \in old.got : g.said = t
    BY DEF NotInT1
  <2>3. /\ x.turns = kept /\ x.pc = "done" /\ x.user = old.user /\ x.got = old.got
        /\ x.due = old.due
    BY <1>0 DEF RecallType
  <2>4. recall' = [recall EXCEPT ![q] = x]
    BY <2>1
  <2> HIDE DEF x
  <2>5. ASSUME NEW t \in old.due PROVE Covered(x, t)
    <3>1. t \in Turns \ earlier /\ Out(t) /\ Input[t].user = old.user
      BY <1>0 DEF Due, Out
    <3>2. CASE In(buffer[Own(t)], t)
      <4>1. Input[t].session \in Sessions
        BY <3>1, StoresAssumption DEF InputType
      <4>2. t \in Buffered(old.user)
        BY <3>1, <3>2, <4>1 DEF Buffered, In, Own
      <4> QED BY <2>2, <2>3, <4>2 DEF Covered
    <3>3. CASE ~ In(buffer[Own(t)], t)
      BY <1>0, <3>1, <3>3, NotRecentIsOvertaken DEF Covered
    <3> QED BY <3>2, <3>3
  <2>6. Due(x)
    BY <1>0, <2>3, <2>5 DEF Due
  <2> QED BY <1>0, <1>1, <2>4, <2>6, ReaderOwes
<1> QED BY <1>4, <1>5, <1>6 DEF RecallStep

LEMMA EngineOwes ==
  ASSUME DueInv, RecallInv, TypeOK, (Work /\ NotePush) \/ UNCHANGED <<vars, pushed>>,
         UNCHANGED <<recall, earlier>>
  PROVE  DueInv'
<1>0. pushed \in [Users \X Sessions -> Seq(Turns)]
  BY DEF RecallInv
<1>1. StaysOut
  BY WriteMoves
<1>2. BufferRecent'
  <2>1. CASE UNCHANGED buffer /\ NonePushed
    <3>1. UNCHANGED pushed
      BY <2>1 DEF NonePushed, NotePush
    <3> QED BY <2>1, <3>1, StaysRecent DEF DueInv, NonePushed
  <2>2. ASSUME NEW t \in Turns, RememberPush(t), \A s \in Turns : s # t => write'[s] = write[s]
        PROVE  BufferRecent'
    <3>1. NotePush
      <4>1. write[t] = "push" /\ write'[t] # "push"
        BY <2>2 DEF RememberPush, TypeOK, WriteTypeOK
      <4> QED BY <4>1 DEF vars, writeVars
    <3> QED BY <1>0, <2>2, <3>1, PushStaysRecent DEF DueInv
  <2> QED BY <2>1, <2>2, WriteMoves
<1>3. ASSUME NEW q \in Readers PROVE Due(recall[q])'
  <2>1. PICK y : y = recall[q]
    OBVIOUS
  <2>2. Due(y) /\ y = recall'[q]
    BY <2>1 DEF DueInv
  <2>3. \A t \in y.due : t \in Turns \ earlier' /\ write'[t] = "done" /\ Input[t].user = y.user
    BY <1>1, <2>2 DEF Due, StaysOut
  <2>4. ASSUME y.pc = "done", NEW t \in y.due PROVE Covered(y, t)'
    <3>1. Covered(y, t) /\ t \in Turns
      BY <2>2, <2>4 DEF Due
    <3>2. Overtaken(t) => Overtaken(t)'
      BY <1>0, <3>1, StaysOvertaken
    <3> QED BY <3>1, <3>2 DEF Covered
  <2>5. Due(y)'
    BY <2>3, <2>4 DEF Due
  <2> QED BY <2>2, <2>5 DEF Due, Covered
<1> QED BY <1>2, <1>3 DEF DueInv

LEMMA CrashOwes ==
  ASSUME TypeOK, RecallCrash
  PROVE  DueInv'
<1>1. recall' = [q \in Readers |-> IdleRecall]
  BY DEF RecallCrash
<1>2. \A q \in Readers : Due(recall[q])'
  BY <1>1 DEF Due, IdleRecall
<1> QED BY <1>2, CrashRecent DEF DueInv

LEMMA NextOwes == DueInv /\ RecallInv /\ RecallBase /\ [RecallNext]_recallVars => DueInv'
<1> SUFFICES ASSUME DueInv, RecallInv, RecallBase, [RecallNext]_recallVars PROVE DueInv'
  OBVIOUS
<1>0. TypeOK
  BY DEF RecallBase, IInv, TypeInv
<1>1. CASE Work /\ NotePush /\ UNCHANGED <<recall, earlier>>
  BY <1>0, <1>1, EngineOwes
<1>2. CASE UNCHANGED recallVars
  BY <1>0, <1>2, EngineOwes DEF recallVars
<1> QED BY <1>0, <1>1, <1>2, RecallMoves, StartOwes, StepOwes, CrashOwes

LEMMA InitOwes == Init /\ RecallInit => DueInv
<1> SUFFICES ASSUME Init, RecallInit PROVE DueInv
  OBVIOUS
<1>1. \A q \in Readers : Due(recall[q])
  BY DEF RecallInit, Due, IdleRecall
<1>2. \A t \in Turns : ~ Out(t)
  BY DEF Init, WriteInit, Out
<1>3. \A key \in Users \X Sessions : buffer[key] = <<>>
  BY DEF Init, StoresInit, EmptyBuffer
<1>4. ASSUME NEW key \in Users \X Sessions PROVE Recent(key)
  <2>1. pushed[key] = <<>>
    BY DEF RecallInit, EmptyBuffer
  <2> QED BY <1>2, <1>3, <2>1, EmptyIsRecent DEF Recent
<1> QED BY <1>1, <1>4 DEF BufferRecent, DueInv

\* What remember() has returned for, in this process, is recalled from the buffer or from
\* T1, whatever consolidation does while recall() awaits, unless BufferSize turns of its
\* session were pushed after it: the last BufferSize turns of a session are never missing.
THEOREM RememberedRecalled == RecallSpec => []RememberedIsRecalled
<1>1. DueInv => RememberedIsRecalled
  BY DEF DueInv, Due, Covered, Returned, RememberedIsRecalled
<1> QED BY <1>1, InitOwes, NextOwes, AlwaysRecalls, PTL DEF RecallSpec
=============================================================================
