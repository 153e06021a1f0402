--------------------------- MODULE DeliveryProofs ---------------------------
(***************************************************************************)
(* What holds of Mnema for all constants, beyond MnemaSafetyProofs: with   *)
(* any number of calls in flight, failures and crashes.                    *)
(*                                                                         *)
(* A staged turn is delivered to one run, once, and consolidation writes   *)
(* no record beside its draft.  A run or an eviction writes over what it   *)
(* has read, so what is protected is not unprotected or retired, unless    *)
(* another call has written the record since it was read (Contention).     *)
(* What leaves the table without a successor is in the logs, and a turn    *)
(* stays staged until it is processed, unless the call that is at it       *)
(* raises, the process dies, or another user's run drains the turn.        *)
(*                                                                         *)
(* The inductive invariants are DeliveryInv and DraftInv, then, on top of  *)
(* PlainInv, AwareInv.                                                     *)
(***************************************************************************)
EXTENDS MnemaSafetyProofs, Contention, FiniteSetTheorems

\* A turn is at one place of the queue or of one run, and nowhere once it is
\* processed.
OncePlaced ==
  /\ Once(queue)
  /\ \A c \in Runs : Once(runs[c].items)
  /\ \A c, d \in Runs : \A i \in DOMAIN runs[c].items, j \in DOMAIN runs[d].items :
       runs[c].items[i] = runs[d].items[j] => c = d
  /\ \A c \in Runs : \A i \in DOMAIN runs[c].items, j \in DOMAIN queue :
       runs[c].items[i] # queue[j]
  /\ \A i \in DOMAIN queue : queue[i] \notin processed
  /\ \A c \in Runs : \A i \in DOMAIN runs[c].items : runs[c].items[i] \notin processed

\* What is staged, being extracted or processed has been remembered.
OnlyRemembered ==
  /\ \A i \in DOMAIN queue : write[queue[i]] = "done"
  /\ \A c \in Runs : \A i \in DOMAIN runs[c].items : write[runs[c].items[i]] = "done"
  /\ \A t \in processed : write[t] = "done"

DeliveryInv == OncePlaced /\ OnlyRemembered

-----------------------------------------------------------------------------
(***************************************************************************)
(* How a step may move turns.                                              *)
(***************************************************************************)

\* A step that at most drops turns.
LEMMA TurnsDropped ==
  ASSUME DeliveryInv, queue' \in {queue, <<>>}, processed' = processed,
         \A c \in Runs : runs'[c].items \in {runs[c].items, <<>>},
         \A t \in Turns : write[t] = "done" => write'[t] = "done",
         TypeOK
  PROVE  DeliveryInv'
<1>1. \A c \in Runs : \A i \in DOMAIN runs'[c].items :
        i \in DOMAIN runs[c].items /\ runs'[c].items[i] = runs[c].items[i]
  <2>1. DOMAIN <<>> = {}
    OBVIOUS
  <2> QED BY <2>1
<1>2. \A i \in DOMAIN queue' : i \in DOMAIN queue /\ queue'[i] = queue[i]
  <2>1. DOMAIN <<>> = {}
    OBVIOUS
  <2> QED BY <2>1
<1>3. OncePlaced'
  BY <1>1, <1>2 DEF DeliveryInv, OncePlaced, Once
<1>4. OnlyRemembered'
  <2>1. \A i \in DOMAIN queue : queue[i] \in Turns
    BY DEF TypeOK, StoresTypeOK
  <2>2. \A c \in Runs : \A i \in DOMAIN runs[c].items : runs[c].items[i] \in Turns
    BY RunFields DEF TypeOK
  <2>3. processed \subseteq Turns
    BY DEF TypeOK, RunTypeOK
  <2> QED BY <1>1, <1>2, <2>1, <2>2, <2>3 DEF DeliveryInv, OnlyRemembered
<1> QED BY <1>3, <1>4 DEF DeliveryInv

\* remember() stages a turn, which was nowhere before.
LEMMA TurnStaged ==
  ASSUME DeliveryInv, TypeOK, NEW t \in Turns, write[t] # "done",
         queue' = Append(queue, t), write' = [write EXCEPT ![t] = "done"],
         UNCHANGED <<runs, processed>>
  PROVE  DeliveryInv'
<1>1. /\ queue \in Seq(Turns) /\ write \in [Turns -> WriteStates]
      /\ processed \subseteq Turns
      /\ \A c \in Runs : runs[c].items \in Seq(Turns)
  BY RunFields DEF TypeOK, StoresTypeOK, WriteTypeOK, RunTypeOK
<1>2. DOMAIN queue' = DOMAIN queue \cup {Len(queue) + 1} /\ Len(queue) + 1 \notin DOMAIN queue
  BY <1>1
<1>3. queue'[Len(queue) + 1] = t /\ \A i \in DOMAIN queue : queue'[i] = queue[i]
  BY <1>1
<1>4. /\ \A i \in DOMAIN queue : queue[i] # t
      /\ \A c \in Runs : \A i \in DOMAIN runs[c].items : runs[c].items[i] # t
      /\ t \notin processed
  BY DEF DeliveryInv, OnlyRemembered
<1>5. OncePlaced'
  BY <1>2, <1>3, <1>4 DEF DeliveryInv, OncePlaced, Once
<1>6. \A s \in Turns : write'[s] = "done" <=> s = t \/ write[s] = "done"
  BY <1>1
<1>7. OnlyRemembered'
  BY <1>1, <1>2, <1>3, <1>6 DEF DeliveryInv, OnlyRemembered
<1> QED BY <1>5, <1>7 DEF DeliveryInv

\* A run takes turns out of the queue.
LEMMA QueueDrained ==
  ASSUME DeliveryInv, TypeOK, NEW c \in Runs, NEW s, NEW run, run.items = InScope(s, queue),
         runs' = [runs EXCEPT ![c] = run], queue' = <<>>, UNCHANGED <<processed, write>>
  PROVE  DeliveryInv'
<1> DEFINE kept == InScope(s, queue)
<1>1. queue \in Seq(Turns) /\ runs \in [Runs -> RunType]
  BY DEF TypeOK, StoresTypeOK, RunTypeOK
<1>2. Once(kept) /\ \A i \in DOMAIN kept : \E j \in DOMAIN queue : kept[i] = queue[j]
  BY <1>1, DrainKeepsOnce, DrainStaysInScope DEF DeliveryInv, OncePlaced
<1>3. runs'[c].items = kept /\ \A d \in Runs \ {c} : runs'[d] = runs[d]
  BY <1>1
<1>4. DOMAIN queue' = {}
  OBVIOUS
<1> HIDE DEF kept
<1>5. OncePlaced'
  <2>1. Once(queue') /\ \A d \in Runs : Once(runs'[d].items)
    BY <1>2, <1>3, <1>4 DEF DeliveryInv, OncePlaced, Once
  <2>2. ASSUME NEW a \in Runs, NEW b \in Runs, NEW i \in DOMAIN runs'[a].items,
               NEW j \in DOMAIN runs'[b].items, runs'[a].items[i] = runs'[b].items[j]
        PROVE  a = b
    <3>1. ASSUME NEW d \in Runs \ {c}, NEW m \in DOMAIN kept, NEW n \in DOMAIN runs[d].items
          PROVE  kept[m] # runs[d].items[n]
      BY <1>2 DEF DeliveryInv, OncePlaced
    <3> QED BY <1>3, <2>2, <3>1 DEF DeliveryInv, OncePlaced
  <2>3. \A d \in Runs : \A i \in DOMAIN runs'[d].items : runs'[d].items[i] \notin processed
    BY <1>2, <1>3 DEF DeliveryInv, OncePlaced
  <2> QED BY <1>4, <2>1, <2>2, <2>3 DEF OncePlaced
<1>6. OnlyRemembered'
  BY <1>2, <1>3, <1>4 DEF DeliveryInv, OnlyRemembered
<1> QED BY <1>5, <1>6 DEF DeliveryInv

\* A run has processed its first turn.
LEMMA TurnProcessed ==
  ASSUME DeliveryInv, TypeOK, NEW c \in Runs, runs[c].items # <<>>, NEW run,
         run.items = Tail(runs[c].items), runs' = [runs EXCEPT ![c] = run],
         processed' = processed \cup {Turn(c)}, UNCHANGED <<queue, write>>
  PROVE  DeliveryInv'
<1> DEFINE items == runs[c].items
<1>1. items \in Seq(Turns) /\ runs \in [Runs -> RunType]
  BY RunFields DEF TypeOK, RunTypeOK
<1>2. runs'[c].items = Tail(items) /\ \A d \in Runs \ {c} : runs'[d] = runs[d]
  BY <1>1
<1>3. 1 \in DOMAIN items /\ items[1] = Turn(c)
  BY <1>1 DEF Turn
<1>4. \A i \in DOMAIN Tail(items) :
        i + 1 \in DOMAIN items /\ Tail(items)[i] = items[i + 1] /\ i + 1 # 1
  BY <1>1
<1>5. \A i, j \in DOMAIN Tail(items) : i + 1 = j + 1 => i = j
  BY <1>1
<1> HIDE DEF items
<1>6. ASSUME NEW d \in Runs, NEW i \in DOMAIN runs'[d].items
      PROVE  \E j \in DOMAIN runs[d].items :
               runs'[d].items[i] = runs[d].items[j] /\ runs[d].items[j] # Turn(c)
  <2>1. CASE d = c
    <3>1. i \in DOMAIN Tail(items) /\ i + 1 \in DOMAIN items
          /\ runs'[d].items[i] = items[i + 1] /\ i + 1 # 1
      BY <1>2, <1>4, <1>6, <2>1
    <3>2. items[i + 1] # items[1]
      BY <1>3, <3>1 DEF DeliveryInv, OncePlaced, Once, items
    <3> QED BY <1>3, <2>1, <3>1, <3>2 DEF items
  <2>2. CASE d # c
    BY <1>2, <1>3, <1>6, <2>2 DEF DeliveryInv, OncePlaced, items
  <2> QED BY <2>1, <2>2
<1>7. OncePlaced'
  <2>1. Once(queue') /\ \A d \in Runs : Once(runs'[d].items)
    <3>1. Once(Tail(items))
      BY <1>4, <1>5 DEF DeliveryInv, OncePlaced, Once, items
    <3> QED BY <1>2, <3>1 DEF DeliveryInv, OncePlaced
  <2>2. \A a, b \in Runs : \A i \in DOMAIN runs'[a].items, j \in DOMAIN runs'[b].items :
          runs'[a].items[i] = runs'[b].items[j] => a = b
    BY <1>6 DEF DeliveryInv, OncePlaced
  <2>3. /\ \A d \in Runs : \A i \in DOMAIN runs'[d].items, j \in DOMAIN queue' :
             runs'[d].items[i] # queue'[j]
        /\ \A d \in Runs : \A i \in DOMAIN runs'[d].items : runs'[d].items[i] \notin processed'
    BY <1>6 DEF DeliveryInv, OncePlaced
  <2>4. \A i \in DOMAIN queue' : queue'[i] \notin processed'
    BY <1>3 DEF DeliveryInv, OncePlaced, items
  <2> QED BY <2>1, <2>2, <2>3, <2>4 DEF OncePlaced
<1>8. OnlyRemembered'
  BY <1>3, <1>6 DEF DeliveryInv, OnlyRemembered, items
<1> QED BY <1>7, <1>8 DEF DeliveryInv

-----------------------------------------------------------------------------
(***************************************************************************)
(* The actions.                                                            *)
(***************************************************************************)
LEMMA RememberDelivers ==
  ASSUME TypeInv, DeliveryInv, NEW t \in Turns, Remember(t)
  PROVE  DeliveryInv'
<1>1. TypeOK /\ UNCHANGED <<runs, processed>> /\ write \in [Turns -> WriteStates]
  BY DEF TypeInv, TypeOK, WriteTypeOK, Remember, runVars
<1>2. CASE queue' = Append(queue, t) /\ write' = [write EXCEPT ![t] = "done"] /\ write[t] # "done"
  BY <1>1, <1>2, TurnStaged
<1>3. CASE queue' = queue /\ \E s \in WriteStates : write' = [write EXCEPT ![t] = s]
           /\ write[t] # "done"
  BY <1>1, <1>3, TurnsDropped
<1> QED BY <1>2, <1>3 DEF Remember, WriteNext, RememberAppend, RememberPush, RememberStore,
           RememberStage, RememberFails, storeVars, WriteStates

\* What a run holds after a step.
LEMMA ItemsAfter ==
  ASSUME RunTypeOK, NEW c \in Runs, Consolidate(c), ~ FinishTurn(c)
  PROVE  /\ \A d \in Runs \ {c} : runs'[d] = runs[d]
         /\ runs'[c].items \in {runs[c].items, <<>>}
         /\ UNCHANGED <<queue, processed, write>>
<1>0. runs \in [Runs -> RunType] /\ runs[c] \in RunType
  BY DEF RunTypeOK
<1>1. UNCHANGED <<queue, processed, write>>
  BY DEF Consolidate, RunStep, Extract, TakeItem, Reconcile, Search, Fetch, InsertNew, Insert,
         Refine, MarkPending, SupersedeOld, InsertDistinct, FinishTurn, PromoteUser, DecayScan,
         FinishUser, storeVars, writeVars
<1>2. ASSUME NEW s, runs' = [runs EXCEPT ![c] = s], s.items \in {runs[c].items, <<>>}
      PROVE  (\A d \in Runs \ {c} : runs'[d] = runs[d])
             /\ runs'[c].items \in {runs[c].items, <<>>}
  BY <1>0, <1>2
<1>3. CASE Extract(c)
  <2>1. PICK n \in 0..MaxItems : runs' = [runs EXCEPT ![c] = [runs[c] EXCEPT !.pc = "item", !.left = n]]
    BY <1>3 DEF Extract
  <2>2. [runs[c] EXCEPT !.pc = "item", !.left = n].items = runs[c].items
    BY <1>0 DEF RunType
  <2> QED BY <1>1, <1>2, <2>1, <2>2
<1>4. CASE TakeItem(c)
  <2>1. PICK x \in Extractions :
          LET rest == [runs[c] EXCEPT !.left = @ - 1, !.ext = Pin(x)]
          IN  \/ runs' = [runs EXCEPT ![c] = [rest EXCEPT !.pc = "search"]]
              \/ \E r \in Drafts(Turn(c)) :
                   runs' = [runs EXCEPT ![c] = [rest EXCEPT !.pc = "reconcile",
                                                            !.near = r, !.seen = t1[r]]]
    BY <1>4 DEF TakeItem
  <2> DEFINE rest == [runs[c] EXCEPT !.left = runs[c].left - 1, !.ext = Pin(x)]
             found(r) == [rest EXCEPT !.pc = "reconcile", !.near = r, !.seen = t1[r]]
  <2>2. [rest EXCEPT !.pc = "search"].items = runs[c].items
        /\ \A r : found(r).items = runs[c].items
    BY <1>0 DEF RunType
  <2>3. \/ runs' = [runs EXCEPT ![c] = [rest EXCEPT !.pc = "search"]]
        \/ \E r \in Drafts(Turn(c)) : runs' = [runs EXCEPT ![c] = found(r)]
    BY <2>1
  <2> HIDE DEF rest, found
  <2> QED BY <1>1, <1>2, <2>2, <2>3
<1>5. CASE Search(c)
  <2>1. \A r : [runs[c] EXCEPT !.pc = "fetch", !.near = r].items = runs[c].items
    BY <1>0 DEF RunType
  <2>2. [runs[c] EXCEPT !.pc = "insert"].items = runs[c].items
    BY <1>0 DEF RunType
  <2>3. \/ runs' = [runs EXCEPT ![c] = [runs[c] EXCEPT !.pc = "insert"]]
        \/ \E r \in Searchable(UserOfTurn(c)) :
             runs' = [runs EXCEPT ![c] = [runs[c] EXCEPT !.pc = "fetch", !.near = r]]
    BY <1>5 DEF Search
  <2> QED BY <1>1, <1>2, <2>1, <2>2, <2>3
<1>6. CASE NextItem(c)
  <2> DEFINE s == [runs[c] EXCEPT !.pc = "item", !.ext = NoItem, !.near = None, !.seen = NoRow]
  <2>1. s.items = runs[c].items /\ runs' = [runs EXCEPT ![c] = s]
    BY <1>0, <1>6 DEF NextItem, RunType
  <2> HIDE DEF s
  <2> QED BY <1>1, <1>2, <2>1
<1>7. CASE Fetch(c)
  <2> DEFINE judge == [runs[c] EXCEPT !.pc = "judge", !.seen = t1[runs[c].near]]
             insert == [runs[c] EXCEPT !.pc = "insert", !.near = None]
  <2>1. judge.items = runs[c].items /\ insert.items = runs[c].items
    BY <1>0 DEF RunType
  <2>2. \E s \in {judge, insert, IdleRun} : runs' = [runs EXCEPT ![c] = s]
    BY <1>7 DEF Fetch, Abort
  <2> HIDE DEF judge, insert
  <2> QED BY <1>1, <1>2, <2>1, <2>2 DEF IdleRun
<1>8. CASE PromoteUser(c)
  <2> DEFINE decay(u) == [runs[c] EXCEPT !.pc = "decay", !.uid = u, !.uids = runs[c].uids \ {u}]
  <2>1. \A u : decay(u).items = runs[c].items
    BY <1>0 DEF RunType
  <2>2. \E u : runs' = [runs EXCEPT ![c] = decay(u)] \/ runs' = [runs EXCEPT ![c] = IdleRun]
    BY <1>8, Zenon DEF PromoteUser, VaultPromote, Abort
  <2> HIDE DEF decay
  <2> QED BY <1>1, <1>2, <2>1, <2>2 DEF IdleRun
<1>9. CASE DecayScan(c)
  <2> DEFINE uids == IF AllReadable(runs[c].uid) THEN runs[c].uids ELSE {}
             s == [runs[c] EXCEPT !.pc = "evict", !.uids = uids]
  <2>1. runs' = [runs EXCEPT ![c] = s]
    BY <1>9 DEF DecayScan
  <2> HIDE DEF uids
  <2>2. s.items = runs[c].items
    BY <1>0 DEF RunType
  <2> HIDE DEF s
  <2> QED BY <1>1, <1>2, <2>1, <2>2
<1>10. CASE FinishUser(c)
  <2> DEFINE s == [runs[c] EXCEPT !.pc = "sweep", !.uid = None]
  <2>1. s.items = runs[c].items /\ \E x \in {s, IdleRun} : runs' = [runs EXCEPT ![c] = x]
    BY <1>0, <1>10 DEF FinishUser, RunType
  <2> HIDE DEF s
  <2> QED BY <1>1, <1>2, <2>1 DEF IdleRun
<1> QED BY <1>3, <1>4, <1>5, <1>6, <1>7, <1>8, <1>9, <1>10
        DEF Consolidate, RunStep, Reconcile, InsertNew, Insert, Refine, MarkPending,
            SupersedeOld, InsertDistinct

LEMMA ConsolidateDelivers ==
  ASSUME TypeInv, DeliveryInv, NEW c \in Runs, Consolidate(c)
  PROVE  DeliveryInv'
<1>1. TypeOK /\ RunTypeOK /\ RunShape /\ runs[c] \in RunType
  BY DEF TypeInv, TypeOK, RunTypeOK
<1>2. CASE FinishTurn(c)
  <2> DEFINE rest == Tail(runs[c].items)
             run == [runs[c] EXCEPT !.items = rest,
                                    !.pc = IF rest = <<>> THEN "sweep" ELSE "extract"]
  <2>1. runs[c].items # <<>>
    BY <1>1, <1>2 DEF FinishTurn, RunShape
  <2>2. run.items = Tail(runs[c].items)
    BY <1>1 DEF RunType
  <2>3. /\ runs' = [runs EXCEPT ![c] = run] /\ processed' = processed \cup {Turn(c)}
        /\ UNCHANGED <<queue, write>>
    BY <1>2 DEF FinishTurn, storeVars, Consolidate, writeVars
  <2> HIDE DEF run
  <2> QED BY <1>1, <2>1, <2>2, <2>3, TurnProcessed
<1>3. CASE ~ FinishTurn(c)
  BY <1>1, <1>3, ItemsAfter, TurnsDropped
<1> QED BY <1>2, <1>3

LEMMA StartDelivers ==
  ASSUME TypeInv, DeliveryInv, NEW c \in Runs, NEW s \in Scopes, StartRun(c, s)
  PROVE  DeliveryInv'
<1> DEFINE kept == InScope(s, queue)
           uids == {Input[kept[i]].user : i \in DOMAIN kept} \cup (IF s = None THEN {} ELSE {s})
           run == [IdleRun EXCEPT !.pc = IF kept # <<>> THEN "extract"
                                         ELSE IF uids # {} THEN "sweep" ELSE "idle",
                                  !.items = kept, !.uids = uids]
<1>1. runs' = [runs EXCEPT ![c] = run] /\ queue' = <<>> /\ UNCHANGED <<processed, write>>
  BY DEF StartRun, Drain, writeVars
<1>2. run.items = InScope(s, queue)
  BY DEF IdleRun
<1> HIDE DEF run
<1> QED BY <1>1, <1>2, QueueDrained DEF TypeInv

\* Forgets, evictions, failures and a crash.
LEMMA CallsDeliver ==
  ASSUME TypeInv, DeliveryInv,
         \/ \E k \in Calls, u \in Users, r \in Records : StartForget(k, u, r)
         \/ \E k \in Calls, u \in Users : StartEvict(k, u)
         \/ \E k \in Evictors : EvictStep(k)
         \/ \E k \in Calls : CallFails(k)
         \/ \E c \in Runs : ConsolidateFails(c)
         \/ Crash
         \/ UNCHANGED vars
  PROVE  DeliveryInv'
<1>1. TypeOK /\ runs \in [Runs -> RunType] /\ write \in [Turns -> WriteStates]
  BY DEF TypeInv, TypeOK, RunTypeOK, WriteTypeOK
<1>2. CASE \/ \E k \in Calls, u \in Users, r \in Records : StartForget(k, u, r)
           \/ \E k \in Calls, u \in Users : StartEvict(k, u)
           \/ \E k \in Evictors : EvictStep(k)
           \/ \E k \in Calls : CallFails(k)
           \/ UNCHANGED vars
  <2>1. UNCHANGED <<queue, runs, processed, write>>
    BY <1>2 DEF StartForget, Forget, StartEvict, Evict, EvictStep, EvictionStep, RetireVictim,
                DeleteVector, ArchiveVictim, AuditVictim, CallFails, EvictionFails,
                storeVars, writeVars, runVars, vars
  <2> QED BY <1>1, <2>1, TurnsDropped
<1>3. ASSUME NEW c \in Runs, ConsolidateFails(c) PROVE DeliveryInv'
  <2>1. runs' = [runs EXCEPT ![c] = IdleRun] /\ UNCHANGED <<queue, processed, write>>
    BY <1>3 DEF ConsolidateFails, RunFails, Abort, storeVars, writeVars
  <2> QED BY <1>1, <2>1, TurnsDropped DEF IdleRun
<1>4. CASE Crash
  BY <1>1, <1>4, TurnsDropped DEF Crash, WriteCrash, RunCrash, IdleRun
<1> QED BY <1>2, <1>3, <1>4

LEMMA InitDelivers == Init => DeliveryInv
BY DEF Init, StoresInit, RunInit, IdleRun, DeliveryInv, OncePlaced, OnlyRemembered, Once

LEMMA NextDelivers == TypeInv /\ DeliveryInv /\ [Next]_vars => DeliveryInv'
BY RememberDelivers, ConsolidateDelivers, StartDelivers, CallsDeliver DEF Next, Work

LEMMA AlwaysDelivers == Spec => [](TypeInv /\ DeliveryInv)
<1> QED BY InitTypes, NextTypes, InitDelivers, NextDelivers, PTL DEF Spec

-----------------------------------------------------------------------------
\* A set in which all elements are equal has at most one.
LEMMA AtMostOne ==
  ASSUME NEW S, \A x, y \in S : x = y
  PROVE  IsFiniteSet(S) /\ Cardinality(S) \in {0, 1} /\ (S = {} => Cardinality(S) = 0)
<1>1. CASE S = {}
  BY <1>1, FS_EmptySet
<1>2. CASE S # {}
  <2>1. PICK x : S = {x}
    BY <1>2
  <2> QED BY <2>1, FS_Singleton
<1> QED BY <1>1, <1>2

LEMMA PlacesEqual ==
  ASSUME IsFiniteSet(Turns), TypeOK, DeliveryInv, NEW t \in Turns
  PROVE  (\A x, y \in Places(t) : x = y) /\ (t \in processed => Places(t) = {})
<1> DEFINE InRun(c, i) == c \in Runs /\ i \in DOMAIN runs[c].items /\ runs[c].items[i] = t
           InQueue(i) == i \in DOMAIN queue /\ queue[i] = t
<1>1. ASSUME NEW p \in Places(t)
      PROVE  \/ \E c, i : p = <<c, i>> /\ InRun(c, i)
             \/ \E i : p = <<None, i>> /\ InQueue(i)
  <2>1. CASE \E i \in {j \in DOMAIN queue : queue[j] = t} : p = <<None, i>>
    BY <2>1
  <2>2. CASE /\ p \in Runs \X (1..Cardinality(Turns))
             /\ p[2] <= Len(runs[p[1]].items) /\ runs[p[1]].items[p[2]] = t
    <3>1. PICK c \in Runs, i \in 1..Cardinality(Turns) : p = <<c, i>>
      BY <2>2
    <3>2. i \in Nat /\ i >= 1 /\ i <= Len(runs[c].items)
      BY <2>2, <3>1, FS_CardinalityType
    <3>3. runs[c].items \in Seq(Turns)
      BY RunFields DEF TypeOK
    <3> QED BY <2>2, <3>1, <3>2, <3>3
  <2> QED BY <1>1, <2>1, <2>2 DEF Places
<1>2. ASSUME NEW c, NEW d, NEW i, NEW j, InRun(c, i), InRun(d, j) PROVE c = d /\ i = j
  BY <1>2 DEF DeliveryInv, OncePlaced, Once
<1>3. ASSUME NEW i, NEW j, InQueue(i), InQueue(j) PROVE i = j
  BY <1>3 DEF DeliveryInv, OncePlaced, Once
<1>4. ASSUME NEW c, NEW i, NEW j, InRun(c, i) PROVE ~ InQueue(j)
  BY <1>4 DEF DeliveryInv, OncePlaced
<1>5. t \in processed => ~ (\E c, i : InRun(c, i)) /\ ~ (\E i : InQueue(i))
  BY DEF DeliveryInv, OncePlaced
<1> HIDE DEF InRun, InQueue
<1> QED BY <1>1, <1>2, <1>3, <1>4, <1>5

LEMMA OncePlacedIsSingle ==
  ASSUME IsFiniteSet(Turns), TypeOK, DeliveryInv
  PROVE  SingleDelivery
<1> SUFFICES ASSUME NEW t \in Turns
             PROVE  Cardinality(Places(t)) + (IF t \in processed THEN 1 ELSE 0) <= 1
  BY DEF SingleDelivery
<1>1. (\A x, y \in Places(t) : x = y) /\ (t \in processed => Places(t) = {})
  BY PlacesEqual
<1>2. Cardinality(Places(t)) \in {0, 1} /\ (Places(t) = {} => Cardinality(Places(t)) = 0)
  BY <1>1, AtMostOne
<1> QED BY <1>1, <1>2

\* Whatever fails, crashes or overlaps, a turn that was staged is delivered at most
\* once: no two runs have it, nor a run and the queue, and none has it again after its
\* extraction (CONS-07).
THEOREM DeliveredOnce ==
  ASSUME IsFiniteSet(Turns)
  PROVE  Spec => []SingleDelivery
<1>1. TypeInv /\ DeliveryInv => SingleDelivery
  BY OncePlacedIsSingle DEF TypeInv
<1> QED BY <1>1, AlwaysDelivers, PTL

-----------------------------------------------------------------------------
(***************************************************************************)
(* What a step of a run does to the table.                                 *)
(***************************************************************************)

\* A rewrite of the row that was found: reconcile or refine sets the flag, a
\* contradiction edge is added to the list that was read.
RewrittenRow(c, row) ==
  LET old == t1[runs[c].near]
      x == runs[c].ext
  IN  /\ row.status = old.status /\ row.user = old.user /\ row.turn = old.turn
      /\ row.by = old.by /\ row.over = old.over
      /\ row.prov => old.prov
      /\ row.type \in {old.type, x.type}
      /\ row.said \in {old.said, Turn(c)}
      /\ \/ /\ row.prot = (x.prot \/ runs[c].seen.prot) /\ row.high = x.high
            /\ row.pending = old.pending
            /\ row.safety = x.safety \/ row.safety = old.safety
         \/ /\ row.prot = old.prot /\ row.high = old.high /\ row.safety = old.safety
            /\ row.pending = runs[c].seen.pending \cup {Turn(c)}

Rewrites(c) ==
  /\ runs[c].pc \in {"reconcile", "judge"}
  /\ \E row : Update(runs[c].near, row) /\ RewrittenRow(c, row)
  /\ UNCHANGED pinned

Inserts(c) ==
  /\ runs[c].pc \in {"insert", "judge"}
  /\ \E r \in Unused : UpsertWithVector(r, ConfirmedRow(c, None))

Supersedes(c) ==
  /\ runs[c].pc = "judge" /\ ~ Gated(runs[c].seen)
  /\ \E r \in Unused : Supersede(runs[c].near, r, ConfirmedRow(c, runs[c].near))

LEMMA TableAfter ==
  ASSUME IInv, NEW c \in Runs, Consolidate(c)
  PROVE  \/ UNCHANGED <<t1, pinned>>
         \/ (Rewrites(c) \/ Inserts(c) \/ Supersedes(c)) /\ NextItem(c) /\ UNCHANGED vault
<1> DEFINE near == runs[c].near
<1>1. runs[c].pc \in {"reconcile", "judge"} => t1[near] \in Row
  BY DEF IInv, TypeInv, TypeOK, StoresTypeOK, RunShape
<1>2. ASSUME NEW row, runs[c].pc \in {"reconcile", "judge"}, Update(near, row), NextItem(c),
             RewrittenRow(c, row), UNCHANGED <<pinned, vault>>
      PROVE  Rewrites(c) /\ NextItem(c) /\ UNCHANGED vault
  BY <1>2 DEF Rewrites
<1>3. CASE Reconcile(c)
  <2> DEFINE row == [t1[near] EXCEPT !.prov = FALSE, !.type = runs[c].ext.type,
                                     !.high = runs[c].ext.high,
                                     !.prot = runs[c].ext.prot \/ runs[c].seen.prot]
  <2>1. /\ row.status = t1[near].status /\ row.user = t1[near].user /\ row.turn = t1[near].turn
        /\ row.by = t1[near].by /\ row.over = t1[near].over /\ row.prov = FALSE
        /\ row.prot = (runs[c].ext.prot \/ runs[c].seen.prot) /\ row.high = runs[c].ext.high
        /\ row.pending = t1[near].pending /\ row.safety = t1[near].safety
        /\ row.type = runs[c].ext.type /\ row.said = t1[near].said
    BY <1>1, <1>3 DEF Reconcile, Row
  <2>2. Update(near, row)
    BY <1>3 DEF Reconcile
  <2> HIDE DEF row
  <2>3. RewrittenRow(c, row)
    BY <2>1 DEF RewrittenRow
  <2> QED BY <1>2, <1>3, <2>2, <2>3 DEF Reconcile
<1>4. CASE Refine(c)
  <2> DEFINE row == RefinedRow(c, near)
  <2>1. /\ row.status = t1[near].status /\ row.user = t1[near].user /\ row.turn = t1[near].turn
        /\ row.by = t1[near].by /\ row.over = t1[near].over /\ row.prov = t1[near].prov
        /\ row.prot = (runs[c].ext.prot \/ runs[c].seen.prot) /\ row.high = runs[c].ext.high
        /\ row.pending = t1[near].pending /\ row.safety = runs[c].ext.safety
        /\ row.type = t1[near].type /\ row.said = Turn(c)
    BY <1>1, <1>4 DEF Refine, RefinedRow, Row
  <2>2. Update(near, row)
    BY <1>4 DEF Refine
  <2> HIDE DEF row
  <2>3. RewrittenRow(c, row)
    BY <2>1 DEF RewrittenRow
  <2> QED BY <1>2, <1>4, <2>2, <2>3 DEF Refine
<1>5. CASE MarkPending(c)
  <2> DEFINE row == [t1[near] EXCEPT !.pending = runs[c].seen.pending \cup {Turn(c)},
                                     !.over = runs[c].seen.over]
  <2>1. runs[c].seen.over = t1[near].over
    BY <1>5 DEF IInv, MarkPending, RunKnows
  <2>2. /\ row.status = t1[near].status /\ row.user = t1[near].user /\ row.turn = t1[near].turn
        /\ row.by = t1[near].by /\ row.over = t1[near].over /\ row.prov = t1[near].prov
        /\ row.prot = t1[near].prot /\ row.high = t1[near].high /\ row.safety = t1[near].safety
        /\ row.pending = runs[c].seen.pending \cup {Turn(c)} /\ row.type = t1[near].type
        /\ row.said = t1[near].said
    BY <1>1, <1>5, <2>1 DEF MarkPending, Row
  <2>3. Update(near, row)
    BY <1>5 DEF MarkPending
  <2> HIDE DEF row
  <2>4. RewrittenRow(c, row)
    BY <2>2 DEF RewrittenRow
  <2> QED BY <1>2, <1>5, <2>3, <2>4 DEF MarkPending
<1>6. CASE InsertNew(c) \/ InsertDistinct(c)
  BY <1>6 DEF InsertNew, InsertDistinct, Insert, Inserts
<1>7. CASE SupersedeOld(c)
  BY <1>7 DEF SupersedeOld, Supersedes
<1>8. CASE Extract(c) \/ TakeItem(c) \/ Search(c) \/ Fetch(c) \/ FinishTurn(c)
           \/ PromoteUser(c) \/ DecayScan(c) \/ FinishUser(c)
  BY <1>8 DEF Extract, TakeItem, Search, Fetch, FinishTurn, PromoteUser, DecayScan, FinishUser,
              storeVars
<1> QED BY <1>3, <1>4, <1>5, <1>6, <1>7, <1>8 DEF Consolidate, RunStep

\* A run that is looking for a near record, or has one, has found no draft of its turn.
LEMMA LookedForDrafts ==
  ASSUME RunTypeOK, NEW c \in Runs, Consolidate(c),
         runs'[c].pc \in {"search", "insert", "fetch", "judge"}
  PROVE  /\ UNCHANGED t1
         /\ runs'[c].items = runs[c].items
         /\ runs[c].pc \in {"search", "fetch"} \/ Drafts(Turn(c)) = {}
<1>0. runs \in [Runs -> RunType] /\ runs[c] \in RunType
  BY DEF RunTypeOK
<1> DEFINE Elsewhere(s) == s.pc \notin {"search", "insert", "fetch", "judge"}
<1>1. ASSUME NEW s, runs' = [runs EXCEPT ![c] = s], Elsewhere(s) PROVE FALSE
  BY <1>0, <1>1
<1>2. ~ Extract(c)
  <2> SUFFICES ASSUME Extract(c) PROVE FALSE
    OBVIOUS
  <2>1. PICK n \in 0..MaxItems : runs' = [runs EXCEPT ![c] = [runs[c] EXCEPT !.pc = "item", !.left = n]]
    BY DEF Extract
  <2>2. [runs[c] EXCEPT !.pc = "item", !.left = n].pc = "item"
    BY <1>0 DEF RunType
  <2> QED BY <1>1, <2>1, <2>2
<1>3. CASE TakeItem(c)
  <2>1. PICK x \in Extractions :
          LET rest == [runs[c] EXCEPT !.left = @ - 1, !.ext = Pin(x)]
          IN  \/ Drafts(Turn(c)) = {}
              \/ \E r \in Drafts(Turn(c)) :
                   runs' = [runs EXCEPT ![c] = [rest EXCEPT !.pc = "reconcile",
                                                            !.near = r, !.seen = t1[r]]]
    BY <1>3 DEF TakeItem
  <2> DEFINE rest == [runs[c] EXCEPT !.left = runs[c].left - 1, !.ext = Pin(x)]
             found(r) == [rest EXCEPT !.pc = "reconcile", !.near = r, !.seen = t1[r]]
  <2>2. \A r : found(r).pc = "reconcile"
    BY <1>0 DEF RunType
  <2>3. Drafts(Turn(c)) = {} \/ \E r \in Drafts(Turn(c)) : runs' = [runs EXCEPT ![c] = found(r)]
    BY <2>1
  <2> HIDE DEF rest, found
  <2>4. Drafts(Turn(c)) = {}
    BY <1>1, <2>2, <2>3
  <2>5. runs'[c].items = runs[c].items
    <3>1. PICK y \in Extractions :
            LET some == [runs[c] EXCEPT !.left = @ - 1, !.ext = Pin(y)]
            IN  runs' = [runs EXCEPT ![c] = [some EXCEPT !.pc = "search"]]
      BY <1>3, <2>4 DEF TakeItem
    <3> QED BY <1>0, <3>1 DEF RunType
  <2> QED BY <1>3, <2>4, <2>5 DEF TakeItem, storeVars
<1>4. CASE Search(c)
  <2>1. \/ runs' = [runs EXCEPT ![c] = [runs[c] EXCEPT !.pc = "insert"]]
        \/ \E r \in Searchable(UserOfTurn(c)) :
             runs' = [runs EXCEPT ![c] = [runs[c] EXCEPT !.pc = "fetch", !.near = r]]
    BY <1>4 DEF Search
  <2>2. runs'[c].items = runs[c].items
    BY <1>0, <2>1 DEF RunType
  <2> QED BY <1>4, <2>2 DEF Search, storeVars
<1>5. CASE Fetch(c)
  <2>1. \/ runs' = [runs EXCEPT ![c] = [runs[c] EXCEPT !.pc = "judge", !.seen = t1[runs[c].near]]]
        \/ runs' = [runs EXCEPT ![c] = [runs[c] EXCEPT !.pc = "insert", !.near = None]]
    BY <1>1, <1>5 DEF Fetch, Abort, IdleRun
  <2>2. runs'[c].items = runs[c].items
    BY <1>0, <2>1 DEF RunType
  <2> QED BY <1>5, <2>2 DEF Fetch, storeVars
<1>6. ~ NextItem(c)
  <2> DEFINE s == [runs[c] EXCEPT !.pc = "item", !.ext = NoItem, !.near = None, !.seen = NoRow]
  <2>1. s.pc = "item" /\ (NextItem(c) => runs' = [runs EXCEPT ![c] = s])
    BY <1>0 DEF NextItem, RunType
  <2> HIDE DEF s
  <2> QED BY <1>1, <2>1
<1>7. ~ FinishTurn(c)
  <2> DEFINE s == [runs[c] EXCEPT !.items = Tail(runs[c].items),
                                  !.pc = IF Tail(runs[c].items) = <<>> THEN "sweep" ELSE "extract"]
  <2>1. s.pc \in {"sweep", "extract"} /\ (FinishTurn(c) => runs' = [runs EXCEPT ![c] = s])
    BY <1>0 DEF FinishTurn, RunType
  <2> HIDE DEF s
  <2> QED BY <1>1, <2>1
<1>8. ~ PromoteUser(c)
  <2> SUFFICES ASSUME PromoteUser(c) PROVE FALSE
    OBVIOUS
  <2> DEFINE decay(u) == [runs[c] EXCEPT !.pc = "decay", !.uid = u, !.uids = runs[c].uids \ {u}]
  <2>1. \A u : decay(u).pc = "decay"
    BY <1>0 DEF RunType
  <2>2. \E u : runs' = [runs EXCEPT ![c] = decay(u)] \/ runs' = [runs EXCEPT ![c] = IdleRun]
    BY Zenon DEF PromoteUser, VaultPromote, Abort
  <2> HIDE DEF decay
  <2> QED BY <1>1, <2>1, <2>2 DEF IdleRun
<1>9. ~ DecayScan(c)
  <2> DEFINE uids == IF AllReadable(runs[c].uid) THEN runs[c].uids ELSE {}
             s == [runs[c] EXCEPT !.pc = "evict", !.uids = uids]
  <2>1. DecayScan(c) => runs' = [runs EXCEPT ![c] = s]
    BY DEF DecayScan
  <2> HIDE DEF uids
  <2>2. s.pc = "evict"
    BY <1>0 DEF RunType
  <2> HIDE DEF s
  <2> QED BY <1>1, <2>1, <2>2
<1>10. ~ FinishUser(c)
  <2> DEFINE s == [runs[c] EXCEPT !.pc = "sweep", !.uid = None]
  <2>1. s.pc = "sweep" /\ (FinishUser(c) => \E x \in {s, IdleRun} : runs' = [runs EXCEPT ![c] = x])
    BY <1>0 DEF FinishUser, RunType
  <2> HIDE DEF s
  <2> QED BY <1>1, <2>1 DEF IdleRun
<1> QED BY <1>2, <1>3, <1>4, <1>5, <1>6, <1>7, <1>8, <1>9, <1>10
        DEF Consolidate, RunStep, Reconcile, InsertNew, Insert, Refine, MarkPending,
            SupersedeOld, InsertDistinct

-----------------------------------------------------------------------------
(***************************************************************************)
(* Drafts.  A turn gets its draft before it is staged, so a run that holds *)
(* it finds the draft or knows there is none.                              *)
(***************************************************************************)
Stored == {"stage", "done", "failed"}

\* Each row is of a turn whose remember() has passed the insert.
Recorded ==
  \A r \in Records : Exists(r) => t1[r].turn \in Turns /\ write[t1[r].turn] \in Stored

\* A run that resolves an item against near records knows its turn has no draft.
NoDraft(c) ==
  runs[c].pc \in {"search", "insert", "fetch", "judge"} =>
    \A r \in Records : Live(r) /\ t1[r].prov => t1[r].turn # Turn(c)

DraftInv == DraftIsAlone /\ Recorded /\ \A c \in Runs : NoDraft(c)

\* What every step keeps: a row stays the row of its turn, and no row becomes a draft
\* that was none.
DraftsFade ==
  \A r \in Records : Exists(r) =>
    /\ Exists(r)' /\ t1'[r].turn = t1[r].turn
    /\ Live(r)' /\ t1'[r].prov => Live(r) /\ t1[r].prov

\* A new row is the draft remember() has just stored, or the row of a staged turn that
\* has no draft.
NewAlone ==
  \A r \in Records : ~ Exists(r) /\ Exists(r)' =>
    /\ t1'[r].turn \in Turns
    /\ \A s \in Records : ~ Exists(s) /\ Exists(s)' => s = r
    /\ \/ write[t1'[r].turn] = "embed" /\ write'[t1'[r].turn] = "stage"
       \/ /\ ~ t1'[r].prov /\ write[t1'[r].turn] = "done"
          /\ \A s \in Records : Live(s) /\ t1[s].prov => t1[s].turn # t1'[r].turn

\* A remember() that has stored its draft does not go back.
StaysStored == \A t \in Turns : write[t] \in Stored => write'[t] \in Stored

LEMMA TurnRemembered ==
  ASSUME TypeInv, DeliveryInv, NEW c \in Runs,
         runs[c].pc \in {"extract", "item", "reconcile", "search", "insert", "fetch", "judge"}
  PROVE  Turn(c) \in Turns /\ write[Turn(c)] = "done"
<1>1. runs[c].items # <<>> /\ runs[c].items \in Seq(Turns)
  BY RunFields DEF TypeInv, TypeOK, RunShape
<1>2. 1 \in DOMAIN runs[c].items /\ Turn(c) = runs[c].items[1] /\ Turn(c) \in Turns
  BY <1>1 DEF Turn
<1> QED BY <1>2 DEF DeliveryInv, OnlyRemembered

LEMMA DraftsKept ==
  ASSUME TypeInv, DeliveryInv, DraftInv, DraftsFade, NewAlone, StaysStored,
         \A c \in Runs : runs'[c] = runs[c] \/ NoDraft(c)'
  PROVE  DraftInv'
<1>1. Recorded'
  <2> SUFFICES ASSUME NEW r \in Records, Exists(r)'
               PROVE  t1'[r].turn \in Turns /\ write'[t1'[r].turn] \in Stored
    BY DEF Recorded
  <2>1. CASE Exists(r)
    BY <2>1 DEF DraftInv, Recorded, DraftsFade, StaysStored
  <2>2. CASE ~ Exists(r)
    <3>1. t1'[r].turn \in Turns
          /\ (write'[t1'[r].turn] = "stage" \/ write[t1'[r].turn] = "done")
      BY <2>2 DEF NewAlone
    <3> QED BY <3>1 DEF StaysStored, Stored
  <2> QED BY <2>1, <2>2
<1>2. DraftIsAlone'
  <2> SUFFICES ASSUME NEW r \in Records, NEW s \in Records, Live(r)', t1'[r].prov,
                      Exists(s)', t1'[s].turn = t1'[r].turn
               PROVE  r = s
    BY DEF DraftIsAlone
  <2>0. Exists(r)'
    BY DEF Live, Exists
  <2>1. CASE Exists(r) /\ Exists(s)
    BY <2>1 DEF DraftsFade, DraftInv, DraftIsAlone
  <2>2. CASE Exists(r) /\ ~ Exists(s)
    <3>1. Live(r) /\ t1[r].prov /\ t1[r].turn = t1'[s].turn /\ write[t1[r].turn] # "embed"
      BY <2>2 DEF DraftsFade, DraftInv, Recorded, Stored
    <3> QED BY <2>2, <3>1 DEF NewAlone
  <2>3. CASE ~ Exists(r) /\ Exists(s)
    <3>1. write[t1'[r].turn] = "embed"
      BY <2>0, <2>3 DEF NewAlone
    <3>2. t1[s].turn = t1'[r].turn /\ write[t1[s].turn] \in Stored
      BY <2>3 DEF DraftsFade, DraftInv, Recorded
    <3> QED BY <3>1, <3>2 DEF Stored
  <2>4. CASE ~ Exists(r) /\ ~ Exists(s)
    BY <2>0, <2>4 DEF NewAlone
  <2> QED BY <2>1, <2>2, <2>3, <2>4
<1>3. ASSUME NEW c \in Runs, runs'[c] = runs[c] PROVE NoDraft(c)'
  <2> SUFFICES ASSUME runs[c].pc \in {"search", "insert", "fetch", "judge"},
                      NEW r \in Records, Live(r)', t1'[r].prov
               PROVE  t1'[r].turn # Turn(c)
    BY <1>3 DEF NoDraft, Turn
  <2>1. CASE Exists(r)
    BY <2>1 DEF DraftsFade, DraftInv, NoDraft
  <2>2. CASE ~ Exists(r)
    <3>1. write[t1'[r].turn] = "embed"
      BY <2>2 DEF NewAlone, Live, Exists
    <3>2. write[Turn(c)] = "done"
      BY TurnRemembered
    <3> QED BY <3>1, <3>2
  <2> QED BY <2>1, <2>2
<1> QED BY <1>1, <1>2, <1>3 DEF DraftInv

\* The new row of a step that adds one.
NewRow(r) ==
  /\ t1'[r].turn \in Turns
  /\ \/ write[t1'[r].turn] = "embed" /\ write'[t1'[r].turn] = "stage"
     \/ /\ ~ t1'[r].prov /\ write[t1'[r].turn] = "done"
        /\ \A s \in Records : Live(s) /\ t1[s].prov => t1[s].turn # t1'[r].turn

LEMMA OneNewRow ==
  ASSUME NEW r \in Records, NewRow(r),
         \A s \in Records : ~ Exists(s) /\ Exists(s)' => s = r
  PROVE  NewAlone
BY DEF NewAlone, NewRow

LEMMA NoNewRow ==
  ASSUME \A s \in Records : Exists(s)' => Exists(s)
  PROVE  NewAlone
BY DEF NewAlone

LEMMA TableStands ==
  ASSUME UNCHANGED t1
  PROVE  DraftsFade /\ NewAlone
BY DEF DraftsFade, NewAlone, Live, Exists

LEMMA RememberDrafts ==
  ASSUME IInv, DeliveryInv, DraftInv, NEW t \in Turns, Remember(t)
  PROVE  DraftInv'
<1>0. /\ TypeInv /\ UNCHANGED runs /\ write \in [Turns -> WriteStates]
      /\ t1 \in [Records -> Row]
  BY DEF IInv, TypeInv, TypeOK, WriteTypeOK, StoresTypeOK, Remember, runVars
<1>1. \E s \in WriteStates :
        write' = [write EXCEPT ![t] = s] /\ (write[t] \in Stored => s \in Stored)
  BY DEF Remember, WriteNext, RememberAppend, RememberPush, RememberStore, RememberStage,
         RememberFails, Stored, WriteStates
<1>2. StaysStored
  BY <1>0, <1>1 DEF StaysStored
<1>3. DraftsFade /\ NewAlone
  <2>1. CASE RememberStore(t)
    <3>1. PICK r \in Unused : UpsertWithVector(r, ProvisionalRow(t))
      BY <2>1 DEF RememberStore
    <3>2. r \in Records /\ ~ Exists(r)
      BY DEF Unused
    <3>3. \A s \in Records : t1'[s] = IF s = r THEN ProvisionalRow(t) ELSE t1[s]
      BY <1>0, <3>1 DEF UpsertWithVector
    <3>4. ProvisionalRow(t).turn = t
      BY DEF ProvisionalRow, NoRow
    <3>5. t1'[r].turn = t /\ write[t] = "embed" /\ write'[t] = "stage"
      BY <1>0, <2>1, <3>2, <3>3, <3>4 DEF RememberStore
    <3>6. DraftsFade
      BY <3>2, <3>3 DEF DraftsFade, Live, Exists
    <3>7. \A s \in Records : ~ Exists(s) /\ Exists(s)' => s = r
      BY <3>3 DEF Exists
    <3> QED BY <3>2, <3>5, <3>6, <3>7, OneNewRow DEF NewRow
  <2>2. CASE ~ RememberStore(t)
    <3>1. UNCHANGED t1
      BY <2>2 DEF Remember, WriteNext, RememberAppend, RememberPush, RememberStage,
                  RememberFails, storeVars
    <3> QED BY <3>1, TableStands
  <2> QED BY <2>1, <2>2
<1> QED BY <1>0, <1>2, <1>3, DraftsKept

LEMMA EvictDrafts ==
  ASSUME IInv, DeliveryInv, DraftInv, NEW k \in Evictors, EvictStep(k)
  PROVE  DraftInv'
<1>0. /\ TypeInv /\ UNCHANGED runs /\ UNCHANGED write /\ VictimKnown(k)
      /\ evictor \in [Evictors -> EvictorType] /\ t1 \in [Records -> Row]
  BY DEF IInv, TypeInv, TypeOK, ForgetTypeOK, StoresTypeOK, EvictStep, runVars, writeVars
<1>1. DraftsFade /\ NewAlone
  <2>1. CASE RetireVictim(k)
    <3>1. PICK r \in evictor[k].victims : Update(r, [t1[r] EXCEPT !.status = "retired"])
      BY <2>1 DEF RetireVictim
    <3>2. r \in Records /\ Exists(r) /\ t1[r] \in Row
      BY <1>0 DEF VictimKnown, EvictorType
    <3> DEFINE row == [t1[r] EXCEPT !.status = "retired"]
    <3>3. row.status = "retired" /\ row.turn = t1[r].turn
      BY <3>2 DEF Row
    <3>4. \A s \in Records : t1'[s] = IF s = r THEN row ELSE t1[s]
      BY <1>0, <3>1 DEF Update
    <3> HIDE DEF row
    <3>5. DraftsFade
      BY <3>2, <3>3, <3>4 DEF DraftsFade, Live, Exists
    <3>6. \A s \in Records : Exists(s)' => Exists(s)
      BY <3>2, <3>4 DEF Exists
    <3> QED BY <3>5, <3>6, NoNewRow
  <2>2. CASE ~ RetireVictim(k)
    <3>1. UNCHANGED t1
      BY <2>2 DEF EvictStep, EvictionStep, DeleteVector, ArchiveVictim, AuditVictim
    <3> QED BY <3>1, TableStands
  <2> QED BY <2>1, <2>2
<1> QED BY <1>0, <1>1, DraftsKept DEF StaysStored

LEMMA ConsolidateDrafts ==
  ASSUME IInv, TenantInv, DeliveryInv, DraftInv, NEW c \in Runs, Consolidate(c)
  PROVE  DraftInv'
<1> DEFINE near == runs[c].near
           confirmed(over) == ConfirmedRow(c, over)
<1>0. /\ TypeInv /\ RunTypeOK /\ RunShape /\ UNCHANGED write
      /\ t1 \in [Records -> Row] /\ runs \in [Runs -> RunType]
  BY DEF IInv, TypeInv, TypeOK, StoresTypeOK, RunTypeOK, Consolidate, writeVars
<1>1. ASSUME runs[c].pc \in {"reconcile", "judge"}
      PROVE  near \in Records /\ Exists(near)
  BY <1>0, <1>1, StoresAssumption DEF IInv, RunShape, RunKnows
<1>2. \A over : /\ confirmed(over).status = "live" /\ ~ confirmed(over).prov
                /\ confirmed(over).turn = Turn(c)
  BY DEF ConfirmedRow, NoRow
<1>3. ASSUME runs[c].pc \in {"insert", "judge"}
      PROVE  /\ Turn(c) \in Turns /\ write[Turn(c)] = "done"
             /\ \A s \in Records : Live(s) /\ t1[s].prov => t1[s].turn # Turn(c)
  BY <1>0, <1>3, TurnRemembered DEF DraftInv, NoDraft
<1> HIDE DEF confirmed
<1>4. DraftsFade /\ NewAlone
  <2>1. CASE UNCHANGED t1
    BY <2>1, TableStands
  <2>2. CASE Rewrites(c)
    <3>1. PICK row : Update(near, row) /\ RewrittenRow(c, row)
      BY <2>2 DEF Rewrites
    <3>2. near \in Records /\ Exists(near)
      BY <1>1, <2>2 DEF Rewrites
    <3>3. \A s \in Records : t1'[s] = IF s = near THEN row ELSE t1[s]
      BY <1>0, <3>1 DEF Update
    <3>4. row.status = t1[near].status /\ row.turn = t1[near].turn /\ (row.prov => t1[near].prov)
      BY <3>1 DEF RewrittenRow
    <3>5. DraftsFade
      BY <3>2, <3>3, <3>4 DEF DraftsFade, Live, Exists
    <3>6. \A s \in Records : Exists(s)' => Exists(s)
      BY <3>2, <3>3 DEF Exists
    <3> QED BY <3>5, <3>6, NoNewRow
  <2>3. CASE Inserts(c)
    <3>1. PICK r \in Unused : UpsertWithVector(r, confirmed(None))
      BY <2>3 DEF Inserts, confirmed
    <3>2. r \in Records /\ ~ Exists(r)
      BY DEF Unused
    <3>3. \A s \in Records : t1'[s] = IF s = r THEN confirmed(None) ELSE t1[s]
      BY <1>0, <3>1 DEF UpsertWithVector
    <3>4. /\ t1'[r].turn \in Turns /\ write[t1'[r].turn] = "done" /\ ~ t1'[r].prov
          /\ \A s \in Records : Live(s) /\ t1[s].prov => t1[s].turn # t1'[r].turn
      BY <1>2, <1>3, <2>3, <3>2, <3>3 DEF Inserts
    <3>5. DraftsFade
      BY <3>2, <3>3 DEF DraftsFade, Live, Exists
    <3>6. \A s \in Records : ~ Exists(s) /\ Exists(s)' => s = r
      BY <3>3 DEF Exists
    <3> QED BY <3>2, <3>4, <3>5, <3>6, OneNewRow DEF NewRow
  <2>4. CASE Supersedes(c)
    <3>1. PICK r \in Unused : Supersede(near, r, confirmed(near))
      BY <2>4 DEF Supersedes, confirmed
    <3>2. r \in Records /\ ~ Exists(r) /\ near \in Records /\ Exists(near) /\ t1[near] \in Row
      BY <1>0, <1>1, <2>4 DEF Unused, Supersedes
    <3> DEFINE gone == [t1[near] EXCEPT !.status = "retired", !.by = r]
    <3>3. gone.status = "retired" /\ gone.turn = t1[near].turn
      BY <3>2 DEF Row
    <3>4. \A s \in Records : t1'[s] = IF s = r THEN confirmed(near)
                                      ELSE IF s = near THEN gone ELSE t1[s]
      <4>1. t1' = [t1 EXCEPT ![near] = gone, ![r] = confirmed(near)]
        BY <3>1 DEF Supersede
      <4> HIDE DEF gone, near
      <4> QED BY <1>0, <3>2, <4>1
    <3> HIDE DEF gone
    <3>5. /\ t1'[r].turn \in Turns /\ write[t1'[r].turn] = "done" /\ ~ t1'[r].prov
          /\ \A s \in Records : Live(s) /\ t1[s].prov => t1[s].turn # t1'[r].turn
      BY <1>2, <1>3, <2>4, <3>2, <3>4 DEF Supersedes
    <3>6. DraftsFade
      BY <3>2, <3>3, <3>4 DEF DraftsFade, Live, Exists
    <3>7. \A s \in Records : ~ Exists(s) /\ Exists(s)' => s = r
      BY <3>2, <3>4 DEF Exists
    <3> QED BY <3>2, <3>5, <3>6, <3>7, OneNewRow DEF NewRow
  <2> QED BY <2>1, <2>2, <2>3, <2>4, TableAfter
<1>5. ASSUME NEW d \in Runs PROVE runs'[d] = runs[d] \/ NoDraft(d)'
  <2>1. CASE d # c
    <3>1. CASE ~ FinishTurn(c)
      BY <1>0, <2>1, <3>1, ItemsAfter
    <3>2. CASE FinishTurn(c)
      BY <1>0, <2>1, <3>2 DEF FinishTurn
    <3> QED BY <3>1, <3>2
  <2>2. CASE d = c /\ runs'[c].pc \in {"search", "insert", "fetch", "judge"}
    <3>1. /\ UNCHANGED t1 /\ runs'[c].items = runs[c].items
          /\ runs[c].pc \in {"search", "fetch"} \/ Drafts(Turn(c)) = {}
      BY <1>0, <2>2, LookedForDrafts
    <3>2. \A r \in Records : Live(r) /\ t1[r].prov => t1[r].turn # Turn(c)
      <4>1. CASE runs[c].pc \in {"search", "fetch"}
        BY <4>1 DEF DraftInv, NoDraft
      <4>2. CASE Drafts(Turn(c)) = {}
        BY <4>2 DEF Drafts, TenantInv, Owned, TenantProvenance, Live, Exists
      <4> QED BY <3>1, <4>1, <4>2
    <3> QED BY <2>2, <3>1, <3>2 DEF NoDraft, Turn, Live
  <2>3. CASE d = c /\ runs'[c].pc \notin {"search", "insert", "fetch", "judge"}
    BY <2>3 DEF NoDraft
  <2> QED BY <2>1, <2>2, <2>3
<1> QED BY <1>0, <1>4, <1>5, DraftsKept DEF StaysStored

\* Calls that start or fail, and a crash.
LEMMA CallsDraft ==
  ASSUME IInv, DeliveryInv, DraftInv,
         \/ \E c \in Runs, s \in Scopes : StartRun(c, s)
         \/ \E k \in Calls, u \in Users, r \in Records : StartForget(k, u, r)
         \/ \E k \in Calls, u \in Users : StartEvict(k, u)
         \/ \E k \in Calls : CallFails(k)
         \/ \E c \in Runs : ConsolidateFails(c)
         \/ Crash
         \/ UNCHANGED vars
  PROVE  DraftInv'
<1>0. TypeInv /\ runs \in [Runs -> RunType] /\ write \in [Turns -> WriteStates]
  BY DEF IInv, TypeInv, TypeOK, RunTypeOK, WriteTypeOK
<1>1. UNCHANGED t1
  BY DEF StartRun, Drain, StartForget, Forget, StartEvict, Evict, CallFails, EvictionFails,
         ConsolidateFails, RunFails, Crash, storeVars, vars
<1>2. StaysStored
  BY <1>0 DEF StartRun, Drain, StartForget, StartEvict, CallFails, ConsolidateFails, Crash,
         WriteCrash, writeVars, vars, StaysStored, Stored
<1>3. \A c \in Runs : runs'[c] = runs[c] \/ NoDraft(c)'
  <2>1. ASSUME NEW c \in Runs, NEW s \in Scopes, StartRun(c, s), NEW d \in Runs
        PROVE  runs'[d] = runs[d] \/ NoDraft(d)'
    BY <1>0, <2>1 DEF StartRun, Drain, IdleRun, NoDraft
  <2>2. ASSUME NEW c \in Runs, ConsolidateFails(c), NEW d \in Runs
        PROVE  runs'[d] = runs[d] \/ NoDraft(d)'
    BY <1>0, <2>2 DEF ConsolidateFails, RunFails, Abort, IdleRun, NoDraft
  <2>3. Crash => \A d \in Runs : NoDraft(d)'
    BY DEF Crash, RunCrash, IdleRun, NoDraft
  <2>4. (\/ \E k \in Calls, u \in Users, r \in Records : StartForget(k, u, r)
         \/ \E k \in Calls, u \in Users : StartEvict(k, u)
         \/ \E k \in Calls : CallFails(k)
         \/ UNCHANGED vars) => UNCHANGED runs
    BY DEF StartForget, StartEvict, CallFails, runVars, vars
  <2> QED BY <2>1, <2>2, <2>3, <2>4
<1> QED BY <1>0, <1>1, <1>2, <1>3, TableStands, DraftsKept

LEMMA InitDrafts == Init => DraftInv
<1> SUFFICES ASSUME Init PROVE DraftInv
  OBVIOUS
<1>1. \A r \in Records : ~ Exists(r) /\ ~ Live(r)
  BY DEF Init, StoresInit, NoRow, Exists, Live
<1> QED BY <1>1 DEF DraftInv, DraftIsAlone, Recorded, NoDraft

LEMMA NextDrafts ==
  IInv /\ TenantInv /\ DeliveryInv /\ DraftInv /\ [Next]_vars => DraftInv'
BY RememberDrafts, ConsolidateDrafts, EvictDrafts, CallsDraft DEF Next, Work

LEMMA AlwaysDrafts == Spec => [](IInv /\ TenantInv /\ DeliveryInv /\ DraftInv)
<1>1. Init => IInv /\ TenantInv /\ DeliveryInv /\ DraftInv
  BY InitKnows, InitOwns, InitDelivers, InitDrafts
<1>2. IInv /\ TenantInv /\ DeliveryInv /\ DraftInv /\ [Next]_vars
        => (IInv /\ TenantInv /\ DeliveryInv /\ DraftInv)'
  BY NextKeeps, NextOwns, NextDelivers, NextDrafts DEF IInv
<1> QED BY <1>1, <1>2, PTL DEF Spec

\* Whatever overlaps, fails or crashes, consolidation writes no record beside the live
\* draft of a turn: it upgrades the draft, and a run that did not find one is right
\* that there is none until it has written its record (CONS-06/07).
THEOREM DraftsAlone == Spec => []DraftIsAlone
<1>1. DraftInv => DraftIsAlone
  BY DEF DraftInv
<1> QED BY <1>1, AlwaysDrafts, PTL

(***************************************************************************)
(* Where a step leads a run.                                               *)
(***************************************************************************)
Sweeping == {"sweep", "decay", "evict"}

\* The run's turns stay, or the first is done, or the run ends: at the end of its
\* sweep, or at a near record that cannot be read.
TurnsAfter(c, s) ==
  \/ s.items = runs[c].items /\ s.pc # "idle" /\ (s.pc \in Sweeping => runs[c].pc \in Sweeping)
  \/ FinishTurn(c) /\ s.items = Tail(runs[c].items)
       /\ s.pc = IF s.items = <<>> THEN "sweep" ELSE "extract"
  \/ s = IdleRun /\ (runs[c].pc \in Sweeping \/ (runs[c].pc = "fetch" /\ ~ Readable(runs[c].near)))

\* What the run has just read is what the table holds.
ReadsAfter(c, s) ==
  /\ s.pc \in {"fetch", "judge", "reconcile"} => UNCHANGED t1
  /\ s.pc \in {"fetch", "reconcile"} => Live(s.near)
  /\ s.pc = "judge" => s.near = runs[c].near /\ runs[c].pc = "fetch"
  /\ s.pc \in {"judge", "reconcile"} => s.seen = t1[s.near]
  /\ s.pc = "decay" => UNCHANGED t1 /\ AllReadable(s.uid) /\ vault' = vault \cup Promotable(s.uid)

\* Its item is the one it had, none, or one that is pinned.
ItemAfter(c, s) == s.ext = runs[c].ext \/ s.ext = NoItem \/ \E x \in Extractions : s.ext = Pin(x)

GoesTo(c, s) ==
  /\ ItemAfter(c, s)
  /\ TurnsAfter(c, s)
  /\ ReadsAfter(c, s)

LEMMA RunAfter ==
  ASSUME RunTypeOK, NEW c \in Runs, Consolidate(c)
  PROVE  Running(c) /\ \E s : runs' = [runs EXCEPT ![c] = s] /\ GoesTo(c, s)
<1> DEFINE old == runs[c]
           Led == \E s : runs' = [runs EXCEPT ![c] = s] /\ GoesTo(c, s)
<1>0. runs \in [Runs -> RunType] /\ runs[c] \in RunType
  BY DEF RunTypeOK
<1>1. Running(c)
  BY DEF Consolidate, RunStep, Extract, TakeItem, Reconcile, Search, Fetch, InsertNew, Refine,
         MarkPending, SupersedeOld, InsertDistinct, FinishTurn, PromoteUser, DecayScan,
         FinishUser, Running
<1> SUFFICES Led
  BY <1>1
\* A step that reads no row and keeps the turns.
<1>2. ASSUME NEW s, runs' = [runs EXCEPT ![c] = s], s.items = old.items,
             ItemAfter(c, s),
             \/ s.pc = "item" \/ s.pc = "search" \/ s.pc = "insert"
             \/ (s.pc = "sweep" \/ s.pc = "evict") /\ old.pc \in Sweeping
      PROVE  Led
  <2>1. GoesTo(c, s)
    BY <1>2 DEF GoesTo, TurnsAfter, ReadsAfter, Sweeping
  <2> QED BY <1>2, <2>1
<1>3. runs' = [runs EXCEPT ![c] = IdleRun] /\ old.pc = "fetch" /\ ~ Readable(old.near) => Led
  <2>1. old.pc = "fetch" /\ ~ Readable(old.near) => GoesTo(c, IdleRun)
    BY DEF GoesTo, ItemAfter, TurnsAfter, ReadsAfter, Sweeping, IdleRun
  <2> QED BY <2>1
\* A step that reads a row.
<1>4. ASSUME NEW s, runs' = [runs EXCEPT ![c] = s], s.items = old.items,
             ItemAfter(c, s), UNCHANGED t1,
             \/ s.pc = "fetch" /\ Live(s.near)
             \/ s.pc = "reconcile" /\ Live(s.near) /\ s.seen = t1[s.near]
             \/ s.pc = "judge" /\ old.pc = "fetch" /\ s.near = old.near /\ s.seen = t1[s.near]
      PROVE  Led
  <2>1. GoesTo(c, s)
    BY <1>4 DEF GoesTo, TurnsAfter, ReadsAfter, Sweeping
  <2> QED BY <1>4, <2>1
<1> HIDE DEF Led
<1>5. CASE Extract(c)
  <2>1. PICK n \in 0..MaxItems : runs' = [runs EXCEPT ![c] = [old EXCEPT !.pc = "item", !.left = n]]
    BY <1>5 DEF Extract
  <2> DEFINE s == [old EXCEPT !.pc = "item", !.left = n]
  <2>2. s.pc = "item" /\ s.items = old.items /\ s.ext = old.ext
    BY <1>0 DEF RunType
  <2> HIDE DEF s
  <2>3. runs' = [runs EXCEPT ![c] = s]
    BY <2>1 DEF s
  <2> QED BY <1>2, <2>2, <2>3 DEF ItemAfter
<1>6. CASE TakeItem(c)
  <2>1. PICK x \in Extractions :
          LET rest == [runs[c] EXCEPT !.left = @ - 1, !.ext = Pin(x)]
          IN  \/ runs' = [runs EXCEPT ![c] = [rest EXCEPT !.pc = "search"]]
              \/ \E r \in Drafts(Turn(c)) :
                   runs' = [runs EXCEPT ![c] = [rest EXCEPT !.pc = "reconcile",
                                                            !.near = r, !.seen = t1[r]]]
    BY <1>6 DEF TakeItem
  <2> DEFINE rest == [old EXCEPT !.left = old.left - 1, !.ext = Pin(x)]
             search == [rest EXCEPT !.pc = "search"]
             found(r) == [rest EXCEPT !.pc = "reconcile", !.near = r, !.seen = t1[r]]
  <2>2. /\ search.pc = "search" /\ search.items = old.items /\ search.ext = Pin(x)
        /\ \A r : /\ found(r).pc = "reconcile" /\ found(r).items = old.items
                  /\ found(r).ext = Pin(x) /\ found(r).near = r /\ found(r).seen = t1[r]
    BY <1>0 DEF RunType
  <2>3. \/ runs' = [runs EXCEPT ![c] = search]
        \/ \E r \in Drafts(Turn(c)) : runs' = [runs EXCEPT ![c] = found(r)]
    BY <2>1
  <2> HIDE DEF rest, search, found
  <2>4. ASSUME NEW r \in Drafts(Turn(c)), runs' = [runs EXCEPT ![c] = found(r)]
        PROVE  Led
    <3>1. Live(found(r).near) /\ found(r).seen = t1[found(r).near] /\ UNCHANGED t1
      BY <1>6, <2>2 DEF Drafts, TakeItem, storeVars
    <3> QED BY <1>4, <2>2, <2>4, <3>1 DEF ItemAfter
  <2> QED BY <1>2, <2>2, <2>3, <2>4 DEF ItemAfter
<1>7. CASE Search(c)
  <2> DEFINE insert == [old EXCEPT !.pc = "insert"]
             found(r) == [old EXCEPT !.pc = "fetch", !.near = r]
  <2>1. /\ insert.pc = "insert" /\ insert.items = old.items /\ insert.ext = old.ext
        /\ \A r : /\ found(r).pc = "fetch" /\ found(r).items = old.items
                  /\ found(r).ext = old.ext /\ found(r).near = r
    BY <1>0 DEF RunType
  <2>2. \/ runs' = [runs EXCEPT ![c] = insert]
        \/ \E r \in Searchable(UserOfTurn(c)) : runs' = [runs EXCEPT ![c] = found(r)]
    BY <1>7 DEF Search
  <2>3. \A r \in Searchable(UserOfTurn(c)) : Live(r)
    BY DEF Searchable, LiveOf
  <2>4. UNCHANGED t1
    BY <1>7 DEF Search, storeVars
  <2> HIDE DEF insert, found
  <2>5. ASSUME NEW r \in Searchable(UserOfTurn(c)), runs' = [runs EXCEPT ![c] = found(r)]
        PROVE  Led
    <3>1. Live(found(r).near)
      BY <2>1, <2>3
    <3> QED BY <1>4, <2>1, <2>4, <2>5, <3>1 DEF ItemAfter
  <2> QED BY <1>2, <2>1, <2>2, <2>5 DEF ItemAfter
<1>8. CASE Fetch(c)
  <2> DEFINE judge == [old EXCEPT !.pc = "judge", !.seen = t1[old.near]]
             insert == [old EXCEPT !.pc = "insert", !.near = None]
  <2>1. /\ judge.pc = "judge" /\ judge.items = old.items /\ judge.ext = old.ext
        /\ judge.near = old.near /\ judge.seen = t1[judge.near]
        /\ insert.pc = "insert" /\ insert.items = old.items /\ insert.ext = old.ext
    BY <1>0 DEF RunType
  <2>2. \/ ~ Readable(old.near) /\ runs' = [runs EXCEPT ![c] = IdleRun]
        \/ runs' = [runs EXCEPT ![c] = judge]
        \/ runs' = [runs EXCEPT ![c] = insert]
    BY <1>8 DEF Fetch, Abort
  <2>3. old.pc = "fetch" /\ UNCHANGED t1
    BY <1>8 DEF Fetch, storeVars
  <2> HIDE DEF judge, insert
  <2> QED BY <1>2, <1>3, <1>4, <2>1, <2>2, <2>3 DEF ItemAfter
<1>9. CASE NextItem(c)
  <2> DEFINE s == [old EXCEPT !.pc = "item", !.ext = NoItem, !.near = None, !.seen = NoRow]
  <2>1. s.pc = "item" /\ s.items = old.items /\ s.ext = NoItem
    BY <1>0 DEF RunType
  <2>2. runs' = [runs EXCEPT ![c] = s]
    BY <1>9 DEF NextItem
  <2> HIDE DEF s
  <2> QED BY <1>2, <2>1, <2>2 DEF ItemAfter
<1>10. CASE FinishTurn(c)
  <2> DEFINE rest == Tail(old.items)
             s == [old EXCEPT !.items = rest, !.pc = IF rest = <<>> THEN "sweep" ELSE "extract"]
  <2>1. runs' = [runs EXCEPT ![c] = s]
    BY <1>10 DEF FinishTurn
  <2> HIDE DEF rest
  <2>2. s.items = rest /\ s.pc = (IF rest = <<>> THEN "sweep" ELSE "extract") /\ s.ext = old.ext
    BY <1>0 DEF RunType
  <2> HIDE DEF s
  <2>3. TurnsAfter(c, s)
    BY <1>10, <2>2 DEF TurnsAfter, rest
  <2>4. ReadsAfter(c, s)
    BY <2>2 DEF ReadsAfter
  <2> QED BY <2>1, <2>2, <2>3, <2>4 DEF Led, GoesTo, ItemAfter
<1>11. CASE PromoteUser(c)
  <2>1. PICK u \in runs[c].uids :
          \/ /\ AllReadable(u) /\ vault' = vault \cup Promotable(u)
             /\ runs' = [runs EXCEPT ![c] = [runs[c] EXCEPT !.pc = "decay", !.uid = u,
                                                            !.uids = runs[c].uids \ {u}]]
          \/ runs' = [runs EXCEPT ![c] = IdleRun]
    BY <1>11, Zenon DEF PromoteUser, VaultPromote, Abort
  <2> DEFINE s == [old EXCEPT !.pc = "decay", !.uid = u, !.uids = old.uids \ {u}]
  <2>2. s.pc = "decay" /\ s.items = old.items /\ s.ext = old.ext /\ s.uid = u
    BY <1>0 DEF RunType
  <2>3. \/ AllReadable(u) /\ vault' = vault \cup Promotable(u) /\ runs' = [runs EXCEPT ![c] = s]
        \/ runs' = [runs EXCEPT ![c] = IdleRun]
    BY <2>1
  <2> HIDE DEF s
  <2>4. UNCHANGED t1 /\ old.pc \in Sweeping
    BY <1>11 DEF PromoteUser, Sweeping
  <2>5. ASSUME AllReadable(u), vault' = vault \cup Promotable(u)
        PROVE  GoesTo(c, s)
    BY <2>2, <2>4, <2>5 DEF GoesTo, ItemAfter, TurnsAfter, ReadsAfter, Sweeping
  <2>6. CASE runs' = [runs EXCEPT ![c] = IdleRun]
    <3>1. GoesTo(c, IdleRun)
      BY <2>4 DEF GoesTo, ItemAfter, TurnsAfter, ReadsAfter, IdleRun
    <3> QED BY <2>6, <3>1 DEF Led
  <2>7. CASE AllReadable(u) /\ vault' = vault \cup Promotable(u) /\ runs' = [runs EXCEPT ![c] = s]
    BY <2>5, <2>7 DEF Led
  <2> QED BY <2>3, <2>6, <2>7
<1>12. CASE DecayScan(c)
  <2> DEFINE uids == IF AllReadable(runs[c].uid) THEN runs[c].uids ELSE {}
             s == [old EXCEPT !.pc = "evict", !.uids = uids]
  <2>1. runs' = [runs EXCEPT ![c] = s] /\ old.pc \in Sweeping
    BY <1>12 DEF DecayScan, Sweeping
  <2> HIDE DEF uids
  <2>2. s.pc = "evict" /\ s.items = old.items /\ s.ext = old.ext
    BY <1>0 DEF RunType
  <2> HIDE DEF s
  <2>3. ItemAfter(c, s)
    BY <2>2 DEF ItemAfter
  <2> QED BY <1>2, <2>1, <2>2, <2>3
<1>13. CASE FinishUser(c)
  <2> DEFINE s == [old EXCEPT !.pc = "sweep", !.uid = None]
  <2>1. s.pc = "sweep" /\ s.items = old.items /\ s.ext = old.ext
    BY <1>0 DEF RunType
  <2>2. (runs' = [runs EXCEPT ![c] = s] \/ runs' = [runs EXCEPT ![c] = IdleRun])
        /\ old.pc \in Sweeping
    BY <1>13 DEF FinishUser, Sweeping
  <2> HIDE DEF s
  <2>3. ItemAfter(c, s)
    BY <2>1 DEF ItemAfter
  <2>4. CASE runs' = [runs EXCEPT ![c] = IdleRun]
    <3>1. GoesTo(c, IdleRun)
      BY <2>2 DEF GoesTo, ItemAfter, TurnsAfter, ReadsAfter, IdleRun
    <3> QED BY <2>4, <3>1 DEF Led
  <2>5. CASE runs' = [runs EXCEPT ![c] = s]
    BY <1>2, <2>1, <2>2, <2>3, <2>5
  <2> QED BY <2>2, <2>4, <2>5
<1> QED
  BY <1>5, <1>6, <1>7, <1>8, <1>9, <1>10, <1>11, <1>12, <1>13
     DEF Consolidate, RunStep, Reconcile, InsertNew, Insert, Refine, MarkPending,
         SupersedeOld, InsertDistinct

-----------------------------------------------------------------------------
(***************************************************************************)
(* What holds however many calls are in flight.                            *)
(***************************************************************************)

\* An id that is not used has no row.
Blank == \A r \in Records : ~ Exists(r) => t1[r] = NoRow

\* An evictor that rests has no victims, a run evicts in its eviction loop only, and a
\* victim is one whose row has been retired.
EvictorRests(k) ==
  LET e == evictor[k] IN
  /\ ~ Evicting(k) => e = IdleEvictor
  /\ k \in Runs /\ Evicting(k) => runs[k].pc = "evict"
  /\ e.victim # None => e.pc = "unvector" \/ e.pc = "archive" \/ e.pc = "audit"

\* The safety pin has been put on the item at hand, and a run that has left its turns
\* has none.
RunRests(c) ==
  /\ runs[c].ext.safety => runs[c].ext.prot
  /\ runs[c].pc = "idle" \/ runs[c].pc \in Sweeping => runs[c].items = <<>>

PlainInv ==
  /\ Blank
  /\ \A k \in Evictors : EvictorRests(k)
  /\ \A c \in Runs : RunRests(c)

\* An eviction goes through its victims, or is done with them.
EvictorAfter(k, e) ==
  /\ e.victims \subseteq evictor[k].victims
  /\ e.victim = None \/ e.victim = evictor[k].victim \/ e.victim \in evictor[k].victims
  /\ e.pc = "idle" => e = IdleEvictor
  /\ e.victim # None => e.pc = "unvector" \/ e.pc = "archive" \/ e.pc = "audit"

Retires(k) ==
  \E r \in evictor[k].victims :
    /\ Update(r, [t1[r] EXCEPT !.status = "retired"])
    /\ evictor'[k].pc = "unvector" /\ evictor'[k].victim = r

LEMMA EvictorMoves ==
  ASSUME IInv, NEW k \in Evictors, EvictorRests(k), EvictStep(k)
  PROVE  /\ Evicting(k)
         /\ UNCHANGED runs /\ UNCHANGED vault
         /\ UNCHANGED t1 \/ Retires(k)
         /\ \E e : evictor' = [evictor EXCEPT ![k] = e] /\ EvictorAfter(k, e)
<1>0. evictor \in [Evictors -> EvictorType] /\ evictor[k] \in EvictorType
  BY DEF IInv, TypeInv, TypeOK, ForgetTypeOK
<1>1. Evicting(k) /\ UNCHANGED runs /\ UNCHANGED vault
  BY DEF EvictStep, EvictionStep, RetireVictim, DeleteVector, ArchiveVictim, AuditVictim,
         Evicting, runVars
<1> DEFINE Led == \E e : evictor' = [evictor EXCEPT ![k] = e] /\ EvictorAfter(k, e)
<1>2. CASE RetireVictim(k)
  <2>1. PICK r \in evictor[k].victims :
          /\ Update(r, [t1[r] EXCEPT !.status = "retired"])
          /\ evictor' = [evictor EXCEPT ![k] = [pc |-> "unvector", victim |-> r,
                                                victims |-> evictor[k].victims \ {r}]]
    BY <1>2 DEF RetireVictim
  <2> DEFINE e == [pc |-> "unvector", victim |-> r, victims |-> evictor[k].victims \ {r}]
  <2>2. EvictorAfter(k, e)
    BY DEF EvictorAfter
  <2>3. evictor'[k] = e
    BY <1>0, <2>1
  <2>4. Retires(k)
    BY <2>1, <2>3 DEF Retires
  <2> QED BY <1>1, <2>1, <2>2, <2>4
<1>3. ASSUME NEW s, s = "archive" \/ s = "audit", evictor' = [evictor EXCEPT ![k].pc = s],
             evictor[k].pc = "unvector" \/ evictor[k].pc = "archive", UNCHANGED t1
      PROVE  UNCHANGED t1 /\ Led
  <2> DEFINE e == [evictor[k] EXCEPT !.pc = s]
  <2>1. e.pc = s /\ e.victims = evictor[k].victims /\ e.victim = evictor[k].victim
    BY <1>0 DEF EvictorType
  <2> HIDE DEF e
  <2>2. EvictorAfter(k, e)
    BY <1>3, <2>1 DEF EvictorAfter
  <2>3. evictor' = [evictor EXCEPT ![k] = e]
    BY <1>0, <1>3 DEF e
  <2> QED BY <1>3, <2>2, <2>3
<1>4. CASE AuditVictim(k)
  <2> DEFINE e == IF evictor[k].victims = {} THEN IdleEvictor
                  ELSE [pc |-> "retire", victims |-> evictor[k].victims, victim |-> None]
  <2>1. evictor' = [evictor EXCEPT ![k] = e] /\ UNCHANGED t1
    BY <1>4 DEF AuditVictim, StartEviction
  <2>2. EvictorAfter(k, e)
    BY DEF EvictorAfter, IdleEvictor
  <2> QED BY <1>1, <2>1, <2>2
<1>5. CASE DeleteVector(k) \/ ArchiveVictim(k)
  BY <1>1, <1>3, <1>5 DEF DeleteVector, ArchiveVictim
<1> QED BY <1>2, <1>4, <1>5 DEF EvictStep, EvictionStep

\* A run that takes a step of its own is not evicting.
LEMMA RunMovesAlone ==
  ASSUME RunTypeOK, NEW c \in Runs, EvictorRests(c), Consolidate(c)
  PROVE  /\ ~ Evicting(c)
         /\ \/ UNCHANGED evictor
            \/ /\ runs[c].pc = "decay" /\ runs'[c].pc = "evict"
               /\ runs'[c].near = runs[c].near
               /\ UNCHANGED <<t1, vault>>
               /\ \E low \in SUBSET DecayCandidates(runs[c].uid) : StartEviction(c, low)
<1>0. runs[c] \in RunType
  BY DEF RunTypeOK
<1>1. runs[c].pc = "evict" => FinishUser(c)
  BY DEF Consolidate, RunStep, Extract, TakeItem, Reconcile, Search, Fetch, InsertNew, Refine,
         MarkPending, SupersedeOld, InsertDistinct, FinishTurn, PromoteUser, DecayScan
<1>2. ~ Evicting(c)
  BY <1>1 DEF EvictorRests, FinishUser
<1>3. CASE DecayScan(c)
  <2> DEFINE s == [runs[c] EXCEPT !.pc = "evict",
                   !.uids = IF AllReadable(runs[c].uid) THEN runs[c].uids ELSE {}]
  <2>1. runs' = [runs EXCEPT ![c] = s]
    BY <1>3 DEF DecayScan
  <2>2. s.pc = "evict" /\ s.near = runs[c].near
    BY <1>0 DEF RunType
  <2> HIDE DEF s
  <2>3. runs'[c].pc = "evict" /\ runs'[c].near = runs[c].near
    BY <2>1, <2>2 DEF RunTypeOK
  <2> QED BY <1>2, <1>3, <2>3 DEF DecayScan, storeVars
<1>4. CASE ~ DecayScan(c)
  BY <1>2, <1>4 DEF Consolidate, RunStep, Extract, TakeItem, Reconcile, Search, Fetch, InsertNew,
         InsertDistinct, Insert, Refine, MarkPending, SupersedeOld, FinishTurn, PromoteUser,
         FinishUser
<1> QED BY <1>3, <1>4

\* The one row a step has written.
Writes(r, row) == \A s \in Records : t1'[s] = IF s = r THEN row ELSE t1[s]

\* What a run's step does to the table, row by row.
RowRewritten(c) ==
  /\ runs[c].pc = "reconcile" \/ runs[c].pc = "judge"
  /\ runs[c].near \in Records /\ Exists(runs[c].near)
  /\ \E row : Writes(runs[c].near, row) /\ RewrittenRow(c, row)

RowAdded(c) == \E r \in Unused : Writes(r, ConfirmedRow(c, None))

RowReplaced(c) ==
  /\ runs[c].pc = "judge" /\ ~ Gated(runs[c].seen)
  /\ runs[c].near \in Records /\ Exists(runs[c].near)
  /\ \E r \in Unused : \A s \in Records :
       t1'[s] = IF s = r THEN ConfirmedRow(c, runs[c].near)
                ELSE IF s = runs[c].near
                THEN [t1[s] EXCEPT !.status = "retired", !.by = r]
                ELSE t1[s]

LEMMA RowsAfter ==
  ASSUME IInv, NEW c \in Runs, Consolidate(c)
  PROVE  UNCHANGED t1 \/ RowRewritten(c) \/ RowAdded(c) \/ RowReplaced(c)
<1> DEFINE near == runs[c].near
<1>0. t1 \in [Records -> Row] /\ RunShape /\ RunKnows(c)
  BY DEF IInv, TypeInv, TypeOK, StoresTypeOK
<1>1. runs[c].pc \in {"reconcile", "judge"} => near \in Records /\ Exists(near)
  BY <1>0, StoresAssumption DEF RunShape, RunKnows
<1> HIDE DEF near
<1>2. CASE Rewrites(c)
  <2>1. PICK row : Update(near, row) /\ RewrittenRow(c, row)
    BY <1>2 DEF Rewrites, near
  <2>2. Writes(near, row)
    BY <1>0, <1>1, <1>2, <2>1 DEF Update, Writes, Rewrites
  <2> QED BY <1>1, <1>2, <2>1, <2>2 DEF Rewrites, RowRewritten, near
<1>3. CASE Inserts(c)
  <2>1. PICK r \in Unused : t1' = [t1 EXCEPT ![r] = ConfirmedRow(c, None)]
    BY <1>3 DEF Inserts, UpsertWithVector
  <2>2. Writes(r, ConfirmedRow(c, None))
    BY <1>0, <2>1 DEF Writes, Unused
  <2> QED BY <2>2 DEF RowAdded
<1>4. CASE Supersedes(c)
  <2> DEFINE gone(r) == [t1[near] EXCEPT !.status = "retired", !.by = r]
  <2>1. PICK r \in Unused :
          t1' = [t1 EXCEPT ![near] = gone(r), ![r] = ConfirmedRow(c, near)]
    BY <1>4 DEF Supersedes, Supersede, near
  <2>2. near \in Records /\ r \in Records /\ r # near
    BY <1>1, <1>4 DEF Supersedes, Unused
  <2> HIDE DEF gone
  <2>3. \A s \in Records : t1'[s] = IF s = r THEN ConfirmedRow(c, near)
                                    ELSE IF s = near THEN gone(r) ELSE t1[s]
    BY <1>0, <2>1, <2>2
  <2>4. \A s \in Records : s = near => gone(r) = [t1[s] EXCEPT !.status = "retired", !.by = r]
    BY DEF gone
  <2> HIDE DEF near
  <2>5. \A s \in Records : t1'[s] = IF s = r THEN ConfirmedRow(c, near)
                                    ELSE IF s = near
                                    THEN [t1[s] EXCEPT !.status = "retired", !.by = r]
                                    ELSE t1[s]
    BY <2>3, <2>4
  <2> QED BY <1>1, <1>4, <2>5 DEF Supersedes, RowReplaced, near
<1> QED BY <1>2, <1>3, <1>4, TableAfter

\* What a step does to the table's rows, as far as an unused id is concerned.
LEMMA BlankKept ==
  ASSUME Blank, \A r \in Records : t1'[r] = t1[r] \/ Exists(r)'
  PROVE  Blank'
BY DEF Blank, Exists

LEMMA RememberPlain ==
  ASSUME TypeOK, PlainInv, NEW t \in Turns, Remember(t)
  PROVE  PlainInv'
<1>1. UNCHANGED <<runs, evictor>>
  BY DEF Remember, runVars
<1>2. \A k \in Evictors : EvictorRests(k)'
  BY <1>1 DEF PlainInv, EvictorRests, Evicting
<1>3. \A c \in Runs : RunRests(c)'
  BY <1>1 DEF PlainInv, RunRests
<1>4. \A r \in Records : t1'[r] = t1[r] \/ Exists(r)'
  <2>1. ProvisionalRow(t).status = "live"
    BY DEF ProvisionalRow, NoRow
  <2>2. UNCHANGED t1 \/ \E r \in Unused : t1' = [t1 EXCEPT ![r] = ProvisionalRow(t)]
    BY DEF Remember, WriteNext, RememberAppend, RememberPush, RememberStore, RememberStage,
           RememberFails, UpsertWithVector, storeVars
  <2> QED BY <2>1, <2>2 DEF TypeOK, StoresTypeOK, Exists, Unused
<1> QED BY <1>2, <1>3, <1>4, BlankKept DEF PlainInv

LEMMA EvictPlain ==
  ASSUME IInv, PlainInv, NEW k \in Evictors, EvictStep(k)
  PROVE  PlainInv'
<1>0. /\ evictor \in [Evictors -> EvictorType] /\ t1 \in [Records -> Row] /\ VictimKnown(k)
      /\ evictor[k] \in EvictorType
  BY DEF IInv, TypeInv, TypeOK, ForgetTypeOK, StoresTypeOK
<1>1. /\ Evicting(k) /\ UNCHANGED runs /\ (UNCHANGED t1 \/ Retires(k))
      /\ \E e : evictor' = [evictor EXCEPT ![k] = e] /\ EvictorAfter(k, e)
  BY EvictorMoves DEF PlainInv
<1>2. ASSUME NEW j \in Evictors PROVE EvictorRests(j)'
  <2>1. CASE j = k
    BY <1>0, <1>1, <2>1 DEF PlainInv, EvictorRests, Evicting, EvictorAfter
  <2>2. CASE j # k
    BY <1>0, <1>1, <2>2 DEF PlainInv, EvictorRests, Evicting
  <2> QED BY <2>1, <2>2
<1>3. \A c \in Runs : RunRests(c)'
  BY <1>1 DEF PlainInv, RunRests
<1>4. \A r \in Records : t1'[r] = t1[r] \/ Exists(r)'
  <2>1. CASE Retires(k)
    <3>1. PICK v \in evictor[k].victims : Update(v, [t1[v] EXCEPT !.status = "retired"])
      BY <2>1 DEF Retires
    <3>2. v \in Records /\ t1[v] \in Row
      BY <1>0 DEF EvictorType
    <3> DEFINE row == [t1[v] EXCEPT !.status = "retired"]
    <3>3. row.status = "retired"
      BY <3>2 DEF Row
    <3> HIDE DEF row
    <3>4. t1' = [t1 EXCEPT ![v] = row]
      BY <3>1 DEF Update, row
    <3> QED BY <1>0, <3>2, <3>3, <3>4 DEF Exists
  <2> QED BY <1>1, <2>1
<1> QED BY <1>2, <1>3, <1>4, BlankKept DEF PlainInv

LEMMA ConsolidatePlain ==
  ASSUME IInv, PlainInv, NEW c \in Runs, Consolidate(c)
  PROVE  PlainInv'
<1>0. /\ RunTypeOK /\ runs \in [Runs -> RunType] /\ c \in Evictors
      /\ evictor \in [Evictors -> EvictorType] /\ t1 \in [Records -> Row]
  BY DEF IInv, TypeInv, TypeOK, ForgetTypeOK, StoresTypeOK, RunTypeOK, Evictors
<1>1. /\ ~ Evicting(c)
      /\ \/ UNCHANGED evictor
         \/ /\ runs'[c].pc = "evict"
            /\ \E low \in SUBSET DecayCandidates(runs[c].uid) : StartEviction(c, low)
  BY <1>0, RunMovesAlone DEF PlainInv
<1>2. PICK s : runs' = [runs EXCEPT ![c] = s] /\ GoesTo(c, s)
  BY <1>0, RunAfter
<1>3. ASSUME NEW k \in Evictors PROVE EvictorRests(k)'
  <2>1. CASE k # c
    <3>1. evictor'[k] = evictor[k] /\ (k \in Runs => runs'[k] = runs[k])
      BY <1>0, <1>1, <1>2, <2>1 DEF StartEviction
    <3> QED BY <3>1 DEF PlainInv, EvictorRests, Evicting
  <2>2. CASE k = c /\ UNCHANGED evictor
    BY <1>1, <2>2 DEF PlainInv, EvictorRests, Evicting
  <2>3. CASE k = c /\ runs'[c].pc = "evict"
                   /\ \E low \in SUBSET DecayCandidates(runs[c].uid) : StartEviction(c, low)
    BY <1>0, <2>3 DEF EvictorRests, Evicting, StartEviction, IdleEvictor
  <2> QED BY <1>1, <2>1, <2>2, <2>3
<1>4. ASSUME NEW d \in Runs PROVE RunRests(d)'
  <2>1. CASE d # c
    BY <1>0, <1>2, <2>1 DEF PlainInv, RunRests
  <2>2. CASE d = c
    <3>1. runs'[c] = s
      BY <1>0, <1>2
    <3>2. s.ext.safety => s.ext.prot
      <4>1. \A x \in Extractions : Pin(x).safety => Pin(x).prot
        BY ConsolidationAssumption DEF Pin, Item
      <4> QED BY <1>2, <4>1 DEF GoesTo, ItemAfter, PlainInv, RunRests, NoItem
    <3>3. s.pc = "idle" \/ s.pc \in Sweeping => s.items = <<>>
      BY <1>2 DEF GoesTo, TurnsAfter, PlainInv, RunRests, IdleRun, Sweeping
    <3> QED BY <2>2, <3>1, <3>2, <3>3 DEF RunRests
  <2> QED BY <2>1, <2>2
<1>5. \A r \in Records : t1'[r] = t1[r] \/ Exists(r)'
  <2>1. \A over : ConfirmedRow(c, over).status = "live"
    BY DEF ConfirmedRow, NoRow
  <2>2. CASE RowRewritten(c)
    BY <2>2 DEF RowRewritten, Writes, RewrittenRow, Exists
  <2>3. CASE RowAdded(c)
    BY <2>1, <2>3 DEF RowAdded, Writes, Exists
  <2>4. CASE RowReplaced(c)
    <3>1. \A q \in Records : \A r : [t1[q] EXCEPT !.status = "retired", !.by = r].status = "retired"
      BY <1>0 DEF Row
    <3> QED BY <2>1, <2>4, <3>1 DEF RowReplaced, Exists
  <2> QED BY <2>2, <2>3, <2>4, RowsAfter
<1> QED BY <1>3, <1>4, <1>5, BlankKept DEF PlainInv

\* Calls that start or fail, and a crash.
CallsMove ==
  \/ \E c \in Runs, s \in Scopes : StartRun(c, s)
  \/ \E k \in Calls, u \in Users, r \in Records : StartForget(k, u, r)
  \/ \E k \in Calls, u \in Users : StartEvict(k, u)
  \/ \E k \in Calls : CallFails(k)
  \/ \E c \in Runs : ConsolidateFails(c)
  \/ Crash
  \/ UNCHANGED vars

LEMMA StepsOf ==
  ASSUME [Next]_vars
  PROVE  \/ \E t \in Turns : Remember(t)
         \/ \E c \in Runs : Consolidate(c)
         \/ \E k \in Evictors : EvictStep(k)
         \/ CallsMove
BY DEF Next, Work, CallsMove

LEMMA RowsStand ==
  ASSUME CallsMove
  PROVE  UNCHANGED <<t1, vec, archived, audited, vault, pinned>>
BY DEF CallsMove, StartRun, Drain, StartForget, Forget, StartEvict, Evict, CallFails,
       EvictionFails, ConsolidateFails, RunFails, Crash, storeVars, vars

LEMMA CallsPlain ==
  ASSUME TypeOK, PlainInv, CallsMove
  PROVE  PlainInv'
<1>0. runs \in [Runs -> RunType] /\ evictor \in [Evictors -> EvictorType]
  BY DEF TypeOK, RunTypeOK, ForgetTypeOK
<1>1. Blank'
  BY RowsStand DEF PlainInv, Blank, Exists
<1> DEFINE Resting == \A k \in Evictors : EvictorRests(k)'
           Emptied == \A c \in Runs : RunRests(c)'
<1> SUFFICES Resting /\ Emptied
  BY <1>1 DEF PlainInv
<1>2. UNCHANGED evictor /\ UNCHANGED runs => Resting /\ Emptied
  BY DEF PlainInv, EvictorRests, RunRests, Evicting
<1>3. ASSUME NEW c \in Runs, NEW s \in Scopes, StartRun(c, s)
      PROVE  Resting /\ Emptied
  <2> DEFINE run == runs'[c]
  <2>1. /\ ~ Running(c) /\ UNCHANGED evictor
        /\ \A d \in Runs : d # c => runs'[d] = runs[d]
        /\ ~ run.ext.safety /\ (run.items # <<>> => run.pc = "extract")
    BY <1>0, <1>3 DEF StartRun, Drain, IdleRun, NoItem
  <2>2. ~ Evicting(c)
    BY <2>1 DEF PlainInv, EvictorRests, Running, Evictors
  <2>3. Resting
    BY <2>1, <2>2 DEF PlainInv, EvictorRests, Evicting
  <2>4. Emptied
    BY <2>1 DEF PlainInv, RunRests, Sweeping
  <2> QED BY <2>3, <2>4
<1>4. ASSUME NEW k \in Calls, NEW low, StartEviction(k, low), UNCHANGED runs
      PROVE  Resting /\ Emptied
  <2>1. k \in Evictors /\ k \notin Runs
    BY StoresAssumption DEF Evictors
  <2>2. \A j \in Evictors : EvictorRests(j)'
    BY <1>0, <1>4, <2>1 DEF PlainInv, EvictorRests, Evicting, StartEviction, IdleEvictor
  <2> QED BY <1>4, <2>2 DEF PlainInv, RunRests
<1>5. ASSUME \A k \in Evictors : evictor'[k] = evictor[k] \/ evictor'[k] = IdleEvictor,
             \A c \in Runs : \/ runs'[c] = runs[c]
                             \/ runs'[c] = IdleRun /\ evictor'[c] = IdleEvictor
      PROVE  Resting /\ Emptied
  <2>1. ASSUME NEW k \in Evictors PROVE EvictorRests(k)'
    <3>1. CASE evictor'[k] = IdleEvictor
      BY <3>1 DEF EvictorRests, Evicting, IdleEvictor
    <3>2. CASE evictor'[k] = evictor[k] /\ (k \in Runs => runs'[k] = runs[k])
      BY <3>2 DEF PlainInv, EvictorRests, Evicting
    <3> QED BY <1>5, <3>1, <3>2
  <2>2. \A c \in Runs : RunRests(c)'
    BY <1>5 DEF PlainInv, RunRests, IdleRun, NoItem
  <2> QED BY <2>1, <2>2
<1>6. CASE \/ \E k \in Calls, u \in Users, r \in Records : StartForget(k, u, r)
           \/ \E k \in Calls, u \in Users : StartEvict(k, u)
  BY <1>4, <1>6 DEF StartForget, Forget, StartEvict, Evict, runVars
<1>7. CASE \/ \E k \in Calls : CallFails(k)
           \/ \E c \in Runs : ConsolidateFails(c)
           \/ Crash
  BY <1>0, <1>5, <1>7 DEF CallFails, EvictionFails, ConsolidateFails, RunFails, Abort, Crash,
     RunCrash, ForgetCrash, runVars, Evictors
<1> QED BY <1>2, <1>3, <1>6, <1>7 DEF CallsMove, vars, runVars

LEMMA InitPlain == Init => PlainInv
BY DEF Init, StoresInit, ForgetInit, RunInit, PlainInv, Blank, EvictorRests, RunRests, Evicting,
       IdleEvictor, IdleRun, NoItem, Sweeping, Evictors

LEMMA NextPlain == IInv /\ PlainInv /\ [Next]_vars => PlainInv'
BY StepsOf, RememberPlain, EvictPlain, ConsolidatePlain, CallsPlain DEF IInv, TypeInv

-----------------------------------------------------------------------------
(***************************************************************************)
(* Contention, with any number of calls in flight: what a run or an        *)
(* eviction has read of a record is still so when it uses it, or another   *)
(* call has written the record since.                                      *)
(***************************************************************************)

\* What a call has chosen is not protected.
Unguarded(k) == \A r \in evictor[k].victims : t1[r].prot => r \in touched[k]

\* The row a run has found is live, and its snapshot is what the table holds.
Fresh(c) ==
  LET run == runs[c] IN
  run.near \notin touched[c] =>
    /\ run.pc = "fetch" \/ run.pc = "judge" \/ run.pc = "reconcile" => Live(run.near)
    /\ run.pc = "judge" \/ run.pc = "reconcile" => run.seen = t1[run.near]

\* Between its two loops a run has promoted what it is going to scan, ...
Swept(c) ==
  runs[c].pc = "decay" =>
    \A r \in LiveOf(runs[c].uid) : t1[r].high /\ ~ t1[r].prov => r \in vault \cup touched[c]

\* ... and it evicts only that.
Promoted(c) ==
  \A r \in evictor[c].victims \cup ({evictor[c].victim} \ {None}) :
    t1[r].high /\ ~ t1[r].prov => r \in vault \cup touched[c]

Aware(k) == Unguarded(k) /\ (k \in Runs => Fresh(k) /\ Swept(k) /\ Promoted(k))
AwareInv == \A k \in Evictors : Aware(k)

\* What a step may do to a row.
Cared(r) ==
  /\ Live(r) /\ t1[r].prot => t1'[r].status = "live"
  /\ t1[r].prot => t1'[r].prot
  /\ t1'[r].safety /\ ~ t1'[r].prot => t1[r].safety /\ ~ t1[r].prot
  /\ t1[r].by # None => t1'[r].by = t1[r].by
  /\ t1[r].pending \subseteq t1'[r].pending
RowsCared == \A r \in Records : Cared(r) \/ Behind(r)

LEMMA SameRow ==
  ASSUME NEW r \in Records, t1'[r] = t1[r]
  PROVE  Cared(r)
BY DEF Cared, Live

\* A new record that is protected when its content says so.
LEMMA RowAppears ==
  ASSUME Blank, NEW r \in Unused, t1'[r].safety => t1'[r].prot
  PROVE  Cared(r)
<1>1. t1[r] = NoRow
  BY DEF Unused, Blank
<1> QED BY <1>1 DEF Cared, Live, NoRow

\* Every step of a run or of an eviction changes its local state.
LEMMA RunStepMoves ==
  ASSUME RunTypeOK, NEW c \in Runs, Consolidate(c)
  PROVE  Moves(c)
<1>0. runs \in [Runs -> RunType] /\ runs[c] \in RunType
  BY DEF RunTypeOK
<1>1. ASSUME NEW s, runs' = [runs EXCEPT ![c] = s], s.pc # runs[c].pc
      PROVE  Moves(c)
  BY <1>0, <1>1 DEF Moves
<1>2. CASE runs' = [runs EXCEPT ![c] = IdleRun] /\ runs[c].pc # "idle"
  BY <1>1, <1>2 DEF IdleRun
<1>3. CASE Extract(c)
  <2>1. PICK n \in 0..MaxItems :
          runs' = [runs EXCEPT ![c] = [runs[c] EXCEPT !.pc = "item", !.left = n]]
    BY <1>0, <1>3 DEF Extract
  <2>2. [runs[c] EXCEPT !.pc = "item", !.left = n].pc # runs[c].pc
    BY <1>0, <1>3 DEF Extract, RunType
  <2> QED BY <1>1, <2>1, <2>2
<1>4. CASE TakeItem(c)
  <2>1. PICK x \in Extractions :
          LET rest == [runs[c] EXCEPT !.left = @ - 1, !.ext = Pin(x)]
          IN  \/ runs' = [runs EXCEPT ![c] = [rest EXCEPT !.pc = "search"]]
              \/ \E r : runs' = [runs EXCEPT ![c] = [rest EXCEPT !.pc = "reconcile",
                                                     !.near = r, !.seen = t1[r]]]
    BY <1>4 DEF TakeItem
  <2> DEFINE rest == [runs[c] EXCEPT !.left = @ - 1, !.ext = Pin(x)]
  <2>2. /\ [rest EXCEPT !.pc = "search"].pc # runs[c].pc
        /\ \A r : [rest EXCEPT !.pc = "reconcile", !.near = r, !.seen = t1[r]].pc # runs[c].pc
    BY <1>0, <1>4 DEF TakeItem, RunType
  <2> QED BY <1>1, <2>1, <2>2
<1>5. CASE NextItem(c) /\ runs[c].pc # "item"
  <2> DEFINE s == [runs[c] EXCEPT !.pc = "item", !.ext = NoItem, !.near = None, !.seen = NoRow]
  <2>1. runs' = [runs EXCEPT ![c] = s]
    BY <1>5 DEF NextItem
  <2>2. s.pc # runs[c].pc
    BY <1>0, <1>5 DEF RunType
  <2> QED BY <1>1, <2>1, <2>2
<1>6. CASE Search(c)
  <2>1. \/ runs' = [runs EXCEPT ![c] = [runs[c] EXCEPT !.pc = "insert"]]
        \/ \E r : runs' = [runs EXCEPT ![c] = [runs[c] EXCEPT !.pc = "fetch", !.near = r]]
    BY <1>6 DEF Search
  <2>2. /\ [runs[c] EXCEPT !.pc = "insert"].pc # runs[c].pc
        /\ \A r : [runs[c] EXCEPT !.pc = "fetch", !.near = r].pc # runs[c].pc
    BY <1>0, <1>6 DEF Search, RunType
  <2> QED BY <1>1, <2>1, <2>2
<1>7. CASE Fetch(c)
  <2>1. \/ runs' = [runs EXCEPT ![c] = IdleRun]
        \/ \E r : runs' = [runs EXCEPT ![c] = [runs[c] EXCEPT !.pc = "judge", !.seen = t1[r]]]
        \/ runs' = [runs EXCEPT ![c] = [runs[c] EXCEPT !.pc = "insert", !.near = None]]
    BY <1>7 DEF Fetch, Abort
  <2>2. /\ runs[c].pc # "idle"
        /\ \A r : [runs[c] EXCEPT !.pc = "judge", !.seen = t1[r]].pc # runs[c].pc
        /\ [runs[c] EXCEPT !.pc = "insert", !.near = None].pc # runs[c].pc
    BY <1>0, <1>7 DEF Fetch, RunType
  <2> QED BY <1>1, <1>2, <2>1, <2>2
<1>8. CASE FinishTurn(c)
  <2> DEFINE rest == Tail(runs[c].items)
             s == [runs[c] EXCEPT !.items = rest,
                                  !.pc = IF rest = <<>> THEN "sweep" ELSE "extract"]
  <2>1. runs' = [runs EXCEPT ![c] = s]
    BY <1>8 DEF FinishTurn
  <2>2. s.pc # runs[c].pc
    BY <1>0, <1>8 DEF FinishTurn, RunType
  <2> HIDE DEF s
  <2> QED BY <1>1, <2>1, <2>2
<1>9. CASE PromoteUser(c)
  <2>1. \/ runs' = [runs EXCEPT ![c] = IdleRun]
        \/ \E u \in runs[c].uids :
             runs' = [runs EXCEPT ![c] = [runs[c] EXCEPT !.pc = "decay", !.uid = u,
                                                         !.uids = runs[c].uids \ {u}]]
    BY <1>9 DEF PromoteUser, Abort
  <2>2. /\ runs[c].pc # "idle"
        /\ \A u : [runs[c] EXCEPT !.pc = "decay", !.uid = u,
                                  !.uids = runs[c].uids \ {u}].pc # runs[c].pc
    BY <1>0, <1>9 DEF PromoteUser, RunType
  <2> QED BY <1>1, <1>2, <2>1, <2>2
<1>10. CASE DecayScan(c)
  <2> DEFINE s == [runs[c] EXCEPT !.pc = "evict",
                   !.uids = IF AllReadable(runs[c].uid) THEN runs[c].uids ELSE {}]
  <2>1. runs' = [runs EXCEPT ![c] = s]
    BY <1>10 DEF DecayScan
  <2>2. s.pc # runs[c].pc
    BY <1>0, <1>10 DEF DecayScan, RunType
  <2> HIDE DEF s
  <2> QED BY <1>1, <2>1, <2>2
<1>11. CASE FinishUser(c)
  <2>1. \/ runs' = [runs EXCEPT ![c] = IdleRun]
        \/ runs' = [runs EXCEPT ![c] = [runs[c] EXCEPT !.pc = "sweep", !.uid = None]]
    BY <1>0, <1>11 DEF FinishUser
  <2>2. /\ runs[c].pc # "idle"
        /\ [runs[c] EXCEPT !.pc = "sweep", !.uid = None].pc # runs[c].pc
    BY <1>0, <1>11 DEF FinishUser, RunType
  <2> QED BY <1>1, <1>2, <2>1, <2>2
<1> QED BY <1>3, <1>4, <1>5, <1>6, <1>7, <1>8, <1>9, <1>10, <1>11 DEF Consolidate, RunStep,
           Reconcile, InsertNew, Insert, Refine, MarkPending, SupersedeOld, InsertDistinct

LEMMA EvictorStepMoves ==
  ASSUME ForgetTypeOK, NEW k \in Evictors, EvictStep(k)
  PROVE  Moves(k)
<1>0. evictor \in [Evictors -> EvictorType] /\ evictor[k] \in EvictorType
  BY DEF ForgetTypeOK
<1>1. ASSUME NEW e, evictor' = [evictor EXCEPT ![k] = e], e.pc # evictor[k].pc
      PROVE  Moves(k)
  BY <1>0, <1>1 DEF Moves
<1>2. CASE RetireVictim(k)
  <2>1. PICK r \in evictor[k].victims :
          evictor' = [evictor EXCEPT ![k] = [pc |-> "unvector", victim |-> r,
                                             victims |-> evictor[k].victims \ {r}]]
    BY <1>2 DEF RetireVictim
  <2> QED BY <1>1, <1>2, <2>1 DEF RetireVictim
<1>3. CASE DeleteVector(k)
  <2>1. /\ evictor' = [evictor EXCEPT ![k] = [evictor[k] EXCEPT !.pc = "archive"]]
        /\ [evictor[k] EXCEPT !.pc = "archive"].pc # evictor[k].pc
    BY <1>0, <1>3 DEF DeleteVector, EvictorType
  <2> QED BY <1>1, <2>1
<1>4. CASE ArchiveVictim(k)
  <2>1. /\ evictor' = [evictor EXCEPT ![k] = [evictor[k] EXCEPT !.pc = "audit"]]
        /\ [evictor[k] EXCEPT !.pc = "audit"].pc # evictor[k].pc
    BY <1>0, <1>4 DEF ArchiveVictim, EvictorType
  <2> QED BY <1>1, <2>1
<1>5. CASE AuditVictim(k)
  <2> DEFINE e == IF evictor[k].victims = {} THEN IdleEvictor
                  ELSE [pc |-> "retire", victims |-> evictor[k].victims, victim |-> None]
  <2>1. evictor' = [evictor EXCEPT ![k] = e] /\ e.pc # evictor[k].pc
    BY <1>5 DEF AuditVictim, StartEviction, IdleEvictor
  <2> HIDE DEF e
  <2> QED BY <1>1, <2>1
<1> QED BY <1>2, <1>3, <1>4, <1>5 DEF EvictStep, EvictionStep

-----------------------------------------------------------------------------
\* A call that is over is aware of everything.
LEMMA AwareAtRest ==
  ASSUME NEW k \in Evictors, PlainInv', k \notin Active'
  PROVE  Aware(k)'
<1>1. ~ Evicting(k)' /\ (k \in Runs => runs'[k].pc = "idle")
  BY DEF Active, Running
<1>2. evictor'[k] = IdleEvictor
  BY <1>1 DEF PlainInv, EvictorRests
<1> QED BY <1>1, <1>2 DEF Aware, Unguarded, Fresh, Swept, Promoted, IdleEvictor

\* What a call keeps in sight of the records while others move.
LEMMA TouchedGrows ==
  ASSUME NoteWrites, NEW k \in Evictors, k \in Active'
  PROVE  /\ touched[k] \ Finds(k) \subseteq touched'[k]
         /\ \A j \in Evictors \ {k} : \A r \in Records \ Finds(k) :
              Moves(j) /\ t1'[r] # t1[r] => r \in touched'[k]
BY DEF NoteWrites, WrittenByOthers

\* A call finds nothing while it stands still.
LEMMA FindsNothing ==
  ASSUME NEW k \in Evictors, k \in Runs => runs'[k] = runs[k]
  PROVE  Finds(k) = {}
BY DEF Finds

LEMMA AwareStands ==
  ASSUME IInv, PlainInv, PlainInv', NoteWrites, NEW k \in Evictors, Aware(k), UNCHANGED vault,
         evictor'[k] = evictor[k], k \in Runs => runs'[k] = runs[k],
         \A r \in Records : \/ t1'[r] = t1[r]
                            \/ \E j \in Evictors \ {k} : Moves(j)
                            \/ ~ Exists(r) /\ ~ t1'[r].high
  PROVE  Aware(k)'
<1> SUFFICES ASSUME k \in Active' PROVE Aware(k)'
  BY AwareAtRest
<1>0. /\ evictor[k] \in EvictorType
      /\ \A r \in evictor[k].victims : r \in Records /\ Exists(r)
      /\ evictor[k].victim # None => evictor[k].victim \in Records /\ Exists(evictor[k].victim)
  BY DEF IInv, TypeInv, TypeOK, ForgetTypeOK, EvictorType, VictimKnown, VictimShape, PlainInv,
         EvictorRests, Exists
<1>1. /\ touched[k] \subseteq touched'[k]
      /\ \A r \in Records : \/ t1'[r] = t1[r]
                            \/ r \in touched'[k]
                            \/ ~ Exists(r) /\ ~ t1'[r].high
  BY TouchedGrows, FindsNothing
<1>2. Unguarded(k)'
  BY <1>0, <1>1 DEF Aware, Unguarded
<1>3. ASSUME k \in Runs PROVE Fresh(k)' /\ Swept(k)' /\ Promoted(k)'
  <2>1. Promoted(k)'
    BY <1>0, <1>1, <1>3 DEF Aware, Promoted
  <2>2. Swept(k)'
    BY <1>1, <1>3 DEF Aware, Swept, LiveOf, Live
  <2>3. Fresh(k)'
    BY <1>1, <1>3 DEF Aware, Fresh, Live, Exists, IInv, TypeInv, RunShape
  <2> QED BY <2>1, <2>2, <2>3
<1> QED BY <1>2, <1>3 DEF Aware

\* remember() adds a draft, which no call has found or chosen.
LEMMA RememberAware ==
  ASSUME IInv, PlainInv, PlainInv', NoteWrites, AwareInv, NEW t \in Turns, Remember(t)
  PROVE  AwareInv' /\ RowsCared
<1>0. UNCHANGED <<runs, evictor>> /\ t1 \in [Records -> Row] /\ Blank
  BY DEF IInv, TypeInv, TypeOK, StoresTypeOK, Remember, runVars, PlainInv
<1>1. UNCHANGED vault
  BY DEF Remember, WriteNext, RememberAppend, RememberPush, RememberStore, RememberStage,
         RememberFails, storeVars
<1>2. UNCHANGED t1 \/ \E r \in Unused : t1' = [t1 EXCEPT ![r] = ProvisionalRow(t)]
  BY DEF Remember, WriteNext, RememberAppend, RememberPush, RememberStore, RememberStage,
         RememberFails, UpsertWithVector, storeVars
<1>3. /\ ~ ProvisionalRow(t).high
      /\ ProvisionalRow(t).safety => ProvisionalRow(t).prot
  BY DEF ProvisionalRow, NoRow
<1>4. \A r \in Records :
        \/ t1'[r] = t1[r]
        \/ r \in Unused /\ ~ t1'[r].high /\ (t1'[r].safety => t1'[r].prot)
  BY <1>0, <1>2, <1>3 DEF Unused
<1>5. RowsCared
  BY <1>0, <1>4, SameRow, RowAppears DEF RowsCared
<1>6. \A k \in Evictors : Aware(k)'
  BY <1>0, <1>1, <1>4, AwareStands DEF AwareInv, Unused
<1> QED BY <1>5, <1>6 DEF AwareInv

\* An eviction step: its victim is not protected, or the call is behind on it.
LEMMA EvictAware ==
  ASSUME IInv, PlainInv, PlainInv', NoteWrites, AwareInv, NEW k \in Evictors, EvictStep(k)
  PROVE  AwareInv' /\ RowsCared
<1>0. /\ t1 \in [Records -> Row] /\ evictor \in [Evictors -> EvictorType]
      /\ evictor[k] \in EvictorType /\ Aware(k)
  BY DEF IInv, TypeInv, TypeOK, StoresTypeOK, ForgetTypeOK, AwareInv
<1>1. /\ Evicting(k) /\ UNCHANGED runs /\ UNCHANGED vault /\ (UNCHANGED t1 \/ Retires(k))
      /\ \E e : evictor' = [evictor EXCEPT ![k] = e] /\ EvictorAfter(k, e)
  BY EvictorMoves DEF PlainInv
<1>2. PICK e : evictor' = [evictor EXCEPT ![k] = e] /\ EvictorAfter(k, e)
  BY <1>1
<1>3. Moves(k)
  BY EvictorStepMoves DEF IInv, TypeInv, TypeOK
<1>4. \A r \in Records :
        \/ t1'[r] = t1[r]
        \/ /\ r \in evictor[k].victims
           /\ t1'[r].prot = t1[r].prot /\ t1'[r].safety = t1[r].safety
           /\ t1'[r].high = t1[r].high /\ t1'[r].prov = t1[r].prov
           /\ t1'[r].by = t1[r].by /\ t1'[r].pending = t1[r].pending
  <2>1. CASE Retires(k)
    <3>1. PICK v \in evictor[k].victims : Update(v, [t1[v] EXCEPT !.status = "retired"])
      BY <2>1 DEF Retires
    <3>2. v \in Records /\ t1[v] \in Row
      BY <1>0 DEF EvictorType
    <3> DEFINE row == [t1[v] EXCEPT !.status = "retired"]
    <3>3. /\ row.by = t1[v].by /\ row.prot = t1[v].prot /\ row.pending = t1[v].pending
          /\ row.safety = t1[v].safety /\ row.high = t1[v].high /\ row.prov = t1[v].prov
      BY <3>2 DEF Row
    <3>4. t1' = [t1 EXCEPT ![v] = row]
      BY <3>1 DEF Update
    <3> HIDE DEF row
    <3> QED BY <1>0, <3>1, <3>2, <3>3, <3>4
  <2> QED BY <1>1, <2>1
<1>5. RowsCared
  <2>1. ASSUME NEW r \in Records, r \in evictor[k].victims, ~ Behind(r)
        PROVE  ~ t1[r].prot
    BY <1>0, <1>3, <2>1 DEF Aware, Unguarded, Behind
  <2> QED BY <1>4, <2>1, SameRow DEF RowsCared, Cared
<1>6. Aware(k)'
  <2> SUFFICES ASSUME k \in Active' PROVE Aware(k)'
    BY AwareAtRest
  <2>1. touched[k] \subseteq touched'[k]
    BY <1>1, TouchedGrows, FindsNothing
  <2>2. evictor'[k] = e /\ \A r \in Records : /\ t1'[r].prot = t1[r].prot
                                              /\ t1'[r].high = t1[r].high
                                              /\ t1'[r].prov = t1[r].prov
    BY <1>0, <1>2, <1>4
  <2>3. Unguarded(k)'
    BY <1>0, <1>2, <2>1, <2>2 DEF Aware, Unguarded, EvictorAfter, EvictorType
  <2>4. ASSUME k \in Runs PROVE Fresh(k)' /\ Swept(k)' /\ Promoted(k)'
    <3>1. runs'[k].pc = "evict"
      BY <1>1, <2>4 DEF PlainInv, EvictorRests
    <3>2. Promoted(k)'
      <4>1. ASSUME NEW r \in e.victims \cup ({e.victim} \ {None})
            PROVE  r \in evictor[k].victims \cup ({evictor[k].victim} \ {None}) /\ r \in Records
        BY <1>0, <1>2, <4>1 DEF EvictorAfter, EvictorType
      <4> QED BY <1>0, <1>1, <2>1, <2>2, <2>4, <4>1 DEF Aware, Promoted
    <3> QED BY <3>1, <3>2 DEF Fresh, Swept
  <2> QED BY <2>3, <2>4 DEF Aware
<1>7. ASSUME NEW j \in Evictors, j # k PROVE Aware(j)'
  <2>1. evictor'[j] = evictor[j] /\ (j \in Runs => runs'[j] = runs[j])
    BY <1>0, <1>1, <1>2, <1>7
  <2> QED BY <1>1, <1>3, <1>7, <2>1, AwareStands DEF AwareInv
<1> QED BY <1>5, <1>6, <1>7 DEF AwareInv

\* A run's step: it writes over what it has read, or it is behind on the row.
LEMMA ConsolidateCares ==
  ASSUME IInv, PlainInv, AwareInv, NEW c \in Runs, Consolidate(c)
  PROVE  RowsCared
<1> DEFINE near == runs[c].near
<1>0. /\ t1 \in [Records -> Row] /\ Blank /\ SuccessorExists /\ RunRests(c) /\ Fresh(c)
      /\ Moves(c) /\ c \in Evictors
  BY RunStepMoves DEF IInv, StoreInv, TypeInv, TypeOK, StoresTypeOK, PlainInv, AwareInv, Aware,
                  Evictors
<1>1. ~ Behind(near) => near \notin touched[c]
  BY <1>0 DEF Behind
<1>2. \A over : ConfirmedRow(c, over).safety => ConfirmedRow(c, over).prot
  BY <1>0 DEF ConfirmedRow, NoRow, RunRests
<1>3. CASE UNCHANGED t1
  BY <1>3, SameRow DEF RowsCared
<1>4. CASE RowAdded(c)
  <2>1. PICK r \in Unused : Writes(r, ConfirmedRow(c, None))
    BY <1>4 DEF RowAdded
  <2>2. r \in Records /\ (t1'[r].safety => t1'[r].prot) /\ \A q \in Records : q # r => t1'[q] = t1[q]
    BY <1>2, <2>1 DEF Writes, Unused
  <2> QED BY <1>0, <2>2, SameRow, RowAppears DEF RowsCared
<1>5. CASE RowRewritten(c)
  <2>1. PICK row : Writes(near, row) /\ RewrittenRow(c, row)
    BY <1>5 DEF RowRewritten
  <2>2. near \in Records /\ t1'[near] = row /\ \A q \in Records : q # near => t1'[q] = t1[q]
    BY <1>5, <2>1 DEF RowRewritten, Writes
  <2>3. ASSUME ~ Behind(near) PROVE Cared(near)
    <3>1. runs[c].seen = t1[near]
      BY <1>0, <1>1, <1>5, <2>3 DEF RowRewritten, Fresh
    <3> QED BY <1>0, <2>1, <2>2, <3>1 DEF RewrittenRow, Cared, Live, RunRests
  <2> QED BY <2>2, <2>3, SameRow DEF RowsCared
<1>6. CASE RowReplaced(c)
  <2>1. PICK r \in Unused : \A q \in Records :
          t1'[q] = IF q = r THEN ConfirmedRow(c, near)
                   ELSE IF q = near
                   THEN [t1[q] EXCEPT !.status = "retired", !.by = r]
                   ELSE t1[q]
    BY <1>6 DEF RowReplaced
  <2>2. /\ near \in Records /\ Exists(near) /\ ~ runs[c].seen.prot /\ runs[c].pc = "judge"
        /\ r \in Records /\ r # near
    BY <1>6 DEF RowReplaced, Gated, Unused, Exists
  <2> DEFINE gone == [t1[near] EXCEPT !.status = "retired", !.by = r]
  <2>3. /\ gone.prot = t1[near].prot /\ gone.safety = t1[near].safety
        /\ gone.pending = t1[near].pending
    BY <1>0, <2>2 DEF Row
  <2>4. t1'[near] = gone
    BY <2>1, <2>2
  <2>5. t1'[r].safety => t1'[r].prot
    BY <1>2, <2>1, <2>2
  <2> HIDE DEF gone
  <2>6. ASSUME ~ Behind(near) PROVE Cared(near)
    <3>1. runs[c].seen = t1[near] /\ Live(near)
      BY <1>0, <1>1, <2>2, <2>6 DEF Fresh
    <3>2. ~ t1[near].prot /\ t1[near].by = None
      BY <1>0, <2>2, <3>1 DEF SuccessorExists, Live
    <3> QED BY <2>3, <2>4, <3>2 DEF Cared
  <2>7. \A q \in Records : q # r /\ q # near => t1'[q] = t1[q]
    BY <2>1
  <2> QED BY <1>0, <2>2, <2>5, <2>6, <2>7, SameRow, RowAppears DEF RowsCared
<1> QED BY <1>3, <1>4, <1>5, <1>6, RowsAfter

LEMMA ConsolidateAware ==
  ASSUME IInv, PlainInv, PlainInv', NoteWrites, AwareInv, NEW c \in Runs, Consolidate(c)
  PROVE  AwareInv'
<1> DEFINE run == runs[c]
<1>0. /\ RunTypeOK /\ runs \in [Runs -> RunType] /\ evictor \in [Evictors -> EvictorType]
      /\ c \in Evictors /\ Aware(c)
  BY DEF IInv, TypeInv, TypeOK, RunTypeOK, ForgetTypeOK, Evictors, AwareInv
<1>1. /\ ~ Evicting(c)
      /\ \/ UNCHANGED evictor
         \/ /\ run.pc = "decay" /\ runs'[c].pc = "evict" /\ runs'[c].near = run.near
            /\ UNCHANGED <<t1, vault>>
            /\ \E low \in SUBSET DecayCandidates(run.uid) : StartEviction(c, low)
  BY <1>0, RunMovesAlone DEF PlainInv
<1>2. PICK s : runs' = [runs EXCEPT ![c] = s] /\ GoesTo(c, s)
  BY <1>0, RunAfter
<1>3. runs'[c] = s /\ evictor[c] = IdleEvictor /\ Moves(c)
  BY <1>0, <1>1, <1>2, RunStepMoves DEF PlainInv, EvictorRests
<1>4. Aware(c)'
  <2> SUFFICES ASSUME c \in Active' PROVE Aware(c)'
    BY <1>0, AwareAtRest
  <2>1. touched[c] \ Finds(c) \subseteq touched'[c]
    BY <1>0, TouchedGrows
  <2>2. Fresh(c)'
    <3>1. CASE s.pc = "judge"
      <4>1. s.near = run.near /\ run.pc = "fetch" /\ UNCHANGED t1 /\ s.seen = t1[s.near]
        BY <1>2, <3>1 DEF GoesTo, ReadsAfter
      <4>2. s.near \notin Finds(c)
        BY <1>3, <3>1, <4>1 DEF Finds
      <4>3. s.near \in touched[c] => s.near \in touched'[c]
        BY <2>1, <4>2
      <4> QED BY <1>0, <1>3, <3>1, <4>1, <4>3 DEF Aware, Fresh, Live
    <3>2. CASE s.pc # "judge"
      BY <1>2, <1>3, <3>2 DEF Fresh, GoesTo, ReadsAfter, Live
    <3> QED BY <3>1, <3>2
  <2>3. Swept(c)'
    <3>1. CASE s.pc = "decay"
      <4>1. UNCHANGED t1 /\ AllReadable(s.uid) /\ vault' = vault \cup Promotable(s.uid)
        BY <1>2, <3>1 DEF GoesTo, ReadsAfter
      <4>2. \A r \in LiveOf(s.uid) : t1[r].high /\ ~ t1[r].prov => r \in vault'
        BY <4>1 DEF AllReadable, Promotable
      <4> QED BY <1>3, <4>1, <4>2 DEF Swept, LiveOf, Live
    <3> QED BY <1>3, <3>1 DEF Swept
  <2>4. Unguarded(c)' /\ Promoted(c)'
    <3>1. CASE UNCHANGED evictor
      BY <1>3, <3>1 DEF Unguarded, Promoted, IdleEvictor
    <3>2. ASSUME run.pc = "decay", runs'[c].near = run.near, UNCHANGED <<t1, vault>>,
                 NEW low \in SUBSET DecayCandidates(run.uid), StartEviction(c, low)
          PROVE  Unguarded(c)' /\ Promoted(c)'
      <4>1. evictor'[c].victims \subseteq low /\ evictor'[c].victim = None
        BY <1>0, <3>2 DEF StartEviction, IdleEvictor
      <4>2. \A r \in low : /\ ~ t1[r].prot
                           /\ t1[r].high /\ ~ t1[r].prov => r \in vault \cup touched[c]
        BY <1>0, <3>2 DEF DecayCandidates, Aware, Swept
      <4>3. touched[c] \subseteq touched'[c]
        BY <2>1, <3>2 DEF Finds
      <4> QED BY <3>2, <4>1, <4>2, <4>3 DEF Unguarded, Promoted
    <3> QED BY <1>1, <3>1, <3>2
  <2> QED BY <2>2, <2>3, <2>4 DEF Aware
<1>5. ASSUME NEW j \in Evictors, j # c PROVE Aware(j)'
  <2>1. evictor'[j] = evictor[j] /\ (j \in Runs => runs'[j] = runs[j])
    BY <1>0, <1>1, <1>2, <1>5 DEF StartEviction
  <2>2. Aware(j) /\ c \in Evictors \ {j}
    BY <1>0, <1>5 DEF AwareInv
  <2>3. CASE UNCHANGED vault
    BY <1>3, <2>1, <2>2, <2>3, AwareStands
  <2>4. CASE ~ UNCHANGED vault
    <3>1. vault \subseteq vault' /\ UNCHANGED t1
      BY <1>0, <2>4 DEF Consolidate, RunStep, Extract, TakeItem, Reconcile, Search, Fetch, InsertNew, Insert,
         Refine, MarkPending, SupersedeOld, InsertDistinct, FinishTurn, PromoteUser, DecayScan,
         FinishUser, VaultPromote, storeVars
    <3>2. CASE j \in Active'
      <4>1. touched[j] \subseteq touched'[j]
        BY <2>1, <3>2, TouchedGrows, FindsNothing
      <4> QED BY <2>1, <2>2, <3>1, <4>1 DEF Aware, Unguarded, Fresh, Swept, Promoted, LiveOf, Live
    <3> QED BY <3>2, AwareAtRest
  <2> QED BY <2>3, <2>4
<1> QED BY <1>4, <1>5 DEF AwareInv

\* A call starts, fails, or dies with the process.
LEMMA CallsAware ==
  ASSUME IInv, PlainInv, PlainInv', NoteWrites, AwareInv, CallsMove
  PROVE  AwareInv' /\ RowsCared
<1>0. /\ runs \in [Runs -> RunType] /\ evictor \in [Evictors -> EvictorType]
      /\ UNCHANGED t1 /\ UNCHANGED vault
  BY RowsStand DEF IInv, TypeInv, TypeOK, RunTypeOK, ForgetTypeOK
<1>1. RowsCared
  BY <1>0, SameRow DEF RowsCared
<1>2. ASSUME NEW k \in Evictors, evictor'[k] = evictor[k], k \in Runs => runs'[k] = runs[k]
      PROVE  Aware(k)'
  BY <1>0, <1>2, AwareStands DEF AwareInv
<1>3. ASSUME NEW k \in Evictors, evictor'[k] = IdleEvictor, k \in Runs => runs'[k] = IdleRun
      PROVE  Aware(k)'
  BY <1>3 DEF Aware, Unguarded, Fresh, Swept, Promoted, IdleEvictor, IdleRun
<1>4. ASSUME NEW c \in Runs, NEW s \in Scopes, StartRun(c, s)
      PROVE  AwareInv'
  <2>1. /\ UNCHANGED evictor /\ runs[c].pc = "idle" /\ c \in Evictors
        /\ \A d \in Runs : d # c => runs'[d] = runs[d]
        /\ runs'[c].pc = "idle" \/ runs'[c].pc = "extract" \/ runs'[c].pc = "sweep"
    BY <1>0, <1>4 DEF StartRun, Drain, IdleRun, Evictors, Running
  <2>2. evictor'[c] = IdleEvictor
    BY <2>1 DEF PlainInv, EvictorRests
  <2>3. Aware(c)'
    BY <2>1, <2>2 DEF Aware, Unguarded, Fresh, Swept, Promoted, IdleEvictor
  <2> QED BY <1>2, <2>1, <2>3 DEF AwareInv
<1>5. ASSUME NEW k \in Calls, NEW low, StartEviction(k, low), UNCHANGED runs,
             \A r \in low : ~ t1[r].prot
      PROVE  AwareInv'
  <2>1. k \in Evictors /\ k \notin Runs
    BY StoresAssumption DEF Evictors
  <2>2. evictor'[k].victims \subseteq low /\ \A j \in Evictors : j # k => evictor'[j] = evictor[j]
    BY <1>0, <1>5, <2>1 DEF StartEviction, IdleEvictor
  <2>3. Aware(k)'
    BY <1>0, <1>5, <2>1, <2>2 DEF Aware, Unguarded
  <2> QED BY <1>2, <1>5, <2>2, <2>3 DEF AwareInv
<1>6. CASE \E k \in Calls, u \in Users, r \in Records : StartForget(k, u, r)
  <2>1. PICK k \in Calls, u \in Users, r \in Records : StartForget(k, u, r)
    BY <1>6
  <2>2. StartEviction(k, {r}) /\ UNCHANGED runs /\ ~ t1[r].prot
    BY <2>1 DEF StartForget, Forget, runVars
  <2>3. \A q \in {r} : ~ t1[q].prot
    BY <2>2
  <2> QED BY <1>1, <1>5, <2>2, <2>3
<1>7. CASE \E k \in Calls, u \in Users : StartEvict(k, u)
  <2>1. PICK k \in Calls, u \in Users : StartEvict(k, u)
    BY <1>7
  <2>2. UNCHANGED runs /\ \E low \in SUBSET DecayCandidates(u) : StartEviction(k, low)
    BY <2>1 DEF StartEvict, Evict, runVars
  <2> QED BY <1>1, <1>5, <2>2 DEF DecayCandidates
<1>8. CASE \/ \E k \in Calls : CallFails(k)
           \/ \E c \in Runs : ConsolidateFails(c)
           \/ Crash
           \/ UNCHANGED vars
  <2>1. \A k \in Evictors :
          \/ evictor'[k] = evictor[k] /\ (k \in Runs => runs'[k] = runs[k])
          \/ evictor'[k] = IdleEvictor /\ (k \in Runs => runs'[k] = IdleRun)
    BY <1>0, <1>8, StoresAssumption DEF CallFails, EvictionFails, ConsolidateFails, RunFails,
       Abort, Crash, RunCrash, ForgetCrash, runVars, vars, Evictors
  <2> QED BY <1>1, <1>2, <1>3, <2>1 DEF AwareInv
<1> QED BY <1>1, <1>4, <1>6, <1>7, <1>8 DEF CallsMove

LEMMA InitAware == ContentionInit => AwareInv
BY DEF ContentionInit, Init, ForgetInit, RunInit, AwareInv, Aware, Unguarded, Fresh, Swept,
       Promoted, IdleEvictor, IdleRun, Evictors

LEMMA NextAware ==
  ASSUME IInv, PlainInv, PlainInv', AwareInv, [ContentionNext]_contentionVars
  PROVE  AwareInv' /\ (UNCHANGED contentionVars \/ RowsCared)
<1>1. CASE ContentionNext
  <2>1. NoteWrites /\ [Next]_vars
    BY <1>1 DEF ContentionNext
  <2> QED BY <2>1, StepsOf, RememberAware, EvictAware, ConsolidateAware, ConsolidateCares,
             CallsAware
<1>2. CASE UNCHANGED contentionVars
  BY <1>2 DEF contentionVars, vars, storeVars, runVars, AwareInv, Aware, Unguarded, Fresh,
     Swept, Promoted, LiveOf, Live
<1> QED BY <1>1, <1>2

Always == IInv /\ TenantInv /\ PlainInv

LEMMA AlwaysPlain == Spec => []Always
<1>1. Init => Always
  BY InitKnows, InitOwns, InitPlain DEF Always
<1>2. Always /\ [Next]_vars => Always'
  BY NextKeeps, NextOwns, NextPlain DEF Always
<1> QED BY <1>1, <1>2, PTL DEF Spec

LEMMA AlwaysAware == ContentionSpec => [](Always /\ AwareInv) /\ [][RowsCared]_contentionVars
<1>1. ContentionInit => Init /\ AwareInv
  BY InitAware DEF ContentionInit
<1>2. [ContentionNext]_contentionVars => [Next]_vars
  BY DEF ContentionNext, contentionVars
<1>3. ContentionSpec => Spec
  BY <1>1, <1>2, PTL DEF ContentionSpec, Spec
<1>4. /\ Always /\ Always' /\ AwareInv /\ [ContentionNext]_contentionVars
      => AwareInv' /\ (UNCHANGED contentionVars \/ RowsCared)
  BY NextAware DEF Always
<1> QED BY <1>1, <1>3, <1>4, AlwaysPlain, PTL DEF ContentionSpec

(***************************************************************************)
(* The results, for any number of calls in flight, failures and crashes.   *)
(***************************************************************************)

\* No step retires a protected row, unless its call is behind on the row (FORG-03), ...
THEOREM ProtectedKept == ContentionSpec => ProtectedUnlessBehind
<1>1. RowsCared => \A r \in Records : Live(r) /\ t1[r].prot /\ ~ Behind(r)
                                        => t1'[r].status = "live"
  BY DEF RowsCared, Cared
<1> QED BY <1>1, AlwaysAware, PTL DEF ProtectedUnlessBehind

\* ... none clears the protected flag (T-02-11, WR-01) ...
THEOREM ProtectionKept == ContentionSpec => FlagUnlessBehind
<1>1. RowsCared => \A r \in Records : t1[r].prot /\ ~ Behind(r) => t1'[r].prot
  BY DEF RowsCared, Cared
<1> QED BY <1>1, AlwaysAware, PTL DEF FlagUnlessBehind

\* ... none leaves content with a safety keyword unprotected, whichever of the write,
\* reconcile, refine, insert and supersede paths puts it there (D-05) ...
THEOREM SafetyPinned == ContentionSpec => SafetyUnlessBehind
<1>1. RowsCared => \A r \in Records : t1'[r].safety /\ ~ t1'[r].prot /\ ~ Behind(r)
                                        => t1[r].safety /\ ~ t1[r].prot
  BY DEF RowsCared, Cared
<1> QED BY <1>1, AlwaysAware, PTL DEF SafetyUnlessBehind

\* ... none gives a record a second successor (CONS-04) ...
THEOREM SuccessorsUnique == ContentionSpec => SuccessorUnlessBehind
<1>1. RowsCared => \A r \in Records : t1[r].by # None /\ ~ Behind(r) => t1'[r].by = t1[r].by
  BY DEF RowsCared, Cared
<1> QED BY <1>1, AlwaysAware, PTL DEF SuccessorUnlessBehind

\* ... and none drops an unresolved contradiction from the audit trail (CONS-08).
THEOREM TrailKept == ContentionSpec => TrailUnlessBehind
<1>1. RowsCared => \A r \in Records : ~ Behind(r) => t1[r].pending \subseteq t1'[r].pending
  BY DEF RowsCared, Cared
<1> QED BY <1>1, AlwaysAware, PTL DEF TrailUnlessBehind

\* A consolidation run evicts no confirmed, high-salience record that its first loop has
\* not put into the vault, unless another call wrote it during the run (Pitfall 8).
THEOREM PromotionFirst == ContentionSpec => []PromotedUnlessBehind
<1>1. AwareInv => PromotedUnlessBehind
  BY DEF AwareInv, Aware, Promoted, PromotedUnlessBehind, Evictors
<1> QED BY <1>1, AlwaysAware, PTL

-----------------------------------------------------------------------------
(***************************************************************************)
(* The eviction logs, however many evictions overlap.                      *)
(***************************************************************************)

\* The step that may leave a retired record unlogged.
LogLost(r) ==
  \/ Crash
  \/ \E k \in Evictors : /\ evictor[k].victim = r
                         /\ CallFails(k) \/ (k \in Runs /\ ConsolidateFails(k))

\* A step that retires r with a successor at most, and leaves the evictions that are at it.
LEMMA LoggedKept ==
  ASSUME NEW r \in Records, Accounted(r), archived \subseteq archived', audited \subseteq audited',
         t1'[r].status = "retired" /\ t1'[r].by = None
           => t1[r].status = "retired" /\ t1[r].by = None,
         \A k \in Evictors : evictor'[k] = evictor[k] \/ evictor[k].victim # r
  PROVE  Accounted(r)'
BY DEF Accounted

\* A call that rests is at no record.
LEMMA RestsAtNone ==
  ASSUME PlainInv, NEW k \in Evictors, ~ Evicting(k), NEW r \in Records
  PROVE  evictor[k].victim # r
BY StoresAssumption DEF PlainInv, EvictorRests, IdleEvictor

LEMMA EvictLogs ==
  ASSUME IInv, PlainInv, NEW r \in Records, Accounted(r), NEW k \in Evictors, EvictStep(k)
  PROVE  Accounted(r)'
<1> DEFINE e == evictor[k]
<1>0. /\ evictor \in [Evictors -> EvictorType] /\ e \in EvictorType /\ t1 \in [Records -> Row]
      /\ VictimKnown(k)
  BY DEF IInv, TypeInv, TypeOK, ForgetTypeOK, StoresTypeOK
<1>1. CASE RetireVictim(k)
  <2>1. PICK v \in e.victims :
          /\ Update(v, [t1[v] EXCEPT !.status = "retired"])
          /\ evictor' = [evictor EXCEPT ![k] = [pc |-> "unvector", victim |-> v,
                                                victims |-> e.victims \ {v}]]
    BY <1>1 DEF RetireVictim
  <2>2. v \in Records /\ evictor'[k].victim = v
    BY <1>0, <2>1 DEF EvictorType
  <2>3. CASE r = v
    BY <2>2, <2>3 DEF Accounted
  <2>4. CASE r # v
    <3>1. t1'[r] = t1[r] /\ UNCHANGED <<archived, audited>>
      BY <1>0, <1>1, <2>1, <2>2, <2>4 DEF Update, RetireVictim
    <3>2. evictor[k].victim # r
      BY <1>1, StoresAssumption DEF PlainInv, EvictorRests, RetireVictim
    <3>3. \A j \in Evictors : j # k => evictor'[j] = evictor[j]
      BY <1>0, <2>1
    <3> QED BY <3>1, <3>2, <3>3, LoggedKept
  <2> QED BY <2>3, <2>4
<1>2. CASE DeleteVector(k) \/ ArchiveVictim(k)
  <2>1. UNCHANGED <<t1, audited>> /\ archived \subseteq archived'
    BY <1>2 DEF DeleteVector, ArchiveVictim, T0Archive
  <2>2. \A j \in Evictors : evictor'[j].victim = evictor[j].victim
    BY <1>0, <1>2 DEF DeleteVector, ArchiveVictim, EvictorType
  <2> QED BY <2>1, <2>2 DEF Accounted
<1>3. CASE AuditVictim(k)
  <2>1. UNCHANGED <<t1, archived>> /\ audited' = audited \cup {e.victim} /\ e.victim \in archived
    BY <1>0, <1>3 DEF AuditVictim, T0AppendAudit, VictimKnown
  <2>2. \A j \in Evictors : j # k => evictor'[j] = evictor[j]
    BY <1>0, <1>3 DEF AuditVictim, StartEviction
  <2> QED BY <2>1, <2>2 DEF Accounted
<1> QED BY <1>1, <1>2, <1>3 DEF EvictStep, EvictionStep

LEMMA NextLogs ==
  ASSUME IInv, PlainInv, NEW r \in Records, Accounted(r), ~ LogLost(r), [Next]_vars
  PROVE  Accounted(r)'
<1>0. evictor \in [Evictors -> EvictorType] /\ t1 \in [Records -> Row]
  BY DEF IInv, TypeInv, TypeOK, ForgetTypeOK, StoresTypeOK
<1> DEFINE SameRetired == t1'[r].status = "retired" /\ t1'[r].by = None
                            => t1[r].status = "retired" /\ t1[r].by = None
           Resumed == \A k \in Evictors : evictor'[k] = evictor[k] \/ evictor[k].victim # r
<1>1. ASSUME NEW t \in Turns, Remember(t) PROVE Accounted(r)'
  <2>1. UNCHANGED <<archived, audited, evictor>>
    BY <1>1 DEF Remember, WriteNext, RememberAppend, RememberPush, RememberStore, RememberStage,
                RememberFails, storeVars
  <2>2. UNCHANGED t1 \/ \E q \in Unused : t1' = [t1 EXCEPT ![q] = ProvisionalRow(t)]
    BY <1>1 DEF Remember, WriteNext, RememberAppend, RememberPush, RememberStore, RememberStage,
                RememberFails, UpsertWithVector, storeVars
  <2>3. ProvisionalRow(t).status = "live"
    BY DEF ProvisionalRow, NoRow
  <2>4. SameRetired
    BY <1>0, <2>2, <2>3 DEF Unused
  <2> QED BY <2>1, <2>4, LoggedKept
<1>2. ASSUME NEW c \in Runs, Consolidate(c) PROVE Accounted(r)'
  <2>1. UNCHANGED <<archived, audited>>
    BY <1>2 DEF Consolidate, RunStep, Extract, TakeItem, Reconcile, Search, Fetch, InsertNew,
                Insert, Refine, MarkPending, SupersedeOld, InsertDistinct, FinishTurn,
                PromoteUser, DecayScan, FinishUser, storeVars
  <2>2. Resumed
    <3>1. c \in Evictors /\ RunTypeOK
      BY DEF Evictors, IInv, TypeInv, TypeOK
    <3>2. /\ ~ Evicting(c)
          /\ UNCHANGED evictor \/ \E low : StartEviction(c, low)
      BY <1>2, <3>1, RunMovesAlone DEF PlainInv
    <3>3. evictor[c].victim # r
      BY <3>1, <3>2, RestsAtNone
    <3> QED BY <1>0, <3>2, <3>3 DEF StartEviction
  <2>3. SameRetired
    <3>1. \A over : ConfirmedRow(c, over).status = "live"
      BY DEF ConfirmedRow, NoRow
    <3>2. CASE RowRewritten(c)
      BY <3>2 DEF RowRewritten, Writes, RewrittenRow
    <3>3. CASE RowAdded(c)
      BY <3>1, <3>3 DEF RowAdded, Writes
    <3>4. CASE RowReplaced(c)
      <4>1. PICK n \in Unused : \A q \in Records :
              t1'[q] = IF q = n THEN ConfirmedRow(c, runs[c].near)
                       ELSE IF q = runs[c].near
                       THEN [t1[q] EXCEPT !.status = "retired", !.by = n]
                       ELSE t1[q]
        BY <3>4 DEF RowReplaced
      <4>2. n # None
        BY StoresAssumption DEF Unused
      <4>3. \A q \in Records : [t1[q] EXCEPT !.status = "retired", !.by = n].by = n
        BY <1>0 DEF Row
      <4> QED BY <3>1, <4>1, <4>2, <4>3
    <3> QED BY <1>2, <3>2, <3>3, <3>4, RowsAfter
  <2> QED BY <2>1, <2>2, <2>3, LoggedKept
<1>3. CASE CallsMove
  <2>1. UNCHANGED <<t1, archived, audited>>
    BY <1>3, RowsStand
  <2>2. ASSUME NEW k \in Calls, NEW low, ~ Evicting(k), StartEviction(k, low) PROVE Resumed
    <3>1. k \in Evictors /\ evictor[k].victim # r
      BY <2>2, RestsAtNone DEF Evictors
    <3> QED BY <1>0, <2>2, <3>1 DEF StartEviction
  <2>3. Resumed
    <3>1. CASE \/ \E c \in Runs, s \in Scopes : StartRun(c, s)
               \/ UNCHANGED vars
      BY <3>1 DEF StartRun, Drain, vars
    <3>2. CASE \/ \E k \in Calls, u \in Users, q \in Records : StartForget(k, u, q)
               \/ \E k \in Calls, u \in Users : StartEvict(k, u)
      BY <2>2, <3>2 DEF StartForget, Forget, StartEvict, Evict
    <3>3. CASE \/ \E k \in Calls : CallFails(k)
               \/ \E c \in Runs : ConsolidateFails(c)
               \/ Crash
      BY <1>0, <3>3 DEF LogLost, CallFails, EvictionFails, ConsolidateFails, RunFails, Evictors
    <3> QED BY <1>3, <3>1, <3>2, <3>3 DEF CallsMove
  <2> QED BY <2>1, <2>3, LoggedKept
<1> QED BY <1>1, <1>2, <1>3, StepsOf, EvictLogs

\* What is retired without a successor ends up archived and audited (FORG-02, FORG-04),
\* however many forget(), evict() and consolidate() overlap, unless the eviction that is
\* at it raises or the process dies.
THEOREM EvictionsLogged == Spec => EvictionsTracked
<1>1. Always /\ [Next]_vars
        => \A r \in Records : Accounted(r) /\ ~ Accounted(r)' => LogLost(r)
  BY NextLogs DEF Always
<1> QED BY <1>1, AlwaysPlain, PTL DEF Spec, EvictionsTracked, LogLost

-----------------------------------------------------------------------------
(***************************************************************************)
(* Where a staged turn is, and how it can be lost.                         *)
(***************************************************************************)
TurnLost(t) ==
  \/ Crash
  \/ \E c \in Runs : Taken(c, t) /\ Dies(c)
  \/ \E c \in Runs, s \in Users \ {Input[t].user} : StartRun(c, s)

LEMMA RememberTracks ==
  ASSUME TypeOK, NEW u \in Turns, Tracked(u), NEW t \in Turns, Remember(t)
  PROVE  Tracked(u)'
<1>0. /\ queue \in Seq(Turns) /\ write \in [Turns -> WriteStates]
      /\ UNCHANGED <<runs, processed>>
  BY DEF TypeOK, StoresTypeOK, WriteTypeOK, Remember, runVars
<1>1. \/ queue' = Append(queue, t) /\ write' = [write EXCEPT ![t] = "done"]
      \/ UNCHANGED queue /\ \E s : s # "done" /\ write' = [write EXCEPT ![t] = s]
  BY DEF Remember, WriteNext, RememberAppend, RememberPush, RememberStore, RememberStage,
         RememberFails, storeVars
<1>2. Queued(u) => Queued(u)'
  BY <1>0, <1>1 DEF Queued
<1>3. write'[u] = "done" => write[u] = "done" \/ Queued(u)'
  <2>1. CASE queue' = Append(queue, t) /\ write' = [write EXCEPT ![t] = "done"]
    <3>1. Len(queue) + 1 \in DOMAIN queue' /\ queue'[Len(queue) + 1] = t
      BY <1>0, <2>1
    <3> QED BY <1>0, <2>1, <3>1 DEF Queued
  <2> QED BY <1>0, <1>1, <2>1
<1> QED BY <1>0, <1>2, <1>3 DEF Tracked, Taken

LEMMA EvictTracks ==
  ASSUME NEW t \in Turns, Tracked(t), NEW k \in Evictors, EvictStep(k)
  PROVE  Tracked(t)'
<1>1. UNCHANGED <<runs, processed, queue, write>>
  BY DEF EvictStep, EvictionStep, RetireVictim, DeleteVector, ArchiveVictim, AuditVictim,
         runVars, writeVars
<1> QED BY <1>1 DEF Tracked, Queued, Taken

LEMMA ConsolidateTracks ==
  ASSUME IInv, PlainInv, NEW t \in Turns, Tracked(t), ~ TurnLost(t), NEW c \in Runs, Consolidate(c)
  PROVE  Tracked(t)'
<1> DEFINE old == runs[c]
<1>0. /\ runs \in [Runs -> RunType] /\ RunTypeOK /\ RunRests(c) /\ old.items \in Seq(Turns)
  BY RunFields DEF IInv, TypeInv, TypeOK, RunTypeOK, PlainInv
<1>1. PICK s : runs' = [runs EXCEPT ![c] = s] /\ GoesTo(c, s)
  BY <1>0, RunAfter
<1>2. runs'[c] = s /\ \A d \in Runs : d # c => runs'[d] = runs[d]
  BY <1>0, <1>1
<1>3. UNCHANGED <<write, queue>> /\ processed \subseteq processed'
  BY DEF Consolidate, RunStep, Extract, TakeItem, Reconcile, Search, Fetch, InsertNew, Insert,
         Refine, MarkPending, SupersedeOld, InsertDistinct, FinishTurn, PromoteUser, DecayScan,
         FinishUser, storeVars, writeVars
<1>4. ASSUME Taken(c, t) PROVE Taken(c, t)' \/ t \in processed'
  <2>1. CASE s.items = old.items
    BY <1>2, <1>4, <2>1 DEF Taken
  <2>2. CASE FinishTurn(c) /\ s.items = Tail(old.items)
    <3>1. PICK i \in DOMAIN old.items : old.items[i] = t
      BY <1>4 DEF Taken
    <3>2. CASE i = 1
      BY <1>0, <2>2, <3>1, <3>2 DEF FinishTurn, Turn
    <3>3. CASE i # 1
      <4>1. i - 1 \in DOMAIN Tail(old.items) /\ Tail(old.items)[i - 1] = t
        BY <1>0, <3>1, <3>3
      <4> QED BY <1>2, <2>2, <4>1 DEF Taken
    <3> QED BY <3>2, <3>3
  <2>3. CASE s = IdleRun /\ old.pc = "fetch" /\ ~ Readable(old.near)
    BY <1>1, <1>4, <2>3 DEF TurnLost, Dies, Abort
  <2>4. ~ (old.pc \in Sweeping)
    <3>1. DOMAIN <<>> = {}
      OBVIOUS
    <3> QED BY <1>0, <1>4, <3>1 DEF RunRests, Taken
  <2> QED BY <1>1, <2>1, <2>2, <2>3, <2>4 DEF GoesTo, TurnsAfter
<1>5. \A d \in Runs : Taken(d, t) => Taken(d, t)' \/ t \in processed'
  BY <1>2, <1>4 DEF Taken
<1> QED BY <1>3, <1>5 DEF Tracked, Queued

LEMMA CallsTrack ==
  ASSUME TypeOK, PlainInv, NEW t \in Turns, Tracked(t), ~ TurnLost(t), CallsMove
  PROVE  Tracked(t)'
<1>0. queue \in Seq(Turns) /\ runs \in [Runs -> RunType]
  BY DEF TypeOK, StoresTypeOK, RunTypeOK
<1>1. ASSUME NEW c \in Runs, NEW s \in Scopes, StartRun(c, s)
      PROVE  Tracked(t)'
  <2>1. s = None \/ Input[t].user = s
    BY <1>1, ConsolidationAssumption DEF TurnLost
  <2>2. /\ runs'[c].items = InScope(s, queue) /\ \A d \in Runs : d # c => runs'[d] = runs[d]
        /\ runs[c].pc = "idle" /\ UNCHANGED <<processed, write>>
    BY <1>0, <1>1 DEF StartRun, Drain, IdleRun, Running, writeVars
  <2>3. Queued(t) => Taken(c, t)'
    BY <1>0, <2>1, <2>2, DrainKeepsScope DEF Queued, Taken
  <2>4. \A d \in Runs : Taken(d, t) => Taken(d, t)'
    <3>1. runs[c].items = <<>> /\ DOMAIN <<>> = {}
      BY <2>2 DEF PlainInv, RunRests
    <3> QED BY <2>2, <3>1 DEF Taken
  <2> QED BY <2>2, <2>3, <2>4 DEF Tracked
<1>2. ASSUME NEW c \in Runs, ConsolidateFails(c)
      PROVE  Tracked(t)'
  <2>1. /\ ~ Taken(c, t) /\ UNCHANGED <<queue, processed, write>>
        /\ \A d \in Runs : d # c => runs'[d] = runs[d]
    BY <1>0, <1>2 DEF TurnLost, Dies, ConsolidateFails, RunFails, Abort, storeVars, writeVars
  <2> QED BY <2>1 DEF Tracked, Queued, Taken
<1>3. CASE UNCHANGED <<runs, queue, processed, write>>
  BY <1>3 DEF Tracked, Queued, Taken
<1> QED
  BY <1>1, <1>2, <1>3 DEF TurnLost, CallsMove, StartForget, Forget, StartEvict, Evict, CallFails,
     EvictionFails, storeVars, writeVars, runVars, vars

LEMMA NextTracks ==
  ASSUME IInv, PlainInv, NEW t \in Turns, Tracked(t), ~ TurnLost(t), [Next]_vars
  PROVE  Tracked(t)'
BY StepsOf, RememberTracks, EvictTracks, ConsolidateTracks, CallsTrack DEF IInv, TypeInv

\* A turn remember() has returned for stays in the queue or in a run until it is
\* processed, whatever overlaps, except in three ways: the process dies, the run that has
\* taken it raises, or a run for another user drains it.
THEOREM TurnsAccounted == Spec => TurnsTracked
<1>1. Always /\ [Next]_vars => \A t \in Turns : Tracked(t) /\ ~ Tracked(t)' => TurnLost(t)
  BY NextTracks DEF Always
<1> QED BY <1>1, AlwaysPlain, PTL DEF Spec, TurnsTracked, TurnLost
=============================================================================
