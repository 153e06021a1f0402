-------------------------- MODULE MnemaTypeProofs ---------------------------
(***************************************************************************)
(* Type correctness of Mnema, for all users, turns, records, runs, calls   *)
(* and inputs.  It begins with what draining the queue keeps: InScope is   *)
(* computed by recursion over the queue, and the facts about it are proved *)
(* by induction up to the queue's length.                                  *)
(***************************************************************************)
EXTENDS Mnema, RecursionLemmas

\* One step of the recursion of InScope.
KeptStep(q, s, f, n) ==
  IF n = 0 THEN <<>>
  ELSE IF s = None \/ Input[q[n]].user = s THEN Append(f[n - 1], q[n])
  ELSE f[n - 1]

\* InScope(s, q) is the last value of a function that satisfies its recursion, and the
\* values of that function are sequences of turns.
LEMMA InScopeUnfolds ==
  ASSUME NEW q \in Seq(Turns), NEW s
  PROVE  \E g \in [0..Len(q) -> Seq(Turns)] :
           /\ \A i \in 0..Len(q) : g[i] = KeptStep(q, s, g, i)
           /\ InScope(s, q) = g[Len(q)]
<1> DEFINE step == [p \in (1..Len(q)) \X Seq(Turns) |->
                      IF s = None \/ Input[q[p[1]]].user = s THEN Append(p[2], q[p[1]])
                      ELSE p[2]]
           F == CHOOSE f : f = [i \in 0..Len(q) |-> KeptStep(q, s, f, i)]
<1>0. Len(q) \in Nat
  OBVIOUS
<1>1. PICK g \in [0..Len(q) -> Seq(Turns)] : Recurs(g, Len(q), <<>>, step)
  <2>1. <<>> \in Seq(Turns) /\ step \in [(1..Len(q)) \X Seq(Turns) -> Seq(Turns)]
    OBVIOUS
  <2> HIDE DEF step
  <2> QED BY <1>0, <2>1, RecursionSolved
<1>2. \A i \in 0..Len(q) : g[i] = KeptStep(q, s, g, i)
  <2> SUFFICES ASSUME NEW i \in 0..Len(q) PROVE g[i] = KeptStep(q, s, g, i)
    OBVIOUS
  <2>1. CASE i = 0
    BY <1>1, <2>1 DEF Recurs, KeptStep
  <2>2. CASE i # 0
    <3>1. i \in 1..Len(q) /\ g[i - 1] \in Seq(Turns)
      BY <1>0, <2>2
    <3>2. g[i] = step[<<i, g[i - 1]>>]
      BY <1>1, <3>1 DEF Recurs
    <3> QED BY <2>2, <3>1, <3>2 DEF KeptStep
  <2> QED BY <2>1, <2>2
<1> HIDE DEF step
<1>3. g = [i \in 0..Len(q) |-> KeptStep(q, s, g, i)]
  BY <1>2
<1>4. F = [i \in 0..Len(q) |-> KeptStep(q, s, F, i)]
  BY <1>3
<1>5. InScope(s, q) = F[Len(q)]
  BY DEF InScope, KeptStep
<1> HIDE DEF F
<1>6. \A i \in 0..Len(q) : F[i] = KeptStep(q, s, F, i)
  <2> DEFINE G == [i \in 0..Len(q) |-> KeptStep(q, s, F, i)]
  <2>1. F = G
    BY <1>4
  <2>2. \A i \in 0..Len(q) : G[i] = KeptStep(q, s, F, i)
    OBVIOUS
  <2> HIDE DEF G
  <2> QED BY <2>1, <2>2
<1>7. F[0] = g[0]
  BY <1>0, <1>2, <1>6 DEF KeptStep
<1>8. ASSUME NEW n \in 1..Len(q), F[n - 1] = g[n - 1] PROVE F[n] = g[n]
  <2>1. n \in 0..Len(q)
    BY <1>0
  <2>2. F[n] = KeptStep(q, s, F, n) /\ g[n] = KeptStep(q, s, g, n)
    BY <1>2, <1>6, <2>1
  <2> QED BY <1>8, <2>2 DEF KeptStep
<1>9. \A n \in 0..Len(q) : F[n] = g[n]
  BY <1>0, <1>7, <1>8, StepwiseEqual
<1> QED BY <1>0, <1>2, <1>5, <1>9

\* What a drain keeps is a sequence of turns, whatever the queue and the scope.
LEMMA InScopeType ==
  ASSUME NEW q \in Seq(Turns), NEW s
  PROVE  InScope(s, q) \in Seq(Turns)
<1>1. Len(q) \in Nat
  OBVIOUS
<1>2. PICK g \in [0..Len(q) -> Seq(Turns)] : InScope(s, q) = g[Len(q)]
  BY InScopeUnfolds
<1> QED BY <1>1, <1>2

\* A drain keeps every turn that is in its scope: the turns of its user, or all of them
\* when it is global (consolidation.py, step 1b).
LEMMA DrainKeepsScope ==
  ASSUME NEW q \in Seq(Turns), NEW s, NEW j \in DOMAIN q, s = None \/ Input[q[j]].user = s
  PROVE  \E i \in DOMAIN InScope(s, q) : InScope(s, q)[i] = q[j]
<1>0. Len(q) \in Nat /\ j \in 1..Len(q)
  OBVIOUS
<1>1. PICK g \in [0..Len(q) -> Seq(Turns)] :
        /\ \A n \in 0..Len(q) : g[n] = KeptStep(q, s, g, n)
        /\ InScope(s, q) = g[Len(q)]
  BY InScopeUnfolds
<1> DEFINE P(n) == j <= n => \E i \in DOMAIN g[n] : g[n][i] = q[j]
           S == {n \in 0..Len(q) : P(n)}
<1>2. P(0)
  BY <1>0
<1> HIDE DEF P
<1>3. ASSUME NEW m \in 1..Len(q), P(m - 1) PROVE P(m)
  <2>0. m \in 0..Len(q) /\ m - 1 \in 0..Len(q) /\ m # 0 /\ m \in Nat
    BY <1>0
  <2>1. g[m] = KeptStep(q, s, g, m) /\ g[m - 1] \in Seq(Turns)
    BY <1>1, <2>0
  <2>2. CASE s = None \/ Input[q[m]].user = s
    <3>1. g[m] = Append(g[m - 1], q[m])
      BY <2>0, <2>1, <2>2 DEF KeptStep
    <3>2. CASE j = m
      <4>1. Len(g[m - 1]) + 1 \in DOMAIN g[m] /\ g[m][Len(g[m - 1]) + 1] = q[m]
        BY <2>1, <3>1
      <4> QED BY <3>2, <4>1 DEF P
    <3>3. CASE j # m
      <4>1. j <= m => j <= m - 1
        BY <1>0, <2>0, <3>3
      <4>2. \A i \in DOMAIN g[m - 1] : i \in DOMAIN g[m] /\ g[m][i] = g[m - 1][i]
        BY <2>1, <3>1
      <4> QED BY <1>3, <4>1, <4>2 DEF P
    <3> QED BY <3>2, <3>3
  <2>3. CASE ~ (s = None \/ Input[q[m]].user = s)
    <3>1. g[m] = g[m - 1] /\ j # m
      BY <2>0, <2>1, <2>3 DEF KeptStep
    <3>2. j <= m => j <= m - 1
      BY <1>0, <2>0, <3>1
    <3> QED BY <1>3, <3>1, <3>2 DEF P
  <2> QED BY <2>2, <2>3
<1>4. 0 \in S /\ \A m \in 1..Len(q) : m - 1 \in S => m \in S
  BY <1>0, <1>2, <1>3
<1> HIDE DEF S
<1>5. \A n \in 0..Len(q) : n \in S
  BY <1>0, <1>4, UpTo
<1> QED BY <1>0, <1>1, <1>5 DEF S, P

\* A drain keeps only turns that were queued and, when it is scoped, only turns of
\* its user: a run never reads or writes for a user outside its scope (D-02).
LEMMA DrainStaysInScope ==
  ASSUME NEW q \in Seq(Turns), NEW s, NEW i \in DOMAIN InScope(s, q)
  PROVE  /\ \E j \in DOMAIN q : InScope(s, q)[i] = q[j]
         /\ s = None \/ Input[InScope(s, q)[i]].user = s
<1>0. Len(q) \in Nat
  OBVIOUS
<1>1. PICK g \in [0..Len(q) -> Seq(Turns)] :
        /\ \A n \in 0..Len(q) : g[n] = KeptStep(q, s, g, n)
        /\ InScope(s, q) = g[Len(q)]
  BY InScopeUnfolds
<1> DEFINE Good(t) == (\E j \in DOMAIN q : t = q[j]) /\ (s = None \/ Input[t].user = s)
<1> DEFINE P(n) == \A k \in DOMAIN g[n] : Good(g[n][k])
<1> DEFINE S == {n \in 0..Len(q) : P(n)}
<1>2. P(0)
  BY <1>0, <1>1 DEF KeptStep
<1> HIDE DEF P
<1>3. ASSUME NEW m \in 1..Len(q), P(m - 1) PROVE P(m)
  <2>1. g[m] = KeptStep(q, s, g, m) /\ g[m - 1] \in Seq(Turns) /\ m # 0
    BY <1>0, <1>1
  <2>2. CASE ~ (s = None \/ Input[q[m]].user = s)
    BY <1>3, <2>1, <2>2 DEF KeptStep, P
  <2>3. CASE s = None \/ Input[q[m]].user = s
    <3>1. g[m] = Append(g[m - 1], q[m])
      BY <2>1, <2>3 DEF KeptStep
    <3>2. Good(q[m])
      BY <2>3
    <3> HIDE DEF Good
    <3>3. ASSUME NEW k \in DOMAIN g[m] PROVE Good(g[m][k])
      <4>1. CASE k \in DOMAIN g[m - 1]
        BY <1>3, <2>1, <3>1, <4>1 DEF P
      <4>2. CASE k \notin DOMAIN g[m - 1]
        <5>1. g[m][k] = q[m]
          BY <2>1, <3>1, <3>3, <4>2
        <5> QED BY <3>2, <5>1
      <4> QED BY <4>1, <4>2
    <3> QED BY <3>3 DEF P
  <2> QED BY <2>2, <2>3
<1>4. 0 \in S /\ \A m \in 1..Len(q) : m - 1 \in S => m \in S
  BY <1>0, <1>2, <1>3
<1> HIDE DEF S
<1>5. \A n \in 0..Len(q) : n \in S
  BY <1>0, <1>4, UpTo
<1> QED BY <1>0, <1>1, <1>5 DEF P, S

\* No turn is in a sequence twice.
Once(q) == \A i, j \in DOMAIN q : q[i] = q[j] => i = j

\* A drain does not double a turn.
LEMMA DrainKeepsOnce ==
  ASSUME NEW q \in Seq(Turns), NEW s, Once(q)
  PROVE  Once(InScope(s, q))
<1>0. Len(q) \in Nat
  OBVIOUS
<1>1. PICK g \in [0..Len(q) -> Seq(Turns)] :
        /\ \A n \in 0..Len(q) : g[n] = KeptStep(q, s, g, n)
        /\ InScope(s, q) = g[Len(q)]
  BY InScopeUnfolds
<1> DEFINE From(n) == \A k \in DOMAIN g[n] : \E j \in 1..n : g[n][k] = q[j]
<1> DEFINE P(n) == Once(g[n]) /\ From(n)
<1> DEFINE S == {n \in 0..Len(q) : P(n)}
<1>2. P(0)
  BY <1>0, <1>1 DEF KeptStep, Once
<1> HIDE DEF P
<1>3. ASSUME NEW m \in 1..Len(q), P(m - 1) PROVE P(m)
  <2>1. g[m] = KeptStep(q, s, g, m) /\ g[m - 1] \in Seq(Turns) /\ m \in Nat /\ m # 0
    BY <1>0, <1>1
  <2>2. CASE ~ (s = None \/ Input[q[m]].user = s)
    <3>1. g[m] = g[m - 1]
      BY <2>1, <2>2 DEF KeptStep
    <3>2. \A j \in 1..(m - 1) : j \in 1..m
      BY <2>1
    <3> QED BY <1>3, <3>1, <3>2 DEF P
  <2>3. CASE s = None \/ Input[q[m]].user = s
    <3> DEFINE h == g[m - 1]
    <3>1. g[m] = Append(h, q[m]) /\ h \in Seq(Turns) /\ m \in DOMAIN q
      BY <1>0, <2>1, <2>3 DEF KeptStep
    <3>2. Once(h) /\ \A k \in DOMAIN h : \E j \in 1..(m - 1) : h[k] = q[j]
      BY <1>3 DEF P
    <3> HIDE DEF h
    <3>3. \A k \in DOMAIN h : h[k] # q[m]
      BY <2>1, <3>1, <3>2, <1>0 DEF Once
    <3>4. DOMAIN g[m] = DOMAIN h \cup {Len(h) + 1} /\ Len(h) + 1 \notin DOMAIN h
      BY <3>1
    <3>5. g[m][Len(h) + 1] = q[m] /\ \A k \in DOMAIN h : g[m][k] = h[k]
      BY <3>1
    <3>6. Once(g[m])
      BY <3>2, <3>3, <3>4, <3>5 DEF Once
    <3>7. From(m)
      <4> SUFFICES ASSUME NEW k \in DOMAIN g[m] PROVE \E j \in 1..m : g[m][k] = q[j]
        OBVIOUS
      <4>1. m \in 1..m /\ \A j \in 1..(m - 1) : j \in 1..m
        BY <2>1
      <4> QED BY <3>2, <3>4, <3>5, <4>1
    <3> QED BY <3>6, <3>7 DEF P
  <2> QED BY <2>2, <2>3
<1>4. 0 \in S /\ \A m \in 1..Len(q) : m - 1 \in S => m \in S
  BY <1>0, <1>2, <1>3
<1> HIDE DEF S
<1>5. \A n \in 0..Len(q) : n \in S
  BY <1>0, <1>4, UpTo
<1> QED BY <1>0, <1>1, <1>5 DEF P, S

-----------------------------------------------------------------------------
USE StoresAssumption, ConsolidationAssumption

-----------------------------------------------------------------------------
(***************************************************************************)
(* The rows and run states the actions write.                              *)
(***************************************************************************)

LEMMA NoRowType == NoRow \in Row
BY DEF NoRow, Row, RecordTypes, ValidTypes

LEMMA NoItemType == NoItem \in Item
BY DEF NoItem, Item, RecordTypes, ValidTypes

LEMMA ProvisionalRowType ==
  ASSUME NEW t \in Turns
  PROVE  ProvisionalRow(t) \in Row
<1>1. Input[t] \in InputType
  OBVIOUS
<1> QED BY <1>1 DEF ProvisionalRow, NoRow, Row, RecordTypes, ValidTypes, InputType

LEMMA PinType ==
  ASSUME NEW x \in Extractions
  PROVE  Pin(x) \in Item
<1>1. x \in Item
  OBVIOUS
<1> QED BY <1>1 DEF Pin, Item, RecordTypes, ValidTypes

LEMMA CoerceType == \A type : Coerce(type) \in ValidTypes
BY DEF Coerce, ValidTypes

\* What a run state holds.
LEMMA RunFields ==
  ASSUME RunTypeOK, NEW c \in Runs
  PROVE  /\ runs[c].items \in Seq(Turns)
         /\ runs[c].left \in 0..MaxItems
         /\ runs[c].ext \in Item
         /\ runs[c].near \in Records \cup {None}
         /\ runs[c].seen \in Row
         /\ runs[c].uids \in SUBSET Users
         /\ runs[c].uid \in Users \cup {None}
BY DEF RunTypeOK, RunType

LEMMA IdleRunType == IdleRun \in RunType
BY NoRowType, NoItemType DEF IdleRun, RunType

LEMMA TurnType ==
  ASSUME RunTypeOK, NEW c \in Runs, runs[c].items # <<>>
  PROVE  Turn(c) \in Turns /\ UserOfTurn(c) \in Users
<1>1. Turn(c) \in Turns
  BY RunFields DEF Turn
<1>2. Input[Turn(c)] \in InputType
  BY <1>1
<1> QED BY <1>1, <1>2 DEF UserOfTurn, InputType

LEMMA ConfirmedRowType ==
  ASSUME RunTypeOK, NEW c \in Runs, runs[c].items # <<>>, NEW over \in Records \cup {None}
  PROVE  ConfirmedRow(c, over) \in Row
<1>1. Turn(c) \in Turns /\ UserOfTurn(c) \in Users /\ runs[c].ext \in Item
  BY TurnType, RunFields
<1>2. Coerce(runs[c].ext.type) \in RecordTypes
  BY CoerceType DEF RecordTypes
<1> QED BY <1>1, <1>2 DEF ConfirmedRow, NoRow, Row, Item

-----------------------------------------------------------------------------
(***************************************************************************)
(* TypeOK is not inductive: Turn(c) is a turn only while the run has one,  *)
(* and a step that works on a record needs one.                            *)
(***************************************************************************)
RunShape ==
  \A c \in Runs :
    /\ runs[c].pc \in {"extract", "item", "reconcile", "search", "insert", "fetch", "judge"}
         => runs[c].items # <<>>
    /\ runs[c].pc \in {"reconcile", "fetch", "judge"} => runs[c].near \in Records

VictimShape ==
  \A k \in Evictors :
    evictor[k].pc \in {"unvector", "archive", "audit"} => evictor[k].victim \in Records

TypeInv == TypeOK /\ RunShape /\ VictimShape

\* A step that gives one run a well-formed state keeps the runs well-formed.
LEMMA RunUpdate ==
  ASSUME RunTypeOK, RunShape, NEW c \in Runs, NEW s \in RunType,
         runs' = [runs EXCEPT ![c] = s], processed' \subseteq Turns,
         s.pc \in {"extract", "item", "reconcile", "search", "insert", "fetch", "judge"}
           => s.items # <<>>,
         s.pc \in {"reconcile", "fetch", "judge"} => s.near \in Records
  PROVE  RunTypeOK' /\ RunShape'
<1>1. runs' \in [Runs -> RunType]
  BY DEF RunTypeOK
<1>2. \A d \in Runs : runs'[d] = IF d = c THEN s ELSE runs[d]
  BY DEF RunTypeOK
<1>3. RunShape'
  BY <1>2 DEF RunShape
<1> QED BY <1>1, <1>3 DEF RunTypeOK

\* The same for an evictor.
LEMMA EvictorUpdate ==
  ASSUME ForgetTypeOK, VictimShape, NEW k \in Evictors, NEW e \in EvictorType,
         evictor' = [evictor EXCEPT ![k] = e],
         e.pc \in {"unvector", "archive", "audit"} => e.victim \in Records
  PROVE  ForgetTypeOK' /\ VictimShape'
<1>1. evictor' \in [Evictors -> EvictorType]
  BY DEF ForgetTypeOK
<1>2. \A j \in Evictors : evictor'[j] = IF j = k THEN e ELSE evictor[j]
  BY DEF ForgetTypeOK
<1>3. VictimShape'
  BY <1>2 DEF VictimShape
<1> QED BY <1>1, <1>3 DEF ForgetTypeOK

LEMMA StartEvictionTypes ==
  ASSUME ForgetTypeOK, VictimShape, NEW k \in Evictors, NEW victims \in SUBSET Records,
         StartEviction(k, victims)
  PROVE  ForgetTypeOK' /\ VictimShape'
<1> DEFINE e == IF victims = {} THEN IdleEvictor
                ELSE [pc |-> "retire", victims |-> victims, victim |-> None]
<1>1. e \in EvictorType /\ e.pc \notin {"unvector", "archive", "audit"}
  BY DEF EvictorType, IdleEvictor
<1>2. evictor' = [evictor EXCEPT ![k] = e]
  BY DEF StartEviction
<1> HIDE DEF e
<1> QED BY <1>1, <1>2, EvictorUpdate

\* Writing rows into T1.
LEMMA UpdateTypes ==
  ASSUME t1 \in [Records -> Row], NEW r \in Records, NEW row \in Row, Update(r, row)
  PROVE  t1' \in [Records -> Row]
BY DEF Update

LEMMA UpsertTypes ==
  ASSUME StoresTypeOK, NEW r \in Records, NEW row \in Row, UpsertWithVector(r, row)
  PROVE  t1' \in [Records -> Row] /\ vec' \subseteq Records /\ pinned' \subseteq Records
BY DEF UpsertWithVector, StoresTypeOK

LEMMA SupersedeTypes ==
  ASSUME StoresTypeOK, NEW r \in Records, NEW old \in Records, NEW row \in Row,
         Supersede(old, r, row)
  PROVE  t1' \in [Records -> Row] /\ vec' \subseteq Records /\ pinned' \subseteq Records
<1> DEFINE gone == [t1[old] EXCEPT !.status = "retired", !.by = r]
<1>1. t1[old] \in Row
  BY DEF StoresTypeOK
<1>2. gone \in Row
  BY <1>1 DEF Row
<1>3. t1' = [t1 EXCEPT ![old] = gone, ![r] = row]
  BY DEF Supersede
<1> HIDE DEF gone
<1>4. t1' \in [Records -> Row]
  BY <1>2, <1>3 DEF StoresTypeOK
<1> QED BY <1>4 DEF Supersede, StoresTypeOK

-----------------------------------------------------------------------------
(***************************************************************************)
(* One lemma per component.                                                *)
(***************************************************************************)

LEMMA RememberTypes ==
  ASSUME TypeInv, NEW t \in Turns, Remember(t)
  PROVE  TypeInv'
<1>0. StoresTypeOK /\ WriteTypeOK
  BY DEF TypeInv, TypeOK
<1>1. (ForgetTypeOK /\ RunTypeOK /\ RunShape /\ VictimShape)'
  BY DEF Remember, runVars, TypeInv, TypeOK, ForgetTypeOK, RunTypeOK, RunShape, VictimShape
<1>2. CASE RememberAppend(t)
  <2>1. t0' \in Seq(Turns)
    BY <1>0, <1>2 DEF RememberAppend, T0Append, StoresTypeOK
  <2>2. WriteTypeOK'
    BY <1>0, <1>2 DEF RememberAppend, T0Append, WriteTypeOK, WriteStates
  <2> QED BY <1>0, <1>1, <1>2, <2>1, <2>2 DEF RememberAppend, T0Append, TypeInv, TypeOK, StoresTypeOK
<1>6. CASE RememberPush(t)
  <2>1. queue' \in Seq(Turns)
    BY <1>0, <1>6 DEF RememberPush, StoresTypeOK
  <2>2. Input[t] \in InputType
    OBVIOUS
  <2>3. buffer' \in [Users \X Sessions -> Seq(Turns)]
    <3> DEFINE key == <<Input[t].user, Input[t].session>>
               old == buffer[key]
               new == Append(IF Len(old) < BufferSize THEN old ELSE Tail(old), t)
    <3>0. key \in Users \X Sessions
      BY <2>2 DEF InputType
    <3>1. old \in Seq(Turns)
      BY <1>0, <3>0 DEF StoresTypeOK
    <3>2. Len(old) < BufferSize \/ old # <<>>
      BY <3>1
    <3>3. new \in Seq(Turns)
      BY <3>1, <3>2
    <3>4. buffer' = [buffer EXCEPT ![key] = new]
      BY <1>6 DEF RememberPush, BufferPush
    <3> HIDE DEF new, key
    <3> QED BY <3>0, <3>3, <3>4, <1>0 DEF StoresTypeOK
  <2>4. WriteTypeOK'
    BY <1>0, <1>6 DEF RememberPush, WriteTypeOK, WriteStates
  <2> QED BY <1>0, <1>1, <1>6, <2>1, <2>3, <2>4 DEF RememberPush, TypeInv, TypeOK, StoresTypeOK
<1>3. CASE RememberStore(t)
  <2>1. PICK r \in Unused : UpsertWithVector(r, ProvisionalRow(t)) /\ t1id' = [t1id EXCEPT ![t] = r]
    BY <1>3 DEF RememberStore
  <2>2. r \in Records
    BY DEF Unused
  <2>3. t1' \in [Records -> Row] /\ vec' \subseteq Records /\ pinned' \subseteq Records
    BY <1>0, <2>1, <2>2, UpsertTypes, ProvisionalRowType
  <2>4. WriteTypeOK'
    BY <1>0, <1>3, <2>1, <2>2 DEF RememberStore, WriteTypeOK, WriteStates
  <2> QED BY <1>0, <1>1, <1>3, <2>3, <2>4 DEF RememberStore, TypeInv, TypeOK, StoresTypeOK
<1>4. CASE RememberStage(t)
  <2>1. WriteTypeOK'
    BY <1>0, <1>4 DEF RememberStage, WriteTypeOK, WriteStates
  <2> QED BY <1>0, <1>1, <1>4, <2>1 DEF RememberStage, TypeInv, TypeOK, StoresTypeOK
<1>5. CASE RememberFails(t)
  <2>1. WriteTypeOK'
    BY <1>0, <1>5 DEF RememberFails, WriteTypeOK, WriteStates
  <2> QED BY <1>0, <1>1, <1>5, <2>1 DEF RememberFails, storeVars, TypeInv, TypeOK, StoresTypeOK
<1> QED BY <1>2, <1>3, <1>4, <1>5, <1>6 DEF Remember, WriteNext

LEMMA EvictTypes ==
  ASSUME TypeInv, NEW k \in Evictors, EvictStep(k)
  PROVE  TypeInv'
<1>0. StoresTypeOK /\ ForgetTypeOK /\ VictimShape
  BY DEF TypeInv, TypeOK
<1>1. (WriteTypeOK /\ RunTypeOK /\ RunShape)'
  BY DEF EvictStep, writeVars, runVars, TypeInv, TypeOK, WriteTypeOK, RunTypeOK, RunShape
<1>2. evictor[k] \in EvictorType
  BY <1>0 DEF ForgetTypeOK
<1>3. CASE RetireVictim(k)
  <2>1. PICK r \in evictor[k].victims :
          /\ Update(r, [t1[r] EXCEPT !.status = "retired"])
          /\ evictor' = [evictor EXCEPT ![k] = [pc |-> "unvector", victim |-> r,
                                                victims |-> evictor[k].victims \ {r}]]
    BY <1>3 DEF RetireVictim
  <2>2. r \in Records
    BY <1>2 DEF EvictorType
  <2>3. [t1[r] EXCEPT !.status = "retired"] \in Row
    <3>1. t1[r] \in Row
      BY <1>0, <2>2 DEF StoresTypeOK
    <3> QED BY <3>1 DEF Row
  <2>4. t1' \in [Records -> Row]
    BY <1>0, <2>1, <2>2, <2>3, UpdateTypes DEF StoresTypeOK
  <2>5. [pc |-> "unvector", victim |-> r, victims |-> evictor[k].victims \ {r}] \in EvictorType
    BY <1>2, <2>2 DEF EvictorType
  <2>6. (ForgetTypeOK /\ VictimShape)'
    BY <1>0, <2>1, <2>2, <2>5, EvictorUpdate
  <2> QED BY <1>0, <1>1, <1>3, <2>4, <2>6 DEF RetireVictim, TypeInv, TypeOK, StoresTypeOK
<1>4. CASE DeleteVector(k)
  <2>1. [evictor[k] EXCEPT !.pc = "archive"] \in EvictorType
    BY <1>2 DEF EvictorType
  <2>2. evictor' = [evictor EXCEPT ![k] = [evictor[k] EXCEPT !.pc = "archive"]]
    BY <1>4 DEF DeleteVector
  <2>3. evictor[k].victim \in Records
    BY <1>0, <1>4 DEF DeleteVector, VictimShape
  <2>4. (ForgetTypeOK /\ VictimShape)'
    BY <1>0, <1>2, <2>1, <2>2, <2>3, EvictorUpdate DEF EvictorType
  <2> QED BY <1>0, <1>1, <1>4, <2>4 DEF DeleteVector, TypeInv, TypeOK, StoresTypeOK
<1>5. CASE ArchiveVictim(k)
  <2>1. [evictor[k] EXCEPT !.pc = "audit"] \in EvictorType
    BY <1>2 DEF EvictorType
  <2>2. evictor' = [evictor EXCEPT ![k] = [evictor[k] EXCEPT !.pc = "audit"]]
    BY <1>5 DEF ArchiveVictim, T0Archive
  <2>3. evictor[k].victim \in Records
    BY <1>0, <1>5 DEF ArchiveVictim, T0Archive, VictimShape
  <2>4. (ForgetTypeOK /\ VictimShape)'
    BY <1>0, <1>2, <2>1, <2>2, <2>3, EvictorUpdate DEF EvictorType
  <2> QED BY <1>0, <1>1, <1>5, <2>3, <2>4 DEF ArchiveVictim, T0Archive, TypeInv, TypeOK, StoresTypeOK
<1>6. CASE AuditVictim(k)
  <2>1. evictor[k].victim \in Records
    BY <1>0, <1>6 DEF AuditVictim, T0AppendAudit, VictimShape
  <2>2. (ForgetTypeOK /\ VictimShape)'
    BY <1>0, <1>2, <1>6, StartEvictionTypes DEF AuditVictim, T0AppendAudit, EvictorType
  <2> QED BY <1>0, <1>1, <1>6, <2>1, <2>2 DEF AuditVictim, T0AppendAudit, TypeInv, TypeOK, StoresTypeOK
<1> QED BY <1>3, <1>4, <1>5, <1>6 DEF EvictStep, EvictionStep

LEMMA StartTypes ==
  ASSUME TypeInv, NEW k \in Calls, NEW u \in Users,
         StartEvict(k, u) \/ \E r \in Records : StartForget(k, u, r)
  PROVE  TypeInv'
<1>0. k \in Evictors /\ ForgetTypeOK /\ VictimShape
  BY DEF Evictors, TypeInv, TypeOK
<1>1. (StoresTypeOK /\ WriteTypeOK /\ RunTypeOK /\ RunShape)'
  BY DEF StartEvict, StartForget, Evict, Forget, storeVars, writeVars, runVars, TypeInv, TypeOK,
         StoresTypeOK, WriteTypeOK, RunTypeOK, RunShape
<1>2. (ForgetTypeOK /\ VictimShape)'
  <2>1. ASSUME NEW r \in Records, StartForget(k, u, r)
        PROVE  (ForgetTypeOK /\ VictimShape)'
    <3>1. StartEviction(k, {r}) /\ {r} \in SUBSET Records
      BY <2>1 DEF StartForget, Forget
    <3> QED BY <1>0, <3>1, StartEvictionTypes
  <2>2. CASE StartEvict(k, u)
    <3>1. PICK low \in SUBSET DecayCandidates(u) : StartEviction(k, low)
      BY <2>2 DEF StartEvict, Evict
    <3>2. low \in SUBSET Records
      BY DEF DecayCandidates, LiveOf
    <3> QED BY <1>0, <3>1, <3>2, StartEvictionTypes
  <2> QED BY <2>1, <2>2
<1> QED BY <1>1, <1>2 DEF TypeInv, TypeOK

LEMMA FailTypes ==
  ASSUME TypeInv, (\E k \in Calls : CallFails(k)) \/ (\E c \in Runs : ConsolidateFails(c)) \/ Crash
  PROVE  TypeInv'
<1>0. IdleEvictor \in EvictorType /\ IdleEvictor.pc = "idle" /\ IdleRun.pc = "idle"
  BY DEF IdleEvictor, EvictorType, IdleRun
<1>1. ASSUME NEW k \in Calls, CallFails(k) PROVE TypeInv'
  <2>1. (StoresTypeOK /\ WriteTypeOK /\ RunTypeOK /\ RunShape)'
    BY <1>1 DEF CallFails, EvictionFails, storeVars, writeVars, runVars, TypeInv, TypeOK,
                StoresTypeOK, WriteTypeOK, RunTypeOK, RunShape
  <2>2. (ForgetTypeOK /\ VictimShape)'
    BY <1>0, <1>1, EvictorUpdate DEF CallFails, EvictionFails, Evictors, TypeInv, TypeOK
  <2> QED BY <2>1, <2>2 DEF TypeInv, TypeOK
<1>2. ASSUME NEW c \in Runs, ConsolidateFails(c) PROVE TypeInv'
  <2>1. (StoresTypeOK /\ WriteTypeOK)'
    BY <1>2 DEF ConsolidateFails, RunFails, storeVars, writeVars, TypeInv, TypeOK,
                StoresTypeOK, WriteTypeOK
  <2>2. (ForgetTypeOK /\ VictimShape)'
    BY <1>0, <1>2, EvictorUpdate DEF ConsolidateFails, RunFails, Evictors, TypeInv, TypeOK
  <2>3. (RunTypeOK /\ RunShape)'
    BY <1>0, <1>2, IdleRunType, RunUpdate
       DEF ConsolidateFails, RunFails, Abort, TypeInv, TypeOK, RunTypeOK
  <2> QED BY <2>1, <2>2, <2>3 DEF TypeInv, TypeOK
<1>3. CASE Crash
  <2>1. (StoresTypeOK)'
    BY <1>3 DEF Crash, EmptyBuffer, TypeInv, TypeOK, StoresTypeOK
  <2>2. WriteTypeOK'
    BY <1>3 DEF Crash, WriteCrash, WriteStates, TypeInv, TypeOK, WriteTypeOK
  <2>3. (ForgetTypeOK /\ VictimShape)'
    BY <1>0, <1>3 DEF Crash, ForgetCrash, ForgetTypeOK, VictimShape
  <2>4. (RunTypeOK /\ RunShape)'
    BY <1>0, <1>3, IdleRunType DEF Crash, RunCrash, RunTypeOK, RunShape, TypeInv, TypeOK
  <2> QED BY <2>1, <2>2, <2>3, <2>4 DEF TypeInv, TypeOK
<1> QED BY <1>1, <1>2, <1>3

LEMMA DrainTypes ==
  ASSUME TypeInv, NEW c \in Runs, NEW s \in Scopes, StartRun(c, s)
  PROVE  TypeInv'
<1> DEFINE kept == InScope(s, queue)
           uids == {Input[kept[i]].user : i \in DOMAIN kept} \cup (IF s = None THEN {} ELSE {s})
           run == [IdleRun EXCEPT !.pc = IF kept # <<>> THEN "extract"
                                         ELSE IF uids # {} THEN "sweep" ELSE "idle",
                                  !.items = kept, !.uids = uids]
<1>0. queue \in Seq(Turns)
  BY DEF TypeInv, TypeOK, StoresTypeOK
<1>1. kept \in Seq(Turns)
  BY <1>0, InScopeType
<1>2. runs' = [runs EXCEPT ![c] = run]
  BY DEF StartRun, Drain
<1> HIDE DEF kept
<1>3. uids \in SUBSET Users
  <2>1. ASSUME NEW i \in DOMAIN kept PROVE Input[kept[i]].user \in Users
    <3>1. kept[i] \in Turns
      BY <1>1
    <3>2. Input[kept[i]] \in InputType
      BY <3>1
    <3> QED BY <3>2 DEF InputType
  <2> QED BY <2>1
<1> HIDE DEF uids
<1>4. run \in RunType /\ (run.pc = "extract" => run.items # <<>>)
      /\ run.pc \in {"extract", "sweep", "idle"}
  <2>1. run.items = kept /\ (run.pc = "extract" => kept # <<>>)
        /\ run.pc \in {"extract", "sweep", "idle"}
    BY DEF IdleRun
  <2>2. run \in RunType
    BY <1>1, <1>3, IdleRunType DEF RunType, IdleRun
  <2> QED BY <2>1, <2>2
<1> HIDE DEF run
<1>5. (RunTypeOK /\ RunShape)'
  BY <1>2, <1>4, RunUpdate DEF StartRun, Drain, TypeInv, TypeOK, RunTypeOK
<1>6. (StoresTypeOK /\ WriteTypeOK /\ ForgetTypeOK /\ VictimShape)'
  BY DEF StartRun, Drain, writeVars, TypeInv, TypeOK, StoresTypeOK, WriteTypeOK, ForgetTypeOK,
         VictimShape
<1> QED BY <1>5, <1>6 DEF TypeInv, TypeOK

\* A pipeline step that changes one run, T1, its index, the vault and `processed`.
LEMMA PipelineStep ==
  ASSUME TypeInv, NEW c \in Runs, NEW s \in RunType, runs' = [runs EXCEPT ![c] = s],
         s.pc \in {"extract", "item", "reconcile", "search", "insert", "fetch", "judge"}
           => s.items # <<>>,
         s.pc \in {"reconcile", "fetch", "judge"} => s.near \in Records,
         t1' \in [Records -> Row], vec' \subseteq Records, pinned' \subseteq Records,
         vault' \subseteq Records, processed' \subseteq Turns,
         UNCHANGED <<t0, archived, audited, queue, buffer>>, UNCHANGED writeVars,
         UNCHANGED evictor
  PROVE  TypeInv'
<1>1. (RunTypeOK /\ RunShape)'
  BY RunUpdate DEF TypeInv, TypeOK
<1>2. (StoresTypeOK /\ WriteTypeOK /\ ForgetTypeOK /\ VictimShape)'
  BY DEF writeVars, TypeInv, TypeOK, StoresTypeOK, WriteTypeOK, ForgetTypeOK, VictimShape
<1> QED BY <1>1, <1>2 DEF TypeInv, TypeOK

\* The same when the run goes on to its next item.
LEMMA NextItemStep ==
  ASSUME TypeInv, NEW c \in Runs, NextItem(c), runs[c].items # <<>>,
         t1' \in [Records -> Row], vec' \subseteq Records, pinned' \subseteq Records,
         UNCHANGED <<t0, archived, audited, vault, queue, buffer>>, UNCHANGED writeVars,
         UNCHANGED <<processed, evictor>>
  PROVE  TypeInv'
<1> DEFINE s == [runs[c] EXCEPT !.pc = "item", !.ext = NoItem, !.near = None, !.seen = NoRow]
<1>1. runs[c] \in RunType
  BY DEF TypeInv, TypeOK, RunTypeOK
<1>2. s \in RunType /\ s.items = runs[c].items /\ s.pc = "item"
  BY <1>1, NoRowType, NoItemType DEF RunType
<1>3. runs' = [runs EXCEPT ![c] = s]
  BY DEF NextItem
<1>4. processed' \subseteq Turns /\ vault' \subseteq Records
  BY DEF TypeInv, TypeOK, RunTypeOK, StoresTypeOK
<1> HIDE DEF s
<1> QED BY <1>2, <1>3, <1>4, PipelineStep

\* Rewriting the near row, field by field.
LEMMA RewrittenRowType ==
  ASSUME RunTypeOK, t1 \in [Records -> Row], NEW c \in Runs, runs[c].items # <<>>,
         NEW r \in Records
  PROVE  /\ [t1[r] EXCEPT !.prov = FALSE, !.type = runs[c].ext.type, !.high = runs[c].ext.high,
                          !.prot = runs[c].ext.prot \/ runs[c].seen.prot] \in Row
         /\ RefinedRow(c, r) \in Row
         /\ [t1[r] EXCEPT !.pending = runs[c].seen.pending \cup {Turn(c)},
                          !.over = runs[c].seen.over] \in Row
<1> DEFINE guard == runs[c].ext.prot \/ runs[c].seen.prot
<1>1. t1[r] \in Row /\ runs[c].seen \in Row /\ runs[c].ext \in Item /\ Turn(c) \in Turns
  BY RunFields, TurnType
<1>a. guard \in BOOLEAN
  OBVIOUS
<1>b. \A g \in BOOLEAN :
        /\ [t1[r] EXCEPT !.prov = FALSE, !.type = runs[c].ext.type, !.high = runs[c].ext.high,
                         !.prot = g] \in Row
        /\ [t1[r] EXCEPT !.said = Turn(c), !.safety = runs[c].ext.safety,
                         !.high = runs[c].ext.high, !.prot = g] \in Row
  BY <1>1 DEF Row, Item
<1>2. [t1[r] EXCEPT !.prov = FALSE, !.type = runs[c].ext.type, !.high = runs[c].ext.high,
                    !.prot = guard] \in Row
  BY <1>a, <1>b
<1>3. RefinedRow(c, r) \in Row
  BY <1>a, <1>b DEF RefinedRow
<1>4. [t1[r] EXCEPT !.pending = runs[c].seen.pending \cup {Turn(c)},
                    !.over = runs[c].seen.over] \in Row
  BY <1>1 DEF Row
<1> QED BY <1>2, <1>3, <1>4

LEMMA ConsolidateTypes ==
  ASSUME TypeInv, NEW c \in Runs, Consolidate(c)
  PROVE  TypeInv'
<1>0. StoresTypeOK /\ RunTypeOK /\ RunShape /\ t1 \in [Records -> Row]
  BY DEF TypeInv, TypeOK, StoresTypeOK
<1>1. runs[c] \in RunType
  BY <1>0 DEF RunTypeOK
<1>2. UNCHANGED writeVars
  BY DEF Consolidate
<1>3. vec \subseteq Records /\ pinned \subseteq Records /\ vault \subseteq Records
      /\ processed \subseteq Turns
  BY <1>0 DEF StoresTypeOK, RunTypeOK
<1>4. \A r \in Records : t1[r] \in Row
  BY <1>0
<1>5. CASE Extract(c)
  <2>1. PICK n \in 0..MaxItems : runs' = [runs EXCEPT ![c] = [runs[c] EXCEPT !.pc = "item", !.left = n]]
    BY <1>5 DEF Extract
  <2>2. [runs[c] EXCEPT !.pc = "item", !.left = n] \in RunType
    BY <1>1 DEF RunType
  <2>3. runs[c].items # <<>>
    BY <1>0, <1>5 DEF Extract, RunShape
  <2> QED BY <1>0, <1>1, <1>2, <1>3, <1>5, <2>1, <2>2, <2>3, PipelineStep DEF Extract, storeVars, RunType
<1>6. CASE TakeItem(c)
  <2>1. PICK x \in Extractions :
          LET rest == [runs[c] EXCEPT !.left = @ - 1, !.ext = Pin(x)]
          IN  \/ runs' = [runs EXCEPT ![c] = [rest EXCEPT !.pc = "search"]]
              \/ \E r \in Drafts(Turn(c)) :
                   runs' = [runs EXCEPT ![c] = [rest EXCEPT !.pc = "reconcile",
                                                            !.near = r, !.seen = t1[r]]]
    BY <1>6 DEF TakeItem
  <2> DEFINE rest == [runs[c] EXCEPT !.left = runs[c].left - 1, !.ext = Pin(x)]
  <2>2. runs[c].left - 1 \in 0..MaxItems
    <3>1. runs[c].left \in 0..MaxItems
      BY <1>0, RunFields
    <3>2. runs[c].left > 0
      BY <1>6 DEF TakeItem
    <3> QED BY <3>1, <3>2
  <2>3. rest \in RunType /\ rest.items = runs[c].items
    BY <1>1, <2>2, PinType DEF RunType
  <2>4. runs[c].items # <<>>
    BY <1>0, <1>6 DEF TakeItem, RunShape
  <2>5. \/ runs' = [runs EXCEPT ![c] = [rest EXCEPT !.pc = "search"]]
        \/ \E r \in Drafts(Turn(c)) :
             runs' = [runs EXCEPT ![c] = [rest EXCEPT !.pc = "reconcile",
                                                      !.near = r, !.seen = t1[r]]]
    BY <2>1
  <2> HIDE DEF rest
  <2>6. CASE runs' = [runs EXCEPT ![c] = [rest EXCEPT !.pc = "search"]]
    <3> DEFINE s == [rest EXCEPT !.pc = "search"]
    <3>1. s \in RunType /\ s.items = rest.items /\ s.pc = "search"
      BY <2>3 DEF RunType
    <3>2. runs' = [runs EXCEPT ![c] = s]
      BY <2>6
    <3> HIDE DEF s
    <3> QED BY <1>0, <1>2, <1>3, <1>6, <2>3, <2>4, <3>1, <3>2, PipelineStep DEF TakeItem, storeVars
  <2>7. ASSUME NEW r \in Drafts(Turn(c)),
               runs' = [runs EXCEPT ![c] = [rest EXCEPT !.pc = "reconcile",
                                                        !.near = r, !.seen = t1[r]]]
        PROVE  TypeInv'
    <3> DEFINE s == [rest EXCEPT !.pc = "reconcile", !.near = r, !.seen = t1[r]]
    <3>0. r \in Records
      BY DEF Drafts
    <3>1. s \in RunType /\ s.items = rest.items /\ s.near = r
      BY <2>3, <3>0, <1>4 DEF RunType
    <3>2. runs' = [runs EXCEPT ![c] = s]
      BY <2>7
    <3> HIDE DEF s
    <3> QED BY <1>0, <1>2, <1>3, <1>6, <2>3, <2>4, <3>0, <3>1, <3>2, PipelineStep
            DEF TakeItem, storeVars
  <2> QED BY <2>5, <2>6, <2>7
<1>7. CASE Reconcile(c)
  <2>1. runs[c].items # <<>> /\ runs[c].near \in Records
    BY <1>0, <1>7 DEF Reconcile, RunShape
  <2>2. t1' \in [Records -> Row]
    BY <1>0, <1>7, <2>1, RewrittenRowType, UpdateTypes DEF Reconcile
  <2> QED BY <1>2, <1>3, <1>7, <2>1, <2>2, NextItemStep DEF Reconcile
<1>8. CASE Search(c)
  <2>1. runs[c].items # <<>>
    BY <1>0, <1>8 DEF Search, RunShape
  <2>2. CASE runs' = [runs EXCEPT ![c].pc = "insert"]
    <3> DEFINE s == [runs[c] EXCEPT !.pc = "insert"]
    <3>1. s \in RunType /\ s.items = runs[c].items /\ s.pc = "insert"
      BY <1>1 DEF RunType
    <3>2. runs' = [runs EXCEPT ![c] = s]
      BY <2>2
    <3> HIDE DEF s
    <3> QED BY <1>0, <1>2, <1>3, <1>8, <2>1, <3>1, <3>2, PipelineStep DEF Search, storeVars
  <2>3. ASSUME NEW r \in Searchable(UserOfTurn(c)),
               runs' = [runs EXCEPT ![c] = [runs[c] EXCEPT !.pc = "fetch", !.near = r]]
        PROVE  TypeInv'
    <3> DEFINE s == [runs[c] EXCEPT !.pc = "fetch", !.near = r]
    <3>0. r \in Records
      BY DEF Searchable, LiveOf
    <3>1. s \in RunType /\ s.items = runs[c].items /\ s.near = r
      BY <1>1, <3>0 DEF RunType
    <3>2. runs' = [runs EXCEPT ![c] = s]
      BY <2>3
    <3> HIDE DEF s
    <3> QED BY <1>0, <1>2, <1>3, <1>8, <2>1, <3>0, <3>1, <3>2, PipelineStep DEF Search, storeVars
  <2> QED BY <1>8, <2>2, <2>3 DEF Search
<1>9. CASE Fetch(c)
  <2>1. runs[c].items # <<>> /\ runs[c].near \in Records
    BY <1>0, <1>9 DEF Fetch, RunShape
  <2> DEFINE s == IF ~ Readable(runs[c].near) THEN IdleRun
                  ELSE IF t1[runs[c].near].type = Coerce(runs[c].ext.type)
                  THEN [runs[c] EXCEPT !.pc = "judge", !.seen = t1[runs[c].near]]
                  ELSE [runs[c] EXCEPT !.pc = "insert", !.near = None]
  <2>2. runs' = [runs EXCEPT ![c] = s]
    BY <1>9 DEF Fetch, Abort
  <2>3. CASE s = IdleRun
    BY <1>0, <1>2, <1>3, <1>9, <2>2, <2>3, IdleRunType, PipelineStep DEF Fetch, storeVars, IdleRun
  <2>4. CASE s # IdleRun
    <3>1. s \in RunType /\ s.items = runs[c].items /\ (s.pc = "judge" => s.near = runs[c].near)
          /\ s.pc \in {"judge", "insert"}
      BY <1>1, <1>4, <2>1, <2>4 DEF RunType
    <3> HIDE DEF s
    <3> QED BY <1>0, <1>2, <1>3, <1>9, <2>1, <2>2, <3>1, PipelineStep DEF Fetch, storeVars
  <2> QED BY <2>3, <2>4
<1>10. ASSUME Insert(c), runs[c].items # <<>> PROVE TypeInv'
  <2>1. PICK r \in Unused : UpsertWithVector(r, ConfirmedRow(c, None))
    BY <1>10 DEF Insert
  <2>2. r \in Records
    BY DEF Unused
  <2>3. ConfirmedRow(c, None) \in Row
    BY <1>0, <1>10, ConfirmedRowType
  <2>4. t1' \in [Records -> Row] /\ vec' \subseteq Records /\ pinned' \subseteq Records
    BY <1>0, <2>1, <2>2, <2>3, UpsertTypes
  <2> QED BY <1>2, <1>10, <2>4, NextItemStep DEF Insert
<1>11. CASE InsertNew(c) \/ InsertDistinct(c)
  BY <1>0, <1>10, <1>11 DEF InsertNew, InsertDistinct, RunShape
<1>12. CASE Refine(c)
  <2>1. runs[c].items # <<>> /\ runs[c].near \in Records
    BY <1>0, <1>12 DEF Refine, RunShape
  <2>2. t1' \in [Records -> Row]
    BY <1>0, <1>12, <2>1, RewrittenRowType, UpdateTypes DEF Refine
  <2> QED BY <1>2, <1>3, <1>12, <2>1, <2>2, NextItemStep DEF Refine
<1>13. CASE MarkPending(c)
  <2>1. runs[c].items # <<>> /\ runs[c].near \in Records
    BY <1>0, <1>13 DEF MarkPending, RunShape
  <2>2. t1' \in [Records -> Row]
    BY <1>0, <1>13, <2>1, RewrittenRowType, UpdateTypes DEF MarkPending
  <2> QED BY <1>2, <1>3, <1>13, <2>1, <2>2, NextItemStep DEF MarkPending
<1>14. CASE SupersedeOld(c)
  <2>1. runs[c].items # <<>> /\ runs[c].near \in Records
    BY <1>0, <1>14 DEF SupersedeOld, RunShape
  <2>2. PICK r \in Unused : Supersede(runs[c].near, r, ConfirmedRow(c, runs[c].near))
    BY <1>14 DEF SupersedeOld
  <2>3. r \in Records
    BY DEF Unused
  <2>4. ConfirmedRow(c, runs[c].near) \in Row
    BY <1>0, <2>1, ConfirmedRowType
  <2>5. t1' \in [Records -> Row] /\ vec' \subseteq Records /\ pinned' \subseteq Records
    BY <1>0, <2>1, <2>2, <2>3, <2>4, SupersedeTypes
  <2> QED BY <1>2, <1>14, <2>1, <2>5, NextItemStep DEF SupersedeOld
<1>15. CASE FinishTurn(c)
  <2> DEFINE rest == Tail(runs[c].items)
             s == [runs[c] EXCEPT !.items = rest, !.pc = IF rest = <<>> THEN "sweep" ELSE "extract"]
  <2>1. runs[c].items # <<>>
    BY <1>0, <1>15 DEF FinishTurn, RunShape
  <2>2. rest \in Seq(Turns) /\ Turn(c) \in Turns
    BY <1>0, <2>1, RunFields, TurnType
  <2>3. runs' = [runs EXCEPT ![c] = s]
    BY <1>15 DEF FinishTurn
  <2> HIDE DEF rest
  <2>4. s \in RunType /\ s.items = rest /\ (s.pc = "extract" => rest # <<>>)
        /\ s.pc \in {"sweep", "extract"}
    BY <1>1, <2>2 DEF RunType
  <2>5. processed' \subseteq Turns
    BY <1>3, <1>15, <2>2 DEF FinishTurn
  <2> HIDE DEF s
  <2> QED BY <1>0, <1>2, <1>3, <1>15, <2>3, <2>4, <2>5, PipelineStep DEF FinishTurn, storeVars
<1>16. CASE PromoteUser(c)
  <2> DEFINE State(u) == IF AllReadable(u)
                         THEN [runs[c] EXCEPT !.pc = "decay", !.uid = u, !.uids = runs[c].uids \ {u}]
                         ELSE IdleRun
  <2>1. PICK u \in runs[c].uids :
          /\ vault' = vault \cup Promotable(u) \/ \E some \in SUBSET Promotable(u) : vault' = vault \cup some
          /\ runs' = [runs EXCEPT ![c] = State(u)]
    BY <1>16, Zenon DEF PromoteUser, VaultPromote, Abort
  <2>2. u \in Users /\ Promotable(u) \subseteq Records
    BY <1>1 DEF RunType, Promotable, LiveOf
  <2> DEFINE s == IF AllReadable(u)
                  THEN [runs[c] EXCEPT !.pc = "decay", !.uid = u, !.uids = runs[c].uids \ {u}]
                  ELSE IdleRun
  <2>3. runs' = [runs EXCEPT ![c] = s] /\ vault' \subseteq Records
    BY <1>3, <2>1, <2>2 DEF Abort
  <2>4. s \in RunType /\ s.pc \in {"decay", "idle"}
    <3>1. CASE AllReadable(u)
      BY <1>1, <2>2, <3>1 DEF RunType
    <3>2. CASE ~ AllReadable(u)
      BY <3>2, IdleRunType DEF IdleRun
    <3> QED BY <3>1, <3>2
  <2> HIDE DEF s
  <2> QED BY <1>0, <1>2, <1>3, <1>16, <2>3, <2>4, PipelineStep DEF PromoteUser, VaultPromote
<1>17. CASE DecayScan(c)
  <2>1. (StoresTypeOK /\ WriteTypeOK)'
    BY <1>17 DEF DecayScan, Consolidate, storeVars, writeVars, TypeInv, TypeOK, StoresTypeOK,
                 WriteTypeOK
  <2>2. (ForgetTypeOK /\ VictimShape)'
    <3>1. PICK low \in SUBSET Records : StartEviction(c, low)
      BY <1>17 DEF DecayScan, DecayCandidates, LiveOf
    <3> QED BY <3>1, StartEvictionTypes DEF Evictors, TypeInv, TypeOK
  <2>3. (RunTypeOK /\ RunShape)'
    <3> DEFINE uids == IF AllReadable(runs[c].uid) THEN runs[c].uids ELSE {}
               s == [runs[c] EXCEPT !.pc = "evict", !.uids = uids]
    <3>0. uids \in SUBSET Users
      BY <1>1 DEF RunType
    <3>2. runs' = [runs EXCEPT ![c] = s] /\ processed' \subseteq Turns
      BY <1>3, <1>17 DEF DecayScan
    <3> HIDE DEF uids
    <3>1. s \in RunType /\ s.pc \in {"evict", "idle"}
      BY <1>1, <3>0 DEF RunType
    <3> HIDE DEF s
    <3> QED BY <1>0, <3>1, <3>2, RunUpdate
  <2> QED BY <2>1, <2>2, <2>3 DEF TypeInv, TypeOK
<1>18. CASE FinishUser(c)
  <2> DEFINE s == IF runs[c].uids = {} THEN IdleRun
                  ELSE [runs[c] EXCEPT !.pc = "sweep", !.uid = None]
  <2>1. s \in RunType /\ s.pc \in {"sweep", "idle"}
    BY <1>1, IdleRunType DEF RunType, IdleRun
  <2>2. runs' = [runs EXCEPT ![c] = s]
    BY <1>18 DEF FinishUser
  <2> HIDE DEF s
  <2> QED BY <1>0, <1>2, <1>3, <1>18, <2>1, <2>2, PipelineStep DEF FinishUser, storeVars
<1> QED BY <1>5, <1>6, <1>7, <1>8, <1>9, <1>11, <1>12, <1>13, <1>14, <1>15, <1>16, <1>17, <1>18
        DEF Consolidate, RunStep

-----------------------------------------------------------------------------
LEMMA InitTypes == Init => TypeInv
<1> SUFFICES ASSUME Init PROVE TypeInv
  OBVIOUS
<1>1. StoresTypeOK
  BY NoRowType DEF Init, StoresInit, EmptyBuffer, StoresTypeOK
<1>2. WriteTypeOK
  BY DEF Init, WriteInit, WriteTypeOK, WriteStates
<1>3. ForgetTypeOK /\ VictimShape
  BY DEF Init, ForgetInit, ForgetTypeOK, VictimShape, EvictorType, IdleEvictor
<1>4. RunTypeOK
  BY IdleRunType DEF Init, RunInit, RunTypeOK
<1>5. RunShape
  BY DEF Init, RunInit, RunShape, IdleRun
<1> QED BY <1>1, <1>2, <1>3, <1>4, <1>5 DEF TypeInv, TypeOK

LEMMA NextTypes == TypeInv /\ [Next]_vars => TypeInv'
<1> SUFFICES ASSUME TypeInv, [Next]_vars PROVE TypeInv'
  OBVIOUS
<1>1. CASE UNCHANGED vars
  BY <1>1 DEF vars, storeVars, writeVars, runVars, TypeInv, TypeOK, StoresTypeOK, WriteTypeOK,
              ForgetTypeOK, RunTypeOK, RunShape, VictimShape
<1>2. CASE Next
  BY <1>2, RememberTypes, ConsolidateTypes, DrainTypes, StartTypes, EvictTypes, FailTypes DEF Next, Work
<1> QED BY <1>1, <1>2

\* Every variable keeps its type: no step writes a row, a run state or an eviction
\* that the code could not hold, for any constants.
THEOREM TypeCorrect == Spec => []TypeOK
<1>1. TypeInv => TypeOK
  BY DEF TypeInv
<1> QED BY <1>1, InitTypes, NextTypes, PTL DEF Spec
=============================================================================
