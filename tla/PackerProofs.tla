---------------------------- MODULE PackerProofs ----------------------------
(***************************************************************************)
(* pack_records for rankings of any length, any costs and any budget: no   *)
(* protected record is dropped, nothing that still fits is left out, only  *)
(* protected records exceed the budget, and no history displaces a         *)
(* critical one.                                                           *)
(*                                                                         *)
(* They need to know what the loops have dealt with so far: SoFar says     *)
(* that of the positions before i, and Ahead that pass 1 has packed none   *)
(* of the positions to come.  A record that did not fit never fits again,  *)
(* because `used` only grows.                                              *)
(***************************************************************************)
EXTENDS Packer, RecursionLemmas

Positions == DOMAIN ranked

\* The positions a pass has been through.
Reserved == IF pass = "reserve" THEN {k \in Positions : k < i} ELSE Positions
Filled == IF pass = "fill" THEN {k \in Positions : k < i}
          ELSE IF pass = "done" THEN Positions ELSE {}

SoFar ==
  /\ \A k \in Reserved : ranked[k].prot => k \in Packed
  /\ \A k \in Filled \ Packed : used + ranked[k].cost > budget

Ahead == pass = "reserve" => \A k \in Packed : k < i

Distinct == \A m, n \in DOMAIN packed : packed[m] = packed[n] => m = n

IInv == TypeOK /\ SoFar /\ Ahead /\ Distinct

-----------------------------------------------------------------------------
LEMMA EntryAt ==
  ASSUME TypeOK, NEW k \in DOMAIN ranked
  PROVE  ranked[k].cost \in Nat /\ ranked[k].prot \in BOOLEAN
<1>1. ranked[k] \in Entry
  BY DEF TypeOK
<1> QED BY <1>1 DEF Entry

LEMMA PackedPositions ==
  ASSUME TypeOK
  PROVE  Packed \subseteq Nat
<1>1. \A n \in DOMAIN packed : packed[n] \in 1..Len(ranked)
  BY DEF TypeOK
<1> QED BY <1>1 DEF Packed

\* What one iteration does, whichever loop it belongs to.
LEMMA TakeOne ==
  ASSUME TypeOK, Distinct, i \in DOMAIN ranked, i \notin Packed, Take, UNCHANGED ranked
  PROVE  /\ packed' \in Seq(1..Len(ranked)) /\ used' \in Nat
         /\ used' >= used
         /\ Packed' = Packed \cup {i}
         /\ Distinct'
<1>0. packed \in Seq(1..Len(ranked)) /\ used \in Nat /\ i \in 1..Len(ranked)
  BY DEF TypeOK
<1>1. ranked[i].cost \in Nat
  BY EntryAt
<1>2. packed' = Append(packed, i) /\ used' = used + ranked[i].cost
  BY DEF Take
<1>3. packed' \in Seq(1..Len(ranked)) /\ used' \in Nat /\ used' >= used
  BY <1>0, <1>1, <1>2
<1>4. /\ DOMAIN packed' = DOMAIN packed \cup {Len(packed) + 1}
      /\ Len(packed) + 1 \notin DOMAIN packed
      /\ packed'[Len(packed) + 1] = i
      /\ \A k \in DOMAIN packed : packed'[k] = packed[k]
  BY <1>0, <1>2
<1>5. Packed' = Packed \cup {i}
  BY <1>4 DEF Packed
<1>6. Distinct'
  BY <1>4 DEF Distinct, Packed
<1> QED BY <1>3, <1>5, <1>6

LEMMA LeaveOne ==
  ASSUME TypeOK, Leave
  PROVE  /\ UNCHANGED <<packed, used>>
         /\ Packed' = Packed /\ (Distinct => Distinct')
BY DEF Leave, Packed, Distinct

LEMMA ReserveKeeps ==
  ASSUME IInv, Reserve
  PROVE  IInv'
<1>0. /\ TypeOK /\ Distinct /\ pass = "reserve" /\ pass' = pass
      /\ i \in 1..Len(ranked) /\ i' = i + 1 /\ UNCHANGED <<ranked, budget>>
  BY DEF IInv, Reserve, TypeOK
<1>1. i \in DOMAIN ranked /\ i \notin Packed
  BY <1>0 DEF IInv, Ahead, TypeOK
<1>2. Filled' = {} /\ Reserved' = Reserved \cup {i}
  BY <1>0, <1>1 DEF Filled, Reserved, Positions, TypeOK
<1>3. CASE Take
  <2>1. /\ packed' \in Seq(1..Len(ranked)) /\ used' \in Nat
        /\ Packed' = Packed \cup {i} /\ Distinct'
    BY <1>0, <1>1, <1>3, TakeOne
  <2>2. TypeOK'
    BY <1>0, <2>1 DEF TypeOK
  <2>3. SoFar'
    BY <1>0, <1>2, <2>1 DEF IInv, SoFar
  <2>4. Ahead'
    BY <1>0, <2>1, PackedPositions, SMT DEF IInv, Ahead
  <2> QED BY <2>1, <2>2, <2>3, <2>4 DEF IInv
<1>4. CASE Leave /\ ~ ranked[i].prot
  <2>1. UNCHANGED <<packed, used>> /\ Packed' = Packed /\ Distinct'
    BY <1>0, <1>4, LeaveOne
  <2>2. TypeOK'
    BY <1>0, <2>1 DEF TypeOK
  <2>3. SoFar'
    BY <1>0, <1>2, <1>4, <2>1 DEF IInv, SoFar
  <2>4. Ahead'
    BY <1>0, <2>1, PackedPositions, SMT DEF IInv, Ahead
  <2> QED BY <2>1, <2>2, <2>3, <2>4 DEF IInv
<1> QED BY <1>3, <1>4 DEF Reserve

LEMMA FillKeeps ==
  ASSUME IInv, Fill
  PROVE  IInv'
<1>0. /\ TypeOK /\ Distinct /\ pass = "fill" /\ pass' = pass
      /\ i \in 1..Len(ranked) /\ i' = i + 1 /\ UNCHANGED <<ranked, budget>>
  BY DEF IInv, Fill, TypeOK
<1>1. i \in DOMAIN ranked /\ used \in Nat /\ budget \in Nat
  BY <1>0 DEF TypeOK
<1>2. Filled' = Filled \cup {i} /\ Reserved' = Reserved
  BY <1>0, <1>1 DEF Filled, Reserved, Positions, TypeOK
<1>3. CASE i \notin Packed /\ Take
  <2>1. /\ packed' \in Seq(1..Len(ranked)) /\ used' \in Nat /\ used' >= used
        /\ Packed' = Packed \cup {i} /\ Distinct'
    BY <1>0, <1>1, <1>3, TakeOne
  <2>2. TypeOK'
    BY <1>0, <2>1 DEF TypeOK
  <2>3. SoFar'
    <3>1. \A k \in Reserved' : ranked'[k].prot => k \in Packed'
      BY <1>0, <1>2, <2>1 DEF IInv, SoFar
    <3>2. ASSUME NEW k \in Filled' \ Packed' PROVE used' + ranked'[k].cost > budget'
      <4>1. k \in Filled \ Packed /\ k \in DOMAIN ranked
        BY <1>0, <1>2, <2>1 DEF Filled, Positions
      <4>2. used + ranked[k].cost > budget /\ ranked[k].cost \in Nat
        BY <1>0, <4>1, EntryAt DEF IInv, SoFar
      <4> QED BY <1>0, <1>1, <2>1, <4>2
    <3> QED BY <3>1, <3>2 DEF SoFar
  <2> QED BY <1>0, <2>1, <2>2, <2>3 DEF IInv, Ahead
<1>4. CASE Leave /\ (i \in Packed \/ ~ (used + ranked[i].cost <= budget))
  <2>1. UNCHANGED <<packed, used>> /\ Packed' = Packed /\ Distinct'
    BY <1>0, <1>4, LeaveOne
  <2>2. TypeOK'
    BY <1>0, <2>1 DEF TypeOK
  <2>3. i \in Packed \/ used + ranked[i].cost > budget
    BY <1>0, <1>1, <1>4, EntryAt
  <2>4. SoFar'
    BY <1>0, <1>2, <2>1, <2>3 DEF IInv, SoFar
  <2> QED BY <1>0, <2>1, <2>2, <2>4 DEF IInv, Ahead
<1> QED BY <1>3, <1>4 DEF Fill

LEMMA NextPassKeeps ==
  ASSUME IInv, NextPass
  PROVE  IInv'
<1>0. /\ TypeOK /\ UNCHANGED <<ranked, budget, packed, used>> /\ i' = 1 /\ i > Len(ranked)
      /\ \/ pass = "reserve" /\ pass' = "fill"
         \/ pass = "fill" /\ pass' = "done"
  BY DEF IInv, NextPass
<1>1. Packed' = Packed /\ Distinct'
  BY <1>0 DEF IInv, Packed, Distinct
<1>2. TypeOK'
  BY <1>0 DEF TypeOK
<1>3. Positions = {k \in Positions : k < i} /\ Positions' = Positions
  <2>1. Positions = 1..Len(ranked) /\ i \in Nat /\ Len(ranked) \in Nat
    BY <1>0 DEF Positions, TypeOK
  <2> QED BY <1>0, <2>1 DEF Positions
<1>4. Reserved = Positions /\ Reserved' = Positions
  BY <1>0, <1>3 DEF Reserved
<1>5. Filled' = {} \/ (Filled' = Positions /\ Filled = Positions)
  <2>1. CASE pass' = "fill"
    <3>1. Filled' = {k \in Positions' : k < i'}
      BY <2>1 DEF Filled
    <3>2. \A k \in Positions : ~ (k < 1)
      BY <1>0 DEF Positions, TypeOK
    <3> QED BY <1>0, <1>3, <3>1, <3>2
  <2>2. CASE pass = "fill" /\ pass' = "done"
    BY <1>3, <2>2 DEF Filled
  <2> QED BY <1>0, <2>1, <2>2
<1>6. SoFar'
  BY <1>0, <1>1, <1>4, <1>5 DEF IInv, SoFar
<1> QED BY <1>0, <1>1, <1>2, <1>6 DEF IInv, Ahead

LEMMA InitInv == Init => IInv
<1> SUFFICES ASSUME Init PROVE IInv
  OBVIOUS
<1>1. TypeOK
  BY PackerAssumption DEF Init, TypeOK
<1>2. Packed = {} /\ Filled = {} /\ Reserved = {}
  BY <1>1 DEF Init, Packed, Filled, Reserved, Positions, TypeOK
<1> QED BY <1>1, <1>2 DEF Init, IInv, SoFar, Ahead, Distinct

\* IInv is an invariant of the two loops.
THEOREM PackerInvariant == Spec => []IInv
<1>1. IInv /\ [Next]_vars => IInv'
  <2> SUFFICES ASSUME IInv, [Next]_vars PROVE IInv'
    OBVIOUS
  <2>1. CASE UNCHANGED vars
    BY <2>1 DEF vars, IInv, TypeOK, SoFar, Ahead, Distinct, Packed, Reserved, Filled, Positions
  <2> QED BY <2>1, ReserveKeeps, FillKeeps, NextPassKeeps DEF Next
<1> QED BY InitInv, <1>1, PTL DEF Spec

\* The loops keep positions within the ranking, however long it is.
THEOREM PackerTypes == Spec => []TypeOK
BY PackerInvariant, PTL DEF IInv

\* pack_records drops no protected record, however small the budget is and whatever
\* else is ranked (RECALL-05).
THEOREM ProtectedSurvive == Spec => []ProtectedPacked
<1>1. IInv => ProtectedPacked
  BY DEF IInv, SoFar, Reserved, Positions, ProtectedPacked
<1> QED BY PackerInvariant, <1>1, PTL

\* When it is done no record is left out that still fits, and none is packed twice.
THEOREM NothingLeft == Spec => []NothingFitsLeft
<1>1. IInv => NothingFitsLeft
  BY DEF IInv, SoFar, Filled, Positions, Distinct, NothingFitsLeft
<1> QED BY PackerInvariant, <1>1, PTL

-----------------------------------------------------------------------------
(***************************************************************************)
(* The budget.  `used` is what the packed records cost together, so each   *)
(* test of a loop against `used` is one against Cost.                      *)
(***************************************************************************)

CostRuns ==
  /\ Cost[0] = 0
  /\ \A n \in 1..Len(packed) : Cost[n] = Cost[n - 1] + ranked[packed[n]].cost

\* The recursion of Cost has a solution.
LEMMA CostUnfolds == TypeOK => CostRuns
<1> SUFFICES ASSUME TypeOK PROVE CostRuns
  OBVIOUS
<1> DEFINE C(c, n) == IF n = 0 THEN 0 ELSE c[n - 1] + ranked[packed[n]].cost
           step == [p \in (1..Len(packed)) \X Nat |-> p[2] + ranked[packed[p[1]]].cost]
           F == CHOOSE c : c = [n \in 0..Len(packed) |-> C(c, n)]
<1>0. Len(packed) \in Nat
  BY DEF TypeOK
<1>1. ASSUME NEW n \in 1..Len(packed) PROVE ranked[packed[n]].cost \in Nat
  <2>1. packed[n] \in DOMAIN ranked
    BY DEF TypeOK
  <2> QED BY <2>1, EntryAt
<1>2. step \in [(1..Len(packed)) \X Nat -> Nat]
  BY <1>1
<1>3. PICK g \in [0..Len(packed) -> Nat] : Recurs(g, Len(packed), 0, step)
  <2> HIDE DEF step
  <2> QED BY <1>0, <1>2, RecursionSolved
<1>4. ASSUME NEW n \in 0..Len(packed) PROVE g[n] = C(g, n)
  <2>1. CASE n = 0
    BY <1>3, <2>1 DEF Recurs
  <2>2. CASE n # 0
    <3>1. n \in 1..Len(packed) /\ g[n - 1] \in Nat
      BY <1>0, <2>2
    <3>2. g[n] = step[<<n, g[n - 1]>>]
      BY <1>3, <3>1 DEF Recurs
    <3> QED BY <2>2, <3>1, <3>2
  <2> QED BY <2>1, <2>2
<1> HIDE DEF step
<1>5. g = [n \in 0..Len(packed) |-> C(g, n)]
  BY <1>4
<1>6. F = [n \in 0..Len(packed) |-> C(F, n)]
  BY <1>5
<1>7. Cost = F
  BY DEF Cost
<1> HIDE DEF F
<1>8. ASSUME NEW n \in 0..Len(packed) PROVE Cost[n] = C(Cost, n)
  <2> DEFINE G == [m \in 0..Len(packed) |-> C(F, m)]
  <2>1. Cost = G
    BY <1>6, <1>7
  <2>2. G[n] = C(F, n)
    OBVIOUS
  <2> HIDE DEF G
  <2> QED BY <1>7, <2>1, <2>2
<1>9. ASSUME NEW n \in 1..Len(packed) PROVE Cost[n] = Cost[n - 1] + ranked[packed[n]].cost
  <2>1. n \in 0..Len(packed) /\ n # 0
    BY <1>0
  <2> QED BY <1>8, <2>1
<1> QED BY <1>0, <1>8, <1>9 DEF CostRuns

\* Every packed record but the protected fits with those packed before it.
Fit == CostRuns /\ Cost[Len(packed)] = used /\ OthersFit

\* Taking a record leaves the costs of those before it.
LEMMA CostTaken ==
  ASSUME TypeOK, CostRuns, CostRuns', UNCHANGED ranked, i \in DOMAIN ranked,
         packed' = Append(packed, i)
  PROVE  /\ \A n \in 0..Len(packed) : Cost'[n] = Cost[n]
         /\ Cost'[Len(packed')] = Cost[Len(packed)] + ranked[i].cost
<1>0. packed \in Seq(1..Len(ranked)) /\ Len(packed) \in Nat
  BY DEF TypeOK
<1>1. /\ Len(packed') = Len(packed) + 1
      /\ \A n \in 1..Len(packed) : packed'[n] = packed[n]
      /\ packed'[Len(packed) + 1] = i
  BY <1>0
<1>2. PICK c : c = Cost
  OBVIOUS
<1>3. PICK d : d = Cost'
  OBVIOUS
<1>4. c[0] = d[0]
  BY <1>2, <1>3 DEF CostRuns
<1>5. ASSUME NEW n \in 1..Len(packed), c[n - 1] = d[n - 1] PROVE c[n] = d[n]
  <2>1. c[n] = c[n - 1] + ranked[packed[n]].cost
    BY <1>2 DEF CostRuns
  <2>2. d[n] = d[n - 1] + ranked[packed'[n]].cost
    BY <1>0, <1>1, <1>3 DEF CostRuns
  <2> QED BY <1>1, <1>5, <2>1, <2>2
<1>6. \A n \in 0..Len(packed) : c[n] = d[n]
  BY <1>0, <1>4, <1>5, StepwiseEqual
<1>7. Len(packed') \in 1..Len(packed') /\ Len(packed') - 1 = Len(packed)
  BY <1>0, <1>1
<1>8. Cost'[Len(packed')] = Cost'[Len(packed)] + ranked[i].cost
  BY <1>1, <1>7 DEF CostRuns
<1>9. Cost'[Len(packed)] = Cost[Len(packed)]
  BY <1>0, <1>2, <1>3, <1>6
<1> QED BY <1>2, <1>3, <1>6, <1>8, <1>9

LEMMA TakeFits ==
  ASSUME TypeOK, Fit, CostRuns', UNCHANGED <<ranked, budget>>, i \in DOMAIN ranked, Take,
         ranked[i].prot \/ used + ranked[i].cost <= budget
  PROVE  Fit'
<1>0. packed \in Seq(1..Len(ranked)) /\ Len(packed) \in Nat /\ packed' = Append(packed, i)
  BY DEF TypeOK, Take
<1>1. /\ \A n \in 0..Len(packed) : Cost'[n] = Cost[n]
      /\ Cost'[Len(packed')] = used + ranked[i].cost
  BY <1>0, CostTaken DEF Fit
<1>2. ASSUME NEW n \in DOMAIN packed' PROVE ranked'[packed'[n]].prot \/ Cost'[n] <= budget'
  <2>1. CASE n \in DOMAIN packed
    <3>1. packed'[n] = packed[n] /\ Cost'[n] = Cost[n]
      BY <1>0, <1>1, <2>1
    <3> QED BY <2>1, <3>1 DEF Fit, OthersFit
  <2>2. CASE n \notin DOMAIN packed
    <3>1. n = Len(packed') /\ packed'[n] = i
      BY <1>0, <1>2, <2>2
    <3> QED BY <1>1, <3>1
  <2> QED BY <2>1, <2>2
<1> QED BY <1>1, <1>2 DEF Fit, OthersFit, Take

LEMMA LeaveFits ==
  ASSUME TypeOK, Fit, CostRuns', UNCHANGED <<ranked, budget, packed, used>>
  PROVE  Fit'
<1>0. Len(packed) \in Nat
  BY DEF TypeOK
<1>1. PICK c : c = Cost
  OBVIOUS
<1>2. PICK d : d = Cost'
  OBVIOUS
<1>3. c[0] = d[0] /\ \A n \in 1..Len(packed) : c[n - 1] = d[n - 1] => c[n] = d[n]
  BY <1>1, <1>2 DEF Fit, CostRuns
<1>4. \A n \in 0..Len(packed) : c[n] = d[n]
  BY <1>0, <1>3, StepwiseEqual
<1>5. \A n \in DOMAIN packed : n \in 0..Len(packed)
  BY <1>0 DEF TypeOK
<1> QED BY <1>0, <1>1, <1>2, <1>4, <1>5 DEF Fit, OthersFit

LEMMA NextFits == IInv /\ Fit /\ CostRuns' /\ [Next]_vars => Fit'
<1> SUFFICES ASSUME IInv, Fit, CostRuns', [Next]_vars PROVE Fit'
  OBVIOUS
<1>0. TypeOK
  BY DEF IInv
<1>1. CASE Reserve
  <2>1. i \in DOMAIN ranked /\ UNCHANGED <<ranked, budget>>
    BY <1>0, <1>1 DEF Reserve, TypeOK
  <2> QED BY <1>0, <1>1, <2>1, TakeFits, LeaveFits DEF Reserve, Leave
<1>2. CASE Fill
  <2>1. i \in DOMAIN ranked /\ UNCHANGED <<ranked, budget>>
    BY <1>0, <1>2 DEF Fill, TypeOK
  <2> QED BY <1>0, <1>2, <2>1, TakeFits, LeaveFits DEF Fill, Leave
<1>3. CASE NextPass \/ UNCHANGED vars
  BY <1>0, <1>3, LeaveFits DEF NextPass, vars
<1> QED BY <1>1, <1>2, <1>3 DEF Next

\* Only protected records can exceed the budget: whenever any other one is packed, it
\* and everything packed before it fit.
THEOREM BudgetKept == Spec => []OthersFit
<1>1. Init /\ CostRuns => Fit
  BY DEF Init, CostRuns, Fit, OthersFit
<1>2. IInv => TypeOK
  BY DEF IInv
<1>3. Fit => OthersFit
  BY DEF Fit
<1> QED BY <1>1, <1>2, <1>3, NextFits, PackerInvariant, CostUnfolds, PTL DEF Spec
-----------------------------------------------------------------------------
(***************************************************************************)
(* No displacement.  Pass 1 does what it would do with the critical        *)
(* records alone; pass 2 takes none of them, since those that pass 1 left  *)
(* no longer fit.                                                          *)
(***************************************************************************)

\* What the critical records alone make of the n-th record, after `got`.
AloneStep(got, n) ==
  IF Critical(ranked[n]) /\ (ranked[n].prot \/ got[2] + ranked[n].cost <= budget)
  THEN <<got[1] \cup {n}, got[2] + ranked[n].cost>> ELSE got

AloneRuns ==
  /\ Alone[0] = <<{}, 0>>
  /\ \A n \in 1..Len(ranked) : Alone[n] = AloneStep(Alone[n - 1], n)

\* The recursion of Alone has a solution.
LEMMA AloneUnfolds == TypeOK => AloneRuns
<1> SUFFICES ASSUME TypeOK PROVE AloneRuns
  OBVIOUS
<1> DEFINE V == (SUBSET (1..Len(ranked))) \X Nat
           C(a, n) == IF n = 0 THEN <<{}, 0>> ELSE AloneStep(a[n - 1], n)
           step == [p \in (1..Len(ranked)) \X V |-> AloneStep(p[2], p[1])]
           F == CHOOSE a : a = [n \in 0..Len(ranked) |-> C(a, n)]
<1>0. Len(ranked) \in Nat
  BY DEF TypeOK
<1>1. ASSUME NEW n \in 1..Len(ranked), NEW got \in V PROVE AloneStep(got, n) \in V
  <2>1. ranked[n].cost \in Nat
    BY EntryAt DEF TypeOK
  <2>2. got[1] \cup {n} \in SUBSET (1..Len(ranked)) /\ got[2] \in Nat
    OBVIOUS
  <2> QED BY <2>1, <2>2 DEF AloneStep
<1>2. <<{}, 0>> \in V
  OBVIOUS
<1> HIDE DEF V
<1>3. step \in [(1..Len(ranked)) \X V -> V]
  BY <1>1
<1>4. PICK g \in [0..Len(ranked) -> V] : Recurs(g, Len(ranked), <<{}, 0>>, step)
  <2> HIDE DEF step
  <2> QED BY <1>0, <1>2, <1>3, RecursionSolved
<1>5. ASSUME NEW n \in 0..Len(ranked) PROVE g[n] = C(g, n)
  <2>1. CASE n = 0
    BY <1>4, <2>1 DEF Recurs
  <2>2. CASE n # 0
    <3>1. n \in 1..Len(ranked) /\ g[n - 1] \in V
      BY <1>0, <2>2
    <3>2. g[n] = step[<<n, g[n - 1]>>]
      BY <1>4, <3>1 DEF Recurs
    <3> QED BY <2>2, <3>1, <3>2
  <2> QED BY <2>1, <2>2
<1> HIDE DEF step
<1>6. g = [n \in 0..Len(ranked) |-> C(g, n)]
  BY <1>5
<1>7. F = [n \in 0..Len(ranked) |-> C(F, n)]
  BY <1>6
<1>8. Alone = F
  BY DEF Alone, AloneStep
<1> HIDE DEF F
<1>9. ASSUME NEW n \in 0..Len(ranked) PROVE Alone[n] = C(Alone, n)
  <2> DEFINE G == [m \in 0..Len(ranked) |-> C(F, m)]
  <2>1. Alone = G
    BY <1>7, <1>8
  <2>2. G[n] = C(F, n)
    OBVIOUS
  <2> HIDE DEF G
  <2> QED BY <1>8, <2>1, <2>2
<1>10. ASSUME NEW n \in 1..Len(ranked) PROVE Alone[n] = AloneStep(Alone[n - 1], n)
  <2>1. n \in 0..Len(ranked) /\ n # 0
    BY <1>0
  <2> QED BY <1>9, <2>1
<1> QED BY <1>0, <1>9, <1>10 DEF AloneRuns

\* What the critical records alone would do depends on the input only.
LEMMA AloneKept ==
  ASSUME TypeOK, AloneRuns, AloneRuns', UNCHANGED <<ranked, budget>>
  PROVE  \A n \in 0..Len(ranked) : Alone'[n] = Alone[n]
<1>0. Len(ranked) \in Nat
  BY DEF TypeOK
<1>1. PICK a : a = Alone
  OBVIOUS
<1>2. PICK b : b = Alone'
  OBVIOUS
<1>3. a[0] = b[0]
  BY <1>1, <1>2 DEF AloneRuns
<1>4. ASSUME NEW n \in 1..Len(ranked), a[n - 1] = b[n - 1] PROVE a[n] = b[n]
  <2>1. a[n] = AloneStep(a[n - 1], n)
    BY <1>1 DEF AloneRuns
  <2>2. b[n] = AloneStep(b[n - 1], n)
    BY <1>2 DEF AloneRuns, AloneStep, Critical
  <2> QED BY <1>4, <2>1, <2>2
<1>5. \A n \in 0..Len(ranked) : a[n] = b[n]
  BY <1>0, <1>3, <1>4, StepwiseEqual
<1> QED BY <1>1, <1>2, <1>5

CriticalPacked == {k \in Packed : Critical(ranked[k])}

Undisplaced ==
  /\ AloneRuns
  /\ pass = "reserve" => CriticalPacked = Packed /\ Alone[i - 1] = <<Packed, used>>
  /\ pass # "reserve" => CriticalPacked = Alone[Len(ranked)][1]
  /\ \A k \in Reserved \ Packed : Critical(ranked[k]) => used + ranked[k].cost > budget

LEMMA ReserveDisplacesNone ==
  ASSUME IInv, Undisplaced, AloneRuns', Reserve
  PROVE  Undisplaced'
<1>0. /\ TypeOK /\ pass = "reserve" /\ pass' = pass /\ i \in 1..Len(ranked) /\ i' = i + 1
      /\ UNCHANGED <<ranked, budget>>
  BY DEF IInv, Reserve, TypeOK
<1>1. /\ i \in DOMAIN ranked /\ i \notin Packed /\ Distinct
      /\ used \in Nat /\ budget \in Nat /\ ranked[i].cost \in Nat
  BY <1>0, EntryAt DEF IInv, Ahead, TypeOK
<1>2. Reserved' = Reserved \cup {i}
  BY <1>0, <1>1 DEF Reserved, Positions, TypeOK
<1>3. Alone'[i' - 1] = AloneStep(<<Packed, used>>, i)
  <2>1. Alone[i] = AloneStep(Alone[i - 1], i)
    BY <1>0 DEF Undisplaced, AloneRuns
  <2>2. i' - 1 = i /\ i \in 0..Len(ranked)
    BY <1>0
  <2>3. Alone'[i] = Alone[i]
    BY <1>0, <2>2, AloneKept DEF Undisplaced
  <2> QED BY <1>0, <2>1, <2>2, <2>3 DEF Undisplaced
<1>4. \A k \in Reserved : k \in DOMAIN ranked
  BY <1>0 DEF Reserved, Positions
<1>5. CASE Take /\ Critical(ranked[i]) /\ (ranked[i].prot \/ used + ranked[i].cost <= budget)
  <2>1. Packed' = Packed \cup {i} /\ used' = used + ranked[i].cost /\ used' >= used
    BY <1>0, <1>1, <1>5, TakeOne DEF Take
  <2>2. Alone'[i' - 1] = <<Packed', used'>>
    BY <1>3, <1>5, <2>1 DEF AloneStep
  <2>3. CriticalPacked' = Packed'
    BY <1>0, <1>5, <2>1 DEF Undisplaced, CriticalPacked, Critical
  <2>4. ASSUME NEW k \in Reserved' \ Packed', Critical(ranked[k])
        PROVE  used' + ranked[k].cost > budget
    <3>1. k \in Reserved \ Packed /\ k \in DOMAIN ranked
      BY <1>2, <1>4, <2>1
    <3>2. used + ranked[k].cost > budget /\ ranked[k].cost \in Nat
      BY <1>0, <2>4, <3>1, EntryAt DEF Undisplaced
    <3> QED BY <1>1, <2>1, <3>2
  <2> QED BY <1>0, <2>2, <2>3, <2>4 DEF Undisplaced, Critical
<1>6. CASE Leave /\ ~ (Critical(ranked[i]) /\ (ranked[i].prot \/ used + ranked[i].cost <= budget))
  <2>1. Packed' = Packed /\ used' = used
    BY <1>0, <1>6, LeaveOne
  <2>2. Alone'[i' - 1] = <<Packed', used'>>
    BY <1>3, <1>6, <2>1 DEF AloneStep
  <2>3. CriticalPacked' = Packed'
    BY <1>0, <2>1 DEF Undisplaced, CriticalPacked, Critical
  <2>4. ASSUME NEW k \in Reserved' \ Packed', Critical(ranked[k])
        PROVE  used' + ranked[k].cost > budget
    <3>1. CASE k = i
      BY <1>1, <1>6, <2>1, <2>4, <3>1
    <3>2. CASE k # i
      BY <1>0, <1>2, <2>1, <2>4, <3>2 DEF Undisplaced
    <3> QED BY <3>1, <3>2
  <2> QED BY <1>0, <2>2, <2>3, <2>4 DEF Undisplaced, Critical
<1> QED BY <1>5, <1>6 DEF Reserve, Critical

LEMMA FillDisplacesNone ==
  ASSUME IInv, Undisplaced, AloneRuns', Fill
  PROVE  Undisplaced'
<1>0. /\ TypeOK /\ Distinct /\ pass = "fill" /\ pass' = pass /\ i \in DOMAIN ranked
      /\ UNCHANGED <<ranked, budget>>
  BY DEF IInv, Fill, TypeOK
<1>1. used \in Nat /\ budget \in Nat /\ ranked[i].cost \in Nat /\ Len(ranked) \in Nat
  BY <1>0, EntryAt DEF TypeOK
<1>2. Reserved = DOMAIN ranked /\ Reserved' = DOMAIN ranked
  BY <1>0 DEF Reserved, Positions
<1>3. Alone'[Len(ranked')][1] = Alone[Len(ranked)][1]
  BY <1>0, <1>1, AloneKept DEF Undisplaced
<1>4. CASE Take /\ i \notin Packed /\ used + ranked[i].cost <= budget
  <2>1. Packed' = Packed \cup {i} /\ used' \in Nat /\ used' >= used
    BY <1>0, <1>4, TakeOne
  <2>2. ~ Critical(ranked[i])
    BY <1>0, <1>1, <1>2, <1>4 DEF Undisplaced
  <2>3. CriticalPacked' = CriticalPacked
    BY <1>0, <2>1, <2>2 DEF CriticalPacked, Critical
  <2>4. ASSUME NEW k \in Reserved' \ Packed', Critical(ranked[k])
        PROVE  used' + ranked[k].cost > budget
    <3>1. k \in Reserved \ Packed /\ k \in DOMAIN ranked
      BY <1>2, <2>1
    <3>2. used + ranked[k].cost > budget /\ ranked[k].cost \in Nat
      BY <1>0, <2>4, <3>1, EntryAt DEF Undisplaced
    <3> QED BY <1>1, <2>1, <3>2
  <2> QED BY <1>0, <1>3, <2>3, <2>4 DEF Undisplaced, Critical
<1>5. CASE Leave
  <2>1. Packed' = Packed /\ used' = used
    BY <1>0, <1>5, LeaveOne
  <2>2. CriticalPacked' = CriticalPacked
    BY <1>0, <2>1 DEF CriticalPacked, Critical
  <2> QED BY <1>0, <1>2, <1>3, <2>1, <2>2 DEF Undisplaced, Critical
<1> QED BY <1>4, <1>5 DEF Fill

LEMMA NextPassDisplacesNone ==
  ASSUME IInv, Undisplaced, AloneRuns', NextPass
  PROVE  Undisplaced'
<1>0. /\ TypeOK /\ UNCHANGED <<ranked, budget, packed, used>>
      /\ i \in 1..(Len(ranked) + 1) /\ i > Len(ranked) /\ Len(ranked) \in Nat
      /\ pass \in {"reserve", "fill"} /\ pass' # "reserve"
  BY DEF IInv, NextPass, TypeOK
<1>1. Packed' = Packed /\ CriticalPacked' = CriticalPacked
  BY <1>0 DEF Packed, CriticalPacked, Critical
<1>2. Alone'[Len(ranked')][1] = Alone[Len(ranked)][1]
  BY <1>0, AloneKept DEF Undisplaced
<1>3. CriticalPacked = Alone[Len(ranked)][1]
  <2>1. i - 1 = Len(ranked)
    BY <1>0
  <2> QED BY <1>0, <2>1 DEF Undisplaced
<1>4. Reserved = DOMAIN ranked /\ Reserved' = DOMAIN ranked
  <2>1. \A k \in DOMAIN ranked : k < i
    BY <1>0 DEF TypeOK
  <2> QED BY <1>0, <2>1 DEF Reserved, Positions
<1> QED BY <1>0, <1>1, <1>2, <1>3, <1>4 DEF Undisplaced, Critical

LEMMA NextDisplacesNone ==
  IInv /\ Undisplaced /\ AloneRuns' /\ [Next]_vars => Undisplaced'
<1> SUFFICES ASSUME IInv, Undisplaced, AloneRuns', [Next]_vars PROVE Undisplaced'
  OBVIOUS
<1>1. CASE UNCHANGED vars
  <2>1. TypeOK /\ UNCHANGED <<ranked, budget, packed, used, i, pass>> /\ Len(ranked) \in Nat
    BY <1>1 DEF vars, IInv, TypeOK
  <2>2. /\ Packed' = Packed /\ CriticalPacked' = CriticalPacked
        /\ Reserved' = Reserved
    BY <2>1 DEF Packed, CriticalPacked, Critical, Reserved, Positions
  <2>3. \A n \in 0..Len(ranked) : Alone'[n] = Alone[n]
    BY <2>1, AloneKept DEF Undisplaced
  <2>4. i - 1 \in 0..Len(ranked) /\ Len(ranked) \in 0..Len(ranked)
    BY <2>1 DEF TypeOK
  <2> QED BY <2>1, <2>2, <2>3, <2>4 DEF Undisplaced, Critical
<1> QED BY <1>1, ReserveDisplacesNone, FillDisplacesNone, NextPassDisplacesNone DEF Next

\* However much history competes for the budget, the critical records that are packed
\* are the ones that would be packed without it (T-03-02-01).
THEOREM NoneDisplaced == Spec => []NoDisplacement
<1>1. Init /\ IInv /\ AloneRuns => Undisplaced
  <2> SUFFICES ASSUME Init, IInv, AloneRuns PROVE Undisplaced
    OBVIOUS
  <2>1. Packed = {} /\ CriticalPacked = {} /\ Reserved = {} /\ i - 1 = 0
    BY DEF Init, IInv, TypeOK, Packed, CriticalPacked, Reserved, Positions
  <2> QED BY <2>1 DEF Init, AloneRuns, Undisplaced
<1>2. IInv => TypeOK
  BY DEF IInv
<1>3. Undisplaced => NoDisplacement
  BY DEF Undisplaced, CriticalPacked, NoDisplacement
<1> QED
  BY <1>1, <1>2, <1>3, NextDisplacesNone, PackerInvariant, AloneUnfolds, PTL DEF Spec
=============================================================================
