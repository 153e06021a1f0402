------------------------------- MODULE Packer -------------------------------
(***************************************************************************)
(* pack_records: two passes over the ranked records.  The first reserves   *)
(* the critical ones (protected, or a live fact), the second fills what is *)
(* left of the token budget.  One step is one iteration of a loop.         *)
(***************************************************************************)
EXTENDS Naturals, Sequences

CONSTANTS
  Rankings,   \* the inputs: sequences of Entry
  Budgets     \* the budgets

\* What the packer looks at: protected, FACT and live, tokens of the summary.
Entry == [prot : BOOLEAN, fact : BOOLEAN, cost : Nat]

ASSUME PackerAssumption ==
  /\ Rankings \subseteq Seq(Entry)
  /\ Budgets \subseteq Nat

VARIABLES
  ranked,   \* the input, in rank order
  budget,
  pass,     \* "reserve", "fill" or "done"
  i,        \* the position the loop is at
  packed,   \* positions of ranked, in the order they were packed
  used      \* tokens packed so far

vars == <<ranked, budget, pass, i, packed, used>>

Packed == {packed[k] : k \in DOMAIN packed}

Critical(e) == e.prot \/ e.fact

\* Take the entry, or leave it and go on: a shorter one may still fit.
Take == packed' = Append(packed, i) /\ used' = used + ranked[i].cost
Leave == UNCHANGED <<packed, used>>

\* Mutation: a protected record has to fit, too.
ReserveFitting ==
  /\ pass = "reserve" /\ i <= Len(ranked)
  /\ IF Critical(ranked[i]) /\ used + ranked[i].cost <= budget THEN Take ELSE Leave
  /\ i' = i + 1
  /\ UNCHANGED <<ranked, budget, pass>>

\* Mutation: a fact is reserved whether it fits or not.
ReserveAll ==
  /\ pass = "reserve" /\ i <= Len(ranked)
  /\ IF Critical(ranked[i]) THEN Take ELSE Leave
  /\ i' = i + 1
  /\ UNCHANGED <<ranked, budget, pass>>

\* Mutation: one pass; whatever fits is taken in rank order.
ReserveAnything ==
  /\ pass = "reserve" /\ i <= Len(ranked)
  /\ IF ranked[i].prot \/ used + ranked[i].cost <= budget THEN Take ELSE Leave
  /\ i' = i + 1
  /\ UNCHANGED <<ranked, budget, pass>>

Reserve ==
  /\ pass = "reserve" /\ i <= Len(ranked)
  /\ IF ranked[i].prot \/ (ranked[i].fact /\ used + ranked[i].cost <= budget)
     THEN Take ELSE Leave
  /\ i' = i + 1
  /\ UNCHANGED <<ranked, budget, pass>>

\* Mutation: the second pass stops at the first record that does not fit.
FillUntilFull ==
  /\ pass = "fill" /\ i <= Len(ranked)
  /\ LET full == i \notin Packed /\ used + ranked[i].cost > budget
     IN  /\ IF full \/ i \in Packed THEN Leave ELSE Take
         /\ i' = IF full THEN Len(ranked) + 1 ELSE i + 1
  /\ UNCHANGED <<ranked, budget, pass>>

Fill ==
  /\ pass = "fill" /\ i <= Len(ranked)
  /\ IF i \notin Packed /\ used + ranked[i].cost <= budget THEN Take ELSE Leave
  /\ i' = i + 1
  /\ UNCHANGED <<ranked, budget, pass>>

\* Mutation: positions are counted from 0.
NextPassFromZero ==
  /\ pass \in {"reserve", "fill"} /\ i > Len(ranked)
  /\ pass' = IF pass = "reserve" THEN "fill" ELSE "done"
  /\ i' = 0
  /\ UNCHANGED <<ranked, budget, packed, used>>

\* The end of a loop.
NextPass ==
  /\ pass \in {"reserve", "fill"} /\ i > Len(ranked)
  /\ pass' = IF pass = "reserve" THEN "fill" ELSE "done"
  /\ i' = 1
  /\ UNCHANGED <<ranked, budget, packed, used>>

Init ==
  /\ ranked \in Rankings
  /\ budget \in Budgets
  /\ pass = "reserve"
  /\ i = 1
  /\ packed = <<>>
  /\ used = 0

Next == Reserve \/ Fill \/ NextPass

Spec == Init /\ [][Next]_vars

-----------------------------------------------------------------------------
TypeOK ==
  /\ ranked \in Seq(Entry)
  /\ budget \in Nat
  /\ pass \in {"reserve", "fill", "done"}
  /\ i \in 1..(Len(ranked) + 1)
  /\ packed \in Seq(1..Len(ranked))
  /\ used \in Nat

\* "Protected records are ALWAYS included regardless of budget" (WR-03, RECALL-05).
ProtectedPacked ==
  pass = "done" => \A k \in DOMAIN ranked : ranked[k].prot => k \in Packed

\* Only protected records can exceed the budget: when any other was packed, what had
\* been packed by then fitted (docstring: "critical records are always included (up
\* to budget)").  Cost(n) is the cost of the first n packed records.
Cost ==
  LET C[n \in 0..Len(packed)] == IF n = 0 THEN 0 ELSE C[n - 1] + ranked[packed[n]].cost
  IN  C
OthersFit ==
  \A n \in DOMAIN packed : ranked[packed[n]].prot \/ Cost[n] <= budget

\* Nothing that still fits is left out ("continue, not break": Pitfall 3), and no
\* record is packed twice.
NothingFitsLeft ==
  /\ pass = "done" => \A k \in DOMAIN ranked \ Packed : used + ranked[k].cost > budget
  /\ \A m, n \in DOMAIN packed : packed[m] = packed[n] => m = n

\* No history can displace a critical record (T-03-02-01, RECALL-05): the critical
\* records that are packed are those that would be packed if there were no others.
\* Alone[n] is what would be packed of the first n records, and its tokens.
Alone ==
  LET A[n \in 0..Len(ranked)] ==
        IF n = 0 THEN <<{}, 0>>
        ELSE LET e == ranked[n]
                 got == A[n - 1]
             IN  IF Critical(e) /\ (e.prot \/ got[2] + e.cost <= budget)
                 THEN <<got[1] \cup {n}, got[2] + e.cost>> ELSE got
  IN  A
NoDisplacement ==
  pass = "done" => {k \in Packed : Critical(ranked[k])} = Alone[Len(ranked)][1]
=============================================================================
