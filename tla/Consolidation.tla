--------------------------- MODULE Consolidation ----------------------------
(***************************************************************************)
(* ConsolidationPipeline.run: drain the staging queue, extract records     *)
(* from each turn with the LLM, reconcile or resolve each of them, promote *)
(* to the vault, evict.  A run suspends at every await, so two runs (an    *)
(* explicit consolidate() and the scheduler's job), forget(), evict() and  *)
(* remember() interleave between the steps below.  What a run has read     *)
(* from T1 before an await (`seen`) it uses after it.                      *)
(***************************************************************************)
EXTENDS Forgetting

CONSTANTS
  Scopes,       \* the user_id arguments consolidate() is called with
  Extractions,  \* the items the LLM may put into its JSON list
  MaxItems      \* how many items it may extract from one turn

(***************************************************************************)
(* An extracted item: whether its content holds a safety keyword, and the  *)
(* protected, record_type and salience the LLM gives it.                   *)
(***************************************************************************)
Item == [safety : BOOLEAN, prot : BOOLEAN, type : RecordTypes, high : BOOLEAN]

ASSUME ConsolidationAssumption ==
  /\ Scopes \subseteq Users \cup {None}
  /\ Extractions \subseteq Item
  /\ MaxItems \in Nat

VARIABLES
  runs,       \* per run: its local state
  processed   \* history: turns whose extraction a run has completed

runVars == <<runs, processed>>

RunType == [pc : {"idle", "extract", "item", "reconcile", "search", "insert",
                  "fetch", "judge", "sweep", "decay", "evict"},
            items : Seq(Turns), left : 0..MaxItems, ext : Item,
            near : Records \cup {None}, seen : Row,
            uids : SUBSET Users, uid : Users \cup {None}]

NoItem == [safety |-> FALSE, prot |-> FALSE, type |-> "preference", high |-> FALSE]

IdleRun == [pc |-> "idle", items |-> <<>>, left |-> 0, ext |-> NoItem, near |-> None,
            seen |-> NoRow, uids |-> {}, uid |-> None]

Running(c) == runs[c].pc # "idle"

\* Mutation: the LLM's word stands.
PinNothing(x) == x

\* The safety pin: a content rule that overrides what the LLM says.
Pin(x) == IF x.safety THEN [x EXCEPT !.prot = TRUE, !.high = TRUE, !.type = "fact"] ELSE x

\* RecordType(...) with the fallback to PREFERENCE.
Coerce(type) == IF type \in ValidTypes THEN type ELSE "preference"

Turn(c) == Head(runs[c].items)
UserOfTurn(c) == Input[Turn(c)].user

\* The pipeline goes on to the next item of the same turn, forgetting its locals.
NextItem(c) ==
  runs' = [runs EXCEPT ![c] = [@ EXCEPT !.pc = "item", !.ext = NoItem,
                                        !.near = None, !.seen = NoRow]]

Abort(c) == runs' = [runs EXCEPT ![c] = IdleRun]

-----------------------------------------------------------------------------
(***************************************************************************)
(* Steps 1 and 1b: take everything out of the queue, then keep what is in  *)
(* scope.  The user set of the vault and eviction passes follows from the  *)
(* kept items and the scope.                                               *)
(***************************************************************************)
\* Mutation: no case for the global scope.
InScopeOfOne(s, q) == SelectSeq(q, LAMBDA t : Input[t].user = s)

\* The turns of q that are in scope, in their order (SelectSeq, as a recursive
\* function that can be reasoned about).
InScope(s, q) ==
  LET Kept[n \in 0..Len(q)] ==
        IF n = 0 THEN <<>>
        ELSE IF s = None \/ Input[q[n]].user = s THEN Append(Kept[n - 1], q[n])
        ELSE Kept[n - 1]
  IN  Kept[Len(q)]

\* Mutation: the turns are read and left in the queue.
DrainByPeeking(c, s) ==
  /\ ~ Running(c)
  /\ LET kept == InScope(s, queue)
     IN  /\ kept # <<>>
         /\ runs' = [runs EXCEPT ![c] =
              [IdleRun EXCEPT !.pc = "extract", !.items = kept,
                              !.uids = {Input[kept[i]].user : i \in DOMAIN kept}]]
  /\ UNCHANGED <<storeVars, processed, evictor>>

Drain(c, s) ==
  /\ ~ Running(c)
  /\ LET kept == InScope(s, queue)
         uids == {Input[kept[i]].user : i \in DOMAIN kept}
                   \cup (IF s = None THEN {} ELSE {s})
     IN  runs' = [runs EXCEPT ![c] =
           [IdleRun EXCEPT !.pc = IF kept # <<>> THEN "extract"
                                  ELSE IF uids # {} THEN "sweep" ELSE "idle",
                           !.items = kept, !.uids = uids]]
  /\ queue' = <<>>
  /\ UNCHANGED <<t1, vec, t0, archived, audited, vault, buffer, pinned, processed, evictor>>

\* Step 2: one LLM call per turn.  No item at all stands for an empty list and
\* for a response that is not a JSON list.
Extract(c) ==
  /\ runs[c].pc = "extract"
  /\ \E n \in 0..MaxItems :
       runs' = [runs EXCEPT ![c] = [@ EXCEPT !.pc = "item", !.left = n]]
  /\ UNCHANGED <<storeVars, processed, evictor>>

\* Mutation: the lookup by t0_ref finds nothing.
NoDrafts(t) == {}

\* The live provisional row of this turn, if there is one.  It is readable: only
\* Reconcile writes a type that was not checked, and it ends the row's draft state.
Drafts(t) == {r \in Records : /\ Live(r) /\ t1[r].prov
                              /\ t1[r].turn = t /\ t1[r].user = Input[t].user}

\* Steps 3 and 4a: pin the item, then find_by_t0_ref.
TakeItem(c) ==
  /\ runs[c].pc = "item"
  /\ runs[c].left > 0
  /\ \E x \in Extractions :
       LET rest == [runs[c] EXCEPT !.left = @ - 1, !.ext = Pin(x)]
       IN  \/ /\ Drafts(Turn(c)) = {}
              /\ runs' = [runs EXCEPT ![c] = [rest EXCEPT !.pc = "search"]]
           \/ \E r \in Drafts(Turn(c)) :
                runs' = [runs EXCEPT ![c] = [rest EXCEPT !.pc = "reconcile",
                                                         !.near = r, !.seen = t1[r]]]
  /\ UNCHANGED <<storeVars, processed, evictor>>

\* Step 4b: upgrade the draft in place.  record_type is written as the LLM gave it.
Reconcile(c) ==
  /\ runs[c].pc = "reconcile"
  /\ LET x == runs[c].ext
         r == runs[c].near
     IN  Update(r, [t1[r] EXCEPT !.prov = FALSE, !.type = x.type, !.high = x.high,
                                 !.prot = x.prot \/ runs[c].seen.prot])
  /\ NextItem(c)
  /\ UNCHANGED <<vec, t0, archived, audited, vault, queue, buffer, pinned, processed, evictor>>

\* Step 5a: embed the item and search for near records; which of them are near
\* is up to the embedding.
Search(c) ==
  /\ runs[c].pc = "search"
  /\ \/ runs' = [runs EXCEPT ![c].pc = "insert"]
     \/ \E r \in Searchable(UserOfTurn(c)) :
          runs' = [runs EXCEPT ![c] = [@ EXCEPT !.pc = "fetch", !.near = r]]
  /\ UNCHANGED <<storeVars, processed, evictor>>

\* Step 5b: get the near record; only one of the same type counts.
Fetch(c) ==
  /\ runs[c].pc = "fetch"
  /\ LET r == runs[c].near
     IN  IF ~ Readable(r) THEN Abort(c)
         ELSE IF t1[r].type = Coerce(runs[c].ext.type)
         THEN runs' = [runs EXCEPT ![c] = [@ EXCEPT !.pc = "judge", !.seen = t1[r]]]
         ELSE runs' = [runs EXCEPT ![c] = [@ EXCEPT !.pc = "insert", !.near = None]]
  /\ UNCHANGED <<storeVars, processed, evictor>>

ConfirmedRow(c, over) ==
  LET x == runs[c].ext
  IN  [NoRow EXCEPT !.status = "live", !.user = UserOfTurn(c), !.turn = Turn(c),
                    !.said = Turn(c), !.type = Coerce(x.type), !.safety = x.safety,
                    !.prot = x.prot, !.high = x.high, !.over = over]

\* _insert_new_confirmed
Insert(c) ==
  /\ \E r \in Unused : UpsertWithVector(r, ConfirmedRow(c, None))
  /\ NextItem(c)
  /\ UNCHANGED <<t0, archived, audited, vault, queue, buffer, processed, evictor>>

InsertNew(c) == runs[c].pc = "insert" /\ Insert(c)

(***************************************************************************)
(* Step 6: the judge's verdict, applied to the row that was read before    *)
(* the LLM was asked.                                                      *)
(***************************************************************************)
\* Mutations: the flag is taken from the LLM; the stale row is written back whole.
RefinedFlag(c, r) ==
  LET x == runs[c].ext
  IN  [t1[r] EXCEPT !.said = Turn(c), !.safety = x.safety, !.high = x.high, !.prot = x.prot]
RefinedSnapshot(c, r) ==
  LET x == runs[c].ext
      old == runs[c].seen
  IN  [old EXCEPT !.said = Turn(c), !.safety = x.safety, !.high = x.high,
                  !.prot = x.prot \/ old.prot]

\* "refine": overwrite the content of the existing row.
RefinedRow(c, r) ==
  LET x == runs[c].ext
  IN  [t1[r] EXCEPT !.said = Turn(c), !.safety = x.safety, !.high = x.high,
                    !.prot = x.prot \/ runs[c].seen.prot]

Refine(c) ==
  /\ runs[c].pc = "judge"
  /\ Update(runs[c].near, RefinedRow(c, runs[c].near))
  /\ NextItem(c)
  /\ UNCHANGED <<vec, t0, archived, audited, vault, queue, buffer, pinned, processed, evictor>>

\* CONS-08: a protected row or a fact is never superseded on the LLM's word.
Gated(row) == row.prot \/ row.type = "fact"

\* Mutation: the new edge replaces the list.
MarkOnly(c) ==
  /\ runs[c].pc = "judge"
  /\ Gated(runs[c].seen)
  /\ LET r == runs[c].near
     IN  Update(r, [t1[r] EXCEPT !.pending = {Turn(c)}])
  /\ NextItem(c)
  /\ UNCHANGED <<vec, t0, archived, audited, vault, queue, buffer, pinned, processed, evictor>>

\* "contradict" on a gated row: leave an edge on it.  The list that is written
\* back is the one that was read, plus the new edge.
MarkPending(c) ==
  /\ runs[c].pc = "judge"
  /\ Gated(runs[c].seen)
  /\ LET r == runs[c].near
     IN  Update(r, [t1[r] EXCEPT !.pending = runs[c].seen.pending \cup {Turn(c)},
                                 !.over = runs[c].seen.over])
  /\ NextItem(c)
  /\ UNCHANGED <<vec, t0, archived, audited, vault, queue, buffer, pinned, processed, evictor>>

\* "contradict" on any other row: atomic supersession.
SupersedeOld(c) ==
  /\ runs[c].pc = "judge"
  /\ ~ Gated(runs[c].seen)
  /\ \E r \in Unused : Supersede(runs[c].near, r, ConfirmedRow(c, runs[c].near))
  /\ NextItem(c)
  /\ UNCHANGED <<t0, archived, audited, vault, queue, buffer, processed, evictor>>

\* "distinct", and any verdict that is none of the three.
InsertDistinct(c) == runs[c].pc = "judge" /\ Insert(c)

\* All items of the turn are done.
FinishTurn(c) ==
  /\ runs[c].pc = "item"
  /\ runs[c].left = 0
  /\ processed' = processed \cup {Turn(c)}
  /\ LET rest == Tail(runs[c].items)
     IN  runs' = [runs EXCEPT ![c] = [@ EXCEPT !.items = rest,
                      !.pc = IF rest = <<>> THEN "sweep" ELSE "extract"]]
  /\ UNCHANGED <<storeVars, evictor>>

-----------------------------------------------------------------------------
(***************************************************************************)
(* Steps 7 to 9, per user: first the vault, then eviction.  Promotion is   *)
(* file work that does not suspend, so the first loop is one step.  Both   *)
(* loops raise at a row that is not readable, after the rows before it.    *)
(***************************************************************************)
\* Mutation: drafts are promoted instead of confirmed records.
PromotableDrafts(u) == {r \in LiveOf(u) : Readable(r) /\ t1[r].prov /\ t1[r].high}

Promotable(u) == {r \in LiveOf(u) : Readable(r) /\ ~ t1[r].prov /\ t1[r].high}

PromoteUser(c) ==
  /\ runs[c].pc = "sweep"
  /\ \E u \in runs[c].uids :
       IF AllReadable(u)
       THEN /\ VaultPromote(Promotable(u))
            /\ runs' = [runs EXCEPT ![c] = [@ EXCEPT !.pc = "decay", !.uid = u,
                                                     !.uids = runs[c].uids \ {u}]]
       ELSE /\ \E some \in SUBSET Promotable(u) : VaultPromote(some)
            /\ Abort(c)
  /\ UNCHANGED <<t1, vec, t0, archived, audited, queue, buffer, pinned, processed, evictor>>

\* decay_pass reads the rows; the evictor of this run works through the low ones.
\* When it has raised the run ends with them.
DecayScan(c) ==
  /\ runs[c].pc = "decay"
  /\ \E low \in SUBSET DecayCandidates(runs[c].uid) : StartEviction(c, low)
  /\ runs' = [runs EXCEPT ![c] =
       [@ EXCEPT !.pc = "evict",
                 !.uids = IF AllReadable(runs[c].uid) THEN runs[c].uids ELSE {}]]
  /\ UNCHANGED <<storeVars, processed>>

FinishUser(c) ==
  /\ runs[c].pc = "evict"
  /\ ~ Evicting(c)
  /\ runs' = [runs EXCEPT ![c] = IF @.uids = {} THEN IdleRun
                                 ELSE [@ EXCEPT !.pc = "sweep", !.uid = None]]
  /\ UNCHANGED <<storeVars, processed, evictor>>

\* Mutation: a turn whose extraction has raised is extracted again.
RetryTurn(c) ==
  /\ CanFail
  /\ Running(c) /\ runs[c].items # <<>>
  /\ runs' = [runs EXCEPT ![c].pc = "extract"]
  /\ evictor' = [evictor EXCEPT ![c] = IdleEvictor]
  /\ UNCHANGED <<storeVars, processed>>

\* A call raises: run() ends, and with it whatever it had drained.
RunFails(c) ==
  /\ CanFail
  /\ Running(c)
  /\ Abort(c)
  /\ evictor' = [evictor EXCEPT ![c] = IdleEvictor]
  /\ UNCHANGED <<storeVars, processed>>

\* The steps a run takes once it has drained the queue, its eviction steps aside.
RunStep(c) ==
  \/ Extract(c) \/ TakeItem(c) \/ Reconcile(c) \/ Search(c) \/ Fetch(c)
  \/ InsertNew(c) \/ Refine(c) \/ MarkPending(c) \/ SupersedeOld(c)
  \/ InsertDistinct(c) \/ FinishTurn(c)
  \/ PromoteUser(c) \/ DecayScan(c) \/ FinishUser(c)

RunInit == runs = [c \in Runs |-> IdleRun] /\ processed = {}
RunCrash == runs' = [c \in Runs |-> IdleRun] /\ UNCHANGED processed

RunTypeOK ==
  /\ runs \in [Runs -> RunType]
  /\ processed \subseteq Turns
=============================================================================
