------------------------------- MODULE Recall -------------------------------
(***************************************************************************)
(* RecallPath.execute, the body of MemoryEngine.recall, up to ranking: the *)
(* nearest live records, fetched one by one, united with the user's turns  *)
(* in the buffer.  It awaits the search and every fetch, so the engine's   *)
(* other verbs run in between.                                             *)
(*                                                                         *)
(* Ranking orders the result and packing cuts it to a budget (Packer);     *)
(* access_count and last_accessed feed scores that are not modelled.       *)
(***************************************************************************)
EXTENDS Mnema

CONSTANTS
  Readers,   \* recall() calls that may be in flight
  Nearest    \* k: how many vectors the search looks at, whoever owns them

ASSUME RecallAssumption == Nearest \in Nat

VARIABLES
  recall,   \* per call: its local state
  earlier,  \* history: turns that were remembered before the last restart
  pushed    \* history: per session, the turns pushed to the buffer since, in order

recallVars == <<vars, recall, earlier, pushed>>

\* A fetched record: its id, the turn its content came from, and whether it was a
\* draft (whose content is the turn's own text).
Hit == [id : Records, said : Turns, draft : BOOLEAN]

RecallType == [pc : {"idle", "search", "fetch", "done"}, user : Users \cup {None},
               hits : SUBSET Records, got : SUBSET Hit, turns : SUBSET Turns,
               due : SUBSET Turns, gone : SUBSET Records]

IdleRecall == [pc |-> "idle", user |-> None, hits |-> {}, got |-> {}, turns |-> {},
               due |-> {}, gone |-> {}]

\* recall(query, user_id=u).  History: `due` holds the turns of this user that
\* remember() has returned for, `gone` the records that are not live any more.
RecallStart(q, u) ==
  /\ recall[q].pc \in {"idle", "done"}
  /\ recall' = [recall EXCEPT ![q] =
       [IdleRecall EXCEPT !.pc = "search", !.user = u,
          !.due = {t \in Turns \ earlier : write[t] = "done" /\ Input[t].user = u},
          !.gone = {r \in Records : t1[r].status = "retired"}]]
  /\ UNCHANGED <<vars, earlier, pushed>>

\* vector_search: of the vectors nearest to the query, those of live rows of u.
RecallSearch(q) ==
  /\ recall[q].pc = "search"
  /\ \E near \in SUBSET vec :
       /\ Cardinality(near) = IF Cardinality(vec) < Nearest THEN Cardinality(vec) ELSE Nearest
       /\ recall' = [recall EXCEPT ![q] =
            [@ EXCEPT !.pc = "fetch", !.hits = near \cap Searchable(recall[q].user)]]
  /\ UNCHANGED <<vars, earlier, pushed>>

\* get(record_id): whatever the row has become since the search.
RecallFetch(q) ==
  /\ recall[q].pc = "fetch"
  /\ \E r \in recall[q].hits :
       recall' = [recall EXCEPT ![q] =
         IF Readable(r)
         THEN [@ EXCEPT !.hits = recall[q].hits \ {r},
                        !.got = recall[q].got \cup
                                  {[id |-> r, said |-> t1[r].said, draft |-> t1[r].prov]}]
         ELSE IdleRecall]
  /\ UNCHANGED <<vars, earlier, pushed>>

\* Mutations: the turns of everybody (as_candidates); append for extend.
BufferedOfAll(u) == {t \in Turns : \E key \in Users \X Sessions :
                       \E i \in DOMAIN buffer[key] : buffer[key][i] = t}
BufferedAsLists(u) == {buffer[<<u, s>>] : s \in Sessions}

\* as_candidates_for_user: the turns of all sessions of u.
Buffered(u) == {t \in Turns : \E s \in Sessions : \E i \in DOMAIN buffer[<<u, s>>] :
                  buffer[<<u, s>>][i] = t}

\* The turns whose content no fetched record has.  A draft has its turn's content;
\* whether the LLM's wording of a turn is the turn's own text is up to the LLM.
NotInT1(got, T) ==
  {kept \in SUBSET T :
     /\ \A t \in kept : \A g \in got : g.said = t => ~ g.draft
     /\ \A t \in T \ kept : \E g \in got : g.said = t}

\* The buffer is read after the last fetch.
RecallMerge(q) ==
  /\ recall[q].pc = "fetch"
  /\ recall[q].hits = {}
  /\ \E kept \in NotInT1(recall[q].got, Buffered(recall[q].user)) :
       recall' = [recall EXCEPT ![q] = [@ EXCEPT !.pc = "done", !.turns = kept]]
  /\ UNCHANGED <<vars, earlier, pushed>>

RecallStep(q) == RecallSearch(q) \/ RecallFetch(q) \/ RecallMerge(q)

RecallInit ==
  /\ recall = [q \in Readers |-> IdleRecall]
  /\ earlier = {}
  /\ pushed = EmptyBuffer

\* The session of a turn: its key in the buffer.
Own(t) == <<Input[t].user, Input[t].session>>

\* History: a remember() that gets past its push is noted, whatever the buffer keeps.
NotePush ==
  IF \E t \in Turns : write[t] = "push" /\ write'[t] # "push"
  THEN \E t \in Turns :
         /\ write[t] = "push" /\ write'[t] # "push"
         /\ pushed' = [pushed EXCEPT ![Own(t)] = Append(@, t)]
  ELSE UNCHANGED pushed

RecallCrash ==
  /\ Crash
  /\ recall' = [q \in Readers |-> IdleRecall]
  /\ earlier' = {t \in Turns : write[t] # "new"}
  /\ pushed' = EmptyBuffer

RecallNext ==
  \/ Work /\ NotePush /\ UNCHANGED <<recall, earlier>>
  \/ \E q \in Readers, u \in Users : RecallStart(q, u)
  \/ \E q \in Readers : RecallStep(q)
  \/ RecallCrash

RecallSpec == Init /\ RecallInit /\ [][RecallNext]_recallVars

-----------------------------------------------------------------------------
RecallTypeOK ==
  /\ TypeOK
  /\ recall \in [Readers -> RecallType]
  /\ earlier \subseteq Turns
  /\ pushed \in [Users \X Sessions -> Seq(Turns)]

Returned(q) == recall[q].pc = "done"

\* Everything recall returns belongs to the user it was called for (D-02).
RecallScoped ==
  \A q \in Readers : Returned(q) =>
    /\ \A g \in recall[q].got : t1[g.id].user = recall[q].user
    /\ \A t \in recall[q].turns : Input[t].user = recall[q].user

\* A record that was superseded, forgotten or evicted before the call is not among
\* the records it returns (RECALL-01).
RetiredStaysOut ==
  \A q \in Readers : \A g \in recall[q].got : g.id \notin recall[q].gone

\* BufferSize turns of the session of t were pushed after it.
Overtaken(t) ==
  \E i \in DOMAIN pushed[Own(t)] :
    pushed[Own(t)][i] = t /\ Len(pushed[Own(t)]) - i >= BufferSize

\* What remember() has returned for is recalled at once, from the buffer or from T1,
\* whatever consolidation is doing meanwhile, as long as it is among the last
\* BufferSize turns of its session.
RememberedIsRecalled ==
  \A q \in Readers : Returned(q) =>
    \A t \in recall[q].due :
      t \in recall[q].turns \/ (\E g \in recall[q].got : g.said = t) \/ Overtaken(t)

\* README: "Superseded facts can't resurface ... recall only ever returns live
\* records": recall returns no turn whose record was superseded before the call.
SupersededStaysOut ==
  \A q \in Readers : \A t \in recall[q].turns :
    t1id[t] \in recall[q].gone => t1[t1id[t]].by = None
=============================================================================
