-------------------------- MODULE ObjectStoreProofs --------------------------
(***************************************************************************)
(* The T0 object stores, for all sessions, turns, callers and pages: a     *)
(* t0_ref that append_turn has returned names an object, and, unless two   *)
(* appends to its session overlapped on OSS, the object it was returned    *)
(* for.                                                                    *)
(*                                                                         *)
(* A new object takes the count of its directory for its number.  So no    *)
(* number in use may reach that count (Numbered), and on OSS the count an  *)
(* append has listed page by page must still be the one when it is put     *)
(* (OneWrites, AppendKnows).                                               *)
(***************************************************************************)
EXTENDS ObjectStore, FiniteSetTheorems, TLAPS

\* A directory whose numbered objects are told apart by their count: every directory
\* of LocalFS, and those of OSS in which no two appends overlapped.
Orderly(dir) == dir \in Dirs /\ (store = "local_fs" \/ dir \notin raced)

InCall(c) == append[c].pc # "idle"
Writing(c) == append[c].pc \in {"list", "put"}

\* What is stored under numbers.
Numbered ==
  /\ \A dir \in Dirs, n \in Nat :
       Orderly(dir) /\ <<dir, n>> \in DOMAIN objects => n < Cardinality(KeysIn(dir))
  /\ store = "oss" =>
       \A dir \in Dirs, n \in Nat : <<dir, n>> \in DOMAIN objects => objects[<<dir, n>>] \in Turns

\* Appends to an orderly session take turns until they have put their object.
OneWrites ==
  \A c, d \in Callers :
    /\ Writing(c) /\ Writing(d) /\ append[c].session = append[d].session
    /\ append[c].session \notin raced
    => c = d

\* What an append under way knows.
AppendKnows(c) ==
  /\ InCall(c) => append[c].turn \in Turns /\ append[c].session \in Sessions
  /\ append[c].pc = "list" => append[c].seen \subseteq KeysIn(append[c].session)
  /\ append[c].pc = "put" /\ append[c].session \notin raced =>
       /\ append[c].at <= Cardinality(KeysIn(append[c].session))
       /\ \A n \in Nat : <<append[c].session, n>> \in DOMAIN objects => n < append[c].at
  /\ append[c].pc = "answer" =>
       LET key == <<append[c].session, append[c].at>> IN
       /\ key \in DOMAIN objects
       /\ append[c].session \notin raced => objects[key] = append[c].turn

T0Inv ==
  /\ T0TypeOK
  /\ IsFiniteSet(DOMAIN objects)
  /\ store = "local_fs" => raced = {} /\ \A c \in Callers : ~ InCall(c)
  /\ Numbered /\ OneWrites
  /\ \A c \in Callers : AppendKnows(c)
  /\ RefKeepsTurn /\ RefResolves

-----------------------------------------------------------------------------
\* Writing an object.
LEMMA ObjectPut ==
  ASSUME NEW key, NEW x, objects' = With(key, x)
  PROVE  /\ DOMAIN objects' = DOMAIN objects \cup {key}
         /\ objects'[key] = x
         /\ \A k \in DOMAIN objects \ {key} : objects'[k] = objects[k]
BY DEF With

\* What it does to the numbers of keys.
LEMMA KeysAdded ==
  ASSUME IsFiniteSet(DOMAIN objects), NEW key, DOMAIN objects' = DOMAIN objects \cup {key},
         NEW dir
  PROVE  /\ IsFiniteSet(DOMAIN objects')
         /\ IsFiniteSet(KeysIn(dir)) /\ Cardinality(KeysIn(dir)) \in Nat
         /\ Cardinality(KeysIn(dir)') \in Nat
         /\ Cardinality(KeysIn(dir)') >= Cardinality(KeysIn(dir))
         /\ KeysIn(dir) \subseteq KeysIn(dir)'
         /\ key \notin DOMAIN objects /\ key[1] = dir =>
              Cardinality(KeysIn(dir)') = Cardinality(KeysIn(dir)) + 1
<1> DEFINE K == KeysIn(dir)
           L == KeysIn(dir)'
<1>1. IsFiniteSet(DOMAIN objects \cup {key})
  BY FS_AddElement
<1>2. K \subseteq DOMAIN objects /\ L \subseteq DOMAIN objects \cup {key} /\ K \subseteq L
  BY DEF KeysIn
<1>3. key \notin DOMAIN objects /\ key[1] = dir => L = K \cup {key} /\ key \notin K
  BY DEF KeysIn
<1> HIDE DEF K, L
<1>4. IsFiniteSet(K) /\ IsFiniteSet(L)
  BY <1>1, <1>2, FS_Subset
<1>5. Cardinality(K) \in Nat /\ Cardinality(L) \in Nat /\ Cardinality(L) >= Cardinality(K)
  BY <1>2, <1>4, FS_Subset, FS_CardinalityType
<1>6. key \notin DOMAIN objects /\ key[1] = dir => Cardinality(L) = Cardinality(K) + 1
  BY <1>3, <1>4, FS_AddElement
<1> QED BY <1>1, <1>2, <1>4, <1>5, <1>6 DEF K, L

LEMMA KeysFinite ==
  ASSUME IsFiniteSet(DOMAIN objects), NEW dir
  PROVE  IsFiniteSet(KeysIn(dir)) /\ Cardinality(KeysIn(dir)) \in Nat
<1>1. KeysIn(dir) \subseteq DOMAIN objects
  BY DEF KeysIn
<1>2. IsFiniteSet(KeysIn(dir))
  BY <1>1, FS_Subset
<1> QED BY <1>2, FS_CardinalityType

\* A write under a number keeps the count of its directory ahead of the numbers.
NewNumber(key) ==
  key[2] \in Nat /\ Orderly(key[1]) =>
    key \notin DOMAIN objects /\ key[2] <= Cardinality(KeysIn(key[1]))

LEMMA PutKeeps ==
  ASSUME T0Inv, NEW key \in Keys, NEW x \in Turns \cup Evicted, objects' = With(key, x),
         UNCHANGED <<store, raced>>, NewNumber(key),
         store = "oss" /\ key[2] \in Nat => x \in Turns
  PROVE  /\ DOMAIN objects' \subseteq Keys /\ \A k \in DOMAIN objects' : objects'[k] \in Turns \cup Evicted
         /\ IsFiniteSet(DOMAIN objects') /\ Numbered'
         /\ \A f \in refs :
              /\ f.key[1] \notin raced => f.key \in DOMAIN objects' /\ objects'[f.key] = f.turn
              /\ f.key \in DOMAIN objects' /\ objects'[f.key] \in Turns
<1>1. /\ DOMAIN objects' = DOMAIN objects \cup {key}
      /\ objects'[key] = x
      /\ \A k \in DOMAIN objects \ {key} : objects'[k] = objects[k]
  BY ObjectPut
<1>2. /\ T0TypeOK /\ IsFiniteSet(DOMAIN objects) /\ Numbered /\ RefKeepsTurn /\ RefResolves
      /\ \A c \in Callers : AppendKnows(c)
  BY DEF T0Inv
<1>3. DOMAIN objects' \subseteq Keys /\ \A k \in DOMAIN objects' : objects'[k] \in Turns \cup Evicted
  BY <1>1, <1>2 DEF T0TypeOK
<1>4. IsFiniteSet(DOMAIN objects')
  BY <1>1, <1>2, KeysAdded
<1>5. ASSUME NEW dir \in Dirs, NEW n \in Nat, Orderly(dir), <<dir, n>> \in DOMAIN objects'
      PROVE  n < Cardinality(KeysIn(dir)')
  <2>1. /\ Cardinality(KeysIn(dir)) \in Nat /\ Cardinality(KeysIn(dir)') \in Nat
        /\ Cardinality(KeysIn(dir)') >= Cardinality(KeysIn(dir))
        /\ key \notin DOMAIN objects /\ key[1] = dir =>
             Cardinality(KeysIn(dir)') = Cardinality(KeysIn(dir)) + 1
    BY <1>1, <1>2, KeysAdded
  <2>2. CASE <<dir, n>> \in DOMAIN objects
    <3>1. n < Cardinality(KeysIn(dir))
      BY <1>2, <1>5, <2>2 DEF Numbered
    <3> QED BY <2>1, <3>1
  <2>3. CASE <<dir, n>> \notin DOMAIN objects
    <3>1. key = <<dir, n>>
      BY <1>1, <1>5, <2>3
    <3>2. key[1] = dir /\ key[2] = n
      BY <3>1
    <3>3. key \notin DOMAIN objects /\ n <= Cardinality(KeysIn(dir))
      BY <1>5, <3>2 DEF NewNumber
    <3> QED BY <2>1, <3>2, <3>3
  <2> QED BY <2>2, <2>3
<1>6. ASSUME store = "oss", NEW dir \in Dirs, NEW n \in Nat, <<dir, n>> \in DOMAIN objects'
      PROVE  objects'[<<dir, n>>] \in Turns
  <2>1. CASE key = <<dir, n>>
    <3>1. key[2] = n
      BY <2>1
    <3> QED BY <1>1, <1>6, <2>1, <3>1
  <2>2. CASE key # <<dir, n>>
    <3>1. <<dir, n>> \in DOMAIN objects /\ objects[<<dir, n>>] \in Turns
      BY <1>1, <1>2, <1>6, <2>2 DEF Numbered
    <3> QED BY <1>1, <2>2, <3>1
  <2> QED BY <2>1, <2>2
<1>7. Numbered'
  BY <1>5, <1>6 DEF Numbered, Orderly
<1>8. ASSUME NEW f \in refs
      PROVE  /\ f.key[1] \notin raced => f.key \in DOMAIN objects' /\ objects'[f.key] = f.turn
             /\ f.key \in DOMAIN objects' /\ objects'[f.key] \in Turns
  <2>1. f.key \in DOMAIN objects /\ objects[f.key] \in Turns
    BY <1>2 DEF RefResolves
  <2>2. f.key \in Sessions \X Nat
    BY <1>2 DEF T0TypeOK
  <2>3. CASE f.key = key
    <3>1. key[2] \in Nat /\ key[1] \in Dirs
      BY <2>2, <2>3 DEF Dirs
    <3>2. store = "oss" /\ key[1] \in raced
      BY <1>2, <2>1, <2>3, <3>1 DEF NewNumber, Orderly, T0TypeOK
    <3> QED BY <1>1, <2>1, <2>3, <3>1, <3>2
  <2>4. CASE f.key # key
    BY <1>1, <1>2, <2>1, <2>4 DEF RefKeepsTurn
  <2> QED BY <2>3, <2>4
<1> QED BY <1>3, <1>4, <1>7, <1>8

\* An append under way keeps what it knows, unless another one of its session writes.
LEMMA OtherAppendKnows ==
  ASSUME T0Inv, NEW key \in Keys, NEW x, objects' = With(key, x),
         UNCHANGED <<store, raced>>, NewNumber(key),
         NEW c \in Callers, append'[c] = append[c],
         append[c].pc = "put" /\ append[c].session \notin raced =>
           key[1] # append[c].session \/ key[2] \notin Nat
  PROVE  AppendKnows(c)'
<1>1. /\ DOMAIN objects' = DOMAIN objects \cup {key}
      /\ \A k \in DOMAIN objects \ {key} : objects'[k] = objects[k]
  BY ObjectPut
<1>2. T0TypeOK /\ IsFiniteSet(DOMAIN objects) /\ AppendKnows(c)
  BY DEF T0Inv
<1>3. PICK a : a = append[c]
  OBVIOUS
<1>4. append[c] = a /\ append'[c] = a
  BY <1>3
<1>5. PICK s : s = a.session
  OBVIOUS
<1>6. /\ Cardinality(KeysIn(s)) \in Nat /\ Cardinality(KeysIn(s)') \in Nat
      /\ Cardinality(KeysIn(s)') >= Cardinality(KeysIn(s))
      /\ KeysIn(s) \subseteq KeysIn(s)'
  BY <1>1, <1>2, KeysAdded
<1>7. a.at \in Nat
  BY <1>2, <1>4 DEF T0TypeOK
<1>8. ASSUME a.pc = "put", s \notin raced
      PROVE  /\ a.at <= Cardinality(KeysIn(s)')
             /\ \A n \in Nat : <<s, n>> \in DOMAIN objects' => n < a.at
  <2>1. a.at <= Cardinality(KeysIn(s)')
    BY <1>2, <1>4, <1>5, <1>6, <1>7, <1>8 DEF AppendKnows
  <2>2. ASSUME NEW n \in Nat, <<s, n>> \in DOMAIN objects' PROVE n < a.at
    <3>1. <<s, n>> # key
      BY <1>4, <1>5, <1>8
    <3>2. <<s, n>> \in DOMAIN objects
      BY <1>1, <2>2, <3>1
    <3> QED BY <1>2, <1>4, <1>5, <1>8, <3>2 DEF AppendKnows
  <2> QED BY <2>1, <2>2
<1>9. ASSUME a.pc = "answer"
      PROVE  /\ <<s, a.at>> \in DOMAIN objects'
             /\ s \notin raced => objects'[<<s, a.at>>] = a.turn
  <2>1. PICK k : k = <<s, a.at>>
    OBVIOUS
  <2>2. k \in DOMAIN objects /\ (s \notin raced => objects[k] = a.turn)
    BY <1>2, <1>4, <1>5, <1>9, <2>1 DEF AppendKnows
  <2>3. ASSUME s \notin raced PROVE k # key
    <3>1. s \in Dirs
      BY <1>2, <1>4, <1>5, <1>9 DEF AppendKnows, InCall, Dirs
    <3>2. k[1] = s /\ k[2] = a.at
      BY <2>1
    <3> QED BY <1>7, <2>2, <2>3, <3>1, <3>2 DEF NewNumber, Orderly
  <2> QED BY <1>1, <2>1, <2>2, <2>3
<1>10. a.pc # "idle" => a.turn \in Turns /\ s \in Sessions
  BY <1>2, <1>4, <1>5 DEF AppendKnows, InCall
<1>11. a.pc = "list" => a.seen \subseteq KeysIn(s)'
  BY <1>2, <1>4, <1>5, <1>6 DEF AppendKnows
<1> QED BY <1>4, <1>5, <1>8, <1>9, <1>10, <1>11 DEF AppendKnows, InCall

-----------------------------------------------------------------------------
LEMMA LineKeeps ==
  ASSUME T0Inv, store = "local_fs", NEW dir \in Dirs, NEW x \in Turns \cup Evicted,
         AddLine(dir, x), UNCHANGED <<store, append, raced>>,
         \/ UNCHANGED refs
         \/ x \in Turns /\ dir \in Sessions /\ Refer(x, <<dir, Cardinality(KeysIn(dir))>>)
  PROVE  T0Inv'
<1>0. T0TypeOK /\ IsFiniteSet(DOMAIN objects) /\ raced = {} /\ \A c \in Callers : ~ InCall(c)
  BY DEF T0Inv
<1>1. PICK n : n = Cardinality(KeysIn(dir))
  OBVIOUS
<1>2. n \in Nat
  BY <1>0, <1>1, KeysFinite
<1>3. PICK key : key = <<dir, n>>
  OBVIOUS
<1>4. key \in Keys /\ key[1] = dir /\ key[2] = n /\ objects' = With(key, x)
  BY <1>1, <1>2, <1>3 DEF Keys, AddLine
<1>5. key \notin DOMAIN objects
  <2>1. Orderly(dir) /\ Numbered
    BY DEF T0Inv, Orderly
  <2>2. <<dir, n>> \in DOMAIN objects => n < Cardinality(KeysIn(dir))
    BY <1>2, <2>1 DEF Numbered
  <2>3. <<dir, n>> \notin DOMAIN objects
    BY <1>1, <1>2, <2>2
  <2> QED BY <1>3, <2>3
<1>6. NewNumber(key)
  BY <1>1, <1>2, <1>4, <1>5 DEF NewNumber
<1>7. /\ DOMAIN objects' \subseteq Keys /\ \A k \in DOMAIN objects' : objects'[k] \in Turns \cup Evicted
      /\ IsFiniteSet(DOMAIN objects') /\ Numbered'
      /\ \A f \in refs :
           /\ f.key[1] \notin raced => f.key \in DOMAIN objects' /\ objects'[f.key] = f.turn
           /\ f.key \in DOMAIN objects' /\ objects'[f.key] \in Turns
  BY <1>4, <1>6, PutKeeps
<1>8. key \in DOMAIN objects' /\ objects'[key] = x
  BY <1>4 DEF With
<1>9. /\ refs' \subseteq [turn : Turns, key : Sessions \X Nat]
      /\ \A f \in refs' : /\ f.key \in DOMAIN objects' /\ objects'[f.key] \in Turns
                          /\ objects'[f.key] = f.turn
  <2>1. CASE UNCHANGED refs
    BY <1>0, <1>7, <2>1 DEF T0TypeOK
  <2>2. CASE x \in Turns /\ dir \in Sessions /\ Refer(x, <<dir, Cardinality(KeysIn(dir))>>)
    <3>1. refs' = refs \cup {[turn |-> x, key |-> key]}
      BY <1>1, <1>3, <2>2 DEF Refer
    <3>2. key \in Sessions \X Nat
      BY <1>2, <1>3, <2>2
    <3>3. [turn |-> x, key |-> key] \in [turn : Turns, key : Sessions \X Nat]
      BY <2>2, <3>2
    <3>4. refs' \subseteq [turn : Turns, key : Sessions \X Nat]
      BY <1>0, <3>1, <3>3 DEF T0TypeOK
    <3> QED BY <1>0, <1>7, <1>8, <2>2, <3>1, <3>4
  <2> QED BY <2>1, <2>2
<1>10. T0TypeOK'
  BY <1>0, <1>7, <1>9 DEF T0TypeOK
<1>11. (\A c \in Callers : ~ InCall(c))'
  BY <1>0 DEF InCall
<1>12. OneWrites' /\ (\A c \in Callers : AppendKnows(c))'
  BY <1>11 DEF OneWrites, Writing, InCall, AppendKnows
<1>13. RefKeepsTurn' /\ RefResolves'
  BY <1>9 DEF RefKeepsTurn, RefResolves
<1> QED BY <1>0, <1>7, <1>10, <1>11, <1>12, <1>13 DEF T0Inv

\* Steps that leave the objects alone.
LEMMA StillKnows ==
  ASSUME NEW c \in Callers, AppendKnows(c), UNCHANGED objects, append'[c] = append[c],
         raced \subseteq raced'
  PROVE  AppendKnows(c)'
BY DEF AppendKnows, InCall, KeysIn

LEMMA ObjectsUnchanged ==
  ASSUME T0Inv, UNCHANGED <<store, objects>>, raced \subseteq raced', raced' \subseteq Sessions,
         store = "oss",
         refs' \subseteq [turn : Turns, key : Sessions \X Nat],
         \A f \in refs' \ refs : /\ f.key \in DOMAIN objects
                                 /\ f.key[1] \notin raced' => objects[f.key] = f.turn
  PROVE  /\ IsFiniteSet(DOMAIN objects') /\ Numbered'
         /\ RefKeepsTurn' /\ RefResolves'
<1>0. T0TypeOK /\ Numbered /\ RefKeepsTurn /\ RefResolves /\ IsFiniteSet(DOMAIN objects)
  BY DEF T0Inv
<1>1. \A dir : KeysIn(dir)' = KeysIn(dir)
  BY DEF KeysIn
<1>2. Numbered'
  BY <1>0, <1>1 DEF Numbered, Orderly
<1>3. RefKeepsTurn'
  BY <1>0 DEF RefKeepsTurn
<1>4. ASSUME NEW f \in refs' \ refs PROVE objects[f.key] \in Turns
  <2>1. PICK dir \in Sessions, n \in Nat : f.key = <<dir, n>>
    OBVIOUS
  <2>2. dir \in Dirs
    BY DEF Dirs
  <2> QED BY <1>0, <2>1, <2>2 DEF Numbered
<1>5. RefResolves'
  BY <1>0, <1>4 DEF RefResolves
<1> QED BY <1>0, <1>2, <1>3, <1>5

AppendState ==
  [pc : {"idle", "list", "put", "answer"}, turn : Turns \cup {NoTurn}, session : Dirs,
   seen : SUBSET Keys, at : Nat, left : BOOLEAN]

\* A step of one append that leaves the objects alone.
LEMMA AppendMoves ==
  ASSUME T0Inv, store = "oss", UNCHANGED <<store, objects, raced>>,
         refs' \subseteq [turn : Turns, key : Sessions \X Nat],
         \A f \in refs' \ refs : /\ f.key \in DOMAIN objects
                                 /\ f.key[1] \notin raced' => objects[f.key] = f.turn,
         NEW c \in Callers, NEW a \in AppendState, append' = [append EXCEPT ![c] = a],
         AppendKnows(c)',
         a.pc \in {"list", "put"} => Writing(c) /\ a.session = append[c].session
  PROVE  T0Inv'
<1>0. T0TypeOK /\ append \in [Callers -> AppendState]
  BY DEF T0Inv, T0TypeOK, AppendState
<1>1. append' \in [Callers -> AppendState]
  BY <1>0
<1>2. append'[c] = a /\ \A d \in Callers \ {c} : append'[d] = append[d]
  BY <1>0
<1>3. T0TypeOK'
  BY <1>0, <1>1 DEF T0TypeOK, AppendState
<1>4. (\A d \in Callers : AppendKnows(d))'
  BY <1>2, StillKnows DEF T0Inv
<1>5. OneWrites'
  BY <1>2 DEF T0Inv, OneWrites, Writing
<1>6. IsFiniteSet(DOMAIN objects') /\ Numbered' /\ RefKeepsTurn' /\ RefResolves'
  BY <1>0, ObjectsUnchanged DEF T0TypeOK
<1>7. store' # "local_fs"
  OBVIOUS
<1> QED BY <1>3, <1>4, <1>5, <1>6, <1>7 DEF T0Inv

\* An append ends without an answer.
LEMMA AppendEnds ==
  ASSUME T0Inv, store = "oss", UNCHANGED <<store, objects, refs, raced>>,
         NEW c \in Callers, append' = [append EXCEPT ![c] = NoAppend]
  PROVE  T0Inv'
<1>0. T0TypeOK /\ append \in [Callers -> AppendState]
  BY DEF T0Inv, T0TypeOK, AppendState
<1>1. NoAppend \in AppendState /\ NoAppend.pc = "idle"
  BY DEF NoAppend, AppendState, Dirs
<1>2. append'[c].pc = "idle"
  BY <1>0, <1>1
<1>3. AppendKnows(c)'
  BY <1>2 DEF AppendKnows, InCall
<1> QED BY <1>0, <1>1, <1>3, AppendMoves DEF T0TypeOK

LEMMA StartAppendKeeps ==
  ASSUME T0Inv, NEW c \in Callers, NEW s \in Sessions, NEW t \in Turns, StartAppend(c, s, t)
  PROVE  T0Inv'
<1> DEFINE a == [NoAppend EXCEPT !.pc = "list", !.turn = t, !.session = s]
<1>0. T0TypeOK /\ append \in [Callers -> AppendState] /\ s \in Dirs
  BY DEF T0Inv, T0TypeOK, AppendState, Dirs
<1>1. a \in AppendState /\ a.pc = "list" /\ a.turn = t /\ a.session = s /\ a.seen = {}
  BY <1>0 DEF NoAppend, AppendState
<1>2. /\ store = "oss" /\ UNCHANGED <<store, objects, refs>>
      /\ append' = [append EXCEPT ![c] = a]
      /\ raced' = IF Appending(s) = {} THEN raced ELSE raced \cup {s}
  BY DEF StartAppend
<1> HIDE DEF a
<1>3. append'[c] = a /\ \A d \in Callers \ {c} : append'[d] = append[d]
  BY <1>0, <1>2
<1>4. raced \subseteq raced' /\ raced' \subseteq Sessions
  BY <1>0, <1>2 DEF T0TypeOK
<1>5. T0TypeOK'
  <2>1. append' \in [Callers -> AppendState]
    BY <1>0, <1>1, <1>2
  <2> QED BY <1>0, <1>2, <1>4, <2>1 DEF T0TypeOK, AppendState
<1>6. AppendKnows(c)'
  BY <1>1, <1>3 DEF AppendKnows
<1>7. (\A d \in Callers : AppendKnows(d))'
  BY <1>2, <1>3, <1>4, <1>6, StillKnows DEF T0Inv
<1>8. OneWrites'
  <2> SUFFICES ASSUME NEW d \in Callers, NEW e \in Callers, Writing(d)', Writing(e)',
                      append'[d].session = append'[e].session, append'[d].session \notin raced'
               PROVE  d = e
    BY DEF OneWrites
  <2>1. ASSUME NEW f \in Callers \ {c}, Writing(f)' PROVE append'[f].session # s \/ s \in raced'
    <3>1. Writing(f) /\ append'[f] = append[f]
      BY <1>3, <2>1 DEF Writing
    <3>2. append[f].session = s => f \in Appending(s)
      BY <3>1 DEF Appending, Writing
    <3> QED BY <1>2, <3>1, <3>2
  <2>2. append'[c].session = s
    BY <1>1, <1>3
  <2>3. d # c /\ e # c => d = e
    BY <1>3, <1>4 DEF T0Inv, OneWrites, Writing
  <2> QED BY <2>1, <2>2, <2>3
<1>9. IsFiniteSet(DOMAIN objects') /\ Numbered' /\ RefKeepsTurn' /\ RefResolves'
  BY <1>0, <1>2, <1>4, ObjectsUnchanged DEF T0TypeOK
<1>10. store' # "local_fs"
  BY <1>2
<1> QED BY <1>5, <1>7, <1>8, <1>9, <1>10 DEF T0Inv

LEMMA ListPageKeeps ==
  ASSUME T0Inv, NEW c \in Callers, ListPage(c)
  PROVE  T0Inv'
<1>0. T0TypeOK /\ append \in [Callers -> AppendState] /\ append[c] \in AppendState /\ AppendKnows(c)
  BY DEF T0Inv, T0TypeOK, AppendState
<1>1. PICK s : s = append[c].session
  OBVIOUS
<1>2. /\ append[c].pc = "list" /\ UNCHANGED <<store, objects, refs, raced>>
  BY DEF ListPage
<1>3. /\ store = "oss" /\ s \in Sessions /\ s \in Dirs /\ append[c].turn \in Turns
      /\ append[c].seen \subseteq KeysIn(s)
  BY <1>0, <1>1, <1>2 DEF T0Inv, T0TypeOK, AppendKnows, InCall, Dirs
<1>4. Cardinality(KeysIn(s)) \in Nat /\ KeysIn(s) \subseteq Keys
  BY <1>0, KeysFinite DEF T0Inv, T0TypeOK, KeysIn
<1>5. KeysIn(s)' = KeysIn(s)
  BY <1>2 DEF KeysIn
<1>6. ASSUME NEW a \in AppendState, append' = [append EXCEPT ![c] = a], AppendKnows(c)',
             a.pc \in {"list", "put"}, a.session = s
      PROVE  T0Inv'
  <2>1. Writing(c)
    BY <1>2 DEF Writing
  <2>2. refs' \subseteq [turn : Turns, key : Sessions \X Nat] /\ refs' \ refs = {}
    BY <1>0, <1>2 DEF T0TypeOK
  <2> QED BY <1>1, <1>2, <1>3, <1>6, <2>1, <2>2, AppendMoves
<1>7. CASE append' = [append EXCEPT
             ![c].pc = "put", ![c].seen = {},
             ![c].at = Cardinality(append[c].seen \cup (KeysIn(s) \ append[c].seen))]
  <2>1. append[c].seen \cup (KeysIn(s) \ append[c].seen) = KeysIn(s)
    BY <1>3
  <2> DEFINE a == [append[c] EXCEPT !.pc = "put", !.seen = {}, !.at = Cardinality(KeysIn(s))]
  <2>2. append' = [append EXCEPT ![c] = a]
    BY <1>0, <1>7, <2>1
  <2>3. /\ a \in AppendState /\ a.pc = "put" /\ a.session = s /\ a.turn = append[c].turn
        /\ a.at = Cardinality(KeysIn(s))
    BY <1>0, <1>1, <1>4 DEF AppendState
  <2> HIDE DEF a
  <2>4. append'[c] = a
    BY <1>0, <2>2
  <2>5. \A n \in Nat : s \notin raced /\ <<s, n>> \in DOMAIN objects => n < Cardinality(KeysIn(s))
    BY <1>3 DEF T0Inv, Numbered, Orderly
  <2>6. AppendKnows(c)'
    BY <1>2, <1>3, <1>4, <1>5, <2>3, <2>4, <2>5 DEF AppendKnows
  <2> QED BY <1>6, <2>2, <2>3, <2>6
<1>8. CASE \E page \in SUBSET (KeysIn(s) \ append[c].seen) :
             append' = [append EXCEPT ![c].seen = @ \cup page]
  <2>1. PICK page \in SUBSET (KeysIn(s) \ append[c].seen) :
               append' = [append EXCEPT ![c].seen = @ \cup page]
    BY <1>8
  <2> DEFINE a == [append[c] EXCEPT !.seen = @ \cup page]
  <2>2. append' = [append EXCEPT ![c] = a]
    BY <1>0, <2>1
  <2>3. /\ a \in AppendState /\ a.pc = "list" /\ a.session = s /\ a.turn = append[c].turn
        /\ a.seen = append[c].seen \cup page
    BY <1>0, <1>1, <1>2, <1>4 DEF AppendState
  <2> HIDE DEF a
  <2>4. append'[c] = a
    BY <1>0, <2>2
  <2>5. AppendKnows(c)'
    BY <1>3, <1>5, <2>3, <2>4 DEF AppendKnows
  <2> QED BY <1>6, <2>2, <2>3, <2>5
<1> QED BY <1>1, <1>7, <1>8 DEF ListPage

LEMMA PutTurnKeeps ==
  ASSUME T0Inv, NEW c \in Callers, PutTurn(c)
  PROVE  T0Inv'
<1>0. T0TypeOK /\ append \in [Callers -> AppendState] /\ AppendKnows(c)
  BY DEF T0Inv, T0TypeOK, AppendState
<1>1. PICK a : a = append[c]
  OBVIOUS
<1>2. PICK key : key = <<a.session, a.at>>
  OBVIOUS
<1>3. /\ a \in AppendState /\ a.pc = "put" /\ a.session \in Sessions /\ a.turn \in Turns
      /\ objects' = With(key, a.turn) /\ UNCHANGED <<store, refs, raced>>
      /\ append' = [append EXCEPT ![c].pc = "answer"]
  BY <1>0, <1>1, <1>2 DEF PutTurn, PutObject, AppendKnows, InCall
<1> DEFINE b == [a EXCEPT !.pc = "answer"]
<1>4. append' = [append EXCEPT ![c] = b]
  BY <1>0, <1>1, <1>3
<1>5. /\ b \in AppendState /\ b.pc = "answer" /\ b.session = a.session /\ b.at = a.at
      /\ b.turn = a.turn
  BY <1>3 DEF AppendState
<1> HIDE DEF b
<1>6. append'[c] = b /\ \A d \in Callers \ {c} : append'[d] = append[d]
  BY <1>0, <1>4
<1>7. store = "oss"
  BY <1>1, <1>3 DEF T0Inv, InCall, T0TypeOK
<1>8. a.at \in Nat /\ a.session \in Dirs
  BY <1>3 DEF AppendState
<1>9. key \in Keys /\ key[1] = a.session /\ key[2] = a.at
  BY <1>2, <1>8 DEF Keys
<1>10. ASSUME a.session \notin raced
       PROVE  key \notin DOMAIN objects /\ a.at <= Cardinality(KeysIn(a.session))
  <2>1. /\ a.at <= Cardinality(KeysIn(a.session))
        /\ \A n \in Nat : <<a.session, n>> \in DOMAIN objects => n < a.at
    BY <1>0, <1>1, <1>3, <1>10 DEF AppendKnows
  <2>2. <<a.session, a.at>> \notin DOMAIN objects
    BY <1>8, <2>1
  <2> QED BY <1>2, <2>1, <2>2
<1>11. NewNumber(key)
  BY <1>7, <1>9, <1>10 DEF NewNumber, Orderly
<1>12. /\ DOMAIN objects' \subseteq Keys /\ \A k \in DOMAIN objects' : objects'[k] \in Turns \cup Evicted
       /\ IsFiniteSet(DOMAIN objects') /\ Numbered'
       /\ \A f \in refs :
            /\ f.key[1] \notin raced => f.key \in DOMAIN objects' /\ objects'[f.key] = f.turn
            /\ f.key \in DOMAIN objects' /\ objects'[f.key] \in Turns
  BY <1>3, <1>9, <1>11, PutKeeps
<1>13. ASSUME NEW d \in Callers \ {c} PROVE AppendKnows(d)'
  <2>1. append[d].pc = "put" /\ append[d].session \notin raced => append[d].session # a.session
    BY <1>1, <1>3 DEF T0Inv, OneWrites, Writing
  <2>2. append'[d] = append[d]
    BY <1>6
  <2> QED BY <1>3, <1>9, <1>11, <2>1, <2>2, OtherAppendKnows
<1>14. AppendKnows(c)'
  <2>1. key \in DOMAIN objects' /\ objects'[key] = a.turn
    BY <1>3 DEF With
  <2> QED BY <1>2, <1>3, <1>5, <1>6, <2>1 DEF AppendKnows, InCall
<1>15. T0TypeOK'
  <2>1. append' \in [Callers -> AppendState]
    BY <1>0, <1>4, <1>5
  <2> QED BY <1>0, <1>3, <1>12, <2>1 DEF T0TypeOK, AppendState
<1>16. OneWrites'
  <2>1. ~ Writing(c)'
    BY <1>5, <1>6 DEF Writing
  <2> QED BY <1>3, <1>6, <2>1 DEF T0Inv, OneWrites, Writing
<1>17. RefKeepsTurn' /\ RefResolves'
  BY <1>3, <1>12 DEF RefKeepsTurn, RefResolves
<1> QED BY <1>3, <1>7, <1>12, <1>13, <1>14, <1>15, <1>16, <1>17 DEF T0Inv

LEMMA AnswerKeeps ==
  ASSUME T0Inv, NEW c \in Callers, Answer(c)
  PROVE  T0Inv'
<1>0. T0TypeOK /\ AppendKnows(c) /\ append[c].pc = "answer" /\ UNCHANGED <<store, objects, raced>>
  BY DEF T0Inv, Answer
<1>1. store = "oss"
  BY <1>0 DEF T0Inv, T0TypeOK, InCall
<1>2. append' = [append EXCEPT ![c] = NoAppend]
  BY DEF Answer
<1>3. CASE append[c].left
  BY <1>0, <1>1, <1>2, <1>3, AppendEnds DEF Answer
<1>4. CASE ~ append[c].left
  <2>1. PICK key : key = <<append[c].session, append[c].at>>
    OBVIOUS
  <2>2. refs' = refs \cup {[turn |-> append[c].turn, key |-> key]}
    BY <1>4, <2>1 DEF Answer, Refer
  <2>3. /\ append[c].turn \in Turns /\ append[c].session \in Sessions /\ append[c].at \in Nat
        /\ key \in DOMAIN objects
        /\ append[c].session \notin raced => objects[key] = append[c].turn
    BY <1>0, <2>1 DEF AppendKnows, InCall, T0TypeOK
  <2>4. key \in Sessions \X Nat /\ key[1] = append[c].session
    BY <2>1, <2>3
  <2>5. refs' \subseteq [turn : Turns, key : Sessions \X Nat]
    BY <1>0, <2>2, <2>3, <2>4 DEF T0TypeOK
  <2>6. \A f \in refs' \ refs : /\ f.key \in DOMAIN objects
                                /\ f.key[1] \notin raced' => objects[f.key] = f.turn
    BY <1>0, <2>2, <2>3, <2>4
  <2>7. NoAppend \in AppendState /\ NoAppend.pc = "idle"
    BY DEF NoAppend, AppendState, Dirs
  <2>8. append'[c].pc = "idle"
    BY <1>0, <1>2, <2>7 DEF T0TypeOK
  <2>9. AppendKnows(c)'
    BY <2>8 DEF AppendKnows, InCall
  <2> QED BY <1>0, <1>1, <1>2, <2>5, <2>6, <2>7, <2>9, AppendMoves
<1> QED BY <1>3, <1>4

LEMMA GiveUpKeeps ==
  ASSUME T0Inv, NEW c \in Callers, GiveUp(c)
  PROVE  T0Inv'
<1>0. T0TypeOK /\ append \in [Callers -> AppendState] /\ AppendKnows(c)
  BY DEF T0Inv, T0TypeOK, AppendState
<1>1. /\ append[c].pc \in {"list", "put"} /\ UNCHANGED <<store, objects, refs, raced>>
      /\ append' = [append EXCEPT ![c].left = TRUE]
  BY DEF GiveUp
<1> DEFINE a == [append[c] EXCEPT !.left = TRUE]
<1>2. append' = [append EXCEPT ![c] = a]
  BY <1>0, <1>1
<1>3. /\ a \in AppendState /\ a.pc = append[c].pc /\ a.session = append[c].session
      /\ a.turn = append[c].turn /\ a.seen = append[c].seen /\ a.at = append[c].at
  BY <1>0 DEF AppendState
<1> HIDE DEF a
<1>4. append'[c] = a
  BY <1>0, <1>2
<1>5. \A s : KeysIn(s)' = KeysIn(s)
  BY <1>1 DEF KeysIn
<1>6. AppendKnows(c)'
  BY <1>0, <1>1, <1>3, <1>4, <1>5 DEF AppendKnows, InCall
<1>7. store = "oss" /\ Writing(c)
  BY <1>1 DEF T0Inv, T0TypeOK, InCall, Writing
<1> QED BY <1>0, <1>1, <1>2, <1>3, <1>6, <1>7, AppendMoves DEF T0TypeOK

LEMMA OssRecordKeeps ==
  ASSUME T0Inv, store = "oss", NEW dir \in Dirs, NEW r \in Evicted, PutObject(<<dir, r>>, r),
         UNCHANGED <<store, append, refs, raced>>
  PROVE  T0Inv'
<1>0. T0TypeOK
  BY DEF T0Inv
<1>1. PICK key : key = <<dir, r>>
  OBVIOUS
<1>2. /\ objects' = With(key, r) /\ key \in Keys /\ key[2] \notin Nat
  BY <1>1, ObjectStoreAssumption DEF PutObject, Keys
<1>3. NewNumber(key)
  BY <1>2 DEF NewNumber
<1>4. /\ DOMAIN objects' \subseteq Keys /\ \A k \in DOMAIN objects' : objects'[k] \in Turns \cup Evicted
      /\ IsFiniteSet(DOMAIN objects') /\ Numbered'
      /\ \A f \in refs :
           /\ f.key[1] \notin raced => f.key \in DOMAIN objects' /\ objects'[f.key] = f.turn
           /\ f.key \in DOMAIN objects' /\ objects'[f.key] \in Turns
  BY <1>2, <1>3, PutKeeps
<1>5. ASSUME NEW c \in Callers PROVE AppendKnows(c)'
  BY <1>2, <1>3, OtherAppendKnows
<1>6. T0TypeOK'
  BY <1>0, <1>4 DEF T0TypeOK
<1>7. OneWrites' /\ RefKeepsTurn' /\ RefResolves'
  BY <1>4 DEF T0Inv, OneWrites, Writing, RefKeepsTurn, RefResolves
<1> QED BY <1>4, <1>5, <1>6, <1>7 DEF T0Inv

LEMMA T0CrashKeeps ==
  ASSUME T0Inv, T0Crash
  PROVE  T0Inv'
<1>0. /\ T0TypeOK /\ UNCHANGED <<store, objects, refs, raced>>
      /\ append' = [c \in Callers |-> NoAppend]
  BY DEF T0Inv, T0Crash
<1>1. NoAppend \in AppendState /\ NoAppend.pc = "idle"
  BY DEF NoAppend, AppendState, Dirs
<1>2. T0TypeOK'
  BY <1>0, <1>1 DEF T0TypeOK, AppendState
<1>3. (\A c \in Callers : ~ InCall(c))'
  BY <1>0, <1>1 DEF InCall
<1>4. OneWrites' /\ (\A c \in Callers : AppendKnows(c))'
  BY <1>3 DEF OneWrites, Writing, InCall, AppendKnows
<1>5. \A dir : KeysIn(dir)' = KeysIn(dir)
  BY <1>0 DEF KeysIn
<1>6. Numbered' /\ RefKeepsTurn' /\ RefResolves' /\ IsFiniteSet(DOMAIN objects')
  BY <1>0, <1>5 DEF T0Inv, Numbered, Orderly, RefKeepsTurn, RefResolves
<1>7. store' = "local_fs" => raced' = {}
  BY <1>0 DEF T0Inv
<1> QED BY <1>2, <1>3, <1>4, <1>6, <1>7 DEF T0Inv

LEMMA T0InitInv == T0Init => T0Inv
<1> SUFFICES ASSUME T0Init PROVE T0Inv
  OBVIOUS
<1>0. /\ store \in {"local_fs", "oss"} /\ objects = <<>> /\ DOMAIN objects = {}
      /\ append = [c \in Callers |-> NoAppend] /\ refs = {} /\ raced = {}
  BY DEF T0Init
<1>1. NoAppend \in AppendState /\ NoAppend.pc = "idle"
  BY DEF NoAppend, AppendState, Dirs
<1>2. T0TypeOK
  BY <1>0, <1>1 DEF T0TypeOK, AppendState
<1>3. \A c \in Callers : ~ InCall(c)
  BY <1>0, <1>1 DEF InCall
<1>4. OneWrites /\ \A c \in Callers : AppendKnows(c)
  BY <1>3 DEF OneWrites, Writing, InCall, AppendKnows
<1>5. Numbered /\ RefKeepsTurn /\ RefResolves
  BY <1>0 DEF Numbered, RefKeepsTurn, RefResolves
<1>6. IsFiniteSet(DOMAIN objects)
  BY <1>0, FS_EmptySet
<1> QED BY <1>0, <1>2, <1>3, <1>4, <1>5, <1>6 DEF T0Inv

LEMMA T0NextKeeps == T0Inv /\ [T0Next]_objectVars => T0Inv'
<1> SUFFICES ASSUME T0Inv, [T0Next]_objectVars PROVE T0Inv'
  OBVIOUS
<1>1. CASE \E s \in Sessions, t \in Turns : LocalAppend(s, t)
  <2>1. PICK s \in Sessions, t \in Turns : LocalAppend(s, t)
    BY <1>1
  <2>2. /\ store = "local_fs" /\ AddLine(s, t) /\ UNCHANGED <<store, append, raced>>
        /\ Refer(t, <<s, Cardinality(KeysIn(s))>>) /\ s \in Dirs /\ t \in Turns \cup Evicted
    BY <2>1 DEF LocalAppend, Dirs
  <2> QED BY <2>2, LineKeeps
<1>2. CASE \E r \in Evicted : LocalArchive(r) \/ LocalAudit(r)
  <2>1. PICK r \in Evicted, dir \in {Archived, AuditLog} :
          /\ store = "local_fs" /\ AddLine(dir, r) /\ UNCHANGED <<store, append, refs, raced>>
    BY <1>2 DEF LocalArchive, LocalAudit
  <2>2. dir \in Dirs /\ r \in Turns \cup Evicted
    BY DEF Dirs
  <2> QED BY <2>1, <2>2, LineKeeps
<1>3. CASE \E c \in Callers, s \in Sessions, t \in Turns : StartAppend(c, s, t)
  BY <1>3, StartAppendKeeps
<1>4. CASE \E c \in Callers : ListPage(c) \/ PutTurn(c) \/ Answer(c) \/ GiveUp(c)
  BY <1>4, ListPageKeeps, PutTurnKeeps, AnswerKeeps, GiveUpKeeps
<1>5. CASE \E c \in Callers : AppendFails(c)
  <2>1. PICK c \in Callers : AppendFails(c)
    BY <1>5
  <2>2. store = "oss"
    BY <2>1 DEF AppendFails, T0Inv, T0TypeOK, InCall
  <2> QED BY <2>1, <2>2, AppendEnds DEF AppendFails
<1>6. CASE \E r \in Evicted : OssArchive(r) \/ OssAudit(r)
  <2>1. PICK r \in Evicted, dir \in {Archived, AuditLog} :
          /\ store = "oss" /\ PutObject(<<dir, r>>, r) /\ UNCHANGED <<store, append, refs, raced>>
    BY <1>6 DEF OssArchive, OssAudit
  <2>2. dir \in Dirs
    BY DEF Dirs
  <2> QED BY <2>1, <2>2, OssRecordKeeps
<1>7. CASE T0Crash
  BY <1>7, T0CrashKeeps
<1>8. CASE UNCHANGED objectVars
  <2>1. UNCHANGED <<store, objects, append, refs, raced>>
    BY <1>8 DEF objectVars
  <2>2. \A dir : KeysIn(dir)' = KeysIn(dir)
    BY <2>1 DEF KeysIn
  <2>3. Numbered' /\ OneWrites' /\ RefKeepsTurn' /\ RefResolves'
    BY <2>1, <2>2 DEF T0Inv, Numbered, Orderly, OneWrites, Writing, RefKeepsTurn, RefResolves
  <2>4. T0TypeOK'
    BY <2>1 DEF T0Inv, T0TypeOK
  <2>5. \A c \in Callers : AppendKnows(c)'
    BY <2>1, StillKnows DEF T0Inv
  <2>6. store' = "local_fs" => raced' = {} /\ \A c \in Callers : ~ InCall(c)'
    BY <2>1 DEF T0Inv, InCall
  <2>7. IsFiniteSet(DOMAIN objects')
    BY <2>1 DEF T0Inv
  <2> QED BY <2>3, <2>4, <2>5, <2>6, <2>7 DEF T0Inv
<1> QED BY <1>1, <1>2, <1>3, <1>4, <1>5, <1>6, <1>7, <1>8 DEF T0Next

THEOREM T0Invariant == T0Spec => []T0Inv
BY T0InitInv, T0NextKeeps, PTL DEF T0Spec

\* The two object stores keep lines and objects under well-formed keys.
THEOREM ObjectStoreTypes == T0Spec => []T0TypeOK
<1>1. T0Inv => T0TypeOK
  BY DEF T0Inv
<1> QED BY <1>1, T0Invariant, PTL

\* A reference that append() has returned gives its turn back for good, in every
\* session in which no two appends overlapped (CR-02).
THEOREM ReferencesKept == T0Spec => []RefKeepsTurn
<1>1. T0Inv => RefKeepsTurn
  BY DEF T0Inv
<1> QED BY <1>1, T0Invariant, PTL

\* Where appends raced, a reference still leads to a turn.
THEOREM ReferencesResolve == T0Spec => []RefResolves
<1>1. T0Inv => RefResolves
  BY DEF T0Inv
<1> QED BY <1>1, T0Invariant, PTL
=============================================================================
