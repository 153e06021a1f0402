---------------------------- MODULE ObjectStore -----------------------------
(***************************************************************************)
(* The two T0 object stores.  LocalFS keeps a file of lines per session    *)
(* and does its work without an await.  OSSS3Store keeps one object per    *)
(* turn; append() counts the objects under the session's prefix page by    *)
(* page and then puts the turn at that offset, in a thread: other calls    *)
(* come between, and a caller that gives up leaves the thread running.     *)
(*                                                                         *)
(* The cold store and the audit log are kept beside the sessions, under    *)
(* the names of two possible sessions.                                     *)
(***************************************************************************)
EXTENDS Naturals, FiniteSets

CONSTANTS
  Sessions,   \* session ids
  Turns,      \* turns to append
  Evicted,    \* records to archive
  Callers,    \* coroutines that append
  PageSize,   \* keys in a page of list_objects_v2
  MaxCopies,  \* bound: a turn or a record stored this often is not stored again
  NoTurn

Archived == "archived"
AuditLog == "eviction_audit"
Dirs == Sessions \cup {Archived, AuditLog}

ASSUME ObjectStoreAssumption ==
  /\ PageSize \in Nat \ {0} /\ MaxCopies \in Nat
  /\ Turns \cap Evicted = {}
  /\ \A r \in Evicted : r \notin Nat   \* a record id is no line number
  /\ NoTurn \notin Turns \cup Evicted

VARIABLES
  store,    \* which of the two it is
  objects,  \* the objects by their key: a directory and a number or a record id
  append,   \* per caller: its append()
  refs,     \* history: the references that were returned
  raced     \* history: sessions in which two appends overlapped

objectVars == <<store, objects, append, refs, raced>>

KeysIn(dir) == {k \in DOMAIN objects : k[1] = dir}
Copies(dir, x) == Cardinality({k \in KeysIn(dir) : objects[k] = x})

With(key, x) == [k \in DOMAIN objects \cup {key} |-> IF k = key THEN x ELSE objects[k]]

Keys == Dirs \X (Nat \cup Evicted)

NoAppend == [pc |-> "idle", turn |-> NoTurn, session |-> Archived, seen |-> {},
             at |-> 0, left |-> FALSE]

(***************************************************************************)
(* left: the caller has given up (it was cancelled, or the put timed out), *)
(* but the thread, or the put it has sent, may still go through.           *)
(***************************************************************************)
Appending(s) == {c \in Callers : append[c].pc \in {"list", "put"} /\ append[c].session = s}

\* A turn is appended once, and again when that has failed.
ToAppend ==
  Turns \ ({f.turn : f \in refs} \cup {append[c].turn : c \in {d \in Callers : ~ append[d].left}})

Refer(t, key) == refs' = refs \cup {[turn |-> t, key |-> key]}

-----------------------------------------------------------------------------
(***************************************************************************)
(* LocalFS: count the lines, add one.                                      *)
(***************************************************************************)
AddLine(dir, x) == objects' = With(<<dir, Cardinality(KeysIn(dir))>>, x)

LocalAppend(s, t) ==
  /\ store = "local_fs"
  /\ t \in ToAppend
  /\ AddLine(s, t)
  /\ Refer(t, <<s, Cardinality(KeysIn(s))>>)
  /\ UNCHANGED <<store, append, raced>>

LocalArchive(r) ==
  /\ store = "local_fs"
  /\ Copies(Archived, r) < MaxCopies
  /\ AddLine(Archived, r)
  /\ UNCHANGED <<store, append, refs, raced>>

LocalAudit(r) ==
  /\ store = "local_fs"
  /\ Copies(AuditLog, r) < MaxCopies
  /\ AddLine(AuditLog, r)
  /\ UNCHANGED <<store, append, refs, raced>>

-----------------------------------------------------------------------------
(***************************************************************************)
(* OSS.                                                                    *)
(***************************************************************************)
PutObject(key, x) == objects' = With(key, x)

\* append() starts; a turn whose append has failed may be appended again.
StartAppend(c, s, t) ==
  /\ store = "oss"
  /\ append[c].pc = "idle" /\ t \in ToAppend
  /\ Copies(s, t) < MaxCopies
  /\ append' = [append EXCEPT ![c] = [NoAppend EXCEPT !.pc = "list", !.turn = t, !.session = s]]
  /\ raced' = IF Appending(s) = {} THEN raced ELSE raced \cup {s}
  /\ UNCHANGED <<store, objects, refs>>

\* Mutation: one page is read.
ListOnePage(c) ==
  /\ append[c].pc = "list"
  /\ LET unseen == KeysIn(append[c].session) \ append[c].seen
         page == IF Cardinality(unseen) < PageSize THEN Cardinality(unseen) ELSE PageSize
     IN  append' = [append EXCEPT ![c].pc = "put", ![c].at = page]
  /\ UNCHANGED <<store, objects, refs, raced>>

\* A page of keys, in the order of their names: any of those not seen yet.  The
\* last page is not truncated.
ListPage(c) ==
  /\ append[c].pc = "list"
  /\ LET unseen == KeysIn(append[c].session) \ append[c].seen
     IN  IF Cardinality(unseen) <= PageSize
         THEN append' = [append EXCEPT
                ![c].pc = "put", ![c].seen = {},
                ![c].at = Cardinality(append[c].seen \cup unseen)]
         ELSE \E page \in SUBSET unseen :
                /\ Cardinality(page) = PageSize
                /\ append' = [append EXCEPT ![c].seen = @ \cup page]
  /\ UNCHANGED <<store, objects, refs, raced>>

PutTurn(c) ==
  /\ append[c].pc = "put"
  /\ PutObject(<<append[c].session, append[c].at>>, append[c].turn)
  /\ append' = [append EXCEPT ![c].pc = "answer"]
  /\ UNCHANGED <<store, refs, raced>>

\* Mutation: the reference is built after the call's state is cleared.
AnswerCleared(c) ==
  /\ append[c].pc = "answer"
  /\ append' = [append EXCEPT ![c] = NoAppend]
  /\ Refer(append'[c].turn, <<append'[c].session, append'[c].at>>)
  /\ UNCHANGED <<store, objects, raced>>

Answer(c) ==
  /\ append[c].pc = "answer"
  /\ append' = [append EXCEPT ![c] = NoAppend]
  /\ IF append[c].left THEN UNCHANGED refs
     ELSE Refer(append[c].turn, <<append[c].session, append[c].at>>)
  /\ UNCHANGED <<store, objects, raced>>

GiveUp(c) ==
  /\ append[c].pc \in {"list", "put"} /\ ~ append[c].left
  /\ append' = [append EXCEPT ![c].left = TRUE]
  /\ UNCHANGED <<store, objects, refs, raced>>

\* A call raises, before it took effect or after.
AppendFails(c) ==
  /\ append[c].pc # "idle"
  /\ append' = [append EXCEPT ![c] = NoAppend]
  /\ UNCHANGED <<store, objects, refs, raced>>

\* The process dies, and its threads with it.
T0Crash ==
  /\ append' = [c \in Callers |-> NoAppend]
  /\ UNCHANGED <<store, objects, refs, raced>>

\* Mutation: archived records are numbered like turns.
OssArchiveByNumber(r) ==
  /\ store = "oss"
  /\ r \notin {objects[k] : k \in KeysIn(Archived)}
  /\ PutObject(<<Archived, Cardinality({k \in KeysIn(Archived) : objects[k] \in Evicted})>>, r)
  /\ UNCHANGED <<store, append, refs, raced>>

OssArchive(r) ==
  /\ store = "oss"
  /\ PutObject(<<Archived, r>>, r)
  /\ UNCHANGED <<store, append, refs, raced>>

\* The key is the time of the eviction and the record id.  Bound: a record is audited
\* once, so the id alone tells the keys apart.
OssAudit(r) ==
  /\ store = "oss"
  /\ Copies(AuditLog, r) = 0
  /\ PutObject(<<AuditLog, r>>, r)
  /\ UNCHANGED <<store, append, refs, raced>>

T0Init ==
  /\ store \in {"local_fs", "oss"}
  /\ objects = <<>>
  /\ append = [c \in Callers |-> NoAppend]
  /\ refs = {} /\ raced = {}

T0Next ==
  \/ \E s \in Sessions, t \in Turns : LocalAppend(s, t)
  \/ \E c \in Callers, s \in Sessions, t \in Turns : StartAppend(c, s, t)
  \/ \E c \in Callers : ListPage(c) \/ PutTurn(c) \/ Answer(c) \/ GiveUp(c) \/ AppendFails(c)
  \/ \E r \in Evicted : LocalArchive(r) \/ LocalAudit(r) \/ OssArchive(r) \/ OssAudit(r)
  \/ T0Crash

T0Spec == T0Init /\ [][T0Next]_objectVars

-----------------------------------------------------------------------------
T0TypeOK ==
  /\ store \in {"local_fs", "oss"}
  /\ DOMAIN objects \subseteq Keys
  /\ \A k \in DOMAIN objects : objects[k] \in Turns \cup Evicted
  /\ append \in [Callers -> [pc : {"idle", "list", "put", "answer"},
                             turn : Turns \cup {NoTurn}, session : Dirs,
                             seen : SUBSET Keys,
                             at : Nat, left : BOOLEAN]]
  /\ refs \subseteq [turn : Turns, key : Sessions \X Nat]
  /\ raced \subseteq Sessions

\* get() of a reference that append() has returned gives the turn back for good:
\* with LocalFS whatever interleaves, with OSS in every session in which no two
\* appends overlapped ("acceptable for v1 single-writer usage"), whatever happens in
\* the other sessions, whichever appends failed, and however many pages there are
\* (CR-02).
RefKeepsTurn ==
  \A f \in refs : f.key[1] \notin raced =>
    f.key \in DOMAIN objects /\ objects[f.key] = f.turn

\* Even where appends raced, a reference leads to some turn of its session, never to
\* nothing or to an archived or audited record, in the sessions called "archived" and
\* "eviction_audit" too.
RefResolves == \A f \in refs : f.key \in DOMAIN objects /\ objects[f.key] \in Turns
=============================================================================
