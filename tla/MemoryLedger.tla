---------------------------- MODULE MemoryLedger ----------------------------
(***************************************************************************)
(* What MNEMA promises of its long-term memory, without how: a set of live *)
(* records, a set of retired ones, the successor of each superseded one,   *)
(* and the records it has undertaken to keep.  Nothing is ever deleted.    *)
(***************************************************************************)
CONSTANTS Records, None

VARIABLES
  live,       \* records recall may return
  retired,    \* records that were superseded, forgotten or evicted
  kept,       \* records that were protected when they were written
  successor   \* what superseded a record, or None

vars == <<live, retired, kept, successor>>

Fresh == Records \ (live \cup retired)

Init ==
  /\ live = {}
  /\ retired = {}
  /\ kept = {}
  /\ successor = [r \in Records |-> None]

\* A new record, which may be one to keep.
Write(r) ==
  /\ r \in Fresh
  /\ live' = live \cup {r}
  /\ kept' \in {kept, kept \cup {r}}
  /\ UNCHANGED <<retired, successor>>

\* A record leaves; not one to keep.
Retire(r) ==
  /\ r \in live \ kept
  /\ live' = live \ {r}
  /\ retired' = retired \cup {r}
  /\ UNCHANGED <<kept, successor>>

\* A record leaves in the step that writes its successor.  One that has left
\* already may still be given a (new) successor.
Supersede(r, s) ==
  /\ r \in (live \cup retired) \ kept
  /\ s \in Fresh
  /\ live' = (live \ {r}) \cup {s}
  /\ retired' = retired \cup {r}
  /\ kept' \in {kept, kept \cup {s}}
  /\ successor' = [successor EXCEPT ![r] = s]

Next ==
  \/ \E r \in Records : Write(r) \/ Retire(r)
  \/ \E r, s \in Records : Supersede(r, s)

Spec == Init /\ [][Next]_vars
=============================================================================
