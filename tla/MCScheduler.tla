---------------------------- MODULE MCScheduler -----------------------------
(***************************************************************************)
(* A small instance of Scheduler for TLC.                                  *)
(***************************************************************************)
EXTENDS MCMnema, Scheduler

\* For liveness, which TLC cannot check under SYMMETRY: record ids are numbers and
\* are used in their order.  Ids are interchangeable, so nothing is lost.
IdsInOrder == \A r, s \in Records : r < s /\ Exists(s) => Exists(r)
=============================================================================
