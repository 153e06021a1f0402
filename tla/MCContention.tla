---------------------------- MODULE MCContention ----------------------------
(***************************************************************************)
(* A small instance of Contention for TLC: the claims are such that every  *)
(* exception it allows is reached.                                         *)
(***************************************************************************)
EXTENDS MCMnema, Contention

\* A durable fact, and small talk of the same user in another session.
InputFact == (a :> [MkInput(u1, FALSE, TRUE) EXCEPT !.type = "fact"])
               @@ (b :> [MkInput(u1, FALSE, FALSE) EXCEPT !.session = s2])

\* A salient preference, and an allergy, which becomes a protected fact.
Weighty == MkItem(FALSE, FALSE, "preference", TRUE)
Allergy == MkItem(TRUE, FALSE, "preference", FALSE)
ItemsMixed == {Weighty, Allergy}
=============================================================================
