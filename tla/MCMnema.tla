------------------------------ MODULE MCMnema -------------------------------
(***************************************************************************)
(* Small instances of Mnema for TLC: the inputs of remember() and what the *)
(* LLM may extract.                                                        *)
(***************************************************************************)
EXTENDS Mnema, TLC

CONSTANTS u1, u2, s1, s2, a, b, d

Symmetry == Permutations(Records) \cup Permutations(Runs)

MkInput(user, safety, durable) ==
  [user |-> user, session |-> s1, safety |-> safety, durable |-> durable, type |-> "preference"]

\* An allergy and a durable preference of one user.
InputTwo == (a :> MkInput(u1, TRUE, FALSE)) @@ (b :> MkInput(u1, FALSE, TRUE))

\* An allergy, and small talk of the same user in another session, only staged.
InputChat == (a :> MkInput(u1, TRUE, FALSE))
               @@ (b :> [MkInput(u1, FALSE, FALSE) EXCEPT !.session = s2])

\* An allergy of one user, and small talk of another.
InputPair == (a :> MkInput(u1, TRUE, FALSE)) @@ (b :> MkInput(u2, FALSE, FALSE))

\* A durable preference each of two users.
InputTenants == (b :> MkInput(u1, FALSE, TRUE)) @@ (d :> MkInput(u2, FALSE, TRUE))

\* Two durable preferences of one user.
InputSameUser == (b :> MkInput(u1, FALSE, TRUE)) @@ (d :> MkInput(u1, FALSE, TRUE))

MkItem(safety, prot, type, high) ==
  [safety |-> safety, prot |-> prot, type |-> type, high |-> high]

Plain == MkItem(FALSE, FALSE, "preference", FALSE)
Guarded == MkItem(FALSE, TRUE, "preference", FALSE)
Unknown == MkItem(FALSE, FALSE, "invalid", FALSE)

ItemsPlain == {Plain}
ItemsUnknown == {Plain, Unknown}
ItemsGuarded == {Plain, Guarded}
=============================================================================
