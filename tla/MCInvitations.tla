--------------------------- MODULE MCInvitations ---------------------------
(***************************************************************************)
(* Small instances of Invitations for TLC.                                 *)
(***************************************************************************)
EXTENDS Invitations, TLC

CONSTANTS a, b

\* Nobody is a friend of anybody at first.
Strangers == [u \in Users |-> {}]

NoUsers == {}
KeyedA == {a}

Anonymous == Permutations(Users)
=============================================================================
