----------------------------- MODULE MCAccounts ----------------------------
(***************************************************************************)
(* Small instances of Accounts and Handles for TLC.  A behaviour is one of *)
(* the one or of the other, as `part` says: the two share no state.        *)
(***************************************************************************)
EXTENDS Accounts, Handles

VARIABLE part

vars == <<part, accountsVars, handlesVars>>

Init ==
  /\ part \in {"accounts", "handles"}
  /\ AccountsInit
  /\ HandlesInit

Next ==
  \/ part = "accounts" /\ AccountsNext /\ UNCHANGED <<part, handlesVars>>
  \/ part = "handles" /\ HandlesNext /\ UNCHANGED <<part, accountsVars>>

Spec == Init /\ [][Next]_vars
=============================================================================
