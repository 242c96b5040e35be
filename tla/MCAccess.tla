------------------------------- MODULE MCAccess -------------------------------
(***************************************************************************)
(* An instance of SubaccountAccess: two subscriptions of one account.      *)
(***************************************************************************)
EXTENDS SubaccountAccess

Owner == [s \in Subs |-> "acc"]
=============================================================================
