------------------------------ MODULE MCOverview ------------------------------
(***************************************************************************)
(* An instance of MarketOverviewStream: three publications, of which one   *)
(* is of a market that was not selected.                                   *)
(***************************************************************************)
EXTENDS MarketOverviewStream

TwoMarkets == <<"other", "btc", "btc">>

OkOrPanic == {"ok", "stop", "panic"}
UserEvents == {"clientClose", "cancel", "stop"}

\* Bound: one refresh by the user, or one reconnect, and not both.
OneDisturbance == env.asks + env.conns <= 2
=============================================================================
