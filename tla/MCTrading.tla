------------------------------- MODULE MCTrading -------------------------------
(***************************************************************************)
(* A client in one of its operations of several calls: a create and then   *)
(* StopAllTrading (TradingStop), or one of the waits (OrderWaits); and how *)
(* the quantities it sends are read (ScaledAmounts).                       *)
(***************************************************************************)
EXTENDS OrderWaits, TradingStop, ScaledAmounts

VARIABLE op    \* "stop", "batch" or "trades"

TradingInit ==
    /\ op \in {"stop", "batch", "trades"}
    /\ Init /\ (op # "stop" => live = {})
    /\ WaitInit(IF op = "batch" THEN "reading" ELSE "idle",
                IF op = "trades" THEN "paging" ELSE "idle")
    /\ op # "batch" => skew = 0 /\ batch.at = 0 /\ batch.dated
    /\ op # "trades" => trades.key = 0

TradingNext ==
    \/ op = "stop"  /\ Next     /\ UNCHANGED <<op, waitVars>>
    \/ op # "stop" /\ WaitNext /\ UNCHANGED <<op, vars>>

\* Callers go on, calls end, time passes.
TradingSpec ==
    /\ TradingInit /\ [][TradingNext]_<<op, vars, waitVars>>
    /\ WF_vars(op = "stop" /\ Caller)
    /\ WF_waitVars(Tick) /\ WF_waitVars(BatchCaller) /\ WF_waitVars(TradesCaller)

FillSizes == <<1, 1, 2>>
ClockErrors == {-2, 0, 1}

\* A statement about every amount does not depend on the state and is looked at in
\* the initial one: a decimal becomes exactly the integer it is at the scale or is
\* refused (codecs/scalars.go, "strict; no rounding"), an amount is sent as the
\* same amount at another scale or refused (rescaleExact, "It never rounds"), and a
\* quantity the SDK formats is read by it as the same quantity (formatFixed).
ConversionsExact ==
    TradingInit => QuantitiesAreExact /\ AmountsAreExact /\ QuantitiesFormatBack

\* Every operation returns, and no read that was refused is repeated on the way:
\* StopAllTrading whatever page tokens it gets, the waits whatever statuses and
\* trades the service gives or keeps back (listLiveTriggers, readRetry, the waits'
\* deadlines).  The page tokens of an order's trades are assumed to go on: without a
\* guard in getOrderExecutionPages, one that repeats would keep a listing going.
OperationsReturn == RefusedReadsReturn /\ Returns /\ WaitsReturn
=============================================================================
