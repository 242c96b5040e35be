------------------------------ MODULE OrderWaits ------------------------------
(***************************************************************************)
(* The two waits of the order service (services/orders.go):                *)
(* WaitBatchReplace polls the status of an admitted batch within the       *)
(* window in which the service keeps it, against clocks that differ;       *)
(* WaitForOrderTradesComplete polls an order until the trades of its pages *)
(* account for what it shows as filled, while it fills, while its trades   *)
(* are recorded late, and while its client id may pass to a successor.     *)
(*                                                                         *)
(* The clock is the client's.  A call's reading of it and what it does     *)
(* then take no time; reads and sleeps do.                                 *)
(***************************************************************************)
EXTENDS CallOutcome, Integers, Sequences, FiniteSets, FiniteSetsExt, Functions

CONSTANTS
    Items,       \* the items of the batch
    Window,      \* batchReplaceStatusWindow
    MaxDelay,    \* batchReplacePoll.max; its first is one unit
    Ages,        \* how long ago the batch was accepted when the wait begins
    Skews,       \* the service's clock minus the client's
    Quantities,  \* of the trades of an order, in the order of their execution
    TradesPage,  \* executions on a page
    Timeout,     \* of WaitForOrderTradesComplete; its poll is one unit
    CallTimeout  \* of one call (Config.Timeout)

ASSUME WaitAssumptions ==
    /\ Items # {} /\ Window \in Nat \ {0} /\ MaxDelay \in Nat \ {0}
    /\ Ages \subseteq 0..Window /\ Skews \subseteq Int
    /\ Quantities \in Seq(Nat \ {0}) /\ TradesPage \in Nat \ {0}
    /\ Timeout \in Nat \ {0} /\ CallTimeout \in Nat \ {0}

VARIABLES
    now,    \* the client's
    ctx,      \* the caller's context has been canceled
    batch,    \* the service: each item's phase, whether a status can be read,
              \* when it was accepted, and whether the status says so
    skew,     \* the service's clock minus the client's
    wait,     \* WaitBatchReplace: place, locals, the answer under way, result
    order,    \* the service: the generation that holds the client id, the trades
              \* executed, how many of them before the second one, those recorded
    trades    \* WaitForOrderTradesComplete and its listing

waitVars == <<now, ctx, batch, skew, wait, order, trades>>

Phases  == {"admitted", "working", "rejected", "terminal"}
Nothing == <<>>                      \* a status with no items, or no status yet

-----------------------------------------------------------------------------
(* WaitBatchReplace.                                                       *)

\* The wait begins with a batch that was accepted a while ago.
BatchInit(place) ==
    /\ skew \in Skews
    /\ batch \in {[phase |-> [i \in Items |-> "admitted"], readable |-> FALSE,
                   at |-> -age, dated |-> d] : age \in Ages, d \in BOOLEAN}
    /\ wait = [pc |-> place, deadline |-> Window, delay |-> 1, wake |-> 0,
               last |-> Nothing, reply |-> "none", status |-> Nothing, result |-> "none"]

\* An item is applied, refused, or done with.
ItemMoves(i) ==
    /\ \/ batch.phase[i] = "admitted"
       \/ batch.phase[i] = "working"
    /\ \E p \in {"working", "rejected", "terminal"} \ {batch.phase[i]} :
         /\ batch.phase[i] = "working" => p = "terminal"
         /\ batch' = [batch EXCEPT !.phase[i] = p]
    /\ UNCHANGED <<now, ctx, skew, wait, order, trades>>

\* A status can be read some time after admission.
BatchAppears ==
    /\ ~batch.readable /\ batch' = [batch EXCEPT !.readable = TRUE]
    /\ UNCHANGED <<now, ctx, skew, wait, order, trades>>

Kept == now < batch.at + Window    \* the service still keeps the status

\* readUnavailable and batchStatusNotFound of a mapped error.
PolledAgain(e) ==
    \/ e.type \in {"Server", "Transport"}
    \/ e.type = "API" /\ e.code = "not_found"

ReadErrors == {PolledAgain(MapError(a)) : a \in Answers}

\* The service answers the read: with the status, perhaps with none of its items
\* yet, or with any error.  The answer takes its time.
StatusAnswered ==
    /\ wait.pc = "reading" /\ wait.reply = "none"
    /\ \/ /\ batch.readable /\ Kept
          /\ \E shown \in {batch.phase, Nothing} :
               wait' = [wait EXCEPT !.reply = "status", !.status = shown]
       \/ \E again \in ReadErrors :
               wait' = [wait EXCEPT !.reply = IF again THEN "again" ELSE "error"]
    /\ UNCHANGED <<now, ctx, batch, skew, order, trades>>

Settled(status) ==
    status # Nothing /\ \A i \in DOMAIN status : status[i] # "admitted"

Overdue(deadline) == now >= deadline    \* readCtx.Err() # nil

Ends(why, last) ==
    wait' = [wait EXCEPT !.pc = "returned", !.result = why, !.last = last,
                         !.reply = "none", !.status = Nothing]

\* The deadline after a status: its acceptance is a time of the service's clock.
NewDeadline(deadline) == IF batch.dated THEN batch.at + skew + Window ELSE deadline

\* Mutant: the delay doubles without end.
NextDelayUncapped(delay) == 2 * delay

NextDelay(delay) == IF 2 * delay > MaxDelay THEN MaxDelay ELSE 2 * delay

\* No poll would end within the window, or the wait sleeps.
SleepOrExpire(deadline, last) ==
    IF now + wait.delay > deadline
    THEN wait' = [wait EXCEPT !.pc = "returned", !.result = "expired", !.last = last,
                              !.deadline = deadline, !.reply = "none", !.status = Nothing]
    ELSE wait' = [wait EXCEPT !.pc = "sleeping", !.wake = now + wait.delay, !.last = last,
                              !.delay = NextDelay(@),
                              !.deadline = deadline, !.reply = "none", !.status = Nothing]

\* The read has returned: an answer, or its context's end.
StatusRead ==
    /\ wait.pc = "reading"
    /\ wait.reply # "none" \/ ctx \/ Overdue(wait.deadline)
    /\ \/ ctx /\ Ends("canceled", wait.last)
       \/ ~ctx /\ wait.reply # "status" /\ Overdue(wait.deadline) /\ Ends("expired", wait.last)
       \/ ~ctx /\ wait.reply = "status" /\ Settled(wait.status) /\ Ends("settled", wait.status)
       \/ ~ctx /\ wait.reply = "status" /\ ~Settled(wait.status)
          /\ SleepOrExpire(NewDeadline(wait.deadline), wait.status)
       \/ ~ctx /\ ~Overdue(wait.deadline) /\ wait.reply = "again"
          /\ SleepOrExpire(wait.deadline, wait.last)
       \/ ~ctx /\ ~Overdue(wait.deadline) /\ wait.reply = "error" /\ Ends("error", wait.last)
    /\ UNCHANGED <<now, ctx, batch, skew, order, trades>>

WaitWakes ==
    /\ wait.pc = "sleeping"
    /\ \/ ctx /\ Ends("canceled", wait.last)
       \/ now >= wait.wake /\ wait' = [wait EXCEPT !.pc = "reading"]
    /\ UNCHANGED <<now, ctx, batch, skew, order, trades>>

-----------------------------------------------------------------------------
(* WaitForOrderTradesComplete.                                             *)

TradesInit(place) ==
    /\ order = [gen |-> 1, executed |-> 0, first |-> 0, recorded |-> {}]
    /\ trades \in {[pc |-> place, since |-> 0, key |-> k, asked |-> k, token |-> 0,
                    from |-> 0, found |-> 0, cum |-> 0, got |-> <<>>, result |-> "none"] :
                    k \in {0, 1}}

\* The order fills; a successor takes its client id (a modify or a replace); a
\* trade is recorded some time after it was executed.
Fill ==
    /\ order.executed < Len(Quantities)
    /\ order' = [order EXCEPT !.executed = @ + 1]
    /\ UNCHANGED <<now, ctx, batch, skew, wait, trades>>

Succeed ==
    /\ order.gen = 1 /\ order' = [order EXCEPT !.gen = 2, !.first = order.executed]
    /\ UNCHANGED <<now, ctx, batch, skew, wait, trades>>

Record(t) ==
    /\ t \in 1..order.executed \ order.recorded
    /\ order' = [order EXCEPT !.recorded = @ \cup {t}]
    /\ UNCHANGED <<now, ctx, batch, skew, wait, trades>>

\* The trades that a generation's order shows as filled: its lineage's.
CumOf(gen) == IF gen = 1 /\ order.gen = 2 THEN order.first ELSE order.executed

\* A page: executions older than the cursor, newest first.  What a cursor of
\* another order lists is not said.
Older(gen, token) == {t \in order.recorded : t <= CumOf(gen) /\ (token = 0 \/ t < token)}
Newest(S, n)      == {t \in S : Cardinality({u \in S : u > t}) < n}
Descending(S)     == CHOOSE seq \in [1..Cardinality(S) -> S] :
                         \A i, j \in DOMAIN seq : i < j => seq[i] > seq[j]

Pages(gen) ==
    LET rest  == Older(gen, trades.token)
        proper == Newest(rest, TradesPage)
    IN  IF trades.token # 0 /\ trades.from # gen
        THEN {<<S, 0>> : S \in SUBSET Older(gen, 0)}
        ELSE {<<proper, IF proper = rest THEN 0 ELSE Min(proper)>>}

\* Mutant: the pages that follow are asked for with the caller's key.
PinnedLoosely(gen) == trades.key

Pinned(gen) == gen     \* key = OrderKeyByID(page.Order.OrderID)

\* A page arrives; the last one ends the listing.  key 0 is the client id.
PageArrives ==
    /\ trades.pc = "paging" /\ ~ctx
    /\ LET gen == IF trades.key = 0 THEN order.gen ELSE trades.key IN
         \E page \in Pages(gen) :
           trades' = [trades EXCEPT !.key = Pinned(gen), !.from = gen, !.found = gen,
                                    !.cum = CumOf(gen), !.got = @ \o Descending(page[1]),
                                    !.token = page[2], !.since = now,
                                    !.pc = IF page[2] = 0 THEN "listed" ELSE "paging"]
    /\ UNCHANGED <<now, ctx, batch, skew, wait, order>>

\* The service does not find the order yet.
PageAbsent ==
    /\ trades.pc = "paging" /\ ~ctx /\ trades.token = 0
    /\ trades' = [trades EXCEPT !.pc = "listed"]
    /\ UNCHANGED <<now, ctx, batch, skew, wait, order>>

\* A call of the listing fails, as one that takes too long does.
PageFails ==
    /\ trades.pc = "paging"
    /\ trades' = [trades EXCEPT !.pc = "returned", !.result = "error"]
    /\ UNCHANGED <<now, ctx, batch, skew, wait, order>>

QuantityOf(seq) == FoldFunction(LAMBDA t, n : n + Quantities[t], 0, seq)    \* sumTradeQty

TradesComplete(found, cum, got) ==
    found # 0 /\ QuantityOf(got) = QuantityOf([t \in 1..cum |-> t])

\* A listing is judged: complete, out of time, or to be repeated.
Listed ==
    /\ trades.pc = "listed"
    /\ IF TradesComplete(trades.found, trades.cum, trades.got)
       THEN trades' = [trades EXCEPT !.pc = "returned", !.result = "complete"]
       ELSE IF now > Timeout
       THEN trades' = [trades EXCEPT !.pc = "returned", !.result = "timeout"]
       ELSE trades' = [trades EXCEPT !.pc = "sleeping", !.since = now]
    /\ UNCHANGED <<now, ctx, batch, skew, wait, order>>

\* The next poll: a new listing, by the caller's own key.
TradesWake ==
    /\ trades.pc = "sleeping"
    /\ \/ ctx /\ trades' = [trades EXCEPT !.pc = "returned", !.result = "canceled"]
       \/ ~ctx /\ now > trades.since
          /\ trades' = [trades EXCEPT !.pc = "paging", !.since = now, !.key = trades.asked,
                                      !.token = 0, !.from = 0, !.found = 0, !.cum = 0,
                                      !.got = <<>>]
    /\ UNCHANGED <<now, ctx, batch, skew, wait, order>>

-----------------------------------------------------------------------------
(* A caller in one of the two waits.                                       *)

\* Time passes while a call is under way or a timer runs.
Tick ==
    /\ \/ wait.pc = "reading" /\ ~ctx /\ ~Overdue(wait.deadline)
       \/ wait.pc = "sleeping" /\ now < wait.wake
       \/ trades.pc = "paging" /\ now < trades.since + CallTimeout
       \/ trades.pc = "sleeping" /\ now <= trades.since
    /\ now' = now + 1
    /\ UNCHANGED <<ctx, batch, skew, wait, order, trades>>

Cancel ==
    /\ ~ctx /\ {wait.pc, trades.pc} \cap {"reading", "paging", "sleeping"} # {}
    /\ ctx' = TRUE
    /\ UNCHANGED <<now, batch, skew, wait, order, trades>>

BatchCaller  == StatusAnswered \/ StatusRead \/ WaitWakes
TradesCaller == PageArrives \/ PageAbsent \/ PageFails \/ Listed \/ TradesWake

WaitInit(batchPlace, tradesPlace) ==
    now = 0 /\ ctx = FALSE /\ BatchInit(batchPlace) /\ TradesInit(tradesPlace)

WaitNext ==
    \/ Tick \/ Cancel \/ BatchCaller \/ TradesCaller
    \/ wait.pc # "idle" /\ (BatchAppears \/ \E i \in Items : ItemMoves(i))
    \/ trades.pc # "idle" /\ (Fill \/ Succeed \/ \E t \in DOMAIN Quantities : Record(t))

-----------------------------------------------------------------------------
(* Properties.                                                             *)

\* A wait that returns a status without an error returns one of all items, none
\* of them admitted, and what it says of an item that is rejected or terminal
\* stays true (IsBatchReplaceSettled: "until no item is still admitted").
SettledIsTrue ==
    wait.result = "settled" =>
        /\ DOMAIN wait.last = Items
        /\ \A i \in Items :
             /\ "admitted" \notin {wait.last[i], batch.phase[i]}
             /\ wait.last[i] \in {"rejected", "terminal"} => batch.phase[i] = wait.last[i]

Greater(a, b) == IF a >= b THEN a ELSE b

\* The wait is over when the window is, also with a read in flight and whatever
\* the service's clock says; once a status told the acceptance, when the window
\* that began then is ("a slow answer must not keep the wait past it").
StaysInWindow ==
    wait.pc \in {"reading", "sleeping"} =>
        now <= IF batch.dated /\ wait.last # Nothing THEN batch.at + skew + Window
                 ELSE Greater(Window, batch.at + skew + Window)

\* The wait gives the batch up as expired only when the service drops its status,
\* but for the last poll and for what the service's clock is behind.
ExpiredIsDue ==
    wait.result = "expired" => batch.at + Window < now + MaxDelay + Greater(0, -skew)

\* Trades reported as complete are those of the order that is returned, each once:
\* its fills, over all pages, whatever was filled, recorded or replaced while they
\* were read (getOrderExecutionPages, orderTradesComplete).
CompleteIsTrue ==
    trades.result = "complete" =>
        Len(trades.got) = trades.cum /\ Range(trades.got) = 1..trades.cum

\* A wait that succeeds tells the truth of a state that lasts: of the batch, or of
\* the order and its trades.
ResultsAreTrue == SettledIsTrue /\ CompleteIsTrue

\* The wait for a batch ends neither after its window nor much before it, at
\* whatever distance the clocks of client and service are.
WindowIsKept == StaysInWindow /\ ExpiredIsDue

\* Both waits return, also when the service never says more.
WaitsReturn ==
    /\ wait.pc \in {"reading", "sleeping"} ~> wait.pc = "returned"
    /\ trades.pc \in {"paging", "sleeping"} ~> trades.pc = "returned"
=============================================================================
