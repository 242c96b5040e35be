------------------------- MODULE MarketOverviewStream -------------------------
(***************************************************************************)
(* The managed market overview: MarketOverviewService.CreateSubscription   *)
(* (services/market_overview.go) on top of SnapshotThenStream, with the    *)
(* subscription it hands to the user (marketoverview/subscription.go).     *)
(*                                                                         *)
(* The rows are a plain Go map, bySymbolID, that the callbacks of the      *)
(* worker and of the refreshers change and range over.  No lock guards it, *)
(* and the coordinator calls the callbacks without its own.  When two      *)
(* goroutines are in the map at once the Go runtime may end the process,   *)
(* or not notice.                                                          *)
(*                                                                         *)
(* Publication k carries the row of market MarketOf[k]; a market's row is  *)
(* modelled by the publication it is of.  A callback is two steps: the     *)
(* map, up to OnEvent; and the consumer's queue.                           *)
(***************************************************************************)
EXTENDS SnapshotThenStream, FiniteSetsExt

CONSTANTS
    MarketOf,     \* the market of each publication
    Selected,     \* the markets of opts.Symbols; all of them when there are none
    Listed,       \* the markets of the first page of List, opts.Limit of them
    MaxUpdates    \* capacity of the consumer's channel (50 in the code)

Markets == Range(MarketOf)

\* ReadPublication leaves out the rows that were not selected.
ASSUME OverviewAssumptions ==
    /\ Len(MarketOf) = MaxPubs /\ MaxUpdates \in Nat
    /\ {"ok", "stop"} \subseteq Outcomes /\ "worker" \notin Users
    /\ Selected \subseteq Markets /\ Listed \subseteq Selected
    /\ Silent = {k \in Pubs : MarketOf[k] \notin Selected}

VARIABLES
    rows,      \* bySymbolID: the publication of each market's row, 0 for none
    cb,        \* each goroutine's place in a callback
    out,       \* the subscription: rows queued, closed, whether its own err is
               \* set, and whether the user has called Close
    crashed    \* the runtime found the map used by two goroutines

overviewVars == <<rows, cb, out, crashed>>

InCallbacks == Refreshers \cup {"worker"}

OverviewInit ==
    /\ Init
    /\ rows = [m \in Markets |-> 0]
    /\ cb = [p \in InCallbacks |-> "off"]
    /\ out = [queued |-> 0, closed |-> FALSE, err |-> FALSE, user |-> FALSE]
    /\ crashed = FALSE

-----------------------------------------------------------------------------
(* The callbacks.                                                          *)

In(p, place)   == cb[p] = place
Goto(p, place) == cb' = [cb EXCEPT ![p] = place]

\* The last of the publications ks that is of market m.
RowOf(m, ks) == Max({0} \cup {k \in ks : MarketOf[k] = m})

\* applyRows of batches that arrived in order.
ApplyRows(old, ks) ==
    [m \in Markets |-> IF RowOf(m, ks) # 0 THEN RowOf(m, ks) ELSE old[m]]

\* `clear(bySymbolID)` and the snapshot's rows: the first page of the selected
\* markets.
SnapshotRows(n) == [m \in Markets |-> IF m \in Listed THEN RowOf(m, 1..n) ELSE 0]

\* Mutant: the buffered publications first, and the snapshot over them.
MergedUnderSnapshot(n, ks) ==
    [m \in Markets |-> IF SnapshotRows(n)[m] # 0 THEN SnapshotRows(n)[m] ELSE RowOf(m, ks)]

\* ApplySnapshot: the buffered publications over the snapshot, whichever is newer.
Merged(n, ks) == ApplyRows(SnapshotRows(n), ks)

\* The coordinator calls ApplySnapshot or ApplyLivePublications.
ApplyBegins(p) ==
    /\ MergePending(p) \/ DrainPending(p)
    /\ IF r'[p].pc \in {"apply", "applyLive"} THEN Goto(p, "map") ELSE UNCHANGED cb
    /\ UNCHANGED <<rows, out, crashed>>

LiveBegins ==
    /\ HandlePublication
    /\ IF w'.live THEN Goto("worker", "map") ELSE UNCHANGED cb
    /\ UNCHANGED <<rows, out, crashed>>

\* The map is changed and ranged over, and the user's OnEvent called.
UseMap(p) ==
    /\ In(p, "map") /\ Goto(p, "enqueue")
    /\ rows' = CASE p = "worker" -> ApplyRows(rows, {w.hand})
                 [] p # "worker" /\ At(p, "apply") -> Merged(r[p].snap, Range(r[p].buf))
                 [] OTHER -> ApplyRows(rows, Range(r[p].buf))
    /\ UNCHANGED <<vars, out, crashed>>

\* concurrent map writes, or a write beside a range: a fatal error.
Crash ==
    /\ \E p, q \in InCallbacks : p # q /\ In(p, "map") /\ In(q, "map")
    /\ crashed' = TRUE
    /\ UNCHANGED <<vars, rows, cb, out>>

Leaves(p, outcome) ==
    /\ IF p = "worker" THEN ApplyLive(outcome)
       ELSE ApplySnapshot(p, outcome) \/ ApplyBuffered(p, outcome)
    /\ cb' = [cb EXCEPT ![p] = "off"]
    /\ UNCHANGED <<rows, crashed>>

\* Mutant: the overflow is not kept as an error.
OverflowedSilently == [out EXCEPT !.closed = TRUE]

\* A full queue fails the subscription.
Overflowed == [out EXCEPT !.closed = TRUE, !.err = TRUE]

Full == out.queued = MaxUpdates

\* Subscription.Enqueue, as the last step of emit; or OnEvent panicked before.
EnqueueRows(p) ==
    /\ In(p, "enqueue")
    /\ \/ "panic" \in Outcomes /\ Leaves(p, "panic") /\ UNCHANGED out
       \/ out.closed /\ Leaves(p, "ok") /\ UNCHANGED out
       \/ ~out.closed /\ ~Full /\ Leaves(p, "ok") /\ out' = [out EXCEPT !.queued = @ + 1]
       \/ ~out.closed /\ Full /\ Goto(p, "stop") /\ out' = Overflowed
          /\ UNCHANGED <<vars, rows, crashed>>

\* stream.Stop() of an overflow.
StopStream(p) == In(p, "stop") /\ Leaves(p, "stop") /\ UNCHANGED out

InCallback(p) == UseMap(p) \/ EnqueueRows(p) \/ StopStream(p)

-----------------------------------------------------------------------------
(* The user, and the goroutine of NewSubscription.                         *)

\* Close: closeUpdates, and then stream.Close().
CloseUpdates ==
    /\ "stop" \in Events /\ spc = "ok" /\ ~out.user
    /\ out' = [out EXCEPT !.closed = TRUE, !.user = TRUE]
    /\ UNCHANGED <<vars, rows, cb, crashed>>

CloseStream == out.user /\ UserStop /\ UNCHANGED overviewVars

\* The stream is Done; or Start failed, and CreateSubscription closes.
DoneCloses ==
    /\ w.pc = "done" \/ spc = "failed"
    /\ ~out.closed /\ out' = [out EXCEPT !.closed = TRUE]
    /\ UNCHANGED <<vars, rows, cb, crashed>>

Consume ==
    /\ out.queued > 0 /\ out' = [out EXCEPT !.queued = @ - 1]
    /\ UNCHANGED <<vars, rows, cb, crashed>>

-----------------------------------------------------------------------------
(* The steps of the coordinator that call none of this.                    *)

Quiet(action) == action /\ UNCHANGED overviewVars

OverviewRefresher(p) ==
    \/ Quiet(RefreshLock(p) \/ FetchFails(p) \/ FetchReturns(p) \/ Retry(p))
    \/ ApplyBegins(p) \/ InCallback(p)

OverviewWorker ==
    \/ LiveBegins \/ InCallback("worker")
    \/ Quiet(RunTop \/ Subscribed \/ SubscribeFails \/ BackoffEnds \/ Receive
             \/ ReadPanics \/ DrainCancelled \/ DrainSubDone \/ ReconnectRefreshed \/ LiveEnds)

OverviewEnv ==
    \/ Quiet(Start \/ ServerAccepts \/ Publish \/ SubEnds \/ ClientClose \/ CancelContext)
    \/ \E p \in Users : Quiet(UserRefresh(p) \/ UserReturns(p))
    \/ Consume \/ CloseUpdates

OverviewRest ==
    \/ crashed /\ UNCHANGED <<vars, overviewVars>>
    \/ out.closed /\ Quiet(Rest)

OverviewNext ==
    \/ OverviewRest
    \/ /\ ~crashed
       /\ \/ Quiet(StartConnected \/ StartRefreshed \/ StartFails \/ SendRefreshDone)
          \/ OverviewWorker \/ OverviewEnv \/ CloseStream \/ DoneCloses \/ Crash
          \/ \E p \in Refreshers : OverviewRefresher(p)

OverviewSpec == OverviewInit /\ [][OverviewNext]_<<vars, overviewVars>>

-----------------------------------------------------------------------------
(* Properties.                                                             *)

Settled ==
    /\ w.pc = "live" /\ w.hand = 0 /\ sub.st = "open" /\ sub.queue = <<>>
    /\ s.ready /\ ~s.disposed

\* While the subscription is open and everything it brought has been handled, the
\* rows of a ready overview are the last ones the server published.  A selected
\* market that is not on the first page of the list may have no row, because
\* ApplySnapshot clears it, but never an old one.  On its own this does not hold of
\* the code, and no document promises it: see RowsFollow.
RowsAreCurrent ==
    Settled => \A m \in Selected : \/ rows[m] = RowOf(m, 1..env.published)
                                   \/ rows[m] = 0 /\ m \notin Listed

\* Rows are current on a stream that has not reconnected: neither a publication that
\* was buffered although the snapshot had it, nor one applied live beside a refresh
\* by the user, leaves an old row.  The buffer of ApplySnapshot outlives a connection,
\* so that after a reconnect it may hold a publication that is older than the
\* snapshot it is merged over.
RowsFollow == env.conns = 1 => RowsAreCurrent

\* CHANGELOG "Managed market overview streams finish after terminal failure,
\* report the error": the stream ends for a Close by the user, a context that
\* ended, a Start that failed, or with an error that Err() returns at its end.
EndIsReported ==
    [][w.pc # "done" /\ w'.pc = "done" =>
         \/ s'.lastErr \/ out.err
         \/ out.user \/ env.ctxDone \/ spc \in {"connecting", "closing"}]_<<vars, overviewVars>>
=============================================================================
