--------------------------- MODULE OrderbookStream ---------------------------
(***************************************************************************)
(* The managed order book: OrderbookService.CreateSubscription             *)
(* (services/orderbook.go) on top of SnapshotThenStream, with its local    *)
(* book (orderbook/local_book.go) and the subscription it hands to the     *)
(* user (orderbook/subscription.go).                                       *)
(*                                                                         *)
(* The coordinator calls the callbacks of this module without its lock; a  *)
(* callback takes the service's own lock mu and the subscription's lock in *)
(* short critical sections.  Each of those is a step here, so a callback   *)
(* of the worker, one of a refresher, a fetch and the user's SetBucket     *)
(* interleave as they do in the program.                                   *)
(*                                                                         *)
(* The server's book changes by events 1, 2, ...; event e sets the level   *)
(* Touch[e].  A side's level is modelled by the event that last set it, so *)
(* the book at sequence q is ServerBook(q).  Publication k carries the     *)
(* levels that the events Delta[k].start..Delta[k].end touched, as they    *)
(* are at its end; a reset carries all levels.  The quantities, the        *)
(* bucketing and the trimming to a depth are in LocalBook.                 *)
(***************************************************************************)
EXTENDS SnapshotThenStream, FiniteSetsExt

CONSTANTS
    Levels,          \* price levels of both sides
    Touch,           \* the level each event of the server sets
    Delta,           \* the publications: start, end, reset, malformed
    Lag,             \* how many events a REST snapshot may be behind
    MaxUnavailable,  \* bound: snapshots answered with Available = false
    MaxUpdates,      \* capacity of the consumer's channel (200 in the code)
    MaxBuckets,      \* bound: calls of SetBucket
    MayFail          \* "render": BuildOrderbookData may refuse the book

MaxSeq == Len(Touch)

ASSUME BookAssumptions ==
    /\ Touch \in Seq(Levels) /\ Lag \in Nat
    /\ MaxUnavailable \in Nat /\ MaxUpdates \in Nat /\ MaxBuckets \in Nat
    /\ "ok" \in Outcomes /\ Users \cap {"worker", "api"} = {}
    /\ \A k \in Pubs :
         /\ Delta[k] \in [start : 1..MaxSeq, end : 1..MaxSeq, reset : BOOLEAN, malformed : BOOLEAN]
         /\ Delta[k].start <= Delta[k].end
    /\ \A k \in Pubs : k > 1 => Delta[k].start = Delta[k-1].end + 1

VARIABLES
    book,    \* the variables guarded by mu: the levels, currentBookSeq,
             \* bookAvailable, bucketTicks, lastViewUnavailable, recheckPending,
             \* recheckGeneration; fetched: history, a snapshot was stored
    cb,      \* each goroutine's place in the callbacks, the deltas it has still
             \* to handle, the view it has rendered, and whether that is the
             \* view of ApplySnapshot itself
    out,     \* the subscription: its channel, closed; last: history, the last
             \* view that entered the channel; unavailable: answers so far
    timers   \* the recheck goroutines: their generation, waiting or firing

bookVars == <<book, cb, out, timers>>
allVars  == <<vars, bookVars>>

Callers == Refreshers \cup {"worker", "api"}
NoView  == [seq |-> 0, avail |-> FALSE, fetched |-> TRUE]
Off     == [pc |-> "off", todo |-> <<>>, view |-> NoView, final |-> FALSE]
Empty   == [l \in Levels |-> 0]

BookInit ==
    /\ Init
    /\ book = [lv |-> Empty, seq |-> 0, avail |-> FALSE, bucket |-> 0, fetched |-> FALSE,
               lastUnavailable |-> FALSE, pending |-> FALSE, generation |-> 0]
    /\ cb = [p \in Callers |-> Off]
    /\ out = [queue |-> <<>>, closed |-> FALSE, last |-> NoView, unavailable |-> 0]
    /\ timers = {}

-----------------------------------------------------------------------------
(* The local book.                                                         *)

ServerBook(q) == [l \in Levels |-> Max({0} \cup {e \in 1..q : Touch[e] = l})]

\* `seqEnd <= currentBookSeq`: nothing new.
Stale(b, d) == d.end <= b.seq

\* Mutant: the gap is not looked for.
NeedsRefreshIfMalformed(b, d) == d.malformed

\* ApplyDelta asks for a snapshot: a malformed delta or a gap.
NeedsRefresh(b, d) == d.malformed \/ (~Stale(b, d) /\ ~d.reset /\ d.start > b.seq + 1)

ApplyDelta(b, d) ==
    IF NeedsRefresh(b, d) \/ Stale(b, d) THEN b
    ELSE [b EXCEPT !.seq = d.end,
                   !.lv = [l \in Levels |-> IF d.reset \/ \E e \in d.start..d.end : Touch[e] = l
                                            THEN ServerBook(d.end)[l] ELSE b.lv[l]]]

-----------------------------------------------------------------------------
(* FetchSnapshot stores the server's answer in the book at once, before    *)
(* the coordinator looks whether it still wants it.                        *)

\* Events up to Sent are published; those of the next publication may have
\* happened.  A snapshot is taken somewhere between, or Lag events behind.
Sent       == IF env.published = 0 THEN 0 ELSE Delta[env.published].end
Happened   == IF env.published < MaxPubs THEN Delta[env.published + 1].end ELSE Sent
SnapshotAt == {q \in 0..Happened : q + Lag >= Sent}

StoreSnapshot ==
    \E q \in SnapshotAt, available \in BOOLEAN :
        /\ available \/ out.unavailable < MaxUnavailable
        /\ book' = [book EXCEPT !.lv = IF available THEN ServerBook(q) ELSE Empty,
                                !.seq = q, !.avail = available, !.fetched = TRUE]
        /\ out' = [out EXCEPT !.unavailable = IF available THEN @ ELSE @ + 1]

\* The call may fail before the store, or after it when the stored book cannot
\* be rendered.
FetchSnapshot(p) ==
    /\ \/ FetchReturns(p) /\ StoreSnapshot
       \/ FetchFails(p) /\ UNCHANGED <<book, out>>
       \/ "render" \in MayFail /\ FetchFails(p) /\ StoreSnapshot
    /\ UNCHANGED <<cb, timers>>

-----------------------------------------------------------------------------
(* The callbacks, for each goroutine p that may be in one.                 *)

In(p, pc)   == cb[p].pc = pc
Goto(p, pc) == cb' = [cb EXCEPT ![p].pc = pc]
Handling(items) == [Off EXCEPT !.pc = "delta", !.todo = items]

\* The coordinator calls ApplySnapshot or ApplyLivePublications.
ApplyBegins(p) ==
    /\ MergePending(p) \/ DrainPending(p)
    /\ cb' = IF r'[p].pc \in {"apply", "applyLive"}
             THEN [cb EXCEPT ![p] = Handling(r'[p].buf)] ELSE cb
    /\ UNCHANGED <<book, out, timers>>

LiveBegins ==
    /\ HandlePublication
    /\ cb' = IF w'.live THEN [cb EXCEPT !["worker"] = Handling(<<w.hand>>)] ELSE cb
    /\ UNCHANGED <<book, out, timers>>

\* handleDelta's critical section.  A gap asks for a refresh and renders nothing.
HandleDelta(p) ==
    /\ In(p, "delta") /\ cb[p].todo # <<>>
    /\ LET d == Delta[Head(cb[p].todo)] IN
         \/ /\ out.closed /\ UNCHANGED book
            /\ cb' = [cb EXCEPT ![p].todo = Tail(@)]
         \/ /\ ~out.closed /\ book' = ApplyDelta(book, d)
            /\ cb' = [cb EXCEPT ![p].todo = Tail(@), ![p].final = FALSE,
                                ![p].pc = IF NeedsRefresh(book, d) THEN "request" ELSE "emit"]
    /\ UNCHANGED <<vars, out, timers>>

\* Mutant: OnSequenceGap is told of the gap, but no snapshot is asked for.
RequestForgotten(p) ==
    /\ In(p, "request") /\ Goto(p, "delta")
    /\ UNCHANGED <<vars, book, out, timers>>

\* RequestSnapshotRefresh; a disposed coordinator ignores it.
RequestRefresh(p) ==
    /\ In(p, "request") /\ Goto(p, "delta")
    /\ UserRequest \/ (s.disposed /\ UNCHANGED vars)
    /\ UNCHANGED <<book, out, timers>>

\* emit returns: to SetBucket, to ApplySnapshot before its recheck, or to the
\* next delta.
Emitted(p) == cb' = [cb EXCEPT ![p].view = NoView,
                               ![p].pc = IF p = "api" THEN "off"
                                         ELSE IF cb[p].final THEN "recheck" ELSE "delta"]

\* emit's critical section: the view is rendered under mu, and enqueued after
\* it was released.
Emit(p) ==
    /\ In(p, "emit")
    /\ \/ out.closed /\ Emitted(p) /\ UNCHANGED book
       \/ /\ ~out.closed
          /\ book' = [book EXCEPT !.lastUnavailable = ~book.avail]
          /\ \/ "render" \in MayFail /\ Goto(p, "fail")
             \/ cb' = [cb EXCEPT ![p].pc = "enqueue",
                                 ![p].view = [seq |-> book.seq, avail |-> book.avail,
                                              fetched |-> book.fetched]]
    /\ UNCHANGED <<vars, out, timers>>

EnqueueView(p) ==
    /\ In(p, "enqueue")
    /\ \/ out.closed /\ Emitted(p) /\ UNCHANGED out
       \/ /\ ~out.closed /\ Len(out.queue) < MaxUpdates /\ Emitted(p)
          /\ out' = [out EXCEPT !.queue = Append(@, cb[p].view), !.last = cb[p].view]
       \/ ~out.closed /\ Len(out.queue) = MaxUpdates /\ Goto(p, "fail") /\ UNCHANGED out
    /\ UNCHANGED <<vars, book, timers>>

Fail(p) ==
    /\ In(p, "fail")
    /\ \/ out.closed /\ Emitted(p) /\ UNCHANGED out
       \/ ~out.closed /\ Goto(p, "stop") /\ out' = [out EXCEPT !.closed = TRUE]
    /\ UNCHANGED <<vars, book, timers>>

StopStream(p) ==
    /\ In(p, "stop") /\ Emitted(p)
    /\ s' = IF s.disposed THEN s ELSE Stop
    /\ UNCHANGED <<env, sub, w, spc, r, refreshDone, hist, book, out, timers>>

\* ApplySnapshot after its deltas: a repeated unavailable answer adds no view.
SnapshotView(p) ==
    /\ In(p, "delta") /\ cb[p].todo = <<>> /\ p \in Refreshers /\ At(p, "apply")
    /\ LET repeated == ~book.avail /\ book.lastUnavailable /\ r[p].buf = <<>> IN
         cb' = [cb EXCEPT ![p].final = TRUE, ![p].pc = IF repeated THEN "recheck" ELSE "emit"]
    /\ UNCHANGED <<vars, book, out, timers>>

\* recheckUnavailableSnapshot.  bookAvailable is still what ApplySnapshot read:
\* only a fetch changes it, and p holds refreshMu.
Recheck(p) ==
    /\ In(p, "recheck") /\ Goto(p, "return")
    /\ \/ /\ book.avail /\ UNCHANGED timers
          /\ book' = [book EXCEPT !.pending = FALSE, !.generation = @ + 1]
       \/ /\ ~book.avail /\ ~book.pending
          /\ book' = [book EXCEPT !.pending = TRUE]
          /\ timers' = timers \cup {[gen |-> book.generation, st |-> "wait"]}
       \/ ~book.avail /\ book.pending /\ UNCHANGED <<book, timers>>
    /\ UNCHANGED <<vars, out>>

\* The callback returns to the coordinator, or the user's OnEvent or
\* OnSequenceGap panics in it.
Leaves(p, outcome) ==
    /\ IF p = "worker" THEN ApplyLive(outcome)
       ELSE ApplySnapshot(p, outcome) \/ ApplyBuffered(p, outcome)
    /\ cb' = [cb EXCEPT ![p] = Off]
    /\ UNCHANGED <<book, out, timers>>

Returns(p) ==
    /\ In(p, "return") \/ (In(p, "delta") /\ cb[p].todo = <<>>)
    /\ p \in Refreshers /\ At(p, "apply") => In(p, "return")
    /\ Leaves(p, "ok")

Panics(p) ==
    /\ "panic" \in Outcomes /\ cb[p].pc \in {"request", "enqueue"}
    /\ Leaves(p, "panic")

InCallback(p) ==
    \/ HandleDelta(p) \/ RequestRefresh(p) \/ SnapshotView(p) \/ Recheck(p)
    \/ Returns(p) \/ Panics(p)

Emitting(p) == Emit(p) \/ EnqueueView(p) \/ Fail(p) \/ StopStream(p)

-----------------------------------------------------------------------------
(* The recheck goroutines, the user and the goroutine of NewSubscription.  *)

\* Mutant: the goroutine forgets to clear recheckPending.
FiredKeepsPending(t) ==
    /\ timers' = (timers \ {t}) \cup {[t EXCEPT !.st = "fire"]}
    /\ UNCHANGED book

\* The delay of t is over, and its generation is the current one.
Fired(t) ==
    /\ timers' = (timers \ {t}) \cup {[t EXCEPT !.st = "fire"]}
    /\ book' = [book EXCEPT !.pending = FALSE]

RecheckTimer(t) ==
    /\ \/ /\ t.st = "wait" /\ t.gen = book.generation
          /\ Fired(t) /\ UNCHANGED vars
       \/ /\ t.st = "wait"
          /\ t.gen # book.generation \/ w.pc = "done" \/ env.ctxDone
          /\ timers' = timers \ {t} /\ UNCHANGED <<vars, book>>
       \/ /\ t.st = "fire" /\ timers' = timers \ {t}
          /\ UserRequest \/ (s.disposed /\ UNCHANGED vars)
          /\ UNCHANGED book
    /\ UNCHANGED <<cb, out>>

\* SetBucket: by CreateSubscription before Start, and by the user after it.
SetBucket ==
    /\ In("api", "off") /\ spc \in {"idle", "ok"} /\ book.bucket < MaxBuckets
    /\ book' = [book EXCEPT !.bucket = @ + 1] /\ Goto("api", "ready")
    /\ UNCHANGED <<vars, out, timers>>

\* Mutant: the book is rendered whether or not a snapshot was applied.
MayRenderAlways == TRUE

\* `s.stream.IsReady()`.
MayRender == s.ready

SetBucketEmits ==
    /\ In("api", "ready") /\ Goto("api", IF MayRender THEN "emit" ELSE "off")
    /\ UNCHANGED <<vars, book, out, timers>>

Close ==
    /\ "stop" \in Events /\ spc = "ok" /\ In("api", "off") /\ ~s.disposed
    /\ out' = [out EXCEPT !.closed = TRUE] /\ Goto("api", "stop")
    /\ UNCHANGED <<vars, book, timers>>

\* The stream is Done, and so are the updates.
DoneCloses ==
    /\ w.pc = "done" /\ ~out.closed /\ out' = [out EXCEPT !.closed = TRUE]
    /\ UNCHANGED <<vars, book, cb, timers>>

Consume ==
    /\ out.queue # <<>> /\ out' = [out EXCEPT !.queue = Tail(@)]
    /\ UNCHANGED <<vars, book, cb, timers>>

-----------------------------------------------------------------------------
(* The steps of the coordinator that call none of this.                    *)

Quiet(action) == action /\ UNCHANGED bookVars

BookRefresher(p) ==
    \/ Quiet(RefreshLock(p)) \/ FetchSnapshot(p) \/ ApplyBegins(p)
    \/ InCallback(p) \/ Emitting(p) \/ Quiet(Retry(p))

BookWorker ==
    \/ LiveBegins \/ InCallback("worker") \/ Emitting("worker")
    \/ Quiet(RunTop \/ Subscribed \/ SubscribeFails \/ BackoffEnds \/ Receive
             \/ DrainCancelled \/ DrainSubDone \/ ReconnectRefreshed \/ LiveEnds)

BookStart == Quiet(StartConnected \/ StartRefreshed \/ StartFails)

BookEnv ==
    \/ Quiet(Start \/ ServerAccepts \/ Publish \/ SubEnds \/ ClientClose \/ CancelContext)
    \/ \E p \in Users : Quiet(UserRefresh(p) \/ UserReturns(p))
    \/ Consume \/ SetBucket \/ Close

BookRest == Quiet(Rest) /\ out.closed /\ timers = {} /\ In("api", "off")

BookNext ==
    \/ BookStart \/ BookWorker \/ BookEnv \/ BookRest
    \/ Quiet(SendRefreshDone \/ GapTop \/ GapRefreshed)
    \/ \E p \in Refreshers : BookRefresher(p)
    \/ \E t \in timers : RecheckTimer(t)
    \/ SetBucketEmits \/ Emitting("api") \/ DoneCloses

BookSpec == BookInit /\ [][BookNext]_allVars

\* One conjunct per goroutine, as for the coordinator; a recheck's timer fires.
BookFairness ==
    /\ WF_allVars(BookStart \/ BookRefresher("start"))
    /\ WF_allVars(BookWorker)
    /\ WF_allVars(Quiet(SendRefreshDone) \/ BookRefresher("reconnect"))
    /\ WF_allVars(Quiet(GapTop \/ GapRefreshed) \/ BookRefresher("gap"))
    /\ WF_allVars(\E t \in timers : RecheckTimer(t))
    /\ WF_allVars(SetBucketEmits \/ Emitting("api"))

FairBookSpec == BookSpec /\ BookFairness

-----------------------------------------------------------------------------
(* Properties.                                                             *)

\* The managed book is "sequence-checked": with a snapshot that may lag behind
\* or run ahead of the publications, with malformed deltas, resets, and a live
\* callback running beside a refresh, an available book at sequence q has at
\* every level what the server had at q.
BookIsServers == book.avail => book.lv = ServerBook(book.seq)

\* CHANGELOG "Managed order books no longer emit a default, empty-looking view
\* before the fetched snapshot": whatever goroutine renders a view, and
\* whenever SetBucket is called, no view of the initial book is enqueued.
NoViewBeforeSnapshot == out.last.fetched

\* README "requests an unavailable snapshot again by itself ... until the book is
\* available or the subscription stops": the pacing flag and the generation of
\* the recheck goroutines never leave an unavailable book without a request.
RecheckContinues ==
    book.fetched /\ ~book.avail ~> book.avail \/ s.disposed \/ w.pc = "done"

\* When the server has published everything and the subscription stays open,
\* the book reaches the last event: a gap, a malformed delta or a delta that
\* met an older book leads to a refresh, not to a book left behind.
CatchesUp ==
    env.published = MaxPubs /\ sub.st = "open" /\ spc = "ok"
      ~> book.seq = Sent \/ sub.st # "open" \/ s.disposed
=============================================================================
