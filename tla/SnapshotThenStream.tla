------------------------- MODULE SnapshotThenStream -------------------------
(***************************************************************************)
(* The coordinator realtime.SnapshotThenStream: it merges the publications *)
(* of one websocket channel with REST snapshots of the same data.          *)
(*                                                                         *)
(* Goroutines:                                                             *)
(*   - the worker, run(): subscribes, hands publications to                *)
(*     handlePublication, reconnects;                                      *)
(*   - the refreshers, calls of RefreshSnapshot: the one of Start, the one *)
(*     of the worker's reconnect, the single-flight "gap" goroutine of     *)
(*     RequestSnapshotRefresh, and the callers in Users;                   *)
(*   - the environment: the server publishing, the transport failing, the  *)
(*     user calling Stop, Client.Close, or cancelling the context.         *)
(*                                                                         *)
(* A step is one critical section of s.mu, or one callback, which the code *)
(* runs without s.mu.  Publications are numbered 1, 2, ... in the order    *)
(* the server sends them; a snapshot is the number of publications it      *)
(* covers.                                                                 *)
(***************************************************************************)
EXTENDS Naturals, Sequences, FiniteSets, Functions

CONSTANTS
    Users,        \* concurrent callers of the public RefreshSnapshot
    Silent,       \* publications in which readPublication finds no item
    MaxBuffered,  \* capacity of the pending buffer (the code's default is 200)
    MaxQueue,     \* capacity of the subscription's queue (default 1000)
    MaxPubs,      \* bound: publications of the server
    MaxConns,     \* bound: subscriptions the server accepts
    MaxAsks,      \* bound: refreshes asked for by users and callbacks
    Outcomes,     \* what the apply callbacks may do, see Callback
    Events        \* which of the user's events may happen

ASSUME Assumptions ==
    /\ Users \cap {"start", "reconnect", "gap"} = {}
    /\ Silent \subseteq Nat
    /\ MaxBuffered \in Nat /\ MaxQueue \in Nat
    /\ MaxPubs \in Nat /\ MaxConns \in Nat /\ MaxAsks \in Nat
    /\ Outcomes \subseteq {"ok", "gap", "stop", "panic"}
    /\ Events \subseteq {"clientClose", "cancel", "stop", "earlyStop", "request"}

VARIABLES
    env,          \* publications sent, subscriptions accepted, refreshes asked
                  \* for; Client.Close called; the context given to Start done
    sub,          \* the worker's Subscription: state, Err(), Messages()
    w,            \* the worker: its place in run(), the publication in
                  \* handlePublication (0: none), whether it was found ready,
                  \* and what signalInitialConnection sent ("none" while first)
    spc,          \* Start's place
    s,            \* the coordinator's fields; cancelled: the run context is done;
                  \* gap: the goroutine, refreshRun being gap # "off"
    r,            \* each refresher's place in RefreshSnapshot and its locals
    refreshDone,  \* the channel of the reconnect's refresh goroutine
    delivered,    \* history: publications handed to the apply callbacks, in order
    view          \* history: publications the consumer's state reflects

hist == <<delivered, view>>
vars == <<env, sub, w, spc, s, r, refreshDone, hist>>

Refreshers == {"start", "reconnect", "gap"} \cup Users
Section    == {"fetch", "fetched", "apply", "drain", "applyLive"}  \* holding refreshMu
Pubs       == 1..MaxPubs
NoSub      == [st |-> "none", err |-> "none", queue |-> <<>>]
Idle       == [pc |-> "off", gen |-> 0, snap |-> 0, buf |-> <<>>, tries |-> 0]

Init ==
    /\ env = [published |-> 0, conns |-> 0, asks |-> 0,
              clientClosed |-> FALSE, ctxDone |-> FALSE]
    /\ sub = NoSub
    /\ w = [pc |-> "off", hand |-> 0, live |-> FALSE, connected |-> "none"]
    /\ spc = "idle"
    /\ s = [ready |-> FALSE, disposed |-> FALSE, generation |-> 0, pending |-> <<>>,
            lastErr |-> FALSE, cancelled |-> FALSE, refreshNext |-> FALSE, gap |-> "off"]
    /\ r = [p \in Refreshers |-> Idle]
    /\ refreshDone = "none"
    /\ delivered = <<>> /\ view = {}

-----------------------------------------------------------------------------
(* Critical sections shared by the goroutines, as functions of s.          *)

SetErr == [s EXCEPT !.lastErr = TRUE, !.ready = FALSE]

\* Stop leaves ready and lastErr alone.
Stop == [s EXCEPT !.disposed = TRUE, !.generation = @ + 1,
                  !.pending = <<>>, !.cancelled = TRUE]

FailClosed == IF s.disposed THEN s
              ELSE [Stop EXCEPT !.ready = FALSE, !.lastErr = TRUE]

\* RequestSnapshotRefresh of a stream that is not disposed.
Requested == [s EXCEPT !.refreshNext = TRUE,
                       !.gap = IF @ = "off" THEN "top" ELSE @]

Ask == env.asks < MaxAsks /\ env' = [env EXCEPT !.asks = @ + 1]

\* What an apply callback does to the coordinator: nothing, ask for a refresh
\* because it met a gap, call Stop, or panic (failClosed).
Callback(outcome) ==
    \/ outcome = "ok" /\ UNCHANGED <<s, env>>
    \/ outcome = "gap" /\ s.disposed /\ UNCHANGED <<s, env>>
    \/ outcome = "gap" /\ ~s.disposed /\ Ask /\ s' = Requested
    \/ outcome = "stop" /\ s' = Stop /\ UNCHANGED env
    \/ outcome = "panic" /\ s' = FailClosed /\ UNCHANGED env

-----------------------------------------------------------------------------
(* RefreshSnapshot, for each refresher p.                                  *)

At(p, pc) == r[p].pc = pc
Go(p, pc) == r' = [r EXCEPT ![p].pc = pc]

RefreshLock(p) ==
    /\ At(p, "lock")
    /\ \A q \in Refreshers : r[q].pc \notin Section
    /\ \/ s.disposed /\ Go(p, "nil") /\ UNCHANGED s
       \/ /\ ~s.disposed
          /\ s' = [s EXCEPT !.generation = @ + 1, !.ready = FALSE]
          /\ r' = [r EXCEPT ![p].pc = "fetch", ![p].gen = s.generation + 1]
    /\ UNCHANGED <<env, sub, w, spc, refreshDone, hist>>

FetchFails(p) ==
    /\ At(p, "fetch") /\ Go(p, "err")
    /\ s' = SetErr
    /\ UNCHANGED <<env, sub, w, spc, refreshDone, hist>>

FetchReturns(p) ==
    /\ At(p, "fetch")
    /\ r' = [r EXCEPT ![p].pc = "fetched", ![p].snap = env.published]
    /\ UNCHANGED <<env, sub, w, spc, s, refreshDone, hist>>

\* Mutant: a refresh in flight does not look whether the stream was disposed.
CurrentUnchecked(p) == TRUE

\* `s.disposed || generation != s.generation` is false.
Current(p) == ~s.disposed /\ r[p].gen = s.generation

\* Mutant: the taken publications stay in s.pending.
TakePendingKeeps(p, pc) ==
    /\ r' = [r EXCEPT ![p].pc = pc, ![p].buf = s.pending]
    /\ UNCHANGED s

\* `buffered = s.pending; s.pending = nil`.
TakePending(p, pc) ==
    /\ r' = [r EXCEPT ![p].pc = pc, ![p].buf = s.pending]
    /\ s' = [s EXCEPT !.pending = <<>>]

MergePending(p) ==
    /\ At(p, "fetched")
    /\ \/ ~Current(p) /\ Go(p, "nil") /\ UNCHANGED s
       \/ Current(p) /\ TakePending(p, "apply")
    /\ UNCHANGED <<env, sub, w, spc, refreshDone, hist>>

\* The two callback calls of RefreshSnapshot.
Deliver(p, outcome) ==
    /\ r' = [r EXCEPT ![p].pc = IF outcome = "panic" THEN "err" ELSE "drain",
                      ![p].buf = <<>>, ![p].snap = 0]
    /\ delivered' = delivered \o r[p].buf
    /\ Callback(outcome)
    /\ UNCHANGED <<sub, w, spc, refreshDone>>

ApplySnapshot(p, outcome) ==
    /\ At(p, "apply") /\ Deliver(p, outcome)
    /\ view' = 1..r[p].snap \cup Range(r[p].buf)

ApplyBuffered(p, outcome) ==
    /\ At(p, "applyLive") /\ Deliver(p, outcome)
    /\ view' = view \cup Range(r[p].buf)

\* Mutant: ready is set without looking at s.pending again.
DrainedUnseen == TRUE

Drained == s.pending = <<>>

DrainPending(p) ==
    /\ At(p, "drain")
    /\ \/ ~Current(p) /\ Go(p, "nil") /\ UNCHANGED s
       \/ /\ Current(p) /\ Drained /\ Go(p, "nil")
          /\ s' = [s EXCEPT !.ready = TRUE, !.lastErr = FALSE]
       \/ Current(p) /\ ~Drained /\ TakePending(p, "applyLive")
    /\ UNCHANGED <<env, sub, w, spc, refreshDone, hist>>

\* refreshSnapshotWithRetry: one more call after 200ms, unless the context ends.
Retry(p) ==
    /\ p \in {"reconnect", "gap"} /\ At(p, "err") /\ r[p].tries = 1
    /\ \/ r' = [r EXCEPT ![p].tries = 2, ![p].pc = "lock"]
       \/ /\ IF p = "gap" THEN env.ctxDone ELSE s.cancelled
          /\ r' = [r EXCEPT ![p].tries = 2]
    /\ UNCHANGED <<env, sub, w, spc, s, refreshDone, hist>>

Refresh(p) ==
    \/ RefreshLock(p) \/ FetchFails(p) \/ FetchReturns(p) \/ MergePending(p)
    \/ \E o \in Outcomes : ApplySnapshot(p, o) \/ ApplyBuffered(p, o)
    \/ DrainPending(p) \/ Retry(p)

\* p calls RefreshSnapshot; p's call, with its retry, has returned.
Call(p) == At(p, "off") /\ r' = [r EXCEPT ![p].pc = "lock", ![p].tries = 1]

Returned(p, result) ==
    /\ At(p, result)
    /\ p \in {"reconnect", "gap"} /\ result = "err" => r[p].tries = 2
    /\ r' = [r EXCEPT ![p] = Idle]

-----------------------------------------------------------------------------
(* The gap goroutine of RequestSnapshotRefresh.  It leaves refreshRun set   *)
(* when it fails: gap "dead".                                               *)

\* Mutant: the request is taken, and no refresh called.
GapTopForgets ==
    /\ s.gap = "top" /\ s' = [s EXCEPT !.refreshNext = FALSE, !.gap = "off"]
    /\ UNCHANGED <<env, sub, w, spc, r, refreshDone, hist>>

GapTop ==
    /\ s.gap = "top"
    /\ \/ /\ s.disposed \/ ~s.refreshNext
          /\ s' = [s EXCEPT !.gap = "off"] /\ UNCHANGED r
       \/ /\ ~s.disposed /\ s.refreshNext
          /\ s' = [s EXCEPT !.refreshNext = FALSE, !.gap = "refreshing"]
          /\ Call("gap")
    /\ UNCHANGED <<env, sub, w, spc, refreshDone, hist>>

\* Mutant: the goroutine serves one request and forgets to look for another.
AfterGapRefreshOnce == "off"

AfterGapRefresh == "top"

GapRefreshed ==
    /\ s.gap = "refreshing"
    /\ \/ Returned("gap", "nil") /\ s' = [s EXCEPT !.gap = AfterGapRefresh]
       \/ Returned("gap", "err") /\ s' = [FailClosed EXCEPT !.gap = "dead"]
    /\ UNCHANGED <<env, sub, w, spc, refreshDone, hist>>

-----------------------------------------------------------------------------
(* Start.                                                                  *)

Start ==
    /\ spc = "idle" /\ spc' = "connecting"
    /\ w' = [w EXCEPT !.pc = "top"]
    /\ s' = [s EXCEPT !.cancelled = env.ctxDone]
    /\ UNCHANGED <<env, sub, r, refreshDone, hist>>

StartConnected ==
    /\ spc = "connecting"
    /\ \/ /\ w.connected = "ok" /\ spc' = "refreshing"
          /\ Call("start") /\ UNCHANGED s
       \/ /\ w.connected = "err" \/ env.ctxDone
          /\ spc' = "closing" /\ s' = Stop /\ UNCHANGED r
    /\ UNCHANGED <<env, sub, w, refreshDone, hist>>

StartRefreshed ==
    /\ spc = "refreshing"
    /\ \/ Returned("start", "nil") /\ spc' = "ok" /\ UNCHANGED s
       \/ Returned("start", "err") /\ spc' = "closing" /\ s' = Stop
    /\ UNCHANGED <<env, sub, w, refreshDone, hist>>

\* Close waits for the worker.
StartFails ==
    /\ spc = "closing" /\ w.pc = "done" /\ spc' = "failed"
    /\ UNCHANGED <<env, sub, w, s, r, refreshDone, hist>>

-----------------------------------------------------------------------------
(* The worker, run().                                                      *)

Stopped == s.cancelled \/ s.disposed

RunTop ==
    /\ w.pc = "top"
    /\ w' = [w EXCEPT !.pc = IF Stopped THEN "done" ELSE "subscribing"]
    /\ UNCHANGED <<env, sub, spc, s, r, refreshDone, hist>>

\* SubscribeProtoWithOptions returned a subscription.  On a reconnect the
\* refresh goroutine starts and the worker drains publications meanwhile.
Subscribed ==
    /\ w.pc = "subscribing" /\ sub.st # "none"
    /\ \/ /\ w.connected = "none"
          /\ w' = [w EXCEPT !.connected = "ok", !.pc = "live"]
          /\ UNCHANGED <<r, refreshDone>>
       \/ /\ w.connected = "ok" /\ w' = [w EXCEPT !.pc = "drain"]
          /\ Call("reconnect") /\ refreshDone' = "none"
    /\ UNCHANGED <<env, sub, spc, s, hist>>

\* Mutant: the failed handshake is not reported.
SignalLost == w.connected

\* signalInitialConnection(err): connectOnce sends only the first outcome.
Signal == IF w.connected = "none" THEN "err" ELSE w.connected

\* It returned an error: the handshake failed, the client is closed, or the
\* context ended, even while the server was accepting.
SubscribeFails ==
    /\ w.pc = "subscribing" /\ sub' = NoSub
    /\ \/ /\ s.cancelled /\ UNCHANGED s
          /\ w' = [w EXCEPT !.connected = Signal, !.pc = "done"]
       \/ /\ ~s.cancelled /\ sub.st = "none" /\ s' = SetErr
          /\ w' = [w EXCEPT !.connected = Signal,
                            !.pc = IF w.connected = "none" THEN "done" ELSE "backoff"]
    /\ UNCHANGED <<env, spc, r, refreshDone, hist>>

BackoffEnds ==
    /\ w.pc = "backoff"
    /\ \/ w' = [w EXCEPT !.pc = "top"]
       \/ s.cancelled /\ w' = [w EXCEPT !.pc = "done"]
    /\ UNCHANGED <<env, sub, spc, s, r, refreshDone, hist>>

\* `msg, ok := <-sub.Messages()` and handlePublication's first check.
Receive ==
    /\ w.pc \in {"drain", "live"} /\ w.hand = 0 /\ sub.queue # <<>>
    /\ sub' = [sub EXCEPT !.queue = Tail(@)]
    /\ w' = [w EXCEPT !.hand = IF s.disposed THEN 0 ELSE Head(sub.queue)]
    /\ UNCHANGED <<env, spc, s, r, refreshDone, hist>>

\* Mutant: one publication too many is buffered.
PendingFullLate == Len(s.pending) > MaxBuffered

PendingFull == Len(s.pending) + 1 > MaxBuffered

\* handlePublication's second critical section, after readPublication.  A full
\* buffer disposes the stream, as failClosed does.
HandlePublication ==
    /\ w.hand # 0 /\ ~w.live
    /\ \/ /\ s.disposed \/ w.hand \in Silent
          /\ w' = [w EXCEPT !.hand = 0] /\ UNCHANGED s
       \/ /\ ~s.disposed /\ w.hand \notin Silent /\ ~s.ready
          /\ s' = IF PendingFull THEN FailClosed
                  ELSE [s EXCEPT !.pending = Append(@, w.hand)]
          /\ w' = [w EXCEPT !.hand = 0]
       \/ /\ ~s.disposed /\ w.hand \notin Silent /\ s.ready
          /\ w' = [w EXCEPT !.live = TRUE] /\ UNCHANGED s
    /\ UNCHANGED <<env, sub, spc, r, refreshDone, hist>>

\* readPublication panics.
ReadPanics ==
    /\ "panic" \in Outcomes /\ w.hand # 0 /\ ~w.live
    /\ w' = [w EXCEPT !.hand = 0] /\ s' = FailClosed
    /\ UNCHANGED <<env, sub, spc, r, refreshDone, hist>>

ApplyLive(outcome) ==
    /\ w.hand # 0 /\ w.live
    /\ w' = [w EXCEPT !.hand = 0, !.live = FALSE]
    /\ delivered' = Append(delivered, w.hand)
    /\ view' = view \cup {w.hand}
    /\ Callback(outcome)
    /\ UNCHANGED <<sub, spc, r, refreshDone>>

\* The drain loop of a reconnect: the context ends; or the subscription ends,
\* and only the refresh's result is awaited; or that result arrives.
DrainCancelled ==
    /\ w.pc = "drain" /\ w.hand = 0 /\ s.cancelled
    /\ sub' = NoSub /\ w' = [w EXCEPT !.pc = "done"]
    /\ UNCHANGED <<env, spc, s, r, refreshDone, hist>>

DrainSubDone ==
    /\ w.pc = "drain" /\ w.hand = 0 /\ sub.st = "ended"
    /\ w' = [w EXCEPT !.pc = "await"]
    /\ UNCHANGED <<env, sub, spc, s, r, refreshDone, hist>>

ReconnectRefreshed ==
    /\ w.pc \in {"drain", "await"} /\ w.hand = 0 /\ refreshDone' = "none"
    /\ \/ /\ refreshDone = "ok" /\ UNCHANGED <<sub, s>>
          /\ w' = [w EXCEPT !.pc = "live"]
       \/ /\ refreshDone = "err" /\ s' = SetErr /\ sub' = NoSub
          /\ w' = [w EXCEPT !.pc = "done"]
    /\ UNCHANGED <<env, spc, r, hist>>

\* The reconnect's goroutine sends its result.
SendRefreshDone ==
    /\ \/ Returned("reconnect", "nil") /\ refreshDone' = "ok"
       \/ Returned("reconnect", "err") /\ refreshDone' = "err"
    /\ UNCHANGED <<env, sub, w, spc, s, hist>>

\* Mutant: the live loop does not select on ctx.Done().
LoopOverUncancelled == sub.st = "ended"

LoopOver == s.cancelled \/ sub.st = "ended"

\* The live loop ends; what sub.Err() says decides.
LiveEnds ==
    /\ w.pc = "live" /\ w.hand = 0 /\ LoopOver
    /\ sub' = NoSub
    /\ s' = CASE sub.err = "terminal"  -> FailClosed
              [] sub.err = "transient" -> SetErr
              [] sub.err = "none"      -> s
    /\ w' = [w EXCEPT !.pc = IF sub.err = "terminal" \/ Stopped THEN "done" ELSE "backoff"]
    /\ UNCHANGED <<env, spc, r, refreshDone, hist>>

Worker ==
    \/ RunTop \/ Subscribed \/ SubscribeFails \/ BackoffEnds
    \/ Receive \/ HandlePublication \/ ReadPanics
    \/ \E o \in Outcomes : ApplyLive(o)
    \/ DrainCancelled \/ DrainSubDone \/ ReconnectRefreshed
    \/ LiveEnds

-----------------------------------------------------------------------------
(* The environment.                                                        *)

ServerAccepts ==
    /\ w.pc = "subscribing" /\ sub.st = "none" /\ ~env.clientClosed /\ ~s.cancelled
    /\ env.conns < MaxConns /\ env' = [env EXCEPT !.conns = @ + 1]
    /\ sub' = [sub EXCEPT !.st = "open"]
    /\ UNCHANGED <<w, spc, s, r, refreshDone, hist>>

\* enqueue: a full queue fails the subscription with QueueOverflowError.
Enqueue(k) ==
    IF Len(sub.queue) < MaxQueue THEN [sub EXCEPT !.queue = Append(@, k)]
    ELSE [sub EXCEPT !.st = "ended", !.err = "terminal"]

Publish ==
    /\ env.published < MaxPubs
    /\ env' = [env EXCEPT !.published = @ + 1]
    /\ sub' = IF sub.st = "open" THEN Enqueue(env.published + 1) ELSE sub
    /\ UNCHANGED <<w, spc, s, r, refreshDone, hist>>

\* The transport fails, the server ends the subscription or sends what cannot
\* be decoded, or the context ends it without an error.
SubEnds ==
    /\ sub.st = "open"
    /\ \E e \in {"transient", "terminal", "none"} :
         /\ e = "none" => s.cancelled
         /\ sub' = [sub EXCEPT !.st = "ended", !.err = e]
    /\ UNCHANGED <<env, w, spc, s, r, refreshDone, hist>>

\* realtime.Client.Close closes the tracked subscription; it has no error.
ClientClose ==
    /\ "clientClose" \in Events /\ ~env.clientClosed
    /\ env' = [env EXCEPT !.clientClosed = TRUE]
    /\ sub' = IF sub.st = "open" THEN [sub EXCEPT !.st = "ended"] ELSE sub
    /\ UNCHANGED <<w, spc, s, r, refreshDone, hist>>

CancelContext ==
    /\ "cancel" \in Events /\ ~env.ctxDone
    /\ env' = [env EXCEPT !.ctxDone = TRUE]
    /\ s' = [s EXCEPT !.cancelled = @ \/ spc # "idle"]
    /\ UNCHANGED <<sub, w, spc, r, refreshDone, hist>>

\* By the user once Start has returned, or by a service's consumer queue that
\* is full (Fail), which may be as early as Start's own refresh.
UserStop ==
    /\ \/ "stop" \in Events /\ spc \in {"refreshing", "ok"}
       \/ "earlyStop" \in Events /\ spc = "connecting"
    /\ ~s.disposed /\ s' = Stop
    /\ UNCHANGED <<env, sub, w, spc, r, refreshDone, hist>>

\* The services hand the stream to their caller once Start has succeeded.
UserRefresh(p) ==
    /\ spc = "ok" /\ Ask /\ Call(p)
    /\ UNCHANGED <<sub, w, spc, s, refreshDone, hist>>

UserReturns(p) ==
    /\ Returned(p, "nil") \/ Returned(p, "err")
    /\ UNCHANGED <<env, sub, w, spc, s, refreshDone, hist>>

\* A timer started by an apply callback asks for another snapshot.
UserRequest ==
    /\ "request" \in Events /\ spc \in {"refreshing", "ok"}
    /\ ~s.disposed /\ Ask /\ s' = Requested
    /\ UNCHANGED <<sub, w, spc, r, refreshDone, hist>>

\* Everything has ended; nothing but the environment could still move.
Rest ==
    /\ w.pc = "done" /\ spc \in {"ok", "failed"} /\ s.gap \in {"off", "dead"}
    /\ \A p \in Refreshers : At(p, "off")
    /\ UNCHANGED vars

Next ==
    \/ Start \/ StartConnected \/ StartRefreshed \/ StartFails
    \/ Worker \/ SendRefreshDone
    \/ GapTop \/ GapRefreshed
    \/ \E p \in Refreshers : Refresh(p)
    \/ ServerAccepts \/ Publish \/ SubEnds \/ ClientClose \/ CancelContext
    \/ UserStop \/ UserRequest
    \/ \E p \in Users : UserRefresh(p) \/ UserReturns(p)
    \/ Rest

Spec == Init /\ [][Next]_vars

\* One conjunct per goroutine: goroutines are scheduled, callbacks and timers
\* return, and a handshake or a fetch ends, at the latest by its timeout.
\* Nothing is assumed of the server, the transport or the user.
Fairness ==
    /\ WF_vars(StartConnected \/ StartRefreshed \/ StartFails \/ Refresh("start"))
    /\ WF_vars(Worker)
    /\ WF_vars(SendRefreshDone \/ Refresh("reconnect"))
    /\ WF_vars(GapTop \/ GapRefreshed \/ Refresh("gap"))
    /\ \A p \in Users : WF_vars(Refresh(p) \/ UserReturns(p))

FairSpec == Spec /\ Fairness

-----------------------------------------------------------------------------
(* Properties.                                                             *)

EnvOK ==
    env \in [published : 0..MaxPubs, conns : 0..MaxConns, asks : 0..MaxAsks,
             clientClosed : BOOLEAN, ctxDone : BOOLEAN]

SubOK ==
    /\ sub \in [st : {"none", "open", "ended"},
                err : {"none", "transient", "terminal"}, queue : Seq(Pubs)]
    /\ Len(sub.queue) <= MaxQueue

WorkerOK ==
    w \in [pc : {"off", "top", "subscribing", "backoff", "drain", "await", "live", "done"},
           hand : 0..MaxPubs, live : BOOLEAN, connected : {"none", "ok", "err"}]

StartOK == spc \in {"idle", "connecting", "refreshing", "closing", "ok", "failed"}

Coordinator ==
    [ready : BOOLEAN, disposed : BOOLEAN, generation : Nat, pending : Seq(Pubs),
     lastErr : BOOLEAN, cancelled : BOOLEAN, refreshNext : BOOLEAN,
     gap : {"off", "top", "refreshing", "dead"}]

CoordOK == s \in Coordinator /\ Len(s.pending) <= MaxBuffered

Refresher ==
    [pc : Section \cup {"off", "lock", "nil", "err"}, gen : Nat,
     snap : 0..MaxPubs, buf : Seq(Pubs), tries : 0..2]

RefreshersOK == r \in [Refreshers -> Refresher]

HistOK ==
    /\ refreshDone \in {"none", "ok", "err"}
    /\ delivered \in Seq(Pubs) /\ view \subseteq Pubs

\* Every variable has its type, and the two buffers keep their capacity:
\* handlePublication fails the stream closed instead of buffering past it.
TypeOK ==
    EnvOK /\ SubOK /\ WorkerOK /\ StartOK /\ CoordOK /\ RefreshersOK /\ HistOK

\* README "Snapshot retries retain buffered publications until a successful
\* refresh merges them exactly once": over the whole life of the stream, over
\* failed refreshes, retries and reconnects, and with the live path and the
\* refreshers both calling the callbacks without s.mu, no publication reaches
\* the callbacks twice or after a later one.
MergedOnceInOrder ==
    \A i, j \in DOMAIN delivered : i < j => delivered[i] < delivered[j]

\* run drains a reconnect's publications into pending, and RefreshSnapshot
\* marks ready in the critical section that finds pending empty, "so no
\* publication can be stranded pre-ready": while the worker is in its live
\* loop on an open subscription and the stream is ready and not disposed, every
\* publication the server has sent is in the consumer's state, in the queue, or
\* in the worker's hand.
NothingLostWhenLive ==
    w.pc = "live" /\ sub.st = "open" /\ s.ready /\ ~s.disposed =>
        1..env.published \subseteq view \cup Range(sub.queue) \cup {w.hand} \cup Silent

\* A disposed coordinator holds no buffered publication and never becomes
\* ready by a refresh that was in flight when it was disposed: a stream failed
\* closed is not ready for good.  (Stop alone leaves ready as it was.)
DisposedIsFinal ==
    [][s.disposed => s'.disposed /\ s'.pending = <<>> /\ (s'.ready => s.ready)]_vars

\* The gap goroutine has taken the requests made so far, and its refresh for them
\* has not begun: it waits for refreshMu, or for its second try.
RequestTaken == ~s.refreshNext /\ At("gap", "lock")

\* RequestSnapshotRefresh coalesces into a single-flight worker without losing a
\* request: whatever refresh is running when it is made, a call of RefreshSnapshot
\* that has not begun takes it, and that call, or its retry, gets as far as ready;
\* or the stream fails closed.
RequestIsServed ==
    /\ s.refreshNext ~> RequestTaken \/ s.disposed
    /\ RequestTaken ~> (s.ready /\ At("gap", "nil")) \/ s.disposed

\* A stopped or cancelled stream's worker ends: Close returns.
ShutdownCompletes == Stopped /\ spc # "idle" ~> w.pc = "done"

\* Start returns: run tells it of the first handshake's outcome on every path,
\* and its own refresh ends.
StartReturns == spc # "idle" ~> spc \in {"ok", "failed"}
=============================================================================
