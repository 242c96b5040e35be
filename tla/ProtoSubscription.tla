-------------------------- MODULE ProtoSubscription --------------------------
(***************************************************************************)
(* One raw realtime subscription: subscribeProto with its worker           *)
(* (realtime/client.go 166-292), one connection after another              *)
(* (runSubscriptionOnce, 294-499), and Subscription, its bounded queue,    *)
(* its end and its callback (realtime/subscription.go).                    *)
(*                                                                         *)
(* Goroutines: the worker; the caller of SubscribeProto; the callers of    *)
(* Close (the user, and realtime.Client.Close through the registry); the   *)
(* consumer; the user's SetOnError.  The server publishes, confirms, ends  *)
(* the subscription and loses connections as it likes.  A step is one      *)
(* critical section of the subscription's mutex, one read of the           *)
(* connection, one channel operation or one callback.                      *)
(*                                                                         *)
(* Publication p decodes to the items Contents[p]; items are numbered in   *)
(* the channel's order.  A websocket frame carries one message.            *)
(***************************************************************************)
EXTENDS Integers, Sequences, Functions

CONSTANTS
    Contents,     \* the items of each publication, in order
    QueueCap,     \* capacity of Messages() (maxQueue, default 1000)
    SetupCap,     \* messages held back during setup (200)
    Closers,      \* who may call Close: "user", "client" (Client.Close)
    MaxConns,     \* bound: connections the server accepts
    MaxUnsubs,    \* bound: unsubscribes and junk the server sends
    Options       \* values of AutoReconnect

ASSUME Assumptions ==
    /\ Contents \in Seq(Seq(Nat)) /\ \A p \in DOMAIN Contents : Contents[p] # <<>>
    /\ QueueCap \in Nat /\ SetupCap \in Nat
    /\ MaxConns \in Nat /\ MaxUnsubs \in Nat
    /\ Options \subseteq BOOLEAN /\ Closers \subseteq {"user", "client"}

\* The items are numbered in the channel's order, from 1 and without a hole.
LastItem(n) == IF n = 0 THEN 0 ELSE Contents[n][Len(Contents[n])]

ASSUME Numbered ==
    \A p \in DOMAIN Contents :
        /\ \A i \in DOMAIN Contents[p] : Contents[p][i] = LastItem(p - 1) + i
        /\ \A n \in 0..p : LastItem(n) <= LastItem(p)

VARIABLES
    srv,      \* the server: publications sent, connections accepted,
              \* unsubscribes and junk sent, and what it has done with the
              \* subscribe of the current connection
    wire,     \* messages under way on the current connection
    lost,     \* the connection ends behind them
    w,        \* the worker: its place and locals
    caller,   \* SubscribeProto: its place, what sendReady sent, its context
    sub,      \* the Subscription's fields and its run context
    queue,    \* Messages()
    closers,  \* each caller of Close: its place
    cb,       \* SetOnError: its place, the callback, and how often it was told
              \* the terminal error
    seen,     \* the consumer: items received, and the highest item that a
              \* refresh after TakeResubscribed covers
    fed,      \* history: items enqueued, in order
    mark      \* history: the announcements made before the last of them

vars == <<srv, wire, lost, w, caller, sub, queue, closers, cb, seen, fed, mark>>
hist == <<fed, mark>>

Pubs    == 1..Len(Contents)
Final   == [kind |-> "unsub", temporary |-> FALSE]
Temp    == [kind |-> "unsub", temporary |-> TRUE]
Reply   == [kind |-> "reply"]
Junk    == [kind |-> "junk"]       \* a text, undecodable or oversized frame
Pub(p)  == [kind |-> "pub", pub |-> p]
Messages == {Final, Temp, Reply, Junk} \cup {Pub(p) : p \in Pubs}

Init ==
    /\ srv = [sent |-> 0, conns |-> 0, unsubs |-> 0, on |-> "off"]
    /\ wire = <<>> /\ lost = FALSE
    /\ \E auto \in Options :
         w = [pc |-> "top", pending |-> <<>>, items |-> <<>>, why |-> "none",
              fail |-> "none", tells |-> FALSE, handshakes |-> 0, resume |-> "none",
              reconnect |-> auto]
    /\ caller = [pc |-> "waiting", ready |-> "none", ctxDone |-> FALSE]
    /\ sub = [closed |-> FALSE, cancelled |-> FALSE, err |-> "none",
              done |-> FALSE, chClosed |-> FALSE, resubs |-> 0, latch |-> FALSE,
              once |-> "free"]
    /\ queue = <<>>
    /\ closers = [p \in Closers |-> "idle"]
    /\ cb = [pc |-> "unset", told |-> 0]
    /\ seen = [got |-> <<>>, covered |-> 0]
    /\ fed = <<>> /\ mark = 0

-----------------------------------------------------------------------------
(* The worker: the loop of subscribeProto.                                 *)

At(pc) == w.pc = pc

\* A connection is dropped: the worker leaves runSubscriptionOnce with `why`.
Leave(why) ==
    /\ w' = [w EXCEPT !.pc = "left", !.why = why, !.pending = <<>>, !.items = <<>>]
    /\ wire' = <<>> /\ lost' = FALSE
    /\ srv' = [srv EXCEPT !.on = "off"]

\* The head of the loop, and the dial.
Dial ==
    /\ At("top")
    /\ \/ sub.cancelled /\ w' = [w EXCEPT !.pc = "finish"] /\ UNCHANGED srv
       \/ /\ ~sub.cancelled /\ srv.conns < MaxConns
          /\ w' = [w EXCEPT !.pc = "setup"]
          /\ srv' = [srv EXCEPT !.conns = @ + 1]
    /\ UNCHANGED <<wire, lost, caller, sub, queue, closers, cb, seen, hist>>

\* The dial, a token, the connect or the subscribe fails: refused (AuthError)
\* or otherwise.  A cancelled context closes the connection under the setup.
SetupFails ==
    /\ At("setup") \/ (At("top") /\ ~sub.cancelled)
    /\ \E why \in {"auth", "net"} : Leave(why)
    /\ UNCHANGED <<caller, sub, queue, closers, cb, seen, hist>>

\* Mutant: the setup buffer is not bounded.
HoldBackAll(message) ==
    /\ w' = [w EXCEPT !.pending = Append(@, message)]
    /\ wire' = Tail(wire)
    /\ UNCHANGED <<lost, srv>>

\* readCentrifugoReply holds back what comes before the reply.
HoldBack(message) ==
    \/ Len(w.pending) >= SetupCap /\ Leave("net")
    \/ /\ Len(w.pending) < SetupCap
       /\ w' = [w EXCEPT !.pending = Append(@, message)]
       /\ wire' = Tail(wire)
       /\ UNCHANGED <<lost, srv>>

\* The reply, with whatever else came in its frame behind it.
ReadConfirmed ==
    /\ Head(wire) = Reply
    /\ \E n \in 1..Len(wire) :
         LET held == w.pending \o SubSeq(wire, 2, n) IN
         /\ \A i \in 2..n : wire[i] # Junk
         /\ \/ Len(held) > SetupCap /\ n > 1 /\ Leave("net")
            \/ /\ Len(held) <= SetupCap
               /\ w' = [w EXCEPT !.pc = "ready", !.pending = held]
               /\ wire' = SubSeq(wire, n + 1, Len(wire))
               /\ UNCHANGED <<lost, srv>>

ReadReply ==
    /\ At("setup") /\ wire # <<>>
    /\ \/ ReadConfirmed
       \/ Head(wire) = Junk /\ Leave("net")
       \/ Head(wire) \notin {Reply, Junk} /\ HoldBack(Head(wire))
    /\ UNCHANGED <<caller, sub, queue, closers, cb, seen, hist>>

\* Mutant: the first reconnect is taken for the first connection.
FirstLate(n) == n <= 2

First(n) == n = 1

\* onReady.
Ready ==
    /\ At("ready")
    /\ LET n == w.handshakes + 1 IN
         /\ w' = [w EXCEPT !.pc = "check", !.handshakes = n,
                           !.resume = IF @ = "none" THEN @ ELSE "ready"]
         /\ sub' = [sub EXCEPT !.resubs = IF First(n) THEN @ ELSE @ + 1,
                               !.latch = @ \/ ~First(n)]
    /\ caller' = [caller EXCEPT !.ready = IF @ = "none" THEN "ok" ELSE @]
    /\ UNCHANGED <<srv, wire, lost, queue, closers, cb, seen, hist>>

\* The context is looked at before each round of messages.
Check ==
    /\ At("check")
    /\ \/ sub.cancelled /\ Leave("closed")
       \/ ~sub.cancelled /\ w' = [w EXCEPT !.pc = "read"] /\ UNCHANGED <<srv, wire, lost>>
    /\ UNCHANGED <<caller, sub, queue, closers, cb, seen, hist>>

Ends(message) ==
    CASE message.kind = "unsub" -> IF message.temporary THEN "temporary" ELSE "final"
      [] OTHER -> "terminal"

Decodes(message) == message.kind = "pub"

\* A round: what was held back during setup, then a frame at a time.
Take ==
    /\ At("read") /\ w.pending \o wire # <<>>
    /\ LET message == Head(w.pending \o wire) IN
         \/ ~Decodes(message) /\ Leave(Ends(message))
         \/ /\ Decodes(message)
            /\ w' = [w EXCEPT !.pc = "deliver", !.items = Contents[message.pub],
                              !.pending = IF @ = <<>> THEN @ ELSE Tail(@)]
            /\ wire' = IF w.pending = <<>> THEN Tail(wire) ELSE wire
            /\ UNCHANGED <<srv, lost>>
    /\ UNCHANGED <<caller, sub, queue, closers, cb, seen, hist>>

\* A read that fails: the connection is lost, or the context closed it.
ReadFails ==
    /\ At("read") /\ w.pending = <<>>
    /\ \/ sub.cancelled /\ Leave("closed")
       \/ lost /\ wire = <<>> /\ Leave("net")
    /\ UNCHANGED <<caller, sub, queue, closers, cb, seen, hist>>

\* What the program has announced so far: its subscribes.
Announced == IF w.handshakes = 0 THEN 0 ELSE 1 + sub.resubs

\* The item at hand is done with: the next one of its message, the next held
\* back message, or the next round.
ItemDone ==
    [w EXCEPT !.items = Tail(@),
              !.pc = IF Len(w.items) > 1 THEN @ ELSE IF w.pending = <<>> THEN "check" ELSE "read"]

\* Mutant: an overflow drops the item and goes on.
OverflowDrops == w' = ItemDone /\ UNCHANGED sub

\* enqueue of a full queue: failLocked, and the callback as it is now.
Overflow ==
    /\ w' = [w EXCEPT !.pc = "tell", !.fail = "overflow", !.tells = cb.pc # "unset"]
    /\ sub' = [sub EXCEPT !.err = "overflow", !.closed = TRUE]

Enqueue ==
    /\ At("deliver")
    /\ \/ /\ sub.closed /\ Leave("closed")
          /\ UNCHANGED <<sub, queue, hist>>
       \/ /\ ~sub.closed /\ Len(queue) < QueueCap
          /\ queue' = Append(queue, Head(w.items)) /\ fed' = Append(fed, Head(w.items))
          /\ mark' = Announced
          /\ w' = ItemDone
          /\ UNCHANGED <<sub, srv, wire, lost>>
       \/ /\ ~sub.closed /\ Len(queue) = QueueCap
          /\ Overflow
          /\ UNCHANGED <<queue, hist, srv, wire, lost>>
    /\ UNCHANGED <<caller, closers, cb, seen>>

-----------------------------------------------------------------------------
(* What follows a connection.                                              *)

Fail(reason, resume) ==
    w' = [w EXCEPT !.pc = "fail", !.fail = reason, !.resume = resume, !.why = "none"]

Go(pc, resume) == w' = [w EXCEPT !.pc = pc, !.resume = resume, !.why = "none"]

\* `err == nil || runCtx.Err() != nil`, or sub.Err() is set.
Stopped == w.why = "closed" \/ sub.cancelled \/ sub.err # "none"

Resume == IF w.why = "final" THEN "waiting" ELSE w.resume

Left ==
    /\ At("left")
    /\ \/ Stopped /\ Go("finish", "none") /\ UNCHANGED caller
       \/ ~Stopped /\ w.why = "terminal" /\ Fail("terminal", w.resume) /\ UNCHANGED caller
       \/ /\ ~Stopped /\ w.why = "final" /\ ~w.reconnect
          /\ Fail("ended", w.resume) /\ UNCHANGED caller
       \/ /\ ~Stopped /\ w.why # "terminal" /\ ~(w.why = "final" /\ ~w.reconnect)
          /\ \/ /\ Resume = "waiting" /\ w.why = "auth"
                /\ Fail("ended", Resume) /\ UNCHANGED caller
             \/ /\ Resume = "waiting" /\ w.why # "auth"
                /\ Go("await", Resume) /\ UNCHANGED caller
             \/ /\ Resume # "waiting" /\ caller.ready = "none"
                /\ caller' = [caller EXCEPT !.ready = "err"]
                /\ Go("finish", "none")
             \/ /\ Resume # "waiting" /\ caller.ready # "none" /\ ~w.reconnect
                /\ Fail("lost", Resume) /\ UNCHANGED caller
             \/ /\ Resume # "waiting" /\ caller.ready # "none" /\ w.reconnect
                /\ Go("backoff", Resume) /\ UNCHANGED caller
    /\ UNCHANGED <<srv, wire, lost, sub, queue, closers, cb, seen, hist>>

\* awaitResume: subscribe again (or its context ended), or end; SubaccountAccess
\* models what it does in between.
AwaitResume ==
    /\ At("await")
    /\ w' = [w EXCEPT !.pc = "top"] \/ Fail("ended", w.resume)
    /\ UNCHANGED <<srv, wire, lost, caller, sub, queue, closers, cb, seen, hist>>

Backoff ==
    /\ At("backoff")
    /\ \/ w' = [w EXCEPT !.pc = "top"]
       \/ sub.cancelled /\ w' = [w EXCEPT !.pc = "finish"]
    /\ UNCHANGED <<srv, wire, lost, caller, sub, queue, closers, cb, seen, hist>>

\* fail: failLocked and the callback, read under the lock.
FailLock ==
    /\ At("fail")
    /\ sub' = [sub EXCEPT !.err = IF @ = "none" THEN w.fail ELSE @, !.closed = TRUE]
    /\ w' = [w EXCEPT !.pc = "tell", !.tells = cb.pc # "unset"]
    /\ UNCHANGED <<srv, wire, lost, caller, queue, closers, cb, seen, hist>>

\* Mutant: the loop goes on after a failure (the return after fail is missing).
TellGoesOn ==
    /\ At("tell")
    /\ cb' = IF w.tells THEN [cb EXCEPT !.told = @ + 1] ELSE cb
    /\ w' = [w EXCEPT !.pc = "top"]
    /\ UNCHANGED <<srv, wire, lost, sub, caller, queue, closers, seen, hist>>

\* The callback, then for an overflow the cancel.
Tell ==
    /\ At("tell")
    /\ cb' = IF w.tells THEN [cb EXCEPT !.told = @ + 1] ELSE cb
    /\ IF w.fail = "overflow"
       THEN Leave("closed") /\ sub' = [sub EXCEPT !.cancelled = TRUE]
       ELSE w' = [w EXCEPT !.pc = "finish"] /\ UNCHANGED <<srv, wire, lost, sub>>
    /\ UNCHANGED <<caller, queue, closers, seen, hist>>

\* The deferred calls: sendReady and markFinished, then close(sub.ch).
Finish ==
    /\ \/ /\ At("finish")
          /\ caller' = [caller EXCEPT !.ready = IF @ = "none" THEN "err" ELSE @]
          /\ sub' = [sub EXCEPT !.closed = TRUE, !.done = TRUE]
          /\ w' = [w EXCEPT !.pc = "close", !.fail = "none", !.tells = FALSE,
                            !.resume = "none", !.reconnect = FALSE]
       \/ /\ At("close")
          /\ sub' = [sub EXCEPT !.chClosed = TRUE]
          /\ w' = [w EXCEPT !.pc = "ended"] /\ UNCHANGED caller
    /\ UNCHANGED <<srv, wire, lost, queue, closers, cb, seen, hist>>

Worker ==
    \/ Dial \/ SetupFails \/ ReadReply \/ Ready \/ Check \/ Take \/ ReadFails
    \/ Enqueue \/ Left \/ AwaitResume \/ Backoff \/ FailLock
    \/ Tell \/ Finish

-----------------------------------------------------------------------------
(* The other goroutines of the program.                                    *)

\* SubscribeProto waits for readyCh or its context; what fails is awaited.
Return ==
    /\ \/ /\ caller.pc = "waiting" /\ caller.ready = "ok"
          /\ caller' = [caller EXCEPT !.pc = "subscribed"] /\ UNCHANGED sub
       \/ /\ caller.pc = "waiting" /\ (caller.ready = "err" \/ caller.ctxDone)
          /\ caller' = [caller EXCEPT !.pc = "draining"]
          /\ sub' = [sub EXCEPT !.cancelled = TRUE]
       \/ /\ caller.pc = "draining" /\ sub.done
          /\ caller' = [caller EXCEPT !.pc = "refused"] /\ UNCHANGED sub
    /\ UNCHANGED <<srv, wire, lost, w, queue, closers, cb, seen, hist>>

\* Mutant: Close cancels nothing.
CloseCancelsNothing(p) ==
    /\ closers[p] = "cancel"
    /\ sub' = [sub EXCEPT !.once = "done"]
    /\ closers' = [closers EXCEPT ![p] = "wait"]
    /\ UNCHANGED <<srv, wire, lost, w, caller, queue, cb, seen, hist>>

\* Close by p: the flag under the lock, the cancel, the wait for done.
CloseBegins(p) ==
    /\ closers[p] = "idle" /\ (p = "user" => caller.pc = "subscribed")
    /\ \/ /\ sub.once = "free"
          /\ sub' = [sub EXCEPT !.once = "busy", !.closed = TRUE]
          /\ closers' = [closers EXCEPT ![p] = "cancel"]
       \/ /\ sub.once = "done"
          /\ closers' = [closers EXCEPT ![p] = "wait"] /\ UNCHANGED sub
    /\ UNCHANGED <<srv, wire, lost, w, caller, queue, cb, seen, hist>>

CloseCancels(p) ==
    /\ closers[p] = "cancel"
    /\ sub' = [sub EXCEPT !.once = "done", !.cancelled = TRUE]
    /\ closers' = [closers EXCEPT ![p] = "wait"]
    /\ UNCHANGED <<srv, wire, lost, w, caller, queue, cb, seen, hist>>

CloseReturns(p) ==
    /\ closers[p] = "wait" /\ sub.done
    /\ closers' = [closers EXCEPT ![p] = "returned"]
    /\ UNCHANGED <<srv, wire, lost, w, caller, sub, queue, cb, seen, hist>>

\* Mutant: an error that is already there is not reported.
SetOnErrorSilent ==
    /\ cb.pc = "unset" /\ caller.pc = "subscribed"
    /\ cb' = [cb EXCEPT !.pc = "set"]
    /\ UNCHANGED <<srv, wire, lost, w, caller, sub, queue, closers, seen, hist>>

\* SetOnError: the callback is installed under the lock; an error that is
\* already there is reported after it.
SetOnError ==
    /\ \/ /\ cb.pc = "unset" /\ caller.pc = "subscribed"
          /\ cb' = [cb EXCEPT !.pc = IF sub.err = "none" THEN "set" ELSE "calling"]
       \/ cb.pc = "calling" /\ cb' = [pc |-> "set", told |-> cb.told + 1]
    /\ UNCHANGED <<srv, wire, lost, w, caller, sub, queue, closers, seen, hist>>

-----------------------------------------------------------------------------
(* The environment.  The server stops publishing once the subscription has *)
(* stopped: nothing could reach it.                                        *)

Receive ==
    /\ caller.pc = "subscribed" /\ queue # <<>>
    /\ seen' = [seen EXCEPT !.got = Append(@, Head(queue))]
    /\ queue' = Tail(queue)
    /\ UNCHANGED <<srv, wire, lost, w, caller, sub, closers, cb, hist>>

\* TakeResubscribed answers true, and the consumer refreshes its REST state.
TakeResubscribed ==
    /\ caller.pc = "subscribed" /\ sub.latch
    /\ sub' = [sub EXCEPT !.latch = FALSE]
    /\ seen' = [seen EXCEPT !.covered = LastItem(srv.sent)]
    /\ UNCHANGED <<srv, wire, lost, w, caller, queue, closers, cb, hist>>

CancelCtx ==
    /\ ~caller.ctxDone
    /\ caller' = [caller EXCEPT !.ctxDone = TRUE]
    /\ sub' = [sub EXCEPT !.cancelled = TRUE]
    /\ UNCHANGED <<srv, wire, lost, w, queue, closers, cb, seen, hist>>

\* The server's side of the current connection.
Connected == w.pc \in {"setup", "ready", "check", "read", "deliver"} /\ ~lost

Publish ==
    /\ srv.sent < Len(Contents) /\ ~sub.done
    /\ srv' = [srv EXCEPT !.sent = @ + 1]
    /\ wire' = IF srv.on = "off" \/ lost THEN wire ELSE Append(wire, Pub(srv.sent + 1))
    /\ UNCHANGED lost

\* The server takes the subscribe, and may publish before it replies.
Subscribe == At("setup") /\ ~lost /\ srv.on = "off" /\ srv' = [srv EXCEPT !.on = "on"]
             /\ UNCHANGED <<wire, lost>>

Confirm == Connected /\ srv.on = "on" /\ srv' = [srv EXCEPT !.on = "confirmed"]
           /\ wire' = Append(wire, Reply) /\ UNCHANGED lost

\* An unsubscribe, or a frame the client cannot read.
Disturb ==
    /\ Connected /\ srv.unsubs < MaxUnsubs
    /\ \E message \in {Final, Temp, Junk} :
         /\ srv.on = "confirmed" \/ (srv.on = "on" /\ message = Junk)
         /\ wire' = Append(wire, message)
    /\ srv' = [srv EXCEPT !.on = "ended", !.unsubs = @ + 1]
    /\ UNCHANGED lost

\* The connection ends; what was under way arrives up to some point.
Lose ==
    /\ Connected
    /\ \E n \in 0..Len(wire) : wire' = SubSeq(wire, 1, n)
    /\ lost' = TRUE /\ srv' = [srv EXCEPT !.on = "ended"]

Server ==
    /\ Publish \/ Subscribe \/ Confirm \/ Disturb \/ Lose
    /\ UNCHANGED <<w, caller, sub, queue, closers, cb, seen, hist>>

Environment == Receive \/ TakeResubscribed \/ CancelCtx \/ Server

Next ==
    \/ Worker \/ Return \/ SetOnError \/ Environment
    \/ \E p \in Closers : CloseBegins(p) \/ CloseCancels(p) \/ CloseReturns(p)

Spec == Init /\ [][Next]_vars

\* Goroutines are scheduled; dials, tokens and replies are bounded by timeouts;
\* backoffs end.  Nothing is assumed of the server, the consumer or the user.
Fairness ==
    /\ WF_vars(Worker) /\ WF_vars(Return) /\ WF_vars(cb.pc = "calling" /\ SetOnError)
    /\ \A p \in Closers : WF_vars(CloseCancels(p)) /\ WF_vars(CloseReturns(p))

FairSpec == Spec /\ Fairness

-----------------------------------------------------------------------------
(* Properties.                                                             *)

Items == UNION {{Contents[p][i] : i \in DOMAIN Contents[p]} : p \in Pubs}

\* The types, and the capacities of Messages() and of the setup buffer.
TypeOK ==
    /\ srv.sent \in 0..Len(Contents) /\ srv.conns \in 0..MaxConns
    /\ srv.unsubs \in 0..MaxUnsubs
    /\ srv.on \in {"off", "on", "confirmed", "ended"}
    /\ wire \in Seq(Messages) /\ lost \in BOOLEAN
    /\ w.pending \in Seq(Messages) /\ Len(w.pending) <= SetupCap
    /\ w.resume \in {"none", "waiting", "ready"} /\ w.handshakes \in 0..MaxConns
    /\ caller.pc \in {"waiting", "subscribed", "draining", "refused"}
    /\ caller.ready \in {"none", "ok", "err"}
    /\ sub.err \in {"none", "overflow", "terminal", "ended", "lost"}
    /\ sub.once \in {"free", "busy", "done"}
    /\ queue \in Seq(Items) /\ Len(queue) <= QueueCap
    /\ closers \in [Closers -> {"idle", "cancel", "wait", "returned"}]
    /\ cb.told \in Nat

\* A consumer that refreshes whenever TakeResubscribed answers true misses
\* nothing: while the latch is clear, whatever lies between the first and the
\* last item it received was received or is covered by its last refresh
\* (Resubscribes and TakeResubscribed; "never silently dropped").
NoSilentLoss ==
    ~sub.latch /\ seen.got # <<>> =>
        \A item \in seen.got[1]..seen.got[Len(seen.got)] :
            item \in Range(seen.got) \/ item <= seen.covered

\* Messages() closes without an error only for those who asked for the end:
\* by Close, by Client.Close, by the context, or by a subscribe that failed.
EndHasReason ==
    sub.chClosed /\ sub.err = "none" =>
        \/ \E p \in Closers : closers[p] # "idle"
        \/ caller.ctxDone \/ caller.ready = "err"

\* The callback is told the terminal error once, whether it was installed
\* before, during or after the failure (fail and SetOnError).
ErrorToldOnce ==
    /\ cb.told <= 1
    /\ At("ended") /\ cb.pc = "set" /\ sub.err # "none" => cb.told = 1

\* Whoever reads Messages() to its end knows why it ended: he asked for it, or the
\* error was told, once (Messages, SetOnError, markFinished).
EndIsTold == EndHasReason /\ ErrorToldOnce

\* "Overflow and other terminal subscription faults must not reconnect", and
\* nothing is delivered after them (the loop of subscribeProto, enqueue).
ErrorIsFinal ==
    [][sub.err # "none" => /\ srv'.conns = srv.conns /\ fed' = fed
                           /\ sub'.err = sub.err]_vars

\* Whoever closes or cancels the subscription sees it stop, and Close returns
\* ("waits until the run loop has fully stopped").
StopsWhenAsked ==
    (sub.cancelled \/ \E p \in Closers : closers[p] # "idle")
        ~> (At("ended") /\ \A p \in Closers : closers[p] \in {"idle", "returned"})

\* SubscribeProto returns, whatever the server does.
SubscribeReturns == <>(caller.pc \in {"subscribed", "refused"})

\* Every call of the program returns: SubscribeProto, and a Close with the worker
\* it waits for, whichever of them, the server and the context came first.
CallsReturn == StopsWhenAsked /\ SubscribeReturns

\* The subscription keeps the promise of SignalledFeed.
Feed == INSTANCE SignalledFeed WITH
            gap <- Announced # mark, over <- sub.done

KeepsPromise == Feed!Spec
=============================================================================
