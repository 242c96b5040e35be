-------------------------- MODULE PrivateOrderStream --------------------------
(***************************************************************************)
(* realtime.privateOrderStream (realtime/private_orders.go): all order     *)
(* subscriptions of a client over one private WebSocket.                   *)
(*                                                                         *)
(* Every step of the program here is one critical section of p.mu: a call  *)
(* of the user, a frame, the end of a token fetch, a timer.  A handler is  *)
(* a function from the stream's state to its next state, composed as in    *)
(* the code, so that a queue that overflows in the middle of one tears the *)
(* subscription, and perhaps the whole run, down under it.                 *)
(*                                                                         *)
(* An account's orders are the prefix of its log of changes 1, 2, ...; a   *)
(* cursor, a snapshot and a consumer's view are positions in it.  Changes  *)
(* in Unseen touch no order; the server reports them as Covered.           *)
(*                                                                         *)
(* A run (streamSession) and a server subscription's record                *)
(* (orderStreamSub) are named by the consumer whose subscribe made them.   *)
(* A timer that loses the lock to its own stop finds itself replaced and   *)
(* does nothing, so stopping a timer here removes it.  The unsubscribing   *)
(* set only silences answers that change nothing, and is left out.         *)
(***************************************************************************)
EXTENDS Integers, Sequences, FiniteSets, FiniteSetsExt

CONSTANTS
    Consumers,     \* calls of SubscribeOrders
    Accounts,
    AccountOf,     \* the account of each consumer
    Unseen,        \* changes of the log that touch no order
    MaxLog,        \* bound: changes of an account
    MaxConns,      \* bound: numbers for connections in use at one time
    MaxIds,        \* bound: request ids and server subscriptions in use at one time
    MaxWire,       \* bound: frames of the server under way
    MaxLosses,     \* bound: connections lost
    MaxFaults,     \* bound: other failures and nuisances
    Faults         \* which of them there are

ASSUME StreamAssumptions ==
    /\ IsFiniteSet(Accounts)
    /\ AccountOf \in [Consumers -> Accounts]
    /\ "none" \notin Consumers
    /\ MaxLog \in Nat /\ MaxLosses \in Nat /\ MaxFaults \in Nat
    /\ MaxConns \in Nat \ {0} /\ MaxIds \in Nat \ {0} /\ MaxWire \in Nat \ {0}
    /\ Faults \subseteq {"slow", "error", "refused", "silent", "late", "drop", "repeat", "short",
                    "behind", "expiring", "ended", "token", "garbage", "fatal"}

VARIABLES
    k,       \* the stream: run, conn, connecting, timer (reconnectTimer), at
             \* (subs: the record of each account), subs, cons, pending, the
             \* goroutines that fetch tokens, and the messages sent
    srv,     \* the server's end of the connection: its subscriptions and the
             \* frames under way
    log,     \* changes of each account so far
    losses, faults   \* so far

vars == <<k, srv, log, losses, faults>>

\* The last position up to n at which an order changed.
Position(n) == Max({0} \cup {e \in 1..n : e \notin Unseen})

None   == -1      \* no cursor, no snapshot yet
Broken == -2      \* a view that missed a change or saw one twice
Many   == 2       \* places in the queue of a consumer that keeps up

NoServer == [subs |-> {}, down |-> <<>>]
NewSub   == [consumers |-> {}, sub |-> 0, seq |-> 0, cursor |-> None, staging |-> FALSE,
             orders |-> None, state |-> "pending", stale |-> FALSE, ready |-> FALSE,
             retries |-> FALSE, retryTimer |-> FALSE, confirmed |-> FALSE, ackTimer |-> 0]
Untold   == [state |-> "pending", ready |-> FALSE, stale |-> FALSE, view |-> None]
NewCons  == [st |-> "new", room |-> Many, told |-> Untold, run |-> "none", sub |-> "none"]

Init ==
    /\ k = [run |-> "none", conn |-> 0, connecting |-> FALSE, timer |-> FALSE,
            at |-> [a \in Accounts |-> "none"], subs |-> [i \in Consumers |-> NewSub],
            cons |-> [c \in Consumers |-> NewCons], pending |-> {}, fetches |-> {}, up |-> <<>>]
    /\ srv = NoServer
    /\ log = [a \in Accounts |-> 0]
    /\ losses = 0 /\ faults = 0

-----------------------------------------------------------------------------
(* Names.  Request ids, connections and the server's subscriptions are     *)
(* never reused by the program; here the smallest unused one is taken.     *)

Elems(seq) == {seq[j] : j \in DOMAIN seq}

IdsInUse(x) ==
    {q.id : q \in x.pending \cup x.fetches \cup Elems(x.up) \cup Elems(srv.down)}
      \cup {x.subs[i].ackTimer : i \in Consumers}

SubsInUse == {k.subs[i].sub : i \in Consumers}
               \cup {q.sub : q \in k.fetches \cup Elems(k.up) \cup Elems(srv.down) \cup srv.subs}

ConnsInUse == {f.conn : f \in k.fetches}

Unused(bound, used) == (1..bound) \ used
Fresh(bound, used)  == Min(Unused(bound, used))

\* bySub.
BySub(x, sub) == {i \in Consumers : sub # 0 /\ x.subs[i].sub = sub /\ x.at[AccountOf[i]] = i}

-----------------------------------------------------------------------------
(* The helpers of the handlers, as functions of the stream's state x.      *)

Current(x, i) == x.at[AccountOf[i]] = i
Fetch(kind, x, i, id) == [kind |-> kind, run |-> x.run, conn |-> x.conn, s |-> i, id |-> id,
                          sub |-> 0]
Spawn(x, f)   == IF x.run = "none" THEN x ELSE [x EXCEPT !.fetches = @ \cup {f}]
Send(x, msg)  == [x EXCEPT !.up = Append(@, msg)]
Unsubscribe(x, i) == Send(x, [op |-> "unsubscribe", id |-> 0, sub |-> x.subs[i].sub, s |-> i,
                              cursor |-> None])

\* The view after the unit of change e.
Applied(view, e) == IF view = Position(e - 1) THEN e ELSE Broken

\* What a consumer knows from the events it was sent.
Tell(told, ev) ==
    CASE ev.type = "connected"    -> [told EXCEPT !.state = "connected"]
      [] ev.type = "disconnected" -> [told EXCEPT !.state = "disconnected", !.ready = FALSE]
      [] ev.type = "snapshot"     -> [told EXCEPT !.view = ev.val]
      [] ev.type = "unit"         -> [told EXCEPT !.view = Applied(@, ev.val)]
      [] ev.type = "ready"        -> [told EXCEPT !.ready = TRUE]
      [] ev.type = "stale"        -> [told EXCEPT !.stale = TRUE]
      [] ev.type = "current"      -> [told EXCEPT !.stale = FALSE]
      [] ev.type = "error"        -> told

Event(type) == [type |-> type, val |-> 0]

\* finish: the queue closes.
Finished(con) == [con EXCEPT !.st = IF @ = "open" THEN "ended" ELSE @, !.told = Untold,
                             !.room = Many]

FinishAll(cons, ending) ==
    [c \in Consumers |-> IF c \in ending THEN Finished(cons[c]) ELSE cons[c]]

\* Mutant: the readiness of a server subscription outlives its connection.
DetachedReady(sub) == [sub EXCEPT !.retryTimer = FALSE, !.ackTimer = 0, !.sub = 0, !.seq = 0,
                                  !.staging = FALSE]

Detached(sub) == [sub EXCEPT !.retryTimer = FALSE, !.ackTimer = 0, !.sub = 0, !.seq = 0,
                             !.ready = FALSE, !.staging = FALSE]

Detach(x) ==
    [x EXCEPT !.conn = 0, !.pending = {}, !.up = <<>>,
              !.subs = [i \in Consumers |->
                         IF Current(x, i) THEN Detached(x.subs[i]) ELSE x.subs[i]]]

Shutdown(x) == [Detach(x) EXCEPT !.timer = FALSE, !.connecting = FALSE, !.run = "none"]

Teardown(x, i) ==
    IF ~Current(x, i) THEN x ELSE
    LET asked == IF x.conn # 0 /\ x.subs[i].sub # 0 THEN Unsubscribe(x, i) ELSE x
        gone  == [asked EXCEPT
                    !.at[AccountOf[i]] = "none",
                    !.cons = FinishAll(x.cons, x.subs[i].consumers),
                    !.subs[i] = NewSub,
                    !.pending = {q \in @ : q.s # i}]
    IN IF \A a \in Accounts : gone.at[a] = "none" THEN Shutdown(gone) ELSE gone

Queued(con, ev) == [con EXCEPT !.room = IF @ = Many THEN @ ELSE @ - 1, !.told = Tell(@, ev)]

Full(x, to) == {c \in to : x.cons[c].st = "open" /\ x.cons[c].room = 0}

\* The consumers in to get the event ev; a full queue fails its consumer.
Offered(x, i, to, ev) ==
    LET full == Full(x, to)
        sent == [c \in Consumers |-> IF c \in to \ full /\ x.cons[c].st = "open"
                                     THEN Queued(x.cons[c], ev) ELSE x.cons[c]]
    IN [x EXCEPT !.subs[i].consumers = x.subs[i].consumers \ full,
                 !.cons = FinishAll(sent, full)]

\* offer to each consumer of i in to: the last consumer's departure ends the
\* subscription.
Offer(x, i, to, ev) ==
    LET told == Offered(x, i, to, ev) IN
    IF Full(x, to) # {} /\ told.subs[i].consumers = {} THEN Teardown(told, i) ELSE told

Deliver(x, i, ev) == Offer(x, i, x.subs[i].consumers, ev)
Report(x, i)      == Deliver(x, i, Event("error"))

\* terminate: the consumers get the error and a disconnect, then end.  The
\* error may already overflow the last queue and tear the subscription down.
Terminate(x, i) ==
    IF ~Current(x, i) THEN x ELSE
    LET told == Report(x, i)
        last == IF told.subs[i].state = "disconnected" THEN told
                ELSE Deliver([told EXCEPT !.subs[i].state = "disconnected"], i,
                             Event("disconnected"))
    IN IF ~Current(told, i) THEN told ELSE Teardown(last, i)

ForAll(Op(_, _), x) ==
    FoldSet(LAMBDA a, acc : IF acc.at[a] = "none" THEN acc ELSE Op(acc, acc.at[a]), x, Accounts)

ReportAll(x)    == ForAll(Report, x)
TerminateAll(x) == ForAll(Terminate, x)

SubscribeServer(x, i) ==
    IF ~Current(x, i) THEN x ELSE
    LET id == Fresh(MaxIds, IdsInUse(x)) IN
      Spawn([x EXCEPT !.pending = @ \cup {[kind |-> "subscribe", id |-> id, s |-> i]}],
            Fetch("subscribe", x, i, id))

\* retrySubscribe: nothing is armed once the run has ended.
RetrySubscribe(x, i) ==
    [x EXCEPT !.subs[i].retries = TRUE, !.subs[i].retryTimer = x.run # "none"]

\* Consumers see the end of a connection, or a gap, as a disconnect.
Disconnect(x, i) ==
    IF x.subs[i].state # "connected" THEN x
    ELSE Deliver([x EXCEPT !.subs[i].state = "disconnected"], i, Event("disconnected"))

Unheld(sub) == [sub EXCEPT !.sub = 0, !.seq = 0, !.ready = FALSE, !.staging = FALSE]

Resubscribe(x, i) ==
    LET dropped == IF x.subs[i].sub # 0 THEN Unsubscribe(x, i) ELSE x
        cleared == [dropped EXCEPT !.subs[i] = Unheld(x.subs[i])]
        again   == IF x.subs[i].retries THEN RetrySubscribe(cleared, i)
                   ELSE SubscribeServer([cleared EXCEPT !.subs[i].retries = TRUE], i)
    IN Disconnect(again, i)

\* open: a goroutine fetches the connect token and dials.
Open(x) == Spawn([x EXCEPT !.connecting = TRUE],
                 [Fetch("connect", x, "none", 0) EXCEPT !.conn = 0])

ScheduleReconnect(x) == [x EXCEPT !.timer = x.run # "none"]

-----------------------------------------------------------------------------
(* Steps.  The end of a connection ends the server's half of it.           *)

Step(x) ==
    /\ k' = x
    /\ srv' = IF x.conn = k.conn THEN srv ELSE NoServer
    /\ log' = log

Fault(f)   == f \in Faults /\ faults < MaxFaults /\ faults' = faults + 1 /\ losses' = losses
NoFault    == UNCHANGED <<losses, faults>>
Loss       == losses < MaxLosses /\ losses' = losses + 1 /\ faults' = faults
Costs(f)   == IF f = "none" THEN NoFault ELSE Fault(f)
\* The names in use leave room for what one step takes: an id for each account and
\* one more, a connection, a server subscription.
Room ==
    /\ Cardinality(Unused(MaxIds, IdsInUse(k))) > Cardinality(Accounts)
    /\ Unused(MaxIds, SubsInUse) # {}
    /\ Unused(MaxConns, ConnsInUse) # {}

-----------------------------------------------------------------------------
(* The user.                                                               *)

CatchUp(x, i, c) ==
    LET s  == x.subs[i]
        x1 == IF s.state = "connected" THEN Offer(x, i, {c}, Event("connected")) ELSE x
        x2 == IF s.orders # None THEN Offer(x1, i, {c}, [type |-> "snapshot", val |-> s.orders])
              ELSE x1
        x3 == IF s.ready THEN Offer(x2, i, {c}, Event("ready")) ELSE x2
    IN IF s.stale THEN Offer(x3, i, {c}, Event("stale")) ELSE x3

Subscribe(c) ==
    LET a      == AccountOf[c]
        begun  == IF k.run = "none" THEN [k EXCEPT !.run = c] ELSE k
        i      == IF k.at[a] = "none" THEN c ELSE k.at[a]
        joined == [begun EXCEPT !.at[a] = i, !.subs[i].consumers = @ \cup {c},
                                !.cons[c] = [@ EXCEPT !.st = "open", !.run = begun.run, !.sub = i]]
    IN /\ k.cons[c].st = "new"
       /\ Room
       /\ Step(IF k.at[a] # "none" THEN CatchUp(joined, i, c)
               ELSE IF k.conn # 0 THEN SubscribeServer(joined, i)
               ELSE IF ~k.connecting /\ ~k.timer THEN Open(joined)
               ELSE joined)
       /\ NoFault

\* Close marks the queue closed; then remove takes the lock.
BeginClose(c) ==
    /\ k.cons[c].st \in {"open", "ended"}
    /\ Step([k EXCEPT !.cons[c] = [@ EXCEPT !.st = "closing", !.told = Untold, !.room = Many]])
    /\ NoFault

Remove(c) ==
    LET i    == k.cons[c].sub
        left == [k EXCEPT !.cons[c].st = "waiting", !.subs[i].consumers = @ \ {c}]
    IN /\ k.cons[c].st = "closing"
       /\ Step(IF c \in k.subs[i].consumers /\ left.subs[i].consumers = {}
               THEN Teardown(left, i) ELSE left)
       /\ NoFault

\* The goroutines and timers of a run.
Working(run) == {f \in k.fetches : f.run = run}
                  \cup {i \in Consumers : k.cons[i].run = run
                          /\ (k.subs[i].retryTimer \/ k.subs[i].ackTimer # 0)}

\* Close returns, after the goroutines of its run when the run has ended.
CloseEnds(c) ==
    /\ k.cons[c].st = "waiting"
    /\ k.run # k.cons[c].run => Working(k.cons[c].run) = {}
    /\ Step([k EXCEPT !.cons[c].st = "closed"])
    /\ NoFault

\* The consumer stops reading, with n places left in its queue, and resumes.
SlowDown(c) ==
    /\ k.cons[c].st = "open" /\ k.cons[c].room = Many
    /\ \E n \in 0..(Many - 1) : Step([k EXCEPT !.cons[c].room = n])
    /\ Fault("slow")

CatchesBreath(c) ==
    /\ k.cons[c].st = "open" /\ k.cons[c].room # Many
    /\ Step([k EXCEPT !.cons[c].room = Many])
    /\ NoFault

-----------------------------------------------------------------------------
(* Token fetches end.                                                      *)

ConnectDone(x, f, how) ==
    LET y == [x EXCEPT !.connecting = FALSE] IN
    IF x.run # f.run THEN x
    ELSE CASE how = "refused" -> TerminateAll(y)
           [] how = "error"   -> ScheduleReconnect(ReportAll(y))
           [] how = "none"    ->
                ForAll(SubscribeServer,
                       [y EXCEPT !.conn = Fresh(MaxConns, ConnsInUse)])

ReauthDone(x, f, how) ==
    IF x.conn # f.conn THEN x
    ELSE CASE how = "refused" -> TerminateAll(x)
           [] how = "error"   -> ReportAll(x)
           [] how = "none"    -> x

\* Mutant: a subscribe is sent without a bound on its answer.
SendSubscribeForever(x, i, id) ==
    Send(x, [op |-> "subscribe", id |-> id, sub |-> 0, s |-> i, cursor |-> x.subs[i].cursor])

SendSubscribe(x, i, id) ==
    Send([x EXCEPT !.subs[i].ackTimer = id],
         [op |-> "subscribe", id |-> id, sub |-> 0, s |-> i, cursor |-> x.subs[i].cursor])

SubscribeDone(x, f, how) ==
    LET request == [kind |-> "subscribe", id |-> f.id, s |-> f.s]
        gone    == [x EXCEPT !.pending = @ \ {request}] IN
    IF request \notin x.pending THEN x
    ELSE CASE how = "refused" -> Terminate(gone, f.s)
           [] how = "error"   -> RetrySubscribe(Report(gone, f.s), f.s)
           [] how = "none"    -> IF x.conn # f.conn THEN x ELSE SendSubscribe(x, f.s, f.id)

RefreshDone(x, f, how) ==
    LET id == Fresh(MaxIds, IdsInUse(x)) IN
    IF x.conn # f.conn \/ x.subs[f.s].sub # f.sub \/ ~Current(x, f.s) THEN x
    ELSE IF how # "none" THEN Report(x, f.s)
    ELSE Send([x EXCEPT !.pending = @ \cup {[kind |-> "refresh", id |-> id, s |-> f.s]}],
              [op |-> "refresh", id |-> id, sub |-> f.sub, s |-> f.s, cursor |-> None])

FetchDone(f) ==
    LET x == [k EXCEPT !.fetches = @ \ {f}] IN
    /\ f \in k.fetches
    /\ Room
    /\ \E how \in {"none", "error", "refused"} :
         /\ Costs(how)
         /\ Step(CASE f.kind = "connect"   -> ConnectDone(x, f, how)
                   [] f.kind = "reauth"    -> ReauthDone(x, f, how)
                   [] f.kind = "subscribe" -> SubscribeDone(x, f, how)
                   [] f.kind = "refresh"   -> RefreshDone(x, f, how))

-----------------------------------------------------------------------------
(* Timers.                                                                 *)

ExpireSubscribe(x, i, id) ==
    LET request == [kind |-> "subscribe", id |-> id, s |-> i]
        told    == Report([x EXCEPT !.pending = @ \ {request}], i) IN
    IF request \notin x.pending THEN x
    ELSE IF ~x.subs[i].confirmed THEN Terminate(x, i)
    ELSE IF Current(told, i) /\ told.subs[i].sub = 0 THEN RetrySubscribe(told, i)
    ELSE told

\* The answer to request id may still come.
Underway(id) == \E m \in Elems(k.up) \cup Elems(srv.down) : m.id = id

\* The 30 s are over: at no cost when the server has dropped the request.
AckTimer(i) ==
    LET id == k.subs[i].ackTimer IN
    /\ id # 0
    /\ Costs(IF Underway(id) THEN "late" ELSE "none")
    /\ Step(ExpireSubscribe([k EXCEPT !.subs[i].ackTimer = 0], i, id))

RetryTimer(i) ==
    LET x == [k EXCEPT !.subs[i].retryTimer = FALSE] IN
    /\ k.subs[i].retryTimer
    /\ Room
    /\ Step(IF x.conn # 0 /\ Current(x, i) /\ x.subs[i].sub = 0 THEN SubscribeServer(x, i) ELSE x)
    /\ NoFault

ReconnectTimer ==
    LET x == [k EXCEPT !.timer = FALSE] IN
    /\ k.timer
    /\ Step(IF (\E a \in Accounts : x.at[a] # "none") /\ x.conn = 0 /\ ~x.connecting
            THEN Open(x) ELSE x)
    /\ NoFault

-----------------------------------------------------------------------------
(* The server: external, from the frames and the errors the stream expects *)
(* and the protocol's description in gen/privatews.                        *)

Frame(type, id, sub, seq, val) == [type |-> type, id |-> id, sub |-> sub, seq |-> seq, val |-> val]
Reply(type, id, sub) == Frame(type, id, sub, 0, 0)

NewServerSub(m, sub) ==
    [sub |-> sub, a |-> AccountOf[m.s], pos |-> m.cursor, boundary |-> log[AccountOf[m.s]], seq |-> 0,
     phase |-> IF m.cursor = None THEN "begin" ELSE "live", ready |-> FALSE, behind |-> FALSE]

\* Frames of s's stream: the next state of the server's subscription, and the frame.
Stream(d, phase, type, val) ==
    <<[d EXCEPT !.seq = d.seq + 1, !.phase = phase], Frame(type, 0, d.sub, d.seq + 1, val)>>

Streams(d) ==
    CASE d.phase = "resync" -> {Stream(d, "begin", "resync", 0)}
      [] d.phase = "begin"  -> {Stream(d, "end", "begin", 0)}
      [] d.phase = "end"    -> {Stream([d EXCEPT !.pos = log[d.a]], "live", type, log[d.a]) :
                                  type \in {"end", "short"}}
      [] d.phase = "live"   ->
           IF d.behind THEN {Stream([d EXCEPT !.behind = FALSE], "live", "available", 0)}
           ELSE IF d.pos < log[d.a]
           THEN {Stream([d EXCEPT !.pos = d.pos + 1], "live",
                        IF d.pos + 1 \in Unseen THEN "covered" ELSE "unit", d.pos + 1)}
           ELSE IF ~d.ready THEN {Stream([d EXCEPT !.ready = TRUE], "live", "ready", 0)}
           ELSE {Stream([d EXCEPT !.behind = TRUE], "live", "unavailable", 0)}

\* What a frame is an instance of, when the server need not send it.
Nuisance(type) == CASE type = "short" -> "short" [] type = "unavailable" -> "behind"
                    [] OTHER -> "none"

Wire == Len(srv.down) < MaxWire

\* The next frame of a stream, sent, lost or repeated.  A lost frame leaves no
\* trace until another one follows it.
ServerStreams(d) ==
    /\ d \in srv.subs /\ Wire
    /\ \E out \in Streams(d) :
         \/ /\ Costs(Nuisance(out[2].type))
            /\ srv' = [subs |-> (srv.subs \ {d}) \cup {out[1]}, down |-> Append(srv.down, out[2])]
         \/ /\ \A o \in {out} \cup Streams(out[1]) : Nuisance(o[2].type) = "none"
            /\ Fault("drop")
            /\ srv' = [srv EXCEPT !.subs = (srv.subs \ {d}) \cup {out[1]}]
         \/ /\ Nuisance(out[2].type) = "none"
            /\ Fault("repeat")
            /\ srv' = [subs |-> (srv.subs \ {d}) \cup {out[1]},
                       down |-> srv.down \o <<out[2], out[2]>>]
    /\ UNCHANGED <<k, log>>

\* The head of the client's messages; ds and frames are the server's answer.
Takes(ds, frames) ==
    /\ k' = [k EXCEPT !.up = Tail(k.up)]
    /\ srv' = [subs |-> ds, down |-> srv.down \o frames]
    /\ log' = log

ServerAnswers ==
    LET m   == Head(k.up)
        sub == Fresh(MaxIds, SubsInUse)
        new == NewServerSub(m, sub)
        of(s) == {d \in srv.subs : d.sub = s}
        subscribed == <<Reply("subscribed", m.id, sub)>>
        refused(code) == Takes(srv.subs, <<Reply(code, m.id, 0)>>)
    IN /\ k.up # <<>> /\ Wire /\ Room
       /\ \/ /\ m.op = "subscribe"
             /\ \/ NoFault /\ Takes(srv.subs \cup {new}, subscribed)
                \/ /\ m.cursor # None /\ NoFault
                   /\ \/ Takes(srv.subs \cup {[new EXCEPT !.phase = "resync", !.pos = None]},
                               subscribed)
                      \/ refused("cursorInvalid")
                \/ Fault("refused") /\ refused("refused")
                \/ Fault("silent") /\ Takes(srv.subs, <<>>)
          \/ /\ m.op = "unsubscribe" /\ NoFault
             /\ Takes(srv.subs \ of(m.sub), <<>>)
          \/ /\ m.op = "refresh"
             /\ \/ of(m.sub) # {} /\ NoFault /\ Takes(srv.subs, <<Reply("refreshed", m.id, m.sub)>>)
                \/ of(m.sub) = {} /\ NoFault /\ Takes(srv.subs, <<Reply("unknown", m.id, m.sub)>>)
                \/ Fault("refused") /\ Takes(srv.subs, <<Reply("refused", m.id, m.sub)>>)

\* Frames outside a stream.
ServerNotices ==
    /\ k.conn # 0 /\ Wire
    /\ \/ /\ \/ Fault("token")   /\ srv' = [srv EXCEPT !.down = Append(@, Reply("token", 0, 0))]
             \/ Fault("garbage") /\ srv' = [srv EXCEPT !.down = Append(@, Reply("garbage", 0, 0))]
       \/ \E d \in srv.subs :
            \/ /\ Fault("expiring")
               /\ srv' = [srv EXCEPT !.down = Append(@, Reply("expiring", 0, d.sub))]
            \/ /\ Fault("ended")
               /\ srv' = [subs |-> srv.subs \ {d}, down |-> Append(srv.down, Reply("ended", 0, d.sub))]
    /\ UNCHANGED <<k, log>>

\* An account's orders change.
Changes(a) ==
    /\ log[a] < MaxLog
    /\ log' = [log EXCEPT ![a] = @ + 1]
    /\ UNCHANGED <<k, srv, losses, faults>>

-----------------------------------------------------------------------------
(* Frames arrive: onFrame, onRequestError, onClosed.                       *)

Of(kind, id) == {q \in k.pending : q.kind = kind /\ q.id = id}
Answered(x, id) == [x EXCEPT !.pending = {q \in @ : q.id # id}]

\* Mutant: the answer to a request that is gone is not unsubscribed.
StrayKept(x, m) == x

\* The server confirmed a request that is gone.
Stray(x, m) == Send(x, [op |-> "unsubscribe", id |-> 0, sub |-> m.sub, s |-> "none",
                        cursor |-> None])

OnSubscribed(x, m) ==
    IF Of("subscribe", m.id) = {} THEN Stray(x, m) ELSE
    LET i         == (CHOOSE q \in Of("subscribe", m.id) : TRUE).s
        s         == x.subs[i]
        confirmed == [Answered(x, m.id) EXCEPT
                        !.subs[i] = [@ EXCEPT !.ackTimer = 0, !.confirmed = TRUE, !.sub = m.sub,
                                              !.seq = 0, !.ready = FALSE]]
        connected == IF s.state = "connected" THEN confirmed
                     ELSE Deliver([confirmed EXCEPT !.subs[i].state = "connected"], i,
                                  Event("connected"))
    IN IF ~s.stale THEN connected
       ELSE Deliver([connected EXCEPT !.subs[i].stale = FALSE], i, Event("current"))

OnRequestError(x, m) ==
    LET asked   == {q \in x.pending : q.id = m.id}
        request == CHOOSE q \in asked : TRUE
        y       == Answered(x, m.id)
        owners  == IF m.id = 0 THEN BySub(x, m.sub) ELSE {request.s}
        i       == CHOOSE i \in owners : TRUE
    IN IF m.id # 0 /\ asked = {} THEN x
       ELSE IF owners = {} THEN ReportAll(x)
       ELSE IF m.id # 0 /\ request.kind = "subscribe"
       THEN IF m.type = "cursorInvalid"
            THEN SubscribeServer([y EXCEPT !.subs[i].cursor = None], i)
            ELSE Terminate(y, i)
       ELSE IF m.type = "unknown" /\ x.subs[i].sub = m.sub
       THEN Resubscribe([y EXCEPT !.subs[i].sub = 0], i)
       ELSE Report(y, i)

\* Mutant: a gap or a repeat in the sequence goes unnoticed.
InAnyOrder(s, m) == TRUE

\* A frame outside the stream, or the next one of it.
InOrder(s, m) == m.seq = 0 \/ m.seq = s.seq + 1

\* Data: the subscription's state after the frame, and the event.
Resumed(s, cursor) == [s EXCEPT !.cursor = cursor, !.retries = FALSE]

OnData(x, i, m) ==
    LET s == x.subs[i]
        Becomes(t)      == [x EXCEPT !.subs[i] = t]
        Tells(t, type)  == Deliver(Becomes(t), i, [type |-> type, val |-> m.val])
    IN CASE m.type = "begin"       -> Becomes([s EXCEPT !.staging = TRUE])
         [] m.type = "end" /\ s.staging ->
              Deliver(Becomes([Resumed(s, m.val) EXCEPT !.staging = FALSE,
                                                        !.orders = Position(m.val)]), i,
                      [type |-> "snapshot", val |-> Position(m.val)])
         [] m.type = "short" \/ (m.type = "end" /\ ~s.staging) ->
              Resubscribe(Becomes([s EXCEPT !.staging = FALSE, !.cursor = None]), i)
         [] m.type = "unit"        ->
              Tells([Resumed(s, m.val) EXCEPT
                       !.orders = IF @ = None THEN None ELSE Applied(@, m.val)], "unit")
         [] m.type = "covered"     -> Becomes(Resumed(s, m.val))
         [] m.type = "ready" /\ ~s.ready ->
              Tells([s EXCEPT !.retries = FALSE, !.ready = TRUE], "ready")
         [] m.type = "ready" /\ s.ready -> Becomes([s EXCEPT !.retries = FALSE])
         [] m.type = "resync"      -> Becomes([s EXCEPT !.staging = FALSE])
         [] m.type = "unavailable" -> Tells([s EXCEPT !.stale = TRUE], "stale")
         [] m.type = "available"   -> Tells([s EXCEPT !.stale = FALSE], "current")
         [] m.type = "expiring"    -> Spawn(x, [Fetch("refresh", x, i, 0) EXCEPT !.sub = s.sub])
         [] m.type = "ended"       -> Resubscribe(Becomes([s EXCEPT !.sub = 0]), i)

OnStream(x, m) ==
    IF BySub(x, m.sub) = {} THEN x ELSE
    LET i == CHOOSE i \in BySub(x, m.sub) : TRUE
        s == x.subs[i]
    IN IF ~InOrder(s, m) THEN Resubscribe(x, i)
       ELSE OnData(IF m.seq > 0 THEN [x EXCEPT !.subs[i].seq = m.seq] ELSE x, i, m)

OnFrame ==
    LET m == Head(srv.down)
        x == CASE m.type = "subscribed" -> OnSubscribed(k, m)
               [] m.type = "refreshed"  -> Answered(k, m.id)
               [] m.type \in {"cursorInvalid", "refused", "unknown"} -> OnRequestError(k, m)
               [] m.type = "token"      -> Spawn(k, Fetch("reauth", k, "none", 0))
               [] m.type = "garbage"    -> ReportAll(k)
               [] OTHER                 -> OnStream(k, m)
    IN /\ k.conn # 0 /\ srv.down # <<>>
       /\ Room
       /\ k' = x
       /\ srv' = IF x.conn = k.conn THEN [srv EXCEPT !.down = Tail(@)] ELSE NoServer
       /\ UNCHANGED <<log, losses, faults>>

OnClosed ==
    LET x == Detach(k) IN
    /\ k.conn # 0
    /\ \/ Loss /\ Step(ForAll(Disconnect, ScheduleReconnect(x)))
       \/ Fault("fatal") /\ Step(TerminateAll(x))

-----------------------------------------------------------------------------
Program ==
    \/ \E c \in Consumers : Remove(c) \/ CloseEnds(c) \/ CatchesBreath(c)
    \/ \E f \in k.fetches : FetchDone(f)
    \/ \E i \in Consumers : AckTimer(i) \/ RetryTimer(i)
    \/ ReconnectTimer
    \/ OnFrame

Environment ==
    \/ \E c \in Consumers : Subscribe(c) \/ BeginClose(c) \/ SlowDown(c)
    \/ ServerAnswers
    \/ \E d \in srv.subs : ServerStreams(d)
    \/ ServerNotices
    \/ \E a \in Accounts : Changes(a)
    \/ OnClosed

Next == Program \/ Environment

Spec == Init /\ [][Next]_vars

\* The program goes on: goroutines run, fetches end, timers fire, consumers
\* read.  The server answers and sends what it has, unless it fails, which it
\* does MaxFaults times and no more.
FairSpec ==
    /\ Spec
    /\ WF_vars(Program)
    /\ WF_vars(ServerAnswers \/ \E d \in srv.subs : ServerStreams(d))

-----------------------------------------------------------------------------
(* Properties.                                                             *)

Ids   == 0..MaxIds
Views == {None, Broken} \cup 0..MaxLog

\* The shapes of the state; in particular requests are pending on a connection
\* only, and for subscriptions that have consumers (detach, teardown).
TypeOK ==
    /\ k.run \in Consumers \cup {"none"}
    /\ k.conn \in 0..MaxConns /\ k.connecting \in BOOLEAN /\ k.timer \in BOOLEAN
    /\ \A a \in Accounts : k.at[a] \in Consumers \cup {"none"}
    /\ \A i \in Consumers :
         /\ k.subs[i].consumers \subseteq Consumers
         /\ k.subs[i].sub \in Ids /\ k.subs[i].ackTimer \in Ids
         /\ k.subs[i].cursor \in Views \ {Broken} /\ k.subs[i].orders \in Views
         /\ k.subs[i].state \in {"pending", "connected", "disconnected"}
    /\ \A c \in Consumers :
         /\ k.cons[c].st \in {"new", "open", "ended", "closing", "waiting", "closed"}
         /\ k.cons[c].room \in 0..Many /\ k.cons[c].told.view \in Views
    /\ \A q \in k.pending : q.id \in Ids \ {0} /\ k.conn # 0 /\ Current(k, q.s)
    /\ Len(srv.down) <= MaxWire + 1
    /\ log \in [Accounts -> 0..MaxLog] /\ losses \in 0..MaxLosses /\ faults \in 0..MaxFaults

\* The record a consumer's events come from.
Shared(c) == k.subs[k.cons[c].sub]

\* What the events told each open consumer is what the shared record says,
\* whenever it joined: connected, ready, stale and the orders (offer, catchUp,
\* detach and resubscribe change the two in different orders).
ConsumersAgree ==
    \A c \in {c \in Consumers : k.cons[c].st = "open"} :
      LET told == k.cons[c].told IN
      /\ (told.state = "connected") <=> (Shared(c).state = "connected")
      /\ told.ready = Shared(c).ready
      /\ told.stale = Shared(c).stale
      /\ told.view = Shared(c).orders

\* No view misses a change or sees one twice, and the resume cursor names
\* exactly the orders that were applied, across gaps, resubscribes, resyncs
\* and reconnects.
ViewsFollow ==
    \A i \in Consumers :
      /\ k.subs[i].orders # Broken
      /\ k.subs[i].cursor # None => k.subs[i].orders = Position(k.subs[i].cursor)

\* Nothing is kept for a consumer that left: no request is pending for it, nor on a
\* connection that is gone (TypeOK), and when nothing is under way every
\* subscription the server holds is one the program uses: those whose consumers
\* left, or whose request expired, were unsubscribed (onFrame 694-700,
\* expireSubscribe).
NothingLeaks ==
    /\ TypeOK
    /\ k.up = <<>> /\ srv.down = <<>> => \A d \in srv.subs : BySub(k, d.sub) # {}

\* In the end every consumer has ended, or has learnt all there is: connected,
\* ready, not stale, at the last change of its account.  Gaps, refused
\* cursors, lost connections, silent servers and failed fetches end this way.
Complete(c) ==
    LET told == k.cons[c].told IN
    /\ told.state = "connected" /\ told.ready /\ ~told.stale
    /\ told.view = Position(log[AccountOf[c]])

Recovers == <>[](\A c \in Consumers : k.cons[c].st = "open" => Complete(c))
=============================================================================
