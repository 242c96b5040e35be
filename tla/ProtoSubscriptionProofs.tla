----------------------- MODULE ProtoSubscriptionProofs -----------------------
(***************************************************************************)
(* Theorems about ProtoSubscription, for every queue, setup buffer, server,*)
(* contents and number of reconnects.  First, how a subscription ends: an  *)
(* error is final and is told once, and an end without an error was asked  *)
(* for.  Second, what it delivers: ProtoSubscription implements            *)
(* SignalledFeed.  What enters Messages() is the channel's items in their  *)
(* order, each at most once, and an item that does not follow the one      *)
(* before it was preceded by an announcement, so that a consumer that      *)
(* heeds the announcements loses nothing silently.                         *)
(***************************************************************************)
EXTENDS ProtoSubscription, SequenceTheorems, TLAPS

\* The records' fields: steps update them one at a time.
Fields ==
    /\ DOMAIN w = {"pc", "pending", "items", "why", "fail", "tells", "handshakes",
                   "resume", "reconnect"}
    /\ DOMAIN caller = {"pc", "ready", "ctxDone"}
    /\ DOMAIN sub = {"closed", "cancelled", "err", "done", "chClosed", "resubs", "latch",
                     "once"}
    /\ DOMAIN srv = {"sent", "conns", "unsubs", "on"}
    /\ DOMAIN cb = {"pc", "told"} /\ DOMAIN closers = Closers
    /\ w.tells \in BOOLEAN /\ caller.ctxDone \in BOOLEAN
    /\ sub.closed \in BOOLEAN /\ sub.cancelled \in BOOLEAN /\ sub.chClosed \in BOOLEAN

\* Somebody asked for the end, or the subscribe failed.
Asked == \/ \E p \in Closers : closers[p] # "idle"
         \/ caller.ctxDone \/ caller.ready = "err"
Over == Asked \/ sub.err # "none"

\* Where the worker is once the terminal error is set.
AfterError == {"tell", "left", "finish", "close", "ended"}

\* What the worker's place says of the error.
Failing ==
    /\ sub.err # "none" => w.pc \in AfterError
    /\ At("fail") => w.fail # "none"
    /\ At("tell") => sub.err # "none"

\* The callback: who tells it, and whether that has happened.
Telling ==
    /\ cb.pc \in {"unset", "set", "calling"} /\ cb.told \in {0, 1}
    /\ sub.err = "none" \/ cb.pc = "unset" => cb.told = 0 /\ cb.pc # "calling"
    /\ cb.pc = "calling" => cb.told = 0
    /\ At("tell") /\ w.tells => cb.pc = "set" /\ cb.told = 0
    /\ cb.pc = "set" /\ sub.err # "none" /\ ~(At("tell") /\ w.tells) => cb.told = 1

\* Why the subscription is closed, cancelled, left or at its end.
Ending ==
    /\ sub.closed \/ sub.cancelled => Over
    /\ At("left") /\ w.why = "closed" => Over
    /\ w.pc \in {"finish", "close", "ended"} => Over
    /\ sub.chClosed => At("ended")

IInv == Fields /\ Failing /\ Telling /\ Ending

LEMMA Begins == Init => IInv
<1> SUFFICES ASSUME Init PROVE IInv
  OBVIOUS
<1>1. /\ \E auto \in Options :
           w = [pc |-> "top", pending |-> <<>>, items |-> <<>>, why |-> "none",
                fail |-> "none", tells |-> FALSE, handshakes |-> 0, resume |-> "none",
                reconnect |-> auto]
      /\ caller = [pc |-> "waiting", ready |-> "none", ctxDone |-> FALSE]
      /\ sub = [closed |-> FALSE, cancelled |-> FALSE, err |-> "none",
                done |-> FALSE, chClosed |-> FALSE, resubs |-> 0, latch |-> FALSE,
                once |-> "free"]
      /\ srv = [sent |-> 0, conns |-> 0, unsubs |-> 0, on |-> "off"]
      /\ closers = [p \in Closers |-> "idle"] /\ cb = [pc |-> "unset", told |-> 0]
  BY DEF Init
<1>2. Fields
  BY <1>1 DEF Fields
<1>3. Failing /\ Telling /\ Ending
  BY <1>1 DEF Failing, Telling, Ending, At
<1> QED
  BY <1>2, <1>3 DEF IInv

-----------------------------------------------------------------------------
(* Steps, by what they change.                                             *)

\* The worker alone moves.
LEMMA WorkerMoves ==
    ASSUME IInv, UNCHANGED <<caller, sub, closers, cb>>,
           DOMAIN w' = DOMAIN w, DOMAIN srv' = DOMAIN srv, w'.tells \in BOOLEAN,
           w.pc \notin {"tell", "ended"}, w'.pc # "tell",
           w'.pc = "fail" => w'.fail # "none",
           sub.err # "none" => w'.pc \in AfterError,
           w'.pc = "left" /\ w'.why = "closed" => Over,
           w'.pc \in {"finish", "close", "ended"} => Over
    PROVE  IInv'
<1>1. Fields'
  BY DEF IInv, Fields
<1>2. Over' = Over
  BY DEF Over, Asked
<1>3. Failing'
  BY DEF IInv, Failing, At
<1>4. Telling'
  BY DEF IInv, Telling, At
<1>5. Ending'
  BY <1>2 DEF IInv, Ending, At
<1> QED
  BY <1>1, <1>3, <1>4, <1>5 DEF IInv

\* Leaving a connection.
LEMMA Leaves ==
    ASSUME Fields, NEW why, Leave(why)
    PROVE  /\ DOMAIN w' = DOMAIN w /\ DOMAIN srv' = DOMAIN srv
           /\ w'.pc = "left" /\ w'.why = why /\ w'.tells = w.tells
           /\ srv'.conns = srv.conns
BY DEF Fields, Leave

\* The connection, from the dial to the read of a message.
LEMMA Connection ==
    ASSUME IInv, Dial \/ SetupFails \/ ReadReply \/ Check \/ Take \/ ReadFails \/ Backoff
    PROVE  IInv'
<1>1. UNCHANGED <<caller, sub, closers, cb>>
  BY DEF Dial, SetupFails, ReadReply, Check, Take, ReadFails, Backoff
<1>2. w.pc \in {"top", "setup", "check", "read", "backoff"} /\ sub.err = "none"
  BY DEF IInv, Failing, AfterError, At, Dial, SetupFails, ReadReply, Check, Take, ReadFails,
         Backoff
<1>3. sub.cancelled => Over
  BY DEF IInv, Ending
<1>4. ASSUME NEW why, Leave(why), why = "closed" => sub.cancelled
      PROVE  IInv'
  BY <1>1, <1>2, <1>3, <1>4, Leaves, WorkerMoves DEF IInv, Fields
<1>5. ASSUME DOMAIN w' = DOMAIN w, DOMAIN srv' = DOMAIN srv, w'.tells = w.tells,
             w'.pc \in {"top", "setup", "ready", "check", "read", "deliver", "finish"},
             w'.pc = "finish" => sub.cancelled
      PROVE  IInv'
  BY <1>1, <1>2, <1>3, <1>5, WorkerMoves DEF IInv, Fields
<1>6. CASE Dial
  BY <1>5, <1>6 DEF Dial, IInv, Fields
<1>7. CASE SetupFails
  BY <1>4, <1>7 DEF SetupFails
<1>8. CASE ReadReply
  <2>1. CASE ReadConfirmed
    <3>1. CASE Leave("net")
      BY <1>4, <3>1
    <3>2. CASE ~Leave("net")
      <4>1. PICK held : w' = [w EXCEPT !.pc = "ready", !.pending = held] /\ UNCHANGED srv
        BY <2>1, <3>2 DEF ReadConfirmed
      <4> QED
        BY <1>5, <4>1 DEF IInv, Fields
    <3> QED
      BY <3>1, <3>2
  <2>2. CASE Leave("net")
    BY <1>4, <2>2
  <2>3. CASE HoldBack(Head(wire)) /\ ~Leave("net")
    <3>1. w' = [w EXCEPT !.pending = Append(@, Head(wire))] /\ UNCHANGED srv
      BY <2>3 DEF HoldBack
    <3> QED
      BY <1>2, <1>5, <1>8, <3>1 DEF IInv, Fields, ReadReply, At
  <2> QED
    BY <1>8, <2>1, <2>2, <2>3 DEF ReadReply
<1>9. CASE Check
  <2>1. CASE Leave("closed") /\ sub.cancelled
    BY <1>4, <2>1
  <2>2. CASE w' = [w EXCEPT !.pc = "read"] /\ UNCHANGED srv
    BY <1>5, <2>2 DEF IInv, Fields
  <2> QED
    BY <1>9, <2>1, <2>2 DEF Check
<1>10. CASE Take
  <2>1. PICK message :
          \/ Leave(Ends(message))
          \/ /\ w' = [w EXCEPT !.pc = "deliver", !.items = Contents[message.pub],
                               !.pending = IF @ = <<>> THEN @ ELSE Tail(@)]
             /\ UNCHANGED srv
    BY <1>10 DEF Take
  <2>2. Ends(message) # "closed"
    BY DEF Ends
  <2>3. CASE Leave(Ends(message))
    BY <1>4, <2>2, <2>3
  <2>4. CASE /\ w' = [w EXCEPT !.pc = "deliver", !.items = Contents[message.pub],
                               !.pending = IF @ = <<>> THEN @ ELSE Tail(@)]
             /\ UNCHANGED srv
    BY <1>5, <2>4 DEF IInv, Fields
  <2> QED
    BY <2>1, <2>3, <2>4
<1>11. CASE ReadFails
  BY <1>4, <1>11 DEF ReadFails
<1>12. CASE Backoff
  BY <1>5, <1>12 DEF Backoff, IInv, Fields
<1> QED
  BY <1>6, <1>7, <1>8, <1>9, <1>10, <1>11, <1>12

\* onReady reports and announces.
LEMMA Readies == ASSUME IInv, Ready PROVE IInv'
<1>1. /\ w.pc = "ready" /\ sub.err = "none" /\ UNCHANGED <<closers, cb, srv>>
      /\ DOMAIN w' = DOMAIN w /\ w'.pc = "check" /\ w'.tells = w.tells
      /\ DOMAIN sub' = DOMAIN sub /\ sub'.err = sub.err /\ sub'.closed = sub.closed
      /\ sub'.cancelled = sub.cancelled /\ sub'.chClosed = sub.chClosed
      /\ DOMAIN caller' = DOMAIN caller /\ caller'.ctxDone = caller.ctxDone
      /\ caller.ready = "err" => caller'.ready = "err"
  BY DEF Ready, At, IInv, Fields, Failing, AfterError
<1>2. Fields'
  BY <1>1 DEF IInv, Fields
<1>3. Over => Over'
  BY <1>1 DEF Over, Asked
<1>4. Failing' /\ Telling' /\ Ending'
  BY <1>1, <1>3 DEF IInv, Failing, Telling, Ending, At
<1> QED
  BY <1>2, <1>4 DEF IInv

\* An item is enqueued, refused by a closed subscription, or overflows.
LEMMA Enqueues == ASSUME IInv, Enqueue PROVE IInv'
<1>1. w.pc = "deliver" /\ sub.err = "none" /\ UNCHANGED <<caller, closers, cb>>
  BY DEF Enqueue, At, IInv, Failing, AfterError
<1>2. CASE sub.closed /\ Leave("closed") /\ UNCHANGED sub
  BY <1>1, <1>2, Leaves, WorkerMoves DEF IInv, Fields, Ending
<1>3. CASE w' = ItemDone /\ UNCHANGED <<sub, srv>>
  <2>1. DOMAIN w' = DOMAIN w /\ w'.tells = w.tells /\ w'.pc \in {"deliver", "check", "read"}
    BY <1>1, <1>3 DEF ItemDone, IInv, Fields
  <2> QED
    BY <1>1, <1>3, <2>1, WorkerMoves DEF IInv, Fields
<1>4. CASE Overflow /\ UNCHANGED srv
  <2>1. /\ DOMAIN w' = DOMAIN w /\ w'.pc = "tell" /\ w'.tells = (cb.pc # "unset")
        /\ DOMAIN sub' = DOMAIN sub /\ sub'.err = "overflow" /\ sub'.closed
        /\ sub'.cancelled = sub.cancelled /\ sub'.chClosed = sub.chClosed
    BY <1>4 DEF Overflow, IInv, Fields
  <2>2. Fields'
    BY <1>1, <1>4, <2>1 DEF IInv, Fields
  <2>3. Failing' /\ Ending'
    BY <1>1, <2>1 DEF IInv, Failing, Ending, Over, AfterError, At
  <2>4. Telling'
    BY <1>1, <2>1 DEF IInv, Telling, At
  <2> QED
    BY <2>2, <2>3, <2>4 DEF IInv
<1> QED
  BY <1>2, <1>3, <1>4 DEF Enqueue

\* What follows a connection: the end, a failure, a wait, or a backoff.
LEMMA Follows == ASSUME IInv, Left \/ AwaitResume PROVE IInv'
<1>1. w.pc \in {"left", "await"} /\ UNCHANGED <<sub, closers, cb, srv>>
  BY DEF Left, AwaitResume, At
<1>2. ASSUME NEW reason, NEW resume, Fail(reason, resume)
      PROVE  DOMAIN w' = DOMAIN w /\ w'.pc = "fail" /\ w'.fail = reason /\ w'.tells = w.tells
  BY <1>2 DEF Fail, IInv, Fields
<1>3. ASSUME NEW pc, NEW resume, Go(pc, resume)
      PROVE  DOMAIN w' = DOMAIN w /\ w'.pc = pc /\ w'.tells = w.tells
  BY <1>3 DEF Go, IInv, Fields
<1>4. CASE AwaitResume
  <2>1. UNCHANGED caller /\ sub.err = "none" /\ w.pc = "await"
    BY <1>4 DEF AwaitResume, At, IInv, Failing, AfterError
  <2>2. DOMAIN w' = DOMAIN w /\ w'.tells = w.tells
        /\ (w'.pc = "top" \/ (w'.pc = "fail" /\ w'.fail = "ended"))
    BY <1>2, <1>4 DEF AwaitResume, IInv, Fields
  <2> QED
    BY <1>1, <2>1, <2>2, WorkerMoves DEF IInv, Fields
<1>5. CASE Left /\ Stopped
  <2>1. w'.pc = "finish" /\ DOMAIN w' = DOMAIN w /\ w'.tells = w.tells /\ UNCHANGED caller
    BY <1>3, <1>5 DEF Left
  <2>2. Over
    BY <1>5 DEF Left, Stopped, IInv, Ending, Over
  <2> QED
    BY <1>1, <2>1, <2>2, WorkerMoves DEF IInv, Fields, AfterError
<1>6. CASE Left /\ ~Stopped
  <2>1. sub.err = "none" /\ w.pc = "left"
    BY <1>6 DEF Stopped, Left, At
  <2>2. ASSUME UNCHANGED caller, DOMAIN w' = DOMAIN w, w'.tells = w.tells,
               w'.pc \in {"fail", "await", "backoff"}, w'.pc = "fail" => w'.fail # "none"
        PROVE  IInv'
    BY <1>1, <2>1, <2>2, WorkerMoves DEF IInv, Fields
  <2>3. CASE caller' = [caller EXCEPT !.ready = "err"] /\ Go("finish", "none")
    <3>1. /\ DOMAIN caller' = DOMAIN caller /\ caller'.ready = "err"
          /\ caller'.ctxDone = caller.ctxDone
      BY <2>3 DEF IInv, Fields
    <3>2. w'.pc = "finish" /\ DOMAIN w' = DOMAIN w /\ w'.tells = w.tells
      BY <1>3, <2>3
    <3>3. Fields' /\ Over'
      BY <1>1, <3>1, <3>2 DEF IInv, Fields, Over, Asked
    <3>4. Failing' /\ Telling' /\ Ending'
      BY <1>1, <2>1, <3>2, <3>3 DEF IInv, Failing, Telling, Ending, At
    <3> QED
      BY <3>3, <3>4 DEF IInv
  <2>4. CASE UNCHANGED caller
    <3>1. \/ \E reason \in {"terminal", "ended", "lost"}, resume \in {w.resume, Resume} :
               Fail(reason, resume)
          \/ \E pc \in {"await", "backoff"} : Go(pc, Resume)
          \/ Go("finish", "none") /\ caller' = [caller EXCEPT !.ready = "err"]
      BY <1>6 DEF Left
    <3> QED
      BY <1>2, <1>3, <2>2, <2>3, <2>4, <3>1
  <2> QED
    BY <1>6, <2>3, <2>4 DEF Left
<1> QED
  BY <1>4, <1>5, <1>6

\* The error is set, told, and the worker comes to its end.
LEMMA WorkerEnds == ASSUME IInv, FailLock \/ Tell \/ Finish PROVE IInv'
<1>1. UNCHANGED closers
  BY DEF FailLock, Tell, Finish
<1>2. CASE FailLock
  <2>1. /\ UNCHANGED <<caller, cb, srv>> /\ w.pc = "fail" /\ sub.err = "none"
        /\ DOMAIN w' = DOMAIN w /\ w'.pc = "tell" /\ w'.tells = (cb.pc # "unset")
        /\ DOMAIN sub' = DOMAIN sub /\ sub'.err = w.fail /\ sub'.closed
        /\ sub'.cancelled = sub.cancelled /\ sub'.chClosed = sub.chClosed
        /\ w.fail # "none"
    BY <1>2 DEF FailLock, At, IInv, Fields, Failing, AfterError
  <2>2. Fields'
    BY <1>1, <2>1 DEF IInv, Fields
  <2>3. Failing' /\ Telling' /\ Ending'
    BY <2>1 DEF IInv, Failing, Telling, Ending, Over, AfterError, At
  <2> QED
    BY <2>2, <2>3 DEF IInv
<1>3. CASE Tell
  <2>1. /\ UNCHANGED caller /\ w.pc = "tell" /\ sub.err # "none"
        /\ cb' = IF w.tells THEN [cb EXCEPT !.told = @ + 1] ELSE cb
    BY <1>3 DEF Tell, At, IInv, Failing
  <2>2. /\ DOMAIN w' = DOMAIN w /\ w'.tells = w.tells /\ w'.pc \in {"left", "finish"}
        /\ DOMAIN sub' = DOMAIN sub /\ sub'.err = sub.err /\ sub'.closed = sub.closed
        /\ sub'.cancelled \in BOOLEAN /\ sub'.chClosed = sub.chClosed
        /\ DOMAIN srv' = DOMAIN srv
    BY <1>3, Leaves DEF Tell, IInv, Fields
  <2>3. DOMAIN cb' = DOMAIN cb /\ cb'.pc = cb.pc
        /\ cb'.told = IF w.tells THEN cb.told + 1 ELSE cb.told
    BY <2>1 DEF IInv, Fields
  <2>4. Fields'
    BY <1>1, <2>1, <2>2, <2>3 DEF IInv, Fields
  <2>5. Failing' /\ Ending'
    BY <2>1, <2>2 DEF IInv, Failing, Ending, Over, AfterError, At
  <2>6. Telling'
    BY <2>1, <2>2, <2>3 DEF IInv, Telling, At
  <2> QED
    BY <2>4, <2>5, <2>6 DEF IInv
<1>4. CASE Finish
  <2>1. /\ w.pc \in {"finish", "close"} /\ w'.pc \in {"close", "ended"}
        /\ sub'.chClosed => sub.chClosed \/ w'.pc = "ended"
        /\ UNCHANGED <<cb, srv>>
        /\ DOMAIN w' = DOMAIN w /\ w'.tells \in BOOLEAN
        /\ DOMAIN sub' = DOMAIN sub /\ sub'.err = sub.err /\ sub'.closed \in BOOLEAN
        /\ sub'.cancelled = sub.cancelled /\ sub'.chClosed \in BOOLEAN
        /\ DOMAIN caller' = DOMAIN caller /\ caller'.ctxDone = caller.ctxDone
        /\ caller.ready = "err" => caller'.ready = "err"
    BY <1>4 DEF Finish, At, IInv, Fields
  <2>2. Over /\ ~sub.chClosed
    BY <2>1 DEF IInv, Ending, At
  <2>3. Over'
    BY <1>1, <2>1, <2>2 DEF Over, Asked
  <2>4. Fields'
    BY <1>1, <2>1 DEF IInv, Fields
  <2>5. Failing' /\ Telling' /\ Ending'
    BY <2>1, <2>2, <2>3 DEF IInv, Failing, Telling, Ending, AfterError, At
  <2> QED
    BY <2>4, <2>5 DEF IInv
<1> QED
  BY <1>2, <1>3, <1>4

\* The caller of SubscribeProto, the callers of Close, SetOnError, and the rest.
LEMMA OthersMove ==
    ASSUME IInv,
           \/ Return \/ SetOnError \/ Environment
           \/ \E p \in Closers : CloseBegins(p) \/ CloseCancels(p) \/ CloseReturns(p)
    PROVE  IInv'
<1>1. UNCHANGED w
  BY DEF Return, SetOnError, Environment, Receive, TakeResubscribed, CancelCtx, Server,
         CloseBegins, CloseCancels, CloseReturns
\* What these goroutines do to the subscription but for the callback.
<1>2. ASSUME UNCHANGED cb, DOMAIN srv' = DOMAIN srv,
             DOMAIN sub' = DOMAIN sub, sub'.err = sub.err, sub'.chClosed = sub.chClosed,
             sub'.closed \in BOOLEAN, sub'.cancelled \in BOOLEAN,
             DOMAIN caller' = DOMAIN caller, caller'.ctxDone \in BOOLEAN,
             DOMAIN closers' = Closers,
             Over => Over',
             sub'.closed => sub.closed \/ Over', sub'.cancelled => sub.cancelled \/ Over'
      PROVE  IInv'
  <2>1. Fields'
    BY <1>1, <1>2 DEF IInv, Fields
  <2>2. Failing' /\ Telling' /\ Ending'
    BY <1>1, <1>2 DEF IInv, Failing, Telling, Ending, At
  <2> QED
    BY <2>1, <2>2 DEF IInv
<1>3. CASE Return
  <2>1. /\ UNCHANGED <<cb, srv, closers>>
        /\ DOMAIN caller' = DOMAIN caller /\ caller'.ready = caller.ready
        /\ caller'.ctxDone = caller.ctxDone
        /\ DOMAIN sub' = DOMAIN sub /\ sub'.err = sub.err /\ sub'.closed = sub.closed
        /\ sub'.chClosed = sub.chClosed /\ sub'.cancelled \in BOOLEAN
        /\ sub'.cancelled => sub.cancelled \/ caller.ready = "err" \/ caller.ctxDone
    BY <1>3 DEF Return, IInv, Fields
  <2>2. Over => Over'
    BY <2>1 DEF Over, Asked
  <2>3. sub'.cancelled => sub.cancelled \/ Over'
    BY <2>1 DEF Over, Asked
  <2> QED
    BY <1>2, <2>1, <2>2, <2>3 DEF IInv, Fields
<1>4. CASE \E p \in Closers : CloseBegins(p) \/ CloseCancels(p) \/ CloseReturns(p)
  <2>1. PICK p \in Closers : CloseBegins(p) \/ CloseCancels(p) \/ CloseReturns(p)
    BY <1>4
  <2>2. PICK place \in {"cancel", "wait", "returned"} :
          closers' = [closers EXCEPT ![p] = place]
    BY <2>1 DEF CloseBegins, CloseCancels, CloseReturns
  <2>3. /\ UNCHANGED <<cb, srv, caller>>
        /\ DOMAIN sub' = DOMAIN sub /\ sub'.err = sub.err
        /\ sub'.chClosed = sub.chClosed /\ sub'.cancelled \in BOOLEAN
        /\ sub'.closed \in BOOLEAN
    BY <2>1 DEF CloseBegins, CloseCancels, CloseReturns, IInv, Fields
  <2>4. DOMAIN closers' = Closers /\ closers'[p] # "idle"
    BY <2>2 DEF IInv, Fields
  <2>5. Over'
    BY <2>4 DEF Over, Asked
  <2> QED
    BY <1>2, <2>3, <2>4, <2>5 DEF IInv, Fields
<1>5. CASE SetOnError
  <2>1. /\ UNCHANGED <<caller, sub, closers, srv>>
        /\ DOMAIN cb' = DOMAIN cb
        /\ \/ /\ cb.pc = "unset" /\ cb'.told = cb.told
              /\ cb'.pc = IF sub.err = "none" THEN "set" ELSE "calling"
           \/ cb.pc = "calling" /\ cb'.pc = "set" /\ cb'.told = cb.told + 1
    BY <1>5 DEF SetOnError, IInv, Fields
  <2>2. Fields'
    BY <1>1, <2>1 DEF IInv, Fields
  <2>3. Failing' /\ Ending'
    BY <1>1, <2>1 DEF IInv, Failing, Ending, Over, Asked, At
  <2>4. Telling'
    BY <1>1, <2>1 DEF IInv, Telling, At, Fields
  <2> QED
    BY <2>2, <2>3, <2>4 DEF IInv
<1>6. CASE Receive \/ Server
  <2>1. UNCHANGED <<caller, sub, closers, cb>>
    BY <1>6 DEF Receive, Server
  <2>2. DOMAIN srv' = DOMAIN srv
    BY <1>6 DEF Receive, Server, Publish, Subscribe, Confirm, Disturb, Lose, IInv, Fields
  <2> QED
    BY <1>2, <2>1, <2>2 DEF IInv, Fields, Over, Asked
<1>7. CASE TakeResubscribed
  <2>1. /\ UNCHANGED <<caller, closers, cb, srv>>
        /\ DOMAIN sub' = DOMAIN sub /\ sub'.err = sub.err /\ sub'.closed = sub.closed
        /\ sub'.chClosed = sub.chClosed /\ sub'.cancelled = sub.cancelled
    BY <1>7 DEF TakeResubscribed, IInv, Fields
  <2>2. Over => Over'
    BY <2>1 DEF Over, Asked
  <2> QED
    BY <1>2, <2>1, <2>2 DEF IInv, Fields
<1>8. CASE CancelCtx
  <2>1. /\ UNCHANGED <<closers, cb, srv>>
        /\ DOMAIN caller' = DOMAIN caller /\ caller'.ctxDone
        /\ caller'.ctxDone \in BOOLEAN
        /\ DOMAIN sub' = DOMAIN sub /\ sub'.err = sub.err /\ sub'.closed = sub.closed
        /\ sub'.chClosed = sub.chClosed /\ sub'.cancelled \in BOOLEAN
    BY <1>8 DEF CancelCtx, IInv, Fields
  <2>2. Over'
    BY <2>1 DEF Over, Asked
  <2> QED
    BY <1>2, <2>1, <2>2 DEF IInv, Fields
<1> QED
  BY <1>3, <1>4, <1>5, <1>6, <1>7, <1>8 DEF Environment

LEMMA StepKeeps == IInv /\ [Next]_vars => IInv'
<1> SUFFICES ASSUME IInv, [Next]_vars PROVE IInv'
  OBVIOUS
<1>1. CASE UNCHANGED vars
  BY <1>1 DEF vars, IInv, Fields, Failing, Telling, Ending, Over, Asked, At
<1>2. CASE Worker
  BY <1>2, Connection, Readies, Enqueues, Follows, WorkerEnds DEF Worker
<1>3. CASE \/ Return \/ SetOnError \/ Environment
           \/ \E p \in Closers : CloseBegins(p) \/ CloseCancels(p) \/ CloseReturns(p)
  BY <1>3, OthersMove
<1> QED
  BY <1>1, <1>2, <1>3 DEF Next

LEMMA Inductive == Spec => []IInv
BY Begins, StepKeeps, PTL DEF Spec

\* With an error set, no step dials, enqueues, or sets another.
LEMMA NothingAfterError ==
    ASSUME IInv, [Next]_vars, sub.err # "none"
    PROVE  srv'.conns = srv.conns /\ fed' = fed /\ sub'.err = sub.err
<1>1. w.pc \in AfterError
  BY DEF IInv, Failing
<1>2. CASE Worker
  <2>1. Left \/ Tell \/ Finish
    BY <1>1, <1>2 DEF Worker, AfterError, Dial, SetupFails, ReadReply, Ready, Check, Take,
       ReadFails, Enqueue, AwaitResume, Backoff, FailLock, At
  <2>2. CASE Left \/ Finish
    BY <2>2 DEF Left, Finish, hist, IInv, Fields
  <2>3. CASE Tell
    BY <2>3, Leaves DEF Tell, hist, IInv, Fields
  <2> QED
    BY <2>1, <2>2, <2>3
<1>3. CASE Return \/ SetOnError \/ Receive \/ TakeResubscribed \/ CancelCtx
           \/ \E p \in Closers : CloseBegins(p) \/ CloseCancels(p) \/ CloseReturns(p)
  BY <1>3 DEF Return, SetOnError, Receive, TakeResubscribed, CancelCtx, CloseBegins,
              CloseCancels, CloseReturns, hist, IInv, Fields
<1>4. CASE Server
  BY <1>4 DEF Server, Publish, Subscribe, Confirm, Disturb, Lose, hist, IInv, Fields
<1>5. CASE UNCHANGED vars
  BY <1>5 DEF vars, hist
<1> QED
  BY <1>2, <1>3, <1>4, <1>5 DEF Next, Environment

-----------------------------------------------------------------------------
(* Theorems.                                                               *)

\* Once a terminal error is set the subscription neither connects again nor
\* delivers, and the error stays as it is (failLocked, the loop of subscribeProto).
THEOREM ErrorStays == Spec => ErrorIsFinal
<1>1. IInv /\ [Next]_vars =>
        [sub.err # "none" => /\ srv'.conns = srv.conns /\ fed' = fed
                             /\ sub'.err = sub.err]_vars
  BY NothingAfterError
<1> QED
  BY <1>1, Inductive, PTL DEF Spec, ErrorIsFinal

\* The callback is told the terminal error once, whenever it was installed
\* (fail, enqueue and SetOnError).
THEOREM ToldOnce == Spec => []ErrorToldOnce
<1>1. IInv => ErrorToldOnce
  BY DEF IInv, Telling, ErrorToldOnce, At
<1> QED
  BY <1>1, Inductive, PTL

\* Messages() closes without an error only for somebody who asked, or for a
\* SubscribeProto that fails (Close, Client.Close, markFinished).
THEOREM EndsForAReason == Spec => []EndHasReason
<1>1. IInv => EndHasReason
  BY DEF IInv, Ending, Over, Asked, EndHasReason, At
<1> QED
  BY <1>1, Inductive, PTL

\* Whoever reads Messages() to its end knows why it ended, and was told an error
\* once.
THEOREM EndTold == Spec => []EndIsTold
<1>1. EndHasReason /\ ErrorToldOnce => EndIsTold
  BY DEF EndIsTold
<1> QED
  BY <1>1, ToldOnce, EndsForAReason, PTL

-----------------------------------------------------------------------------
(* What is under way on a connection.  Chain(b, a): the publications in a  *)
(* are b + 1, b + 2, ... in this order, between other messages.            *)

Chain(b, a) ==
    \A i \in DOMAIN a, q \in Pubs : a[i] = Pub(q) =>
        /\ q > b
        /\ q = b + 1 \/ \E k \in DOMAIN a : k < i /\ a[k] = Pub(q - 1)
        /\ \A j \in DOMAIN a, t \in Pubs : i < j /\ a[j] = Pub(t) => q < t

Upto(a, n)       == \A i \in DOMAIN a, q \in Pubs : a[i] = Pub(q) => q <= n
Reaches(b, a, n) == n = b \/ \E k \in DOMAIN a : a[k] = Pub(n)

Controls == {Final, Temp, Reply, Junk}

LEMMA Kinds ==
    /\ \A p, q : Pub(p) = Pub(q) => p = q
    /\ \A p : Pub(p) \notin Controls
    /\ Messages = Controls \cup {Pub(p) : p \in Pubs}
    /\ Pubs \subseteq Nat
<1>1. \A p : Pub(p).kind = "pub" /\ Pub(p).pub = p
  BY DEF Pub
<1>2. \A m \in Controls : m.kind # "pub"
  BY DEF Controls, Final, Temp, Reply, Junk
<1> QED
  BY <1>1, <1>2 DEF Messages, Controls, Pubs

LEMMA ChainNil == \A b : Chain(b, <<>>) /\ \A n : Upto(<<>>, n)
BY DEF Chain, Upto

\* The server sends another message.
LEMMA ChainControl ==
    ASSUME NEW a \in Seq(Messages), NEW m \in Controls, NEW b, NEW n, Chain(b, a), Upto(a, n)
    PROVE  /\ Chain(b, Append(a, m)) /\ Upto(Append(a, m), n)
           /\ Reaches(b, a, n) => Reaches(b, Append(a, m), n)
<1> DEFINE c == Append(a, m)
<1>1. /\ DOMAIN a = 1..Len(a) /\ DOMAIN c = 1..(Len(a) + 1) /\ Len(a) \in Nat
      /\ \A i \in 1..Len(a) : c[i] = a[i]
      /\ c[Len(a) + 1] = m
  OBVIOUS
<1> HIDE DEF c
<1>2. \A i \in DOMAIN c, q \in Pubs : c[i] = Pub(q) => i \in DOMAIN a /\ a[i] = Pub(q)
  BY <1>1, Kinds
<1>3. \A i \in DOMAIN a : i \in DOMAIN c /\ c[i] = a[i]
  BY <1>1
<1>4. Chain(b, c)
  <2> SUFFICES ASSUME NEW i \in DOMAIN c, NEW q \in Pubs, c[i] = Pub(q)
               PROVE  /\ q > b
                      /\ q = b + 1 \/ \E k \in DOMAIN c : k < i /\ c[k] = Pub(q - 1)
                      /\ \A j \in DOMAIN c, t \in Pubs : i < j /\ c[j] = Pub(t) => q < t
    BY DEF Chain
  <2> QED
    BY <1>2, <1>3 DEF Chain
<1>5. Upto(c, n) /\ (Reaches(b, a, n) => Reaches(b, c, n))
  BY <1>2, <1>3 DEF Upto, Reaches
<1> QED
  BY <1>4, <1>5 DEF c

\* The server publishes.
LEMMA ChainPub ==
    ASSUME NEW a \in Seq(Messages), NEW b \in Nat, NEW n \in Nat, n + 1 \in Pubs, b <= n,
           Chain(b, a), Upto(a, n), Reaches(b, a, n)
    PROVE  /\ Chain(b, Append(a, Pub(n + 1))) /\ Upto(Append(a, Pub(n + 1)), n + 1)
           /\ Reaches(b, Append(a, Pub(n + 1)), n + 1)
<1> DEFINE c == Append(a, Pub(n + 1))
<1>1. /\ DOMAIN a = 1..Len(a) /\ DOMAIN c = 1..(Len(a) + 1) /\ Len(a) \in Nat
      /\ \A i \in 1..Len(a) : c[i] = a[i]
      /\ c[Len(a) + 1] = Pub(n + 1)
  OBVIOUS
<1> HIDE DEF c
<1>2. \A i \in DOMAIN c, q \in Pubs : c[i] = Pub(q) =>
        (i \in DOMAIN a /\ a[i] = Pub(q) /\ q <= n) \/ (i = Len(a) + 1 /\ q = n + 1)
  BY <1>1, Kinds DEF Upto
<1>3. \A i \in DOMAIN a : i \in DOMAIN c /\ c[i] = a[i] /\ i < Len(a) + 1
  BY <1>1
<1>4. Chain(b, c)
  <2> SUFFICES ASSUME NEW i \in DOMAIN c, NEW q \in Pubs, c[i] = Pub(q)
               PROVE  /\ q > b
                      /\ q = b + 1 \/ \E k \in DOMAIN c : k < i /\ c[k] = Pub(q - 1)
                      /\ \A j \in DOMAIN c, t \in Pubs : i < j /\ c[j] = Pub(t) => q < t
    BY DEF Chain
  <2>0. Pubs \subseteq Nat
    BY Kinds
  <2>1. CASE i \in DOMAIN a /\ a[i] = Pub(q) /\ q <= n
    BY <1>2, <1>3, <2>0, <2>1 DEF Chain
  <2>2. CASE i = Len(a) + 1 /\ q = n + 1
    <3>1. q > b /\ (q = b + 1 \/ \E k \in DOMAIN c : k < i /\ c[k] = Pub(q - 1))
      BY <1>3, <2>2 DEF Reaches
    <3>2. \A j \in DOMAIN c : ~(i < j)
      BY <1>1, <2>2
    <3> QED
      BY <3>1, <3>2
  <2> QED
    BY <1>2, <2>1, <2>2
<1>5. Upto(c, n + 1)
  BY <1>2, Kinds DEF Upto
<1>6. Reaches(b, c, n + 1)
  BY <1>1 DEF Reaches
<1> QED
  BY <1>4, <1>5, <1>6 DEF c

\* The connection is lost behind some message.
LEMMA ChainPrefix ==
    ASSUME NEW a \in Seq(Messages), NEW c \in Seq(Messages), NEW b, NEW n,
           Len(c) <= Len(a), \A i \in 1..Len(c) : c[i] = a[i],
           Chain(b, a), Upto(a, n)
    PROVE  Chain(b, c) /\ Upto(c, n)
<1>1. \A i \in DOMAIN c : i \in DOMAIN a /\ c[i] = a[i]
  OBVIOUS
<1>2. \A i \in DOMAIN c, k \in DOMAIN a : k < i => k \in DOMAIN c
  OBVIOUS
<1>3. Chain(b, c)
  <2> SUFFICES ASSUME NEW i \in DOMAIN c, NEW q \in Pubs, c[i] = Pub(q)
               PROVE  /\ q > b
                      /\ q = b + 1 \/ \E k \in DOMAIN c : k < i /\ c[k] = Pub(q - 1)
                      /\ \A j \in DOMAIN c, t \in Pubs : i < j /\ c[j] = Pub(t) => q < t
    BY DEF Chain
  <2> QED
    BY <1>1, <1>2 DEF Chain
<1>4. Upto(c, n)
  BY <1>1 DEF Upto
<1> QED
  BY <1>3, <1>4

\* The reply is taken out.
LEMMA ChainDrop ==
    ASSUME NEW a \in Seq(Messages), NEW c \in Seq(Messages), NEW j \in 1..Len(a),
           a[j] \in Controls, Len(c) + 1 = Len(a),
           \A i \in 1..Len(c) : c[i] = IF i < j THEN a[i] ELSE a[i + 1],
           NEW b \in Nat, NEW n, Chain(b, a), Upto(a, n)
    PROVE  Chain(b, c) /\ Upto(c, n) /\ (Reaches(b, a, n) => Reaches(b, c, n))
<1> DEFINE up(i) == IF i < j THEN i ELSE i + 1
           down(k) == IF k < j THEN k ELSE k - 1
<1>0. DOMAIN a = 1..Len(a) /\ DOMAIN c = 1..Len(c) /\ Len(a) \in Nat /\ Len(c) \in Nat /\ j \in Nat
  OBVIOUS
<1>1. \A i \in DOMAIN c : up(i) \in DOMAIN a /\ c[i] = a[up(i)]
  BY <1>0
<1>2. \A i, k \in DOMAIN c : i < k => up(i) < up(k)
  BY <1>0
<1>3. \A k \in DOMAIN a : \A q : a[k] = Pub(q) => k # j /\ down(k) \in DOMAIN c /\ c[down(k)] = a[k]
  <2> SUFFICES ASSUME NEW k \in DOMAIN a, NEW q, a[k] = Pub(q)
               PROVE  k # j /\ down(k) \in DOMAIN c /\ c[down(k)] = a[k]
    OBVIOUS
  <2>1. k # j
    BY Kinds
  <2> QED
    BY <1>0, <2>1
<1>4. \A k \in DOMAIN a, i \in DOMAIN c : k # j /\ k < up(i) => down(k) < i
  BY <1>0
<1> HIDE DEF up, down
<1>5. Upto(c, n)
  BY <1>1 DEF Upto
<1>6. Chain(b, c)
  <2> SUFFICES ASSUME NEW i \in DOMAIN c, NEW q \in Pubs, c[i] = Pub(q)
               PROVE  /\ q > b
                      /\ q = b + 1 \/ \E k \in DOMAIN c : k < i /\ c[k] = Pub(q - 1)
                      /\ \A k \in DOMAIN c, t \in Pubs : i < k /\ c[k] = Pub(t) => q < t
    BY DEF Chain
  <2>1. up(i) \in DOMAIN a /\ a[up(i)] = Pub(q)
    BY <1>1
  <2>2. q > b /\ \A k \in DOMAIN c, t \in Pubs : i < k /\ c[k] = Pub(t) => q < t
    BY <1>1, <1>2, <2>1 DEF Chain
  <2>3. ASSUME q # b + 1 PROVE \E k \in DOMAIN c : k < i /\ c[k] = Pub(q - 1)
    <3>1. PICK k \in DOMAIN a : k < up(i) /\ a[k] = Pub(q - 1)
      BY <2>1, <2>3 DEF Chain
    <3> QED
      BY <1>3, <1>4, <3>1
  <2> QED
    BY <2>2, <2>3
<1>7. Reaches(b, a, n) => Reaches(b, c, n)
  BY <1>3 DEF Reaches
<1> QED
  BY <1>5, <1>6, <1>7

\* The first message is taken.
LEMMA ChainTail ==
    ASSUME NEW a \in Seq(Messages), a # <<>>, NEW b \in Nat, NEW n \in Nat,
           Chain(b, a), Upto(a, n), NEW q \in Pubs, Head(a) = Pub(q)
    PROVE  /\ q = b + 1 /\ q <= n
           /\ Chain(q, Tail(a)) /\ Upto(Tail(a), n)
           /\ Reaches(b, a, n) => Reaches(q, Tail(a), n)
<1> DEFINE c == Tail(a)
<1>1. /\ DOMAIN a = 1..Len(a) /\ DOMAIN c = 1..(Len(a) - 1) /\ Len(a) \in Nat /\ Len(a) > 0
      /\ \A i \in DOMAIN c : i + 1 \in DOMAIN a /\ c[i] = a[i + 1]
      /\ a[1] = Pub(q) /\ 1 \in DOMAIN a
  OBVIOUS
<1> HIDE DEF c
<1>2. Pubs \subseteq Nat
  BY Kinds
<1>3. q = b + 1 /\ q <= n
  BY <1>1 DEF Chain, Upto
<1>4. \A k \in DOMAIN a : k = 1 \/ (k - 1 \in DOMAIN c /\ c[k - 1] = a[k])
  BY <1>1
<1>5. Upto(c, n)
  BY <1>1 DEF Upto
<1>6. Chain(q, c)
  <2> SUFFICES ASSUME NEW i \in DOMAIN c, NEW t \in Pubs, c[i] = Pub(t)
               PROVE  /\ t > q
                      /\ t = q + 1 \/ \E k \in DOMAIN c : k < i /\ c[k] = Pub(t - 1)
                      /\ \A k \in DOMAIN c, u \in Pubs : i < k /\ c[k] = Pub(u) => t < u
    BY DEF Chain
  <2>0. i + 1 \in DOMAIN a /\ a[i + 1] = Pub(t) /\ i \in Nat /\ 1 < i + 1 /\ t \in Nat /\ q \in Nat
    BY <1>1, <1>2
  <2>1. t > q
    BY <1>1, <2>0 DEF Chain
  <2>2. ASSUME NEW k \in DOMAIN c, NEW u \in Pubs, i < k, c[k] = Pub(u) PROVE t < u
    <3>1. k + 1 \in DOMAIN a /\ a[k + 1] = Pub(u) /\ i + 1 < k + 1
      BY <1>1, <2>0, <2>2
    <3> QED
      BY <2>0, <3>1 DEF Chain
  <2>3. ASSUME t # q + 1 PROVE \E k \in DOMAIN c : k < i /\ c[k] = Pub(t - 1)
    <3>1. PICK k \in DOMAIN a : k < i + 1 /\ a[k] = Pub(t - 1)
      BY <1>3, <2>0, <2>1 DEF Chain
    <3>2. k # 1
      <4>1. a[k] = Pub(q) => q = t - 1
        BY <3>1, Kinds
      <4> QED
        BY <1>1, <2>0, <2>3, <4>1
    <3>3. k - 1 < i
      BY <1>1, <2>0, <3>1
    <3> QED
      BY <1>4, <3>1, <3>2, <3>3
  <2> QED
    BY <2>1, <2>2, <2>3
<1>7. ASSUME Reaches(b, a, n) PROVE Reaches(q, c, n)
  <2>1. PICK k \in DOMAIN a : a[k] = Pub(n)
    BY <1>2, <1>3, <1>7 DEF Reaches
  <2>2. CASE k = 1
    BY <1>1, <2>1, <2>2, Kinds DEF Reaches
  <2>3. CASE k # 1
    BY <1>4, <2>1, <2>3 DEF Reaches
  <2> QED
    BY <2>2, <2>3
<1> QED
  BY <1>3, <1>5, <1>6, <1>7 DEF c

\* The line, the messages held back p and those on the connection t, when t grows,
\* when the first of t is held back, and when the first of all is taken.
LEMMA LineGrows ==
    ASSUME NEW p \in Seq(Messages), NEW t \in Seq(Messages), NEW m \in Messages
    PROVE  p \o Append(t, m) = Append(p \o t, m)
<1>1. p \o t \in Seq(Messages) /\ <<m>> \in Seq(Messages)
  BY ConcatProperties
<1>2. Append(t, m) = t \o <<m>> /\ Append(p \o t, m) = (p \o t) \o <<m>>
  BY <1>1, AppendIsConcat
<1> QED
  BY <1>1, <1>2, ConcatAssociative

LEMMA LineHeld ==
    ASSUME NEW p \in Seq(Messages), NEW t \in Seq(Messages), t # <<>>
    PROVE  Append(p, Head(t)) \o Tail(t) = p \o t
<1>1. Append(p, Head(t)) = p \o <<Head(t)>> /\ Head(t) \in Messages
  BY AppendIsConcat, HeadTailProperties
<1>2. <<Head(t)>> \in Seq(Messages) /\ Tail(t) \in Seq(Messages)
  BY <1>1, HeadTailProperties
<1>3. <<Head(t)>> \o Tail(t) = t
  OBVIOUS
<1> QED
  BY <1>1, <1>2, <1>3, ConcatAssociative

LEMMA LineTaken ==
    ASSUME NEW p \in Seq(Messages), NEW t \in Seq(Messages), p \o t # <<>>
    PROVE  /\ p \o t \in Seq(Messages)
           /\ IF p = <<>> THEN t # <<>> /\ Head(p \o t) = Head(t) /\ Tail(p \o t) = Tail(t)
              ELSE Tail(p) \in Seq(Messages) /\ Tail(p \o t) = Tail(p) \o t
<1>1. p \o t \in Seq(Messages)
  BY ConcatProperties
<1>2. CASE p = <<>>
  BY <1>1, <1>2, ConcatEmptySeq
<1>3. CASE p # <<>>
  <2>1. Tail(p) \in Seq(Messages) /\ Head(p) \in Messages /\ p = <<Head(p)>> \o Tail(p)
    BY <1>3, HeadTailProperties
  <2>2. p \o t = <<Head(p)>> \o (Tail(p) \o t)
    BY <2>1, ConcatAssociative
  <2>3. Tail(p) \o t \in Seq(Messages)
    BY <2>1, ConcatProperties
  <2>4. Tail(<<Head(p)>> \o (Tail(p) \o t)) = Tail(p) \o t
    BY <2>1, <2>3
  <2> QED
    BY <1>1, <1>3, <2>1, <2>2, <2>4
<1> QED
  BY <1>2, <1>3

\* The first of the connection, the reply, goes, and what came with it is held back.
LEMMA LineWithout ==
    ASSUME NEW p \in Seq(Messages), NEW t \in Seq(Messages), t # <<>>,
           NEW u \in Seq(Messages), Len(u) = Len(t) - 1,
           \A i \in 1..Len(u) : u[i] = t[i + 1]
    PROVE  /\ p \o u \in Seq(Messages) /\ Len(p \o u) + 1 = Len(p \o t)
           /\ Len(p) + 1 \in 1..Len(p \o t) /\ (p \o t)[Len(p) + 1] = t[1]
           /\ \A i \in 1..Len(p \o u) :
                (p \o u)[i] = IF i < Len(p) + 1 THEN (p \o t)[i] ELSE (p \o t)[i + 1]
<1>0. Len(p) \in Nat /\ Len(t) \in Nat /\ Len(t) >= 1
  OBVIOUS
<1>1. PICK v : v = p \o u
  OBVIOUS
<1>2. PICK line : line = p \o t
  OBVIOUS
<1>3. /\ v \in Seq(Messages) /\ Len(v) = Len(p) + Len(u)
      /\ \A i \in 1..Len(p) + Len(u) : v[i] = IF i <= Len(p) THEN p[i] ELSE u[i - Len(p)]
  BY <1>1, ConcatProperties
<1>4. /\ line \in Seq(Messages) /\ Len(line) = Len(p) + Len(t)
      /\ \A i \in 1..Len(p) + Len(t) : line[i] = IF i <= Len(p) THEN p[i] ELSE t[i - Len(p)]
  BY <1>2, ConcatProperties
<1>5. ASSUME NEW i \in 1..Len(v)
      PROVE  v[i] = IF i < Len(p) + 1 THEN line[i] ELSE line[i + 1]
  <2>1. CASE i <= Len(p)
    BY <1>0, <1>3, <1>4, <2>1
  <2>2. CASE i > Len(p)
    <3>1. i - Len(p) \in 1..Len(u) /\ i + 1 \in 1..Len(p) + Len(t) /\ ~(i < Len(p) + 1)
          /\ (i + 1) - Len(p) = (i - Len(p)) + 1 /\ ~(i + 1 <= Len(p))
      BY <1>0, <1>3, <2>2
    <3>2. v[i] = u[i - Len(p)] /\ line[i + 1] = t[(i - Len(p)) + 1]
      BY <1>0, <1>3, <1>4, <2>2, <3>1
    <3> QED
      BY <1>0, <2>2, <3>1, <3>2
  <2> QED
    BY <1>0, <1>3, <2>1, <2>2
<1>6. Len(p) + 1 \in 1..Len(line) /\ line[Len(p) + 1] = t[1] /\ Len(v) + 1 = Len(line)
  BY <1>0, <1>3, <1>4
<1> QED
  BY <1>1, <1>2, <1>3, <1>5, <1>6

LEMMA LineJoined ==
    ASSUME NEW p \in Seq(Messages), NEW a \in Seq(Messages), NEW b \in Seq(Messages)
    PROVE  (p \o a) \o b = p \o (a \o b) /\ p \o a \in Seq(Messages)
<1>1. (p \o a) \o b = p \o (a \o b)
  BY ConcatAssociative
<1>2. p \o a \in Seq(Messages)
  BY ConcatProperties
<1> QED
  BY <1>1, <1>2

LEMMA LineConfirmed ==
    ASSUME NEW p \in Seq(Messages), NEW t \in Seq(Messages), t # <<>>, NEW n \in 1..Len(t)
    PROVE  /\ p \o SubSeq(t, 2, n) \in Seq(Messages)
           /\ SubSeq(t, n + 1, Len(t)) \in Seq(Messages)
           /\ (p \o SubSeq(t, 2, n)) \o SubSeq(t, n + 1, Len(t)) = p \o Tail(t)
<1>1. SubSeq(t, 2, n) \in Seq(Messages) /\ SubSeq(t, n + 1, Len(t)) \in Seq(Messages)
  OBVIOUS
<1>2. SubSeq(t, 2, n) \o SubSeq(t, n + 1, Len(t)) = SubSeq(t, 2, Len(t))
  <2>1. 2 \in 1..Len(t) + 1 /\ n \in 2 - 1..Len(t) /\ Len(t) \in n..Len(t)
    OBVIOUS
  <2> QED
    BY <2>1, ConcatAdjacentSubSeq
<1>3. SubSeq(t, 2, Len(t)) = Tail(t)
  BY TailIsSubSeq
<1>4. PICK a \in Seq(Messages), b \in Seq(Messages) :
        a = SubSeq(t, 2, n) /\ b = SubSeq(t, n + 1, Len(t)) /\ a \o b = Tail(t)
  BY <1>1, <1>2, <1>3
<1>5. a \in Seq(Messages) /\ b \in Seq(Messages)
  BY <1>4
<1>6. p \o a \in Seq(Messages) /\ (p \o a) \o b = p \o (a \o b)
  BY <1>5, LineJoined, Z3
<1>7. (p \o a) \o b = p \o Tail(t)
  BY <1>4, <1>6
<1> QED
  BY <1>1, <1>4, <1>6, <1>7

LEMMA LineCut ==
    ASSUME NEW p \in Seq(Messages), NEW t \in Seq(Messages), NEW c \in Seq(Messages),
           Len(c) <= Len(t), \A i \in 1..Len(c) : c[i] = t[i]
    PROVE  /\ p \o c \in Seq(Messages) /\ Len(p \o c) <= Len(p \o t)
           /\ \A i \in 1..Len(p \o c) : (p \o c)[i] = (p \o t)[i]
<1>0. Len(p) \in Nat /\ Len(t) \in Nat /\ Len(c) \in Nat
  OBVIOUS
<1>1. /\ p \o c \in Seq(Messages) /\ Len(p \o c) = Len(p) + Len(c)
      /\ \A i \in 1..Len(p) + Len(c) : (p \o c)[i] = IF i <= Len(p) THEN p[i] ELSE c[i - Len(p)]
  BY ConcatProperties
<1>2. /\ Len(p \o t) = Len(p) + Len(t)
      /\ \A i \in 1..Len(p) + Len(t) : (p \o t)[i] = IF i <= Len(p) THEN p[i] ELSE t[i - Len(p)]
  BY ConcatProperties
<1>3. ASSUME NEW i \in 1..Len(p) + Len(c) PROVE (p \o c)[i] = (p \o t)[i]
  <2>1. i \in 1..Len(p) + Len(t) /\ (i > Len(p) => i - Len(p) \in 1..Len(c))
    BY <1>0
  <2> QED
    BY <1>0, <1>1, <1>2, <2>1
<1> QED
  BY <1>0, <1>1, <1>2, <1>3

-----------------------------------------------------------------------------
(* The inductive invariant.  For some b, the last publication taken from    *)
(* the connection: what is under way is b + 1, b + 2, ..., up to the last   *)
(* one sent while the connection lasts; what was fed ends with b's last     *)
(* item, or before it if the connection is new.                             *)

Line      == w.pending \o wire
LastOf(a) == a[Len(a)]
Continued == mark = Announced      \* an item was fed since the last announcement

Typed ==
    /\ srv.sent \in 0..Len(Contents)
    /\ wire \in Seq(Messages) /\ w.pending \in Seq(Messages) /\ w.items \in Seq(Nat)
    /\ \A i \in DOMAIN w.items : w.items[i] \in Items
    /\ fed \in Seq(Nat)
    /\ w.handshakes \in Nat /\ sub.resubs \in Nat /\ mark \in Nat
    /\ DOMAIN seen = {"got", "covered"} /\ seen.covered \in Nat /\ sub.latch \in BOOLEAN

Counts ==
    /\ mark <= Announced /\ (fed = <<>> => mark = 0)
    /\ w.pc \in {"check", "read", "deliver"} => w.handshakes > 0
    /\ w.handshakes = 0 => fed = <<>>
    /\ sub.done <=> w.pc \in {"close", "ended"}

\* The consumer will refresh, or its last refresh covers the item n.
Told(n) == sub.latch \/ n <= seen.covered

\* The items at hand, from the publication b.
Hand(b) ==
    /\ w.items # <<>>
    /\ \A i \in DOMAIN w.items : w.items[i] = w.items[1] + i - 1
    /\ LastOf(w.items) = LastItem(b)
    /\ fed # <<>> => LastOf(fed) < w.items[1]
    /\ Continued => fed # <<>> /\ w.items[1] = LastOf(fed) + 1
    /\ fed # <<>> => Continued \/ Told(w.items[1] - 1)

Between(b) ==
    /\ fed # <<>> => LastOf(fed) <= LastItem(b)
    /\ w.pc \in {"check", "read"} /\ Continued => fed # <<>> /\ LastOf(fed) = LastItem(b)
    /\ w.pc \in {"check", "read"} /\ fed # <<>> => Continued \/ Told(LastItem(b))

Tracks(b) ==
    /\ Chain(b, Line)
    /\ srv.on # "off" /\ ~lost => Reaches(b, Line, srv.sent)
    /\ IF w.pc = "deliver" THEN Hand(b) ELSE Between(b)

Stream ==
    /\ Upto(Line, srv.sent)
    /\ srv.on = "off" => Line = <<>>
    /\ \E b \in 0..srv.sent : Tracks(b)

RInv == Typed /\ Counts /\ Stream

LEMMA Numbers ==
    /\ Len(Contents) \in Nat
    /\ \A n \in 0..Len(Contents) : LastItem(n) \in Nat
    /\ \A m, n \in 0..Len(Contents) : m <= n => LastItem(m) <= LastItem(n)
    /\ \A p \in Pubs :
         /\ p - 1 \in 0..Len(Contents) /\ p \in 0..Len(Contents)
         /\ Contents[p] \in Seq(Nat) /\ Contents[p] # <<>>
         /\ \A i \in DOMAIN Contents[p] : Contents[p][i] = LastItem(p - 1) + i
         /\ LastOf(Contents[p]) = LastItem(p)
<1>1. Len(Contents) \in Nat /\ DOMAIN Contents = Pubs /\ Pubs = 1..Len(Contents)
      /\ \A p \in Pubs : Contents[p] \in Seq(Nat) /\ Contents[p] # <<>>
  BY Assumptions DEF Pubs
<1>2. \A p \in Pubs : LastItem(p) = Contents[p][Len(Contents[p])] /\ LastItem(p) \in Nat
  BY <1>1 DEF LastItem
<1>3. LastItem(0) = 0
  BY DEF LastItem
<1>4. \A n \in 0..Len(Contents) : n = 0 \/ n \in Pubs
  BY <1>1
<1>5. \A n \in 0..Len(Contents) : LastItem(n) \in Nat
  BY <1>2, <1>3, <1>4
<1>6. \A m, n \in 0..Len(Contents) : m <= n => LastItem(m) <= LastItem(n)
  <2> SUFFICES ASSUME NEW m \in 0..Len(Contents), NEW n \in 0..Len(Contents), m <= n
               PROVE  LastItem(m) <= LastItem(n)
    OBVIOUS
  <2>1. CASE n = 0
    BY <1>3, <2>1
  <2>2. CASE n \in Pubs
    BY <1>1, <2>2, Numbered
  <2> QED
    BY <1>4, <2>1, <2>2
<1>7. ASSUME NEW p \in Pubs
      PROVE  /\ p - 1 \in 0..Len(Contents) /\ p \in 0..Len(Contents)
             /\ Contents[p] \in Seq(Nat) /\ Contents[p] # <<>>
             /\ \A i \in DOMAIN Contents[p] : Contents[p][i] = LastItem(p - 1) + i
             /\ LastOf(Contents[p]) = LastItem(p)
  <2>1. p - 1 \in 0..Len(Contents) /\ p \in 0..Len(Contents)
    BY <1>1
  <2>2. \A i \in DOMAIN Contents[p] : Contents[p][i] = LastItem(p - 1) + i
    BY <1>1, Numbered
  <2> QED
    BY <1>1, <1>2, <2>1, <2>2 DEF LastOf
<1> QED
  BY <1>1, <1>5, <1>6, <1>7

LEMMA NonEmpty ==
    ASSUME NEW a \in Seq(Nat), a # <<>>
    PROVE  /\ 1 \in DOMAIN a /\ Len(a) \in DOMAIN a /\ Len(a) \in Nat /\ Len(a) >= 1
           /\ a[1] \in Nat /\ LastOf(a) \in Nat
BY DEF LastOf

\* What was fed lies before the items at hand, and those before b's end.
LEMMA AtHand ==
    ASSUME RInv, NEW b, Hand(b), fed # <<>>
    PROVE  LastOf(fed) \in Nat /\ LastItem(b) \in Nat /\ LastOf(fed) < LastItem(b)
<1>1. fed \in Seq(Nat) /\ w.items \in Seq(Nat) /\ w.items # <<>>
  BY DEF RInv, Typed, Hand
<1>2. LastOf(w.items) = w.items[1] + Len(w.items) - 1
  BY <1>1, NonEmpty DEF Hand, LastOf
<1> QED
  BY <1>1, <1>2, NonEmpty DEF Hand

\* Nothing is fed that was not published.
LEMMA FedSent ==
    ASSUME RInv, fed # <<>>
    PROVE  LastOf(fed) <= LastItem(srv.sent) /\ LastOf(fed) \in Nat
<1>1. PICK b \in 0..srv.sent : Tracks(b)
  BY DEF RInv, Stream
<1>2. b \in 0..Len(Contents) /\ srv.sent \in 0..Len(Contents) /\ b <= srv.sent
  BY Numbers DEF RInv, Typed
<1>3. LastItem(b) <= LastItem(srv.sent) /\ LastItem(b) \in Nat /\ LastItem(srv.sent) \in Nat
  BY <1>2, Numbers
<1>4. LastOf(fed) \in Nat
  BY NonEmpty DEF RInv, Typed
<1>5. CASE w.pc = "deliver"
  BY <1>1, <1>3, <1>5, AtHand DEF Tracks
<1>6. CASE w.pc # "deliver"
  BY <1>1, <1>3, <1>4, <1>6 DEF Tracks, Between
<1> QED
  BY <1>5, <1>6

\* Nothing is under way: between two connections, and when the server takes the
\* subscribe.
LEMMA StreamEmpty ==
    ASSUME RInv, UNCHANGED <<fed, mark>>, srv'.sent = srv.sent,
           w'.pending = <<>>, wire' = <<>>, w'.pc \notin {"check", "read", "deliver"}
    PROVE  Stream'
<1>1. Line' = <<>>
  BY DEF Line
<1>2. srv.sent \in 0..srv.sent
  BY Numbers DEF RInv, Typed
<1>3. Chain(srv.sent, Line') /\ Upto(Line', srv'.sent) /\ Reaches(srv.sent, Line', srv'.sent)
  BY <1>1, ChainNil DEF Reaches
<1>4. Between(srv.sent)'
  BY FedSent DEF Between, LastItem, LastOf
<1>5. Tracks(srv.sent)'
  BY <1>3, <1>4 DEF Tracks, Chain, Reaches
<1> QED
  BY <1>1, <1>2, <1>3, <1>5 DEF Stream, Upto

\* The connection is left alone.
LEMMA StreamStays ==
    ASSUME RInv, UNCHANGED <<wire, lost, fed, mark>>, srv'.sent = srv.sent, srv'.on = srv.on,
           w'.pending = w.pending, w'.pc # "deliver",
           w'.pc \in {"check", "read"} =>
                \/ w.pc \in {"check", "read"} /\ Continued' = Continued
                   /\ sub'.latch = sub.latch /\ seen' = seen
                \/ ~Continued' /\ (sub'.latch \/ fed = <<>>)
    PROVE  Stream'
<1>1. Line' = Line
  BY DEF Line
<1>2. PICK b \in 0..srv.sent : Tracks(b)
  BY DEF RInv, Stream
<1>3. Between(b)'
  <2>1. CASE w.pc # "deliver"
    BY <1>2, <2>1 DEF Tracks, Between, Told
  <2>2. CASE w.pc = "deliver"
    <3>1. fed # <<>> => LastOf(fed) <= LastItem(b)
      BY <1>2, <2>2, AtHand DEF Tracks
    <3> QED
      BY <2>2, <3>1 DEF Between, Told
  <2> QED
    BY <2>1, <2>2
<1>4. Tracks(b)'
  BY <1>1, <1>2, <1>3 DEF Tracks
<1> QED
  BY <1>1, <1>2, <1>4 DEF Stream, RInv

-----------------------------------------------------------------------------
(* Steps.  Each keeps the invariant and is a step of SignalledFeed or a    *)
(* stutter.                                                                *)

Inv == IInv /\ RInv

Ended == {"close", "ended"}

\* A step that feeds nothing, announces nothing and does not end.
LEMMA Quiet ==
    ASSUME Inv, Typed', Stream', UNCHANGED <<fed, mark>>,
           w'.handshakes = w.handshakes, sub'.resubs = sub.resubs, sub'.done = sub.done,
           w'.pc \in {"check", "read", "deliver"} => w.handshakes > 0,
           w'.pc \in Ended <=> w.pc \in Ended
    PROVE  RInv' /\ UNCHANGED Feed!vars
<1>1. Announced' = Announced
  BY DEF Announced
<1>2. Counts'
  BY <1>1 DEF Inv, RInv, Counts, Ended
<1> QED
  BY <1>1, <1>2 DEF RInv, Feed!vars

\* The worker leaves the connection.
LEMMA Drops ==
    ASSUME Inv, NEW why, Leave(why), UNCHANGED <<fed, mark, seen>>, sub'.latch = sub.latch,
           sub'.resubs = sub.resubs, sub'.done = sub.done, w.pc \notin Ended
    PROVE  RInv' /\ UNCHANGED Feed!vars
<1>1. /\ w'.pc = "left" /\ w'.pending = <<>> /\ w'.items = <<>> /\ wire' = <<>>
      /\ w'.handshakes = w.handshakes /\ srv'.sent = srv.sent
  BY DEF Leave, Inv, IInv, Fields
<1>2. Stream'
  BY <1>1, StreamEmpty DEF Inv
<1>3. Typed'
  BY <1>1 DEF Inv, RInv, Typed
<1> QED
  BY <1>1, <1>2, <1>3, Quiet DEF Ended

\* The worker moves on and leaves the connection alone.
LEMMA Goes ==
    ASSUME Inv, UNCHANGED <<wire, lost, fed, mark, seen>>, sub'.latch = sub.latch,
           srv'.sent = srv.sent, srv'.on = srv.on,
           w'.pending = w.pending, w'.items = w.items, w'.handshakes = w.handshakes,
           sub'.resubs = sub.resubs, sub'.done = sub.done,
           w'.pc # "deliver", w'.pc \in {"check", "read"} => w.pc \in {"check", "read"},
           w'.pc \in Ended <=> w.pc \in Ended
    PROVE  RInv' /\ UNCHANGED Feed!vars
<1>1. Announced' = Announced
  BY DEF Announced
<1>2. Stream'
  BY <1>1, StreamStays DEF Inv, Continued
<1>3. Typed'
  BY DEF Inv, RInv, Typed
<1> QED
  BY <1>2, <1>3, Quiet DEF Inv, RInv, Counts

\* The dial, the round of messages, and what follows a connection.
LEMMA Moves ==
    ASSUME Inv, Dial \/ SetupFails \/ Check \/ ReadFails \/ Left \/ AwaitResume
                \/ Backoff \/ FailLock \/ Tell
    PROVE  RInv' /\ UNCHANGED Feed!vars
<1>0. UNCHANGED <<fed, mark, seen>>
  BY DEF Dial, SetupFails, Check, ReadFails, Left, AwaitResume, Backoff, FailLock, Tell, hist
<1>1. CASE Dial
  <2>1. /\ w.pc = "top" /\ w'.pc \in {"setup", "finish"} /\ UNCHANGED <<wire, lost, sub>>
        /\ w'.pending = w.pending /\ w'.items = w.items /\ w'.handshakes = w.handshakes
        /\ srv'.sent = srv.sent /\ srv'.on = srv.on
    BY <1>1 DEF Dial, At, Inv, IInv, Fields
  <2> QED
    BY <1>0, <2>1, Goes DEF Ended
<1>2. CASE SetupFails \/ ReadFails
  <2>1. UNCHANGED sub /\ w.pc \notin Ended /\ \E why : Leave(why)
    BY <1>2 DEF SetupFails, ReadFails, At, Ended
  <2> QED
    BY <1>0, <2>1, Drops
<1>3. CASE Check
  <2>1. w.pc = "check" /\ UNCHANGED sub
    BY <1>3 DEF Check, At
  <2>2. CASE Leave("closed")
    BY <1>0, <2>1, <2>2, Drops DEF Ended
  <2>3. CASE w' = [w EXCEPT !.pc = "read"] /\ UNCHANGED <<srv, wire, lost>>
    <3>1. /\ w'.pc = "read" /\ w'.pending = w.pending /\ w'.items = w.items
          /\ w'.handshakes = w.handshakes
      BY <2>3 DEF Inv, IInv, Fields
    <3> QED
      BY <1>0, <2>1, <2>3, <3>1, Goes DEF Ended
  <2> QED
    BY <1>3, <2>2, <2>3 DEF Check
<1>4. CASE Left \/ AwaitResume \/ Backoff \/ FailLock
  <2>1. /\ w.pc \in {"left", "await", "backoff", "fail"} /\ UNCHANGED <<srv, wire, lost>>
        /\ sub'.resubs = sub.resubs /\ sub'.done = sub.done /\ sub'.latch = sub.latch
    BY <1>4 DEF Left, AwaitResume, Backoff, FailLock, At, Inv, IInv, Fields
  <2>2. /\ w'.pc \in {"finish", "fail", "await", "backoff", "top", "tell"}
        /\ w'.pending = w.pending /\ w'.items = w.items /\ w'.handshakes = w.handshakes
    <3>1. CASE Left
      <4>1. \/ \E reason, resume : Fail(reason, resume)
            \/ \E pc \in {"await", "backoff", "finish"} : \E resume : Go(pc, resume)
        BY <3>1 DEF Left
      <4> QED
        BY <4>1 DEF Fail, Go, Inv, IInv, Fields
    <3>2. CASE AwaitResume \/ Backoff \/ FailLock
      BY <3>2 DEF AwaitResume, Backoff, FailLock, Fail, Inv, IInv, Fields
    <3> QED
      BY <1>4, <3>1, <3>2
  <2> QED
    BY <1>0, <2>1, <2>2, Goes DEF Ended
<1>5. CASE Tell
  <2>1. w.pc = "tell" /\ sub'.resubs = sub.resubs /\ sub'.done = sub.done
        /\ sub'.latch = sub.latch
    BY <1>5 DEF Tell, At, Inv, IInv, Fields
  <2>2. CASE Leave("closed")
    BY <1>0, <2>1, <2>2, Drops DEF Ended
  <2>3. CASE w' = [w EXCEPT !.pc = "finish"] /\ UNCHANGED <<srv, wire, lost>>
    <3>1. /\ w'.pc = "finish" /\ w'.pending = w.pending /\ w'.items = w.items
          /\ w'.handshakes = w.handshakes
      BY <2>3 DEF Inv, IInv, Fields
    <3> QED
      BY <1>0, <2>1, <2>3, <3>1, Goes DEF Ended
  <2> QED
    BY <1>5, <2>2, <2>3 DEF Tell
<1> QED
  BY <1>1, <1>2, <1>3, <1>4, <1>5

\* Whoever else moves in the program, and the consumer.
LEMMA Others ==
    ASSUME Inv,
           \/ Return \/ SetOnError \/ Receive \/ TakeResubscribed \/ CancelCtx
           \/ \E p \in Closers : CloseBegins(p) \/ CloseCancels(p) \/ CloseReturns(p)
    PROVE  RInv' /\ UNCHANGED Feed!vars
<1>0. srv.sent \in 0..Len(Contents) /\ Len(Contents) \in Nat /\ LastItem(srv.sent) \in Nat
  BY Numbers DEF Inv, RInv, Typed
<1>1. /\ UNCHANGED <<srv, wire, lost, w, fed, mark>>
      /\ sub'.resubs = sub.resubs /\ sub'.done = sub.done
      /\ sub'.latch \in BOOLEAN /\ DOMAIN seen' = DOMAIN seen
      /\ \/ sub'.latch = sub.latch /\ seen'.covered = seen.covered
         \/ seen'.covered = LastItem(srv.sent)
  BY DEF Return, SetOnError, Receive, TakeResubscribed, CancelCtx, CloseBegins, CloseCancels,
         CloseReturns, hist, Inv, IInv, Fields, RInv, Typed
<1>2. Announced' = Announced
  BY <1>1 DEF Announced
<1>3. Typed' /\ Counts'
  BY <1>0, <1>1, <1>2 DEF Inv, RInv, Typed, Counts
<1>4. Stream'
  <2>1. PICK b \in 0..srv.sent : Tracks(b)
    BY DEF Inv, RInv, Stream
  <2>2. Line' = Line /\ Continued' = Continued
    BY <1>1, <1>2 DEF Line, Continued
  <2>3. LastItem(b) <= LastItem(srv.sent) /\ LastItem(b) \in Nat
    BY <1>0, <2>1, Numbers
  <2>4. \A n \in Int : n <= LastItem(b) /\ Told(n) => Told(n)'
    BY <1>0, <1>1, <2>3 DEF Told
  <2>5. Hand(b) => Hand(b)'
    <3>1. Hand(b) => w.items[1] - 1 \in Int /\ w.items[1] - 1 <= LastItem(b)
      <4> SUFFICES ASSUME Hand(b) PROVE w.items[1] - 1 \in Int /\ w.items[1] - 1 <= LastItem(b)
        OBVIOUS
      <4>1. w.items \in Seq(Nat) /\ w.items # <<>>
        BY DEF Hand, Inv, RInv, Typed
      <4>2. LastItem(b) = w.items[1] + Len(w.items) - 1
        BY <4>1, NonEmpty DEF Hand, LastOf
      <4> QED
        BY <4>1, <4>2, NonEmpty
    <3> QED
      BY <1>1, <2>2, <2>4, <3>1 DEF Hand
  <2>6. Between(b) => Between(b)'
    BY <1>1, <2>2, <2>3, <2>4 DEF Between
  <2>7. Tracks(b)'
    BY <1>1, <2>1, <2>2, <2>5, <2>6 DEF Tracks
  <2> QED
    BY <1>1, <2>1, <2>2, <2>7 DEF Inv, RInv, Stream
<1> QED
  BY <1>1, <1>2, <1>3, <1>4 DEF RInv, Feed!vars

\* The reply is awaited: what comes before it is held back.
LEMMA Confirmed ==
    ASSUME Inv, ReadReply
    PROVE  RInv' /\ UNCHANGED Feed!vars
<1>1. /\ w.pc = "setup" /\ wire # <<>> /\ UNCHANGED <<sub, fed, mark, seen>>
      /\ w.pending \in Seq(Messages) /\ wire \in Seq(Messages)
  BY DEF ReadReply, At, hist, Inv, RInv, Typed
<1>2. PICK b \in 0..srv.sent : Tracks(b)
  BY DEF Inv, RInv, Stream
<1>3. Line \in Seq(Messages) /\ Upto(Line, srv.sent) /\ Between(b) /\ Chain(b, Line)
  BY <1>1, <1>2, ConcatProperties DEF Line, Inv, RInv, Stream, Tracks
<1>4. CASE \E why : Leave(why)
  BY <1>1, <1>4, Drops DEF Ended
\* It is enough that the line is still b's.
<1>5. ASSUME w'.pc \in {"setup", "ready"}, w'.items = w.items, w'.handshakes = w.handshakes,
             UNCHANGED <<srv, lost>>, w'.pending \in Seq(Messages), wire' \in Seq(Messages),
             srv.on = "off" => Line = <<>> /\ Line' = <<>>,
             Chain(b, Line'), Upto(Line', srv.sent),
             Reaches(b, Line, srv.sent) => Reaches(b, Line', srv.sent)
      PROVE  RInv' /\ UNCHANGED Feed!vars
  <2>1. Typed'
    BY <1>1, <1>5 DEF Inv, RInv, Typed
  <2>2. Between(b)'
    BY <1>1, <1>3, <1>5 DEF Between
  <2>3. Tracks(b)'
    BY <1>1, <1>2, <1>5, <2>2 DEF Tracks
  <2>4. Stream'
    BY <1>2, <1>5, <2>3 DEF Stream
  <2> QED
    BY <1>1, <1>5, <2>1, <2>4, Quiet DEF Ended
<1>6. ASSUME ReadConfirmed, ~Leave("net") PROVE RInv' /\ UNCHANGED Feed!vars
  <2>1. PICK n \in 1..Len(wire) :
          /\ w' = [w EXCEPT !.pc = "ready", !.pending = w.pending \o SubSeq(wire, 2, n)]
          /\ wire' = SubSeq(wire, n + 1, Len(wire)) /\ UNCHANGED <<lost, srv>>
    BY <1>6 DEF ReadConfirmed
  <2>2. /\ w'.pc = "ready" /\ w'.items = w.items /\ w'.handshakes = w.handshakes
        /\ w'.pending = w.pending \o SubSeq(wire, 2, n)
    BY <2>1 DEF Inv, IInv, Fields
  <2>3. /\ w'.pending \in Seq(Messages) /\ wire' \in Seq(Messages)
        /\ Line' = w.pending \o Tail(wire)
    BY <1>1, <2>1, <2>2, LineConfirmed DEF Line
  <2>4. Tail(wire) \in Seq(Messages) /\ Len(Tail(wire)) = Len(wire) - 1
        /\ \A i \in 1..Len(Tail(wire)) : Tail(wire)[i] = wire[i + 1]
    BY <1>1, HeadTailProperties
  <2> DEFINE j == Len(w.pending) + 1
  <2>5. /\ Line' \in Seq(Messages)
        /\ Len(Line') + 1 = Len(Line) /\ j \in 1..Len(Line) /\ Line[j] = wire[1]
        /\ \A i \in 1..Len(Line') : Line'[i] = IF i < j THEN Line[i] ELSE Line[i + 1]
    <3>1. PICK u : u = Tail(wire)
      OBVIOUS
    <3>2. u \in Seq(Messages) /\ Len(u) = Len(wire) - 1 /\ \A i \in 1..Len(u) : u[i] = wire[i + 1]
      BY <2>4, <3>1
    <3>3. Line' = w.pending \o u /\ Line = w.pending \o wire
      BY <2>3, <3>1 DEF Line
    <3>4. PICK p \in Seq(Messages), t \in Seq(Messages) : p = w.pending /\ t = wire
      BY <1>1
    <3>5. /\ p \o u \in Seq(Messages) /\ Len(p \o u) + 1 = Len(p \o t)
          /\ Len(p) + 1 \in 1..Len(p \o t) /\ (p \o t)[Len(p) + 1] = t[1]
          /\ \A i \in 1..Len(p \o u) :
               (p \o u)[i] = IF i < Len(p) + 1 THEN (p \o t)[i] ELSE (p \o t)[i + 1]
      <4>1. t # <<>> /\ Len(u) = Len(t) - 1 /\ \A i \in 1..Len(u) : u[i] = t[i + 1]
        BY <1>1, <3>2, <3>4
      <4> QED
        BY <3>2, <4>1, LineWithout
    <3> QED
      BY <3>3, <3>4, <3>5
  <2> HIDE DEF j
  <2>6. Line[j] \in Controls
    BY <1>1, <1>6, <2>5 DEF ReadConfirmed, Controls
  <2>7. srv.on # "off"
    BY <1>3, <2>5 DEF Inv, RInv, Stream
  <2>8. b \in Nat
    BY <1>2 DEF Inv, RInv, Typed
  <2>9. /\ Chain(b, Line') /\ Upto(Line', srv.sent)
        /\ Reaches(b, Line, srv.sent) => Reaches(b, Line', srv.sent)
    BY <1>3, <2>5, <2>6, <2>8, ChainDrop
  <2> QED
    BY <1>5, <2>1, <2>2, <2>3, <2>7, <2>9
<1>7. CASE HoldBack(Head(wire)) /\ ~Leave("net")
  <2>1. /\ w' = [w EXCEPT !.pending = Append(@, Head(wire))]
        /\ wire' = Tail(wire) /\ UNCHANGED <<lost, srv>>
    BY <1>7 DEF HoldBack
  <2>2. /\ w'.pc = "setup" /\ w'.items = w.items /\ w'.handshakes = w.handshakes
        /\ w'.pending = Append(w.pending, Head(wire))
    BY <1>1, <2>1 DEF Inv, IInv, Fields
  <2>3. Line' = Line /\ w'.pending \in Seq(Messages) /\ wire' \in Seq(Messages)
    BY <1>1, <2>1, <2>2, LineHeld, HeadTailProperties, AppendProperties DEF Line
  <2> QED
    BY <1>2, <1>3, <1>5, <2>1, <2>2, <2>3 DEF Inv, RInv, Stream
<1> QED
  BY <1>4, <1>6, <1>7 DEF ReadReply

\* onReady announces.
LEMMA Announces ==
    ASSUME Inv, Ready
    PROVE  RInv' /\ Feed!Announce
<1>1. /\ w.pc = "ready" /\ w'.pc = "check" /\ UNCHANGED <<srv, wire, lost, fed, mark, seen>>
      /\ w'.pending = w.pending /\ w'.items = w.items /\ sub'.done = sub.done
      /\ w'.handshakes = w.handshakes + 1
      /\ sub'.resubs = IF w.handshakes = 0 THEN sub.resubs ELSE sub.resubs + 1
  BY DEF Ready, First, At, hist, Inv, IInv, Fields, RInv, Typed
<1>2. sub'.latch \in BOOLEAN /\ (w.handshakes # 0 => sub'.latch)
  <2>1. sub'.latch = (sub.latch \/ ~First(w.handshakes + 1))
    BY DEF Ready, Inv, IInv, Fields
  <2>2. w.handshakes # 0 => ~First(w.handshakes + 1)
    BY DEF First, Inv, RInv, Typed
  <2> QED
    BY <2>1, <2>2
<1>3. mark <= Announced /\ mark \in Nat /\ sub.resubs \in Nat /\ w.handshakes \in Nat
      /\ ~sub.done
  BY <1>1 DEF Inv, RInv, Counts, Typed
<1>4. Announced \in Nat /\ Announced' \in Nat /\ Announced < Announced'
  BY <1>1, <1>3 DEF Announced
<1>5. mark' # Announced' /\ mark' <= Announced'
  BY <1>1, <1>3, <1>4
<1>6. Typed' /\ Counts'
  BY <1>1, <1>5, <1>2 DEF Inv, RInv, Typed, Counts
<1>7. sub'.latch \/ fed = <<>>
  BY <1>2 DEF Inv, RInv, Counts
<1>8. Stream'
  BY <1>1, <1>5, <1>7, StreamStays DEF Continued, Inv
<1> QED
  BY <1>1, <1>3, <1>5, <1>6, <1>8 DEF RInv, Feed!Announce

\* The next message: the items of the publication that follows.
LEMMA Takes ==
    ASSUME Inv, Take
    PROVE  RInv' /\ UNCHANGED Feed!vars
<1>1. /\ w.pc = "read" /\ UNCHANGED <<sub, fed, mark, seen>> /\ Line # <<>>
      /\ w.pending \in Seq(Messages) /\ wire \in Seq(Messages)
  BY DEF Take, At, hist, Line, Inv, RInv, Typed
<1>2. CASE Leave(Ends(Head(Line)))
  BY <1>1, <1>2, Drops DEF Ended
<1>3. CASE ~Leave(Ends(Head(Line)))
  <2> DEFINE message == Head(Line)
  <2>1. /\ message.kind = "pub"
        /\ w' = [w EXCEPT !.pc = "deliver", !.items = Contents[message.pub],
                          !.pending = IF @ = <<>> THEN @ ELSE Tail(@)]
        /\ wire' = IF w.pending = <<>> THEN Tail(wire) ELSE wire
        /\ UNCHANGED <<srv, lost>>
    BY <1>3 DEF Take, Decodes, Line
  <2>2. /\ Line \in Seq(Messages)
        /\ IF w.pending = <<>> THEN wire # <<>> /\ Head(Line) = Head(wire) /\ Tail(Line) = Tail(wire)
           ELSE Tail(w.pending) \in Seq(Messages) /\ Tail(Line) = Tail(w.pending) \o wire
    BY <1>1, LineTaken DEF Line
  <2>3. PICK q \in Pubs : message = Pub(q)
    <3>1. message \in Messages
      BY <1>1, <2>2, HeadTailProperties
    <3> QED
      BY <2>1, <3>1 DEF Messages, Final, Temp, Reply, Junk
  <2>4. /\ w'.pc = "deliver" /\ w'.items = Contents[q] /\ w'.handshakes = w.handshakes
        /\ w'.pending = IF w.pending = <<>> THEN <<>> ELSE Tail(w.pending)
        /\ wire' = IF w.pending = <<>> THEN Tail(wire) ELSE wire
        /\ srv' = srv /\ lost' = lost
    BY <2>1, <2>3 DEF Pub, Inv, IInv, Fields
  <2>5. w'.pending \in Seq(Messages) /\ wire' \in Seq(Messages) /\ Line' = Tail(Line)
    <3>1. CASE w.pending = <<>>
      <4>1. wire # <<>> /\ Tail(Line) = Tail(wire) /\ w'.pending = <<>> /\ wire' = Tail(wire)
        BY <2>2, <2>4, <3>1
      <4>2. Tail(wire) \in Seq(Messages)
        BY <1>1, <4>1, HeadTailProperties
      <4>3. <<>> \o Tail(wire) = Tail(wire)
        BY <4>2, ConcatEmptySeq
      <4> QED
        BY <4>1, <4>2, <4>3 DEF Line
    <3>2. CASE w.pending # <<>>
      <4>1. Tail(w.pending) \in Seq(Messages) /\ Tail(Line) = Tail(w.pending) \o wire
            /\ w'.pending = Tail(w.pending) /\ wire' = wire
        BY <2>2, <2>4, <3>2
      <4> QED
        BY <1>1, <4>1 DEF Line
    <3> QED
      BY <3>1, <3>2
  <2>7. PICK b \in 0..srv.sent : Tracks(b)
    BY DEF Inv, RInv, Stream
  <2>8. /\ Chain(b, Line) /\ Upto(Line, srv.sent) /\ Between(b) /\ b \in Nat
        /\ srv.sent \in 0..Len(Contents) /\ srv.sent \in Nat
        /\ srv.on # "off" /\ ~lost => Reaches(b, Line, srv.sent)
    BY <1>1, <2>7, Numbers DEF Tracks, Inv, RInv, Stream, Typed
  <2>9. /\ q = b + 1 /\ q <= srv.sent /\ Chain(q, Line') /\ Upto(Line', srv.sent)
        /\ Reaches(b, Line, srv.sent) => Reaches(q, Line', srv.sent)
    BY <1>1, <2>2, <2>3, <2>5, <2>8, ChainTail, Z3
  <2>10. /\ Contents[q] \in Seq(Nat) /\ Contents[q] # <<>> /\ LastItem(b) \in Nat
         /\ \A i \in DOMAIN Contents[q] : Contents[q][i] = LastItem(b) + i
         /\ LastOf(Contents[q]) = LastItem(q)
    BY <2>8, <2>9, Numbers
  <2>11. Typed'
    <3>1. \A i \in DOMAIN Contents[q] : Contents[q][i] \in Items
      BY DEF Items
    <3> QED
      BY <1>1, <2>4, <2>5, <2>10, <3>1 DEF Inv, RInv, Typed
  <2>12. Announced' = Announced
    BY <1>1, <2>4 DEF Announced
  <2>13. Hand(q)'
    <3>1. w'.items[1] = LastItem(b) + 1
      BY <2>4, <2>10, NonEmpty
    <3>2. fed # <<>> => LastOf(fed) \in Nat /\ LastOf(fed) <= LastItem(b)
      BY <2>8, NonEmpty DEF Between, Inv, RInv, Typed
    <3>3. Continued' => fed # <<>> /\ LastOf(fed) = LastItem(b)
      BY <1>1, <2>8, <2>12 DEF Between, Continued
    <3>4. LastOf(fed)' = LastOf(fed) /\ LastOf(w'.items) = LastItem(q)
      BY <1>1, <2>4, <2>10 DEF LastOf
    <3>5. \A i \in DOMAIN w'.items : w'.items[i] = w'.items[1] + i - 1
      BY <2>4, <2>10, <3>1
    <3>6. /\ w'.items # <<>>
          /\ fed' # <<>> => LastOf(fed)' < w'.items[1]
          /\ Continued' => fed' # <<>> /\ w'.items[1] = LastOf(fed)' + 1
      BY <1>1, <2>4, <2>10, <3>1, <3>2, <3>3, <3>4
    <3>7. fed' # <<>> => Continued' \/ Told(w.items[1] - 1)'
      <4>1. w'.items[1] - 1 = LastItem(b)
        BY <2>10, <3>1
      <4>2. fed # <<>> => Continued \/ Told(LastItem(b))
        BY <1>1, <2>8 DEF Between
      <4> QED
        BY <1>1, <2>12, <4>1, <4>2 DEF Told, Continued
    <3> QED
      BY <3>4, <3>5, <3>6, <3>7 DEF Hand, LastOf
  <2>14. Stream'
    <3>1. q \in 0..srv'.sent
      BY <2>4, <2>8, <2>9
    <3>2. Tracks(q)'
      BY <2>4, <2>8, <2>9, <2>13 DEF Tracks
    <3>3. srv.on # "off"
      BY <1>1 DEF Inv, RInv, Stream
    <3> QED
      BY <2>4, <2>9, <3>1, <3>2, <3>3 DEF Stream
  <2> QED
    BY <1>1, <2>4, <2>11, <2>14, Quiet DEF Inv, RInv, Counts, Ended
<1> QED
  BY <1>2, <1>3

\* An item enters the queue, is refused by a closed subscription, or overflows it.
LEMMA Delivers ==
    ASSUME Inv, Enqueue
    PROVE  RInv' /\ (UNCHANGED Feed!vars \/ \E item \in Items : Feed!Deliver(item))
<1>1. w.pc = "deliver" /\ w.handshakes > 0 /\ ~sub.done /\ seen' = seen
  BY DEF Enqueue, At, Inv, RInv, Counts
<1>2. CASE sub.closed /\ Leave("closed") /\ UNCHANGED <<sub, queue, hist>>
  BY <1>1, <1>2, Drops DEF Ended, hist
<1>3. CASE Overflow /\ UNCHANGED <<queue, hist, srv, wire, lost>>
  <2>1. /\ w'.pc = "tell" /\ w'.pending = w.pending /\ w'.items = w.items
        /\ w'.handshakes = w.handshakes /\ sub'.resubs = sub.resubs /\ sub'.done = sub.done
        /\ sub'.latch = sub.latch
    BY <1>3 DEF Overflow, Inv, IInv, Fields
  <2> QED
    BY <1>1, <1>3, <2>1, Goes DEF Ended, hist
<1>4. CASE /\ fed' = Append(fed, Head(w.items)) /\ mark' = Announced
           /\ w' = ItemDone /\ UNCHANGED <<sub, srv, wire, lost>>
  <2>1. PICK b \in 0..srv.sent : Tracks(b)
    BY DEF Inv, RInv, Stream
  <2>2. /\ Chain(b, Line) /\ Hand(b)
        /\ srv.on # "off" /\ ~lost => Reaches(b, Line, srv.sent)
    BY <1>1, <2>1 DEF Tracks
  <2>3. /\ w.items \in Seq(Nat) /\ w.items # <<>> /\ fed \in Seq(Nat)
        /\ \A i \in DOMAIN w.items : w.items[i] \in Items
    BY <2>2 DEF Hand, Inv, RInv, Typed
  <2>4. /\ w'.items = Tail(w.items) /\ w'.pending = w.pending /\ w'.handshakes = w.handshakes
        /\ w'.pc = IF Len(w.items) > 1 THEN "deliver" ELSE IF w.pending = <<>> THEN "check" ELSE "read"
    BY <1>1, <1>4 DEF ItemDone, Inv, IInv, Fields
  <2> DEFINE item == w.items[1]
  <2>5. /\ item \in Nat /\ item \in Items /\ Head(w.items) = item
        /\ Len(w.items) \in Nat /\ Len(w.items) >= 1
    BY <2>3, NonEmpty
  <2>6. fed' \in Seq(Nat) /\ fed' # <<>> /\ LastOf(fed)' = item /\ fed' = Append(fed, item)
    <3>1. fed' = Append(fed, item)
      BY <1>4, <2>5
    <3>2. fed' \in Seq(Nat) /\ Len(fed') = Len(fed) + 1 /\ fed'[Len(fed) + 1] = item
          /\ fed' # <<>>
      BY <2>3, <2>5, <3>1, AppendProperties
    <3> QED
      BY <3>1, <3>2 DEF LastOf
  <2>7. /\ w'.items \in Seq(Nat) /\ Len(w'.items) = Len(w.items) - 1
        /\ \A i \in 1..Len(w'.items) : w'.items[i] = w.items[i + 1]
    BY <2>3, <2>4, HeadTailProperties
  <2>8. Announced' = Announced /\ mark' = Announced /\ Continued' /\ Announced \in Nat
    <3>1. Announced' = Announced /\ mark' = Announced
      BY <1>4, <2>4 DEF Announced
    <3>2. w.handshakes \in Nat /\ sub.resubs \in Nat
      BY DEF Inv, RInv, Typed
    <3> QED
      BY <3>1, <3>2 DEF Announced, Continued
  <2>9. Line' = Line
    BY <1>4, <2>4 DEF Line
  <2>10. Typed'
    <3>1. \A i \in DOMAIN w'.items : w'.items[i] \in Items
      <4>1. DOMAIN w'.items = 1..Len(w'.items) /\ DOMAIN w.items = 1..Len(w.items)
        BY <2>3, <2>7
      <4>2. \A i \in 1..Len(w'.items) : i + 1 \in 1..Len(w.items)
        BY <2>5, <2>7
      <4> QED
        BY <2>3, <2>7, <4>1, <4>2
    <3> QED
      BY <1>1, <1>4, <2>4, <2>6, <2>7, <2>8, <3>1 DEF Inv, RInv, Typed
  <2>11. Counts'
    BY <1>1, <1>4, <2>4, <2>6, <2>8 DEF Inv, RInv, Counts
  <2>12. \A i \in 1..Len(w.items) : w.items[i] = item + i - 1
    BY <2>2, <2>3 DEF Hand
  <2>13. LastOf(w.items) = LastItem(b) /\ LastOf(w.items) = item + Len(w.items) - 1
    BY <2>2, <2>5, <2>12 DEF Hand, LastOf
  <2>14. IF w'.pc = "deliver" THEN Hand(b)' ELSE Between(b)'
    <3>1. CASE Len(w.items) > 1
      <4>1. w'.items # <<>> /\ w'.items[1] = item + 1 /\ Len(w'.items) \in Nat
            /\ Len(w'.items) >= 1
        BY <2>5, <2>7, <2>12, <3>1
      <4>2. \A i \in 1..Len(w'.items) : w'.items[i] = w'.items[1] + i - 1
        BY <2>5, <2>7, <2>12, <4>1
      <4>3. LastOf(w'.items) = LastItem(b)
        <5>1. w'.items[Len(w'.items)] = w'.items[1] + Len(w'.items) - 1
          BY <4>1, <4>2
        <5>2. w'.items[1] + Len(w'.items) - 1 = item + Len(w.items) - 1
          <6>1. \A k, n \in Nat : (k + 1) + (n - 1) - 1 = k + n - 1
            OBVIOUS
          <6> QED
            BY <2>5, <2>7, <4>1, <6>1
        <5> QED
          BY <2>13, <5>1, <5>2 DEF LastOf
      <4>4. DOMAIN w'.items = 1..Len(w'.items)
        BY <2>7
      <4>5. w'.pc = "deliver"
        BY <2>4, <3>1
      <4>6. Hand(b)'
        BY <2>5, <2>6, <2>8, <4>1, <4>2, <4>3, <4>4 DEF Hand, LastOf
      <4> QED
        BY <4>5, <4>6
    <3>2. CASE Len(w.items) = 1
      <4>1. w'.pc \in {"check", "read"} /\ LastItem(b) = item
        BY <2>4, <2>5, <2>13, <3>2
      <4> QED
        BY <2>5, <2>6, <2>8, <4>1 DEF Between, LastOf
    <3>3. Len(w.items) > 1 \/ Len(w.items) = 1
      <4>1. \A n \in Nat : n >= 1 => n > 1 \/ n = 1
        OBVIOUS
      <4> QED
        BY <2>5, <4>1
    <3> QED
      BY <3>1, <3>2, <3>3
  <2>15. Stream'
    <3>1. Tracks(b)'
      BY <1>4, <2>2, <2>9, <2>14 DEF Tracks
    <3>2. /\ Upto(Line', srv'.sent) /\ b \in 0..srv'.sent
          /\ srv'.on = "off" => Line' = <<>>
      BY <1>4, <2>1, <2>9 DEF Inv, RInv, Stream
    <3> QED
      BY <3>1, <3>2 DEF Stream
  <2>16. Feed!Deliver(item)
    <3>1. fed # <<>> => LastOf(fed) < item /\ LastOf(fed) \in Nat
      BY <2>2, <2>3, NonEmpty DEF Hand
    <3>2. Announced = mark => fed # <<>> /\ item = LastOf(fed) + 1
      BY <2>2 DEF Hand, Continued
    <3>3. sub'.done = sub.done
      BY <1>4
    <3> QED
      BY <1>1, <2>5, <2>6, <2>8, <3>1, <3>2, <3>3 DEF Feed!Deliver, LastOf
  <2> QED
    BY <2>5, <2>10, <2>11, <2>15, <2>16 DEF RInv
<1> QED
  BY <1>2, <1>3, <1>4 DEF Enqueue, hist

\* The worker's end.
LEMMA Finishes ==
    ASSUME Inv, Finish
    PROVE  RInv' /\ (UNCHANGED Feed!vars \/ Feed!End)
<1>1. /\ UNCHANGED <<srv, wire, lost, fed, mark, seen>>
      /\ w'.pending = w.pending /\ w'.items = w.items /\ w'.handshakes = w.handshakes
      /\ sub'.resubs = sub.resubs /\ sub'.latch = sub.latch
      /\ \/ w.pc = "finish" /\ w'.pc = "close" /\ sub'.done = TRUE
         \/ w.pc = "close" /\ w'.pc = "ended" /\ sub'.done = sub.done
  BY DEF Finish, At, hist, Inv, IInv, Fields
<1>2. Announced' = Announced
  BY <1>1 DEF Announced
<1>3. Typed' /\ Counts'
  BY <1>1, <1>2 DEF Inv, RInv, Typed, Counts
<1>4. Stream'
  BY <1>1, StreamStays DEF Inv
<1> QED
  BY <1>1, <1>2, <1>3, <1>4 DEF RInv, Feed!vars, Feed!End

\* The server sends, takes the subscribe, or loses the connection.
LEMMA Serves ==
    ASSUME Inv, Server
    PROVE  RInv' /\ UNCHANGED Feed!vars
<1>1. UNCHANGED <<w, sub, fed, mark, seen>>
  BY DEF Server, hist
<1>2. Announced' = Announced /\ Continued' = Continued /\ Counts'
  BY <1>1 DEF Announced, Continued, Inv, RInv, Counts
<1> SUFFICES RInv'
  BY <1>1, <1>2 DEF Feed!vars
<1>3. PICK b \in 0..srv.sent : Tracks(b)
  BY DEF Inv, RInv, Stream
<1>4. /\ w.pending \in Seq(Messages) /\ wire \in Seq(Messages) /\ Line \in Seq(Messages)
      /\ srv.sent \in Nat /\ srv.sent \in 0..Len(Contents) /\ Len(Contents) \in Nat
      /\ b \in Nat /\ b <= srv.sent
      /\ Chain(b, Line) /\ Upto(Line, srv.sent) /\ (srv.on = "off" => Line = <<>>)
      /\ srv.on # "off" /\ ~lost => Reaches(b, Line, srv.sent)
  BY <1>3, Numbers, ConcatProperties DEF Line, Tracks, Inv, RInv, Typed, Stream
<1>5. \A c : Hand(c)' = Hand(c) /\ Between(c)' = Between(c)
  BY <1>1, <1>2 DEF Hand, Between, Told
\* What has to be shown of the line.
<1>6. ASSUME wire' \in Seq(Messages), srv'.sent \in 0..Len(Contents), srv.sent <= srv'.sent,
             Upto(Line', srv'.sent), srv'.on = "off" => Line' = <<>>,
             Chain(b, Line'), srv'.on # "off" /\ ~lost' => Reaches(b, Line', srv'.sent)
      PROVE  RInv'
  <2>1. Typed'
    BY <1>1, <1>6 DEF Inv, RInv, Typed
  <2>2. Tracks(b)'
    BY <1>1, <1>3, <1>5, <1>6 DEF Tracks
  <2>3. b \in 0..srv'.sent
    BY <1>4, <1>6
  <2>4. Stream'
    BY <1>6, <2>2, <2>3 DEF Stream
  <2> QED
    BY <1>2, <2>1, <2>4 DEF RInv
\* Another message behind the others.
<1>7. ASSUME NEW m \in Messages, wire' = Append(wire, m)
      PROVE  wire' \in Seq(Messages) /\ Line' = Append(Line, m)
  <2>1. Append(wire, m) \in Seq(Messages)
    BY <1>4, AppendProperties
  <2>2. w.pending \o Append(wire, m) = Append(w.pending \o wire, m)
    BY <1>4, LineGrows
  <2> QED
    BY <1>1, <1>7, <2>1, <2>2 DEF Line
<1>8. CASE Publish
  <2>1. /\ srv.sent < Len(Contents) /\ srv'.sent = srv.sent + 1 /\ srv'.on = srv.on
        /\ lost' = lost
        /\ wire' = IF srv.on = "off" \/ lost THEN wire ELSE Append(wire, Pub(srv.sent + 1))
    BY <1>8 DEF Publish, Inv, IInv, Fields
  <2>2. srv.sent + 1 \in Pubs /\ srv'.sent \in 0..Len(Contents) /\ srv.sent <= srv'.sent
    BY <1>4, <2>1 DEF Pubs
  <2>3. CASE srv.on = "off" \/ lost
    <3>1. Line' = Line /\ wire' = wire
      BY <1>1, <2>1, <2>3 DEF Line
    <3>2. Upto(Line, srv'.sent)
      <4>1. \A q \in Pubs : q <= srv.sent => q <= srv'.sent
        BY <1>4, <2>1, Kinds
      <4> QED
        BY <1>4, <4>1 DEF Upto
    <3> QED
      BY <1>4, <1>6, <2>1, <2>2, <2>3, <3>1, <3>2
  <2>4. CASE srv.on # "off" /\ ~lost
    <3>1. Pub(srv.sent + 1) \in Messages
      BY <2>2 DEF Messages
    <3>2. wire' \in Seq(Messages) /\ Line' = Append(Line, Pub(srv.sent + 1))
      BY <1>7, <2>1, <2>4, <3>1
    <3>3. /\ Chain(b, Append(Line, Pub(srv.sent + 1)))
          /\ Upto(Append(Line, Pub(srv.sent + 1)), srv.sent + 1)
          /\ Reaches(b, Append(Line, Pub(srv.sent + 1)), srv.sent + 1)
      BY <1>4, <2>2, <2>4, ChainPub
    <3> QED
      BY <1>6, <2>1, <2>2, <2>4, <3>2, <3>3
  <2> QED
    BY <2>3, <2>4
<1>9. CASE Subscribe
  <2>1. /\ w.pc = "setup" /\ UNCHANGED <<wire, lost>> /\ srv.on = "off" /\ srv'.sent = srv.sent
    BY <1>9 DEF Subscribe, At, Inv, IInv, Fields
  <2>2. Line = <<>> /\ w.pending = <<>> /\ wire = <<>>
    BY <1>4, <2>1, ConcatEqualIffEmpty DEF Line
  <2>3. Stream'
    BY <1>1, <2>1, <2>2, StreamEmpty DEF Inv
  <2>4. Typed'
    BY <1>1, <2>1 DEF Inv, RInv, Typed
  <2> QED
    BY <1>2, <2>3, <2>4 DEF RInv
\* A reply, an unsubscribe, or junk.
<1>10. ASSUME NEW m \in Controls, wire' = Append(wire, m), srv.on # "off", srv'.on # "off",
              srv'.sent = srv.sent, lost' = lost
       PROVE  RInv'
  <2>1. m \in Messages
    BY Kinds
  <2>2. wire' \in Seq(Messages) /\ Line' = Append(Line, m)
    BY <1>7, <1>10, <2>1
  <2>3. /\ Chain(b, Append(Line, m)) /\ Upto(Append(Line, m), srv.sent)
        /\ Reaches(b, Line, srv.sent) => Reaches(b, Append(Line, m), srv.sent)
    BY <1>4, ChainControl
  <2> QED
    BY <1>4, <1>6, <1>10, <2>2, <2>3
<1>11. CASE Confirm
  <2>1. /\ wire' = Append(wire, Reply) /\ srv.on # "off" /\ srv'.on # "off"
        /\ srv'.sent = srv.sent /\ lost' = lost /\ Reply \in Controls
    BY <1>11 DEF Confirm, Controls, Inv, IInv, Fields
  <2> QED
    BY <1>10, <2>1
<1>12. CASE Disturb
  <2>1. /\ srv'.on # "off" /\ srv'.sent = srv.sent /\ lost' = lost
        /\ \E m \in Controls : wire' = Append(wire, m) /\ srv.on # "off"
    BY <1>12 DEF Disturb, Controls, Inv, IInv, Fields
  <2> QED
    BY <1>10, <2>1
<1>13. CASE Lose
  <2>1. PICK n \in 0..Len(wire) : wire' = SubSeq(wire, 1, n)
    BY <1>13 DEF Lose
  <2>2. lost' /\ srv'.on = "ended" /\ srv'.sent = srv.sent
    BY <1>13 DEF Lose, Inv, IInv, Fields
  <2>3. /\ wire' \in Seq(Messages) /\ Len(wire') = n /\ n \in Nat /\ n <= Len(wire)
        /\ \A i \in 1..n : wire'[i] = wire[i]
    BY <1>4, <2>1
  <2>4. PICK c, t, p \in Seq(Messages) : c = wire' /\ t = wire /\ p = w.pending
    BY <1>4, <2>3
  <2>5. /\ p \o c \in Seq(Messages) /\ Len(p \o c) <= Len(p \o t)
        /\ \A i \in 1..Len(p \o c) : (p \o c)[i] = (p \o t)[i]
    <3>1. Len(c) <= Len(t) /\ \A i \in 1..Len(c) : c[i] = t[i]
      BY <2>3, <2>4
    <3>2. c \in Seq(Messages) /\ t \in Seq(Messages) /\ p \in Seq(Messages)
      BY <2>4
    <3> QED
      BY <3>1, <3>2, LineCut
  <2>6. Line' = p \o c /\ Line = p \o t
    BY <1>1, <2>4 DEF Line
  <2>7. Chain(b, Line') /\ Upto(Line', srv.sent)
    BY <1>4, <2>5, <2>6, ChainPrefix
  <2> QED
    BY <1>4, <1>6, <2>2, <2>3, <2>7
<1> QED
  BY <1>8, <1>9, <1>11, <1>12, <1>13 DEF Server

LEMMA Opens == Init => RInv /\ Feed!Init
<1> SUFFICES ASSUME Init PROVE RInv /\ Feed!Init
  OBVIOUS
<1>1. /\ srv.sent = 0 /\ srv.on = "off" /\ wire = <<>> /\ fed = <<>> /\ mark = 0
      /\ w.pending = <<>> /\ w.items = <<>> /\ w.pc = "top" /\ w.handshakes = 0
      /\ sub.resubs = 0 /\ sub.done = FALSE /\ sub.latch \in BOOLEAN
      /\ DOMAIN seen = {"got", "covered"} /\ seen.covered = 0
  BY DEF Init
<1>2. Announced = 0 /\ Line = <<>>
  BY <1>1 DEF Announced, Line
<1>3. Typed
  <2>1. DOMAIN seen = {"got", "covered"} /\ seen.covered \in Nat /\ sub.latch \in BOOLEAN
    BY <1>1
  <2>2. <<>> \in Seq(Messages) /\ <<>> \in Seq(Nat) /\ srv.sent \in 0..Len(Contents)
    BY <1>1, Numbers
  <2>3. \A i \in DOMAIN w.items : w.items[i] \in Items
    BY <1>1
  <2> QED
    BY <1>1, <2>1, <2>2, <2>3 DEF Typed
<1>4. Counts
  BY <1>1, <1>2 DEF Counts
<1>5. Tracks(0)
  BY <1>1, <1>2 DEF Tracks, Chain, Between
<1>6. Stream
  BY <1>1, <1>2, <1>5 DEF Stream, Upto
<1> QED
  BY <1>1, <1>2, <1>3, <1>6, <1>4 DEF RInv, Feed!Init

LEMMA Refines == IInv /\ RInv /\ [Next]_vars => RInv' /\ [Feed!Next]_(Feed!vars)
<1> SUFFICES ASSUME Inv, [Next]_vars PROVE RInv' /\ [Feed!Next]_(Feed!vars)
  BY DEF Inv
<1>1. CASE UNCHANGED vars
  <2>1. UNCHANGED <<srv, wire, lost, w, sub, fed, mark, seen>>
    BY <1>1 DEF vars
  <2>2. Announced' = Announced /\ Line' = Line
    BY <2>1 DEF Announced, Line
  <2>3. Stream'
    <3>1. PICK b \in 0..srv.sent : Tracks(b)
      BY DEF Inv, RInv, Stream
    <3>2. Hand(b)' = Hand(b) /\ Between(b)' = Between(b)
      BY <2>1, <2>2 DEF Hand, Between, Continued, Told
    <3>3. Tracks(b)'
      BY <2>1, <2>2, <3>1, <3>2 DEF Tracks
    <3> QED
      BY <2>1, <2>2, <3>1, <3>3 DEF Inv, RInv, Stream
  <2> QED
    BY <2>1, <2>2, <2>3 DEF Inv, RInv, Typed, Counts, Feed!vars
<1>2. CASE Dial \/ SetupFails \/ Check \/ ReadFails \/ Left \/ AwaitResume
           \/ Backoff \/ FailLock \/ Tell
  BY <1>2, Moves
<1>3. CASE ReadReply
  BY <1>3, Confirmed
<1>4. CASE Ready
  BY <1>4, Announces DEF Feed!Next
<1>5. CASE Take
  BY <1>5, Takes
<1>6. CASE Enqueue
  BY <1>6, Delivers DEF Feed!Next
<1>7. CASE Finish
  BY <1>7, Finishes DEF Feed!Next
<1>8. CASE \/ Return \/ SetOnError \/ Receive \/ TakeResubscribed \/ CancelCtx
           \/ \E p \in Closers : CloseBegins(p) \/ CloseCancels(p) \/ CloseReturns(p)
  BY <1>8, Others
<1>9. CASE Server
  BY <1>9, Serves
<1> QED
  BY <1>1, <1>2, <1>3, <1>4, <1>5, <1>6, <1>7, <1>8, <1>9 DEF Next, Worker, Environment

-----------------------------------------------------------------------------
(* Theorem.                                                                *)

\* A subscription keeps the promise of SignalledFeed: what enters Messages() is
\* the channel's items in their order, each at most once, with nothing left out
\* unless a resubscribe was announced in between (subscribeProto,
\* runSubscriptionOnce, onReady, enqueue, markFinished).
THEOREM Implements == Spec => KeepsPromise
<1>1. Init => Feed!Init /\ RInv
  BY Opens
<1>2. IInv /\ RInv /\ [Next]_vars => RInv' /\ [Feed!Next]_(Feed!vars)
  BY Refines
<1> QED
  BY <1>1, <1>2, Inductive, PTL DEF Spec, KeepsPromise, Feed!Spec

-----------------------------------------------------------------------------
(* Nothing is lost silently: a consumer that refreshes when                *)
(* TakeResubscribed answers true has, between the first and the last item  *)
(* it received, received every item or refreshed after it.                 *)

\* What the consumer received and what waits for it are what was fed.
Whole == seen.got \in Seq(Nat) /\ queue \in Seq(Nat) /\ fed = seen.got \o queue

Sorted == \A i, j \in DOMAIN fed : i < j => fed[i] < fed[j]

\* Every item between the first and the last one fed was fed, or is told.
Filled ==
    \A n \in Nat : fed # <<>> /\ fed[1] <= n /\ n <= LastOf(fed) => n \in Range(fed) \/ Told(n)

LInv == Whole /\ Sorted /\ Filled

\* A step that feeds and delivers nothing may only tell more.
LEMMA Rests ==
    ASSUME Inv, LInv, UNCHANGED <<fed, queue>>, seen'.got = seen.got,
           \/ (sub.latch => sub'.latch) /\ seen'.covered = seen.covered
           \/ seen'.covered = LastItem(srv.sent)
    PROVE  LInv'
<1>1. Whole' /\ Sorted'
  BY DEF LInv, Whole, Sorted
<1>2. ASSUME NEW n \in Nat, fed # <<>>, n <= LastOf(fed), Told(n) \/ seen'.covered = LastItem(srv.sent)
      PROVE  Told(n)'
  <2>1. LastOf(fed) <= LastItem(srv.sent) /\ LastOf(fed) \in Nat
    BY <1>2, FedSent DEF Inv
  <2>2. LastItem(srv.sent) \in Nat
    BY Numbers DEF Inv, RInv, Typed
  <2>3. CASE seen'.covered = LastItem(srv.sent)
    BY <1>2, <2>1, <2>2, <2>3 DEF Told
  <2>4. CASE seen'.covered # LastItem(srv.sent)
    BY <1>2, <2>4 DEF Told
  <2> QED
    BY <2>3, <2>4
<1>3. Filled'
  <2> SUFFICES ASSUME NEW n \in Nat, fed # <<>>, fed[1] <= n, n <= LastOf(fed)
               PROVE  n \in Range(fed) \/ Told(n)'
    BY DEF Filled, LastOf, Range
  <2>1. n \in Range(fed) \/ Told(n)
    BY DEF LInv, Filled
  <2> QED
    BY <1>2, <2>1
<1> QED
  BY <1>1, <1>3 DEF LInv

\* The consumer receives.
LEMMA Receives == ASSUME Inv, LInv, Receive PROVE LInv'
<1>1. /\ queue # <<>> /\ UNCHANGED <<sub, fed>>
      /\ seen'.got = Append(seen.got, Head(queue)) /\ queue' = Tail(queue)
      /\ seen'.covered = seen.covered
  BY DEF Receive, hist, Inv, RInv, Typed
<1>2. PICK got \in Seq(Nat), q \in Seq(Nat) :
        got = seen.got /\ q = queue /\ q # <<>> /\ fed = got \o q
  BY <1>1 DEF LInv, Whole
<1>3. Append(got, Head(q)) \in Seq(Nat) /\ Tail(q) \in Seq(Nat)
      /\ Append(got, Head(q)) \o Tail(q) = got \o q
  <2>1. got \in Seq(Nat) /\ q \in Seq(Nat) /\ q # <<>>
    BY <1>2
  <2>2. /\ Head(q) \in Nat /\ Tail(q) \in Seq(Nat) /\ <<Head(q)>> \in Seq(Nat)
        /\ <<Head(q)>> \o Tail(q) = q
    BY <2>1
  <2>3. Append(got, Head(q)) = got \o <<Head(q)>>
    BY <2>1, <2>2, AppendIsConcat
  <2>4. (got \o <<Head(q)>>) \o Tail(q) = got \o (<<Head(q)>> \o Tail(q))
    BY <2>1, <2>2, ConcatAssociative
  <2> QED
    BY <2>1, <2>2, <2>3, <2>4, AppendProperties
<1>4. Whole'
  BY <1>1, <1>2, <1>3 DEF Whole
<1>5. Sorted' /\ Filled'
  BY <1>1 DEF LInv, Sorted, Filled, Told, LastOf
<1> QED
  BY <1>4, <1>5 DEF LInv

LEMMA Longer ==
    ASSUME NEW a \in Seq(Nat), NEW b \in Seq(Nat), NEW n \in Nat
    PROVE  Append(a \o b, n) = a \o Append(b, n) /\ Append(b, n) \in Seq(Nat)
<1>1. a \o b \in Seq(Nat) /\ <<n>> \in Seq(Nat)
  BY ConcatProperties
<1>2. Append(b, n) = b \o <<n>> /\ Append(a \o b, n) = (a \o b) \o <<n>>
  BY <1>1, AppendIsConcat
<1>3. (a \o b) \o <<n>> = a \o (b \o <<n>>)
  BY <1>1, ConcatAssociative
<1> QED
  BY <1>2, <1>3, AppendProperties

\* An item enters the queue.
LEMMA Feeds ==
    ASSUME Inv, LInv, w.pc = "deliver", UNCHANGED <<sub, seen>>,
           fed' = Append(fed, Head(w.items)), queue' = Append(queue, Head(w.items))
    PROVE  LInv'
<1>1. PICK b \in 0..srv.sent : Hand(b)
  BY DEF Inv, RInv, Stream, Tracks
<1> DEFINE item == w.items[1]
<1>2. item \in Nat /\ Head(w.items) = item
  BY <1>1, NonEmpty DEF Hand, Inv, RInv, Typed
<1>3. /\ fed # <<>> => LastOf(fed) < item
      /\ Continued => fed # <<>> /\ item = LastOf(fed) + 1
      /\ fed # <<>> => Continued \/ Told(item - 1)
  BY <1>1 DEF Hand
<1> HIDE DEF item
<1>4. /\ fed \in Seq(Nat) /\ fed' \in Seq(Nat) /\ Len(fed) \in Nat /\ Len(fed') = Len(fed) + 1
      /\ fed'[Len(fed) + 1] = item /\ \A i \in 1..Len(fed) : fed'[i] = fed[i]
      /\ fed' # <<>>
  <2>1. fed \in Seq(Nat) /\ fed' = Append(fed, item)
    BY <1>2 DEF Inv, RInv, Typed
  <2> QED
    BY <1>2, <2>1, AppendProperties
<1>5. Whole'
  <2>1. PICK got \in Seq(Nat), q \in Seq(Nat) : got = seen.got /\ q = queue /\ fed = got \o q
    BY DEF LInv, Whole
  <2>2. got \in Seq(Nat) /\ q \in Seq(Nat)
    BY <2>1
  <2>3. Append(got \o q, item) = got \o Append(q, item) /\ Append(q, item) \in Seq(Nat)
    BY <1>2, <2>2, Longer
  <2>4. fed' = Append(got \o q, item) /\ queue' = Append(q, item) /\ seen'.got = got
    BY <1>2, <2>1
  <2> QED
    BY <2>2, <2>3, <2>4 DEF Whole
<1>6. \A i \in 1..Len(fed) : fed[i] \in Nat /\ fed[i] < item
  <2> SUFFICES ASSUME NEW i \in 1..Len(fed) PROVE fed[i] \in Nat /\ fed[i] < item
    OBVIOUS
  <2>1. fed # <<>> /\ fed[i] \in Nat /\ LastOf(fed) \in Nat
    BY <1>4, NonEmpty
  <2>2. i = Len(fed) \/ fed[i] < fed[Len(fed)]
    BY <1>4 DEF LInv, Sorted
  <2> QED
    BY <1>2, <1>3, <2>1, <2>2 DEF LastOf
<1>7. DOMAIN fed = 1..Len(fed) /\ DOMAIN fed' = 1..Len(fed) + 1
      /\ \A i \in 1..Len(fed) + 1 : i = Len(fed) + 1 \/ i \in 1..Len(fed)
  BY <1>4
<1>8. Sorted'
  <2> SUFFICES ASSUME NEW i \in DOMAIN fed', NEW j \in DOMAIN fed', i < j
               PROVE  fed'[i] < fed'[j]
    BY DEF Sorted
  <2>1. i \in 1..Len(fed)
    BY <1>4, <1>7
  <2> QED
    BY <1>4, <1>6, <1>7, <2>1 DEF LInv, Sorted
<1>9. Filled'
  <2> SUFFICES ASSUME NEW n \in Nat, fed'[1] <= n, n <= LastOf(fed')
               PROVE  n \in Range(fed') \/ Told(n)'
    BY DEF Filled, LastOf, Range
  <2>1. LastOf(fed') = item /\ item \in Range(fed')
    BY <1>4, <1>7 DEF LastOf, Range
  <2>2. n <= item
    BY <2>1
  <2>3. CASE fed = <<>>
    <3>1. fed'[1] = item
      BY <1>4, <2>3
    <3> QED
      BY <1>2, <2>1, <2>2, <3>1
  <2>4. CASE fed # <<>> /\ n <= LastOf(fed)
    <3>1. fed'[1] = fed[1]
      BY <1>4, <2>4
    <3>2. n \in Range(fed) \/ Told(n)
      BY <2>4, <3>1 DEF LInv, Filled
    <3>3. Range(fed) \subseteq Range(fed')
      BY <1>4, <1>7 DEF Range
    <3> QED
      BY <3>2, <3>3 DEF Told
  <2>5. CASE fed # <<>> /\ LastOf(fed) < n
    <3>1. LastOf(fed) \in Nat
      BY <1>4, <2>5, NonEmpty
    <3>2. n = item \/ (n <= item - 1 /\ ~Continued)
      BY <1>2, <1>3, <2>2, <2>5, <3>1
    <3>3. n <= item - 1 /\ Told(item - 1) => Told(n)
      BY <1>2 DEF Told, Inv, RInv, Typed
    <3> QED
      BY <1>3, <2>1, <2>5, <3>2, <3>3 DEF Told
  <2> QED
    BY <1>4, <2>3, <2>4, <2>5, NonEmpty
<1> QED
  BY <1>5, <1>8, <1>9 DEF LInv

LEMMA Keeps == Inv /\ LInv /\ [Next]_vars => LInv'
<1> SUFFICES ASSUME Inv, LInv, [Next]_vars PROVE LInv'
  OBVIOUS
\* What most steps do.
<1>1. ASSUME UNCHANGED <<fed, queue, seen>>, sub.latch => sub'.latch PROVE LInv'
  BY <1>1, Rests
<1>2. CASE UNCHANGED vars
  BY <1>1, <1>2 DEF vars
<1>3. CASE \/ Dial \/ SetupFails \/ ReadReply \/ Check \/ Take \/ ReadFails \/ Left
           \/ AwaitResume \/ Backoff \/ Server
  <2>1. UNCHANGED <<fed, queue, seen, sub>>
    BY <1>3 DEF Dial, SetupFails, ReadReply, Check, Take, ReadFails, Left, AwaitResume, Backoff,
                Server, hist
  <2> QED
    BY <1>1, <2>1
<1>4. CASE \/ Ready \/ FailLock \/ Tell \/ Finish \/ Return \/ SetOnError \/ CancelCtx
           \/ \E p \in Closers : CloseBegins(p) \/ CloseCancels(p) \/ CloseReturns(p)
  <2>1. UNCHANGED <<fed, queue, seen>>
    BY <1>4 DEF Ready, FailLock, Tell, Finish, Return, SetOnError, CancelCtx, CloseBegins,
                CloseCancels, CloseReturns, hist
  <2>2. sub.latch => sub'.latch
    BY <1>4 DEF Ready, FailLock, Tell, Finish, Return, SetOnError, CancelCtx, CloseBegins,
                CloseCancels, CloseReturns, Inv, IInv, Fields
  <2> QED
    BY <1>1, <2>1, <2>2
<1>5. CASE Enqueue
  <2>1. w.pc = "deliver" /\ UNCHANGED seen
    BY <1>5 DEF Enqueue, At
  <2>2. CASE /\ fed' = Append(fed, Head(w.items)) /\ queue' = Append(queue, Head(w.items))
             /\ UNCHANGED sub
    BY <2>1, <2>2, Feeds
  <2>3. CASE UNCHANGED <<fed, queue>> /\ (sub.latch => sub'.latch)
    BY <1>1, <2>1, <2>3
  <2>4. Overflow => sub'.latch = sub.latch
    BY DEF Overflow, Inv, IInv, Fields
  <2> QED
    BY <1>5, <2>2, <2>3, <2>4 DEF Enqueue, hist
<1>6. CASE Receive
  BY <1>6, Receives
<1>7. CASE TakeResubscribed
  <2>1. UNCHANGED <<fed, queue>> /\ seen'.got = seen.got /\ seen'.covered = LastItem(srv.sent)
    BY <1>7 DEF TakeResubscribed, hist, Inv, RInv, Typed
  <2> QED
    BY <2>1, Rests
<1> QED
  BY <1>2, <1>3, <1>4, <1>5, <1>6, <1>7 DEF Next, Worker, Environment

LEMMA Covers == Inv /\ LInv => NoSilentLoss
<1> SUFFICES ASSUME Inv, LInv, ~sub.latch, seen.got # <<>>,
                    NEW item \in seen.got[1]..seen.got[Len(seen.got)]
             PROVE  item \in Range(seen.got) \/ item <= seen.covered
  BY DEF NoSilentLoss
<1>1. PICK got, q : got = seen.got /\ q = queue
  OBVIOUS
<1>2. got \in Seq(Nat) /\ q \in Seq(Nat) /\ got # <<>> /\ fed = got \o q /\ fed \in Seq(Nat)
  BY <1>1 DEF LInv, Whole, Inv, RInv, Typed
<1>3. /\ Len(got) \in Nat /\ Len(got) >= 1 /\ Len(q) \in Nat
      /\ got[1] \in Nat /\ got[Len(got)] \in Nat
  BY <1>2, NonEmpty
<1>4. Len(fed) = Len(got) + Len(q) /\ \A i \in 1..Len(got) : fed[i] = got[i]
  <2>1. /\ Len(got \o q) = Len(got) + Len(q)
        /\ \A i \in 1..Len(got) + Len(q) : (got \o q)[i] = IF i <= Len(got) THEN got[i] ELSE q[i - Len(got)]
    BY <1>2, ConcatProperties
  <2> QED
    BY <1>2, <1>3, <2>1
<1>5. /\ DOMAIN fed = 1..Len(fed) /\ DOMAIN got = 1..Len(got) /\ Len(fed) \in Nat
      /\ \A i \in 1..Len(fed) : fed[i] \in Nat
  BY <1>2
<1>6. /\ fed[1] = got[1] /\ fed[Len(got)] = got[Len(got)] /\ fed # <<>>
      /\ Len(got) \in 1..Len(fed) /\ Len(fed) \in 1..Len(fed)
  BY <1>2, <1>3, <1>4, <1>5
<1>7. got[Len(got)] <= LastOf(fed) /\ LastOf(fed) \in Nat
  BY <1>3, <1>4, <1>5, <1>6 DEF LInv, Sorted, LastOf
<1>8. item \in Nat /\ got[1] <= item /\ item <= got[Len(got)]
  BY <1>1, <1>3
<1>9. item \in Range(fed) \/ item <= seen.covered
  <2>1. fed[1] <= item /\ item <= LastOf(fed)
    BY <1>3, <1>6, <1>7, <1>8
  <2> QED
    BY <1>6, <1>8, <2>1 DEF LInv, Filled, Told
<1>10. ASSUME item \in Range(fed) PROVE item \in Range(got)
  <2>1. PICK k \in 1..Len(fed) : item = fed[k]
    BY <1>5, <1>10 DEF Range
  <2>2. k <= Len(got)
    BY <1>3, <1>5, <1>6, <1>8, <2>1 DEF LInv, Sorted
  <2> QED
    BY <1>3, <1>4, <1>5, <2>1, <2>2 DEF Range
<1> QED
  BY <1>1, <1>9, <1>10

-----------------------------------------------------------------------------
(* Theorem.                                                                *)

\* A consumer that refreshes whenever TakeResubscribed answers true misses
\* nothing: what a lost connection, a server unsubscribe or a reconnect left out
\* was announced by the latch before an item that follows it was queued
\* (onReady, noteResubscribed, enqueue, TakeResubscribed).
THEOREM NothingSilent == Spec => []NoSilentLoss
<1>1. Init => RInv /\ LInv
  <2>1. Init => RInv
    BY Opens
  <2>2. Init => LInv
    BY DEF Init, LInv, Whole, Sorted, Filled
  <2> QED
    BY <2>1, <2>2
<1>2. IInv /\ RInv /\ LInv /\ [Next]_vars => RInv' /\ LInv'
  BY Refines, Keeps DEF Inv
<1>3. IInv /\ RInv /\ LInv => NoSilentLoss
  BY Covers DEF Inv
<1> QED
  BY <1>1, <1>2, <1>3, Inductive, PTL DEF Spec
-----------------------------------------------------------------------------
(* The types, with the capacities of Messages() and of the setup buffer,   *)
(* and the connections of the server.                                      *)

Connections ==
    /\ srv.conns \in 0..MaxConns /\ w.handshakes <= srv.conns
    /\ w.pc \in {"setup", "ready"} => w.handshakes < srv.conns
Serving == srv.unsubs \in 0..MaxUnsubs /\ srv.on \in {"off", "on", "confirmed", "ended"}
           /\ lost \in BOOLEAN
Errors  == {"none", "overflow", "terminal", "ended", "lost"}
Working == /\ w.fail \in Errors /\ sub.err \in Errors
           /\ w.resume \in {"none", "waiting", "ready"} /\ Len(w.pending) <= SetupCap
Calling == /\ caller.pc \in {"waiting", "subscribed", "draining", "refused"}
           /\ caller.ready \in {"none", "ok", "err"} /\ sub.once \in {"free", "busy", "done"}
           /\ closers \in [Closers -> {"idle", "cancel", "wait", "returned"}]
Queued  == queue \in Seq(Items) /\ Len(queue) <= QueueCap

Bounds == Connections /\ Serving /\ Working /\ Calling /\ Queued

LEMMA BoundsBegin == Init => Bounds
<1> SUFFICES ASSUME Init PROVE Bounds
  OBVIOUS
<1>1. PICK auto \in Options :
        w = [pc |-> "top", pending |-> <<>>, items |-> <<>>, why |-> "none",
             fail |-> "none", tells |-> FALSE, handshakes |-> 0, resume |-> "none",
             reconnect |-> auto]
  BY DEF Init
<1>2. Connections /\ Serving
  <2>1. /\ w.pc = "top" /\ w.handshakes = 0 /\ srv.conns = 0 /\ srv.unsubs = 0
        /\ srv.on = "off" /\ lost = FALSE /\ MaxConns \in Nat /\ MaxUnsubs \in Nat
    BY <1>1, Assumptions DEF Init
  <2>2. Connections
    BY <2>1 DEF Connections
  <2>3. srv.unsubs \in 0..MaxUnsubs
    BY <2>1
  <2> QED
    BY <2>1, <2>2, <2>3, Zenon DEF Serving
<1>3. Working /\ Calling
  BY <1>1, Assumptions DEF Init, Working, Calling, Errors
<1>4. Queued
  BY Assumptions DEF Init, Queued
<1> QED
  BY <1>2, <1>3, <1>4 DEF Bounds

\* Leaving a connection empties the setup buffer.
LEMMA LeftBounds ==
    ASSUME Inv, Bounds, NEW why, Leave(why)
    PROVE  /\ Connections' /\ Serving'
           /\ w'.fail = w.fail /\ w'.resume = w.resume /\ w'.pending = <<>>
<1>1. /\ w'.fail = w.fail /\ w'.resume = w.resume /\ w'.pending = <<>> /\ w'.pc = "left"
      /\ w'.handshakes = w.handshakes
      /\ srv'.conns = srv.conns /\ srv'.unsubs = srv.unsubs /\ srv'.on = "off" /\ lost' = FALSE
  BY DEF Leave, Inv, IInv, Fields
<1> QED
  BY <1>1 DEF Bounds, Connections, Serving

\* The worker's steps on a connection.
LEMMA ReaderBounds ==
    ASSUME Inv, Bounds,
           Dial \/ SetupFails \/ ReadReply \/ Ready \/ Check \/ Take \/ ReadFails \/ Enqueue
    PROVE  Bounds'
<1>0. Fields /\ w.handshakes \in Nat /\ w.pending \in Seq(Messages) /\ wire \in Seq(Messages)
      /\ MaxConns \in Nat /\ SetupCap \in Nat /\ QueueCap \in Nat
  BY Assumptions DEF Inv, IInv, RInv, Typed
<1>1. CASE \E why : Leave(why) /\ UNCHANGED <<caller, sub, queue, closers>>
  <2>1. Connections' /\ Serving' /\ Working'
    BY <1>0, <1>1, LeftBounds DEF Bounds, Working
  <2>2. Calling' /\ Queued'
    BY <1>1 DEF Bounds, Calling, Queued
  <2> QED
    BY <2>1, <2>2 DEF Bounds
<1>2. CASE Dial
  <2>1. /\ UNCHANGED <<lost, caller, sub, queue, closers>> /\ w'.handshakes = w.handshakes
        /\ w'.fail = w.fail /\ w'.resume = w.resume /\ w'.pending = w.pending
        /\ \/ w'.pc = "finish" /\ UNCHANGED srv
           \/ w'.pc = "setup" /\ srv.conns < MaxConns /\ srv'.conns = srv.conns + 1
              /\ srv'.unsubs = srv.unsubs /\ srv'.on = srv.on
    BY <1>0, <1>2 DEF Dial, Fields
  <2>2. Connections'
    BY <1>0, <2>1 DEF Bounds, Connections
  <2> QED
    BY <2>1, <2>2 DEF Bounds, Serving, Working, Calling, Queued
<1>3. ASSUME NEW pending \in Seq(Messages), Len(pending) <= SetupCap, NEW pc \in {"setup", "ready"},
             At("setup"), w' = [w EXCEPT !.pc = pc, !.pending = pending],
             UNCHANGED <<lost, srv, caller, sub, queue, closers>>
      PROVE  Bounds'
  <2>1. /\ w'.handshakes = w.handshakes /\ w'.fail = w.fail /\ w'.resume = w.resume
        /\ w'.pending = pending /\ w.pc = "setup"
    BY <1>0, <1>3 DEF Fields, At
  <2> QED
    BY <1>3, <2>1 DEF Bounds, Connections, Serving, Working, Calling, Queued
<1>4. CASE ReadReply
  <2>1. CASE ReadConfirmed
    <3>1. PICK n \in 1..Len(wire) :
            LET held == w.pending \o SubSeq(wire, 2, n) IN
            \/ \E why : Leave(why)
            \/ /\ Len(held) <= SetupCap
               /\ w' = [w EXCEPT !.pc = "ready", !.pending = held]
               /\ UNCHANGED <<lost, srv>>
      BY <2>1 DEF ReadConfirmed
    <3>2. w.pending \o SubSeq(wire, 2, n) \in Seq(Messages)
      <4>1. SubSeq(wire, 2, n) \in Seq(Messages)
        BY <1>0
      <4> QED
        BY <1>0, <4>1
    <3> QED
      BY <1>1, <1>3, <1>4, <3>1, <3>2 DEF ReadReply
  <2>2. CASE HoldBack(Head(wire))
    <3>1. wire # <<>> /\ Head(wire) \in Messages
      BY <1>0, <1>4 DEF ReadReply
    <3>2. Append(w.pending, Head(wire)) \in Seq(Messages)
          /\ Len(Append(w.pending, Head(wire))) = Len(w.pending) + 1
      BY <1>0, <3>1
    <3>3. CASE Len(w.pending) < SetupCap /\ w' = [w EXCEPT !.pending = Append(@, Head(wire))]
               /\ UNCHANGED <<lost, srv>>
      <4>1. w' = [w EXCEPT !.pc = "setup", !.pending = Append(w.pending, Head(wire))]
        BY <1>0, <1>4, <3>3 DEF ReadReply, At, Fields
      <4>2. Len(Append(w.pending, Head(wire))) <= SetupCap
        BY <1>0, <3>2, <3>3
      <4> QED
        BY <1>3, <1>4, <3>2, <3>3, <4>1, <4>2 DEF ReadReply
    <3> QED
      BY <1>1, <1>4, <2>2, <3>3 DEF ReadReply, HoldBack
  <2>3. CASE Leave("net")
    BY <1>1, <1>4, <2>3 DEF ReadReply
  <2> QED
    BY <1>4, <2>1, <2>2, <2>3 DEF ReadReply
<1>5. CASE Ready
  <2>1. /\ UNCHANGED <<srv, lost, queue, closers>> /\ w.pc = "ready" /\ w'.pc = "check"
        /\ w'.handshakes = w.handshakes + 1 /\ w'.fail = w.fail /\ w'.pending = w.pending
        /\ w'.resume \in {w.resume, "ready"} /\ sub'.err = sub.err /\ sub'.once = sub.once
        /\ caller'.pc = caller.pc /\ caller'.ready \in {caller.ready, "ok"}
    BY <1>0, <1>5 DEF Ready, Fields, At
  <2>2. Connections'
    BY <1>0, <2>1 DEF Bounds, Connections
  <2> QED
    BY <2>1, <2>2 DEF Bounds, Serving, Working, Calling, Queued
<1>6. CASE UNCHANGED <<srv, lost, caller, sub, closers>> /\ Queued' /\ w'.pc \notin {"setup", "ready"}
           /\ w'.handshakes = w.handshakes /\ w'.fail = w.fail /\ w'.resume = w.resume
           /\ Len(w'.pending) <= SetupCap
  BY <1>6 DEF Bounds, Connections, Serving, Working, Calling
<1>7. CASE Check
  <2>1. CASE w' = [w EXCEPT !.pc = "read"] /\ UNCHANGED <<srv, wire, lost>>
    <3>1. Queued'
      BY <1>7 DEF Check, Bounds, Queued
    <3> QED
      BY <1>0, <1>6, <1>7, <2>1, <3>1 DEF Check, Fields, Bounds, Working
  <2> QED
    BY <1>1, <1>7, <2>1 DEF Check
<1>8. CASE Take
  <2> DEFINE message == Head(w.pending \o wire)
  <2>1. CASE w' = [w EXCEPT !.pc = "deliver", !.items = Contents[message.pub],
                            !.pending = IF @ = <<>> THEN @ ELSE Tail(@)]
             /\ UNCHANGED <<srv, lost>>
    <3>1. /\ UNCHANGED <<srv, lost, caller, sub, closers, queue>> /\ w'.pc = "deliver"
          /\ w'.handshakes = w.handshakes /\ w'.fail = w.fail /\ w'.resume = w.resume
          /\ w'.pending = IF w.pending = <<>> THEN w.pending ELSE Tail(w.pending)
      BY <1>0, <1>8, <2>1 DEF Take, Fields
    <3>2. Len(w'.pending) <= Len(w.pending) /\ Len(w.pending) \in Nat /\ Len(w'.pending) \in Nat
      <4>1. CASE w.pending = <<>>
        BY <1>0, <3>1, <4>1
      <4>2. CASE w.pending # <<>>
        BY <1>0, <3>1, <4>2
      <4> QED
        BY <4>1, <4>2
    <3>3. Queued'
      BY <3>1 DEF Bounds, Queued
    <3>4. Len(w'.pending) <= SetupCap
      BY <1>0, <3>2 DEF Bounds, Working
    <3> QED
      BY <1>6, <3>1, <3>3, <3>4
  <2> QED
    BY <1>1, <1>8, <2>1 DEF Take
<1>9. CASE Enqueue
  <2>1. CASE ~sub.closed /\ Len(queue) < QueueCap
    <3>1. /\ UNCHANGED <<sub, srv, lost, caller, closers>> /\ w' = ItemDone
          /\ queue' = Append(queue, Head(w.items)) /\ At("deliver")
      BY <1>9, <2>1 DEF Enqueue, Leave, Bounds, Queued
    <3>2. Head(w.items) \in Items
      <4>1. w.items # <<>> /\ w.items \in Seq(Nat) /\ \A i \in DOMAIN w.items : w.items[i] \in Items
        BY <3>1 DEF Inv, RInv, Typed, Stream, Tracks, Hand, At
      <4> QED
        BY <4>1, NonEmpty
    <3>3. Queued'
      BY <1>0, <2>1, <3>1, <3>2 DEF Bounds, Queued
    <3>4. /\ w'.handshakes = w.handshakes /\ w'.fail = w.fail /\ w'.resume = w.resume
          /\ w'.pending = w.pending /\ w'.pc \in {"deliver", "check", "read"}
      BY <1>0, <3>1 DEF ItemDone, Fields, At
    <3> QED
      BY <1>6, <3>1, <3>3, <3>4 DEF Bounds, Working
  <2>2. CASE Overflow /\ UNCHANGED <<queue, srv, lost>>
    <3>1. /\ w'.pc = "tell" /\ w'.fail = "overflow" /\ w'.handshakes = w.handshakes
          /\ w'.resume = w.resume /\ w'.pending = w.pending
          /\ sub'.err = "overflow" /\ sub'.once = sub.once /\ UNCHANGED <<caller, closers>>
      BY <1>0, <1>9, <2>2 DEF Overflow, Fields, Enqueue
    <3> QED
      BY <2>2, <3>1 DEF Bounds, Connections, Serving, Working, Errors, Calling, Queued
  <2> QED
    BY <1>1, <1>9, <2>1, <2>2 DEF Enqueue
<1>10. CASE SetupFails \/ ReadFails
  BY <1>1, <1>10 DEF SetupFails, ReadFails
<1> QED
  BY <1>2, <1>4, <1>5, <1>7, <1>8, <1>9, <1>10
\* The worker's steps between connections.
LEMMA LoopBounds ==
    ASSUME Inv, Bounds, Left \/ AwaitResume \/ Backoff \/ FailLock \/ Tell \/ Finish
    PROVE  Bounds'
<1>0. Fields
  BY DEF Inv, IInv
<1>1. ASSUME UNCHANGED <<srv, lost, queue, closers>>, w'.pc \notin {"setup", "ready"},
             w'.handshakes = w.handshakes, w'.pending = w.pending,
             w'.fail \in Errors, w'.resume \in {"none", "waiting", "ready"},
             sub'.err \in Errors, sub'.once = sub.once,
             caller'.pc = caller.pc, caller'.ready \in {caller.ready, "err"}
      PROVE  Bounds'
  BY <1>1 DEF Bounds, Connections, Serving, Working, Calling, Queued
<1>2. CASE Left \/ AwaitResume \/ Backoff
  <2>1. UNCHANGED <<srv, lost, sub, queue, closers>>
    BY <1>2 DEF Left, AwaitResume, Backoff
  <2>2. \/ \E reason \in Errors, resume \in {w.resume, Resume} : Fail(reason, resume)
        \/ \E pc \in {"finish", "await", "backoff"}, resume \in {"none", Resume} : Go(pc, resume)
        \/ \E pc \in {"finish", "top"} : w' = [w EXCEPT !.pc = pc]
    BY <1>2 DEF Left, AwaitResume, Backoff, Errors
  <2>3. /\ w'.pc \notin {"setup", "ready"} /\ w'.handshakes = w.handshakes /\ w'.pending = w.pending
        /\ w'.fail \in Errors /\ w'.resume \in {w.resume, Resume, "none"}
    BY <1>0, <2>2 DEF Fields, Fail, Go, Bounds, Working
  <2>4. caller'.pc = caller.pc /\ caller'.ready \in {caller.ready, "err"}
    BY <1>0, <1>2 DEF Left, AwaitResume, Backoff, Fields
  <2> QED
    BY <1>1, <2>1, <2>3, <2>4 DEF Resume, Bounds, Working
<1>3. CASE FailLock
  <2>1. /\ UNCHANGED <<srv, lost, queue, closers, caller>> /\ w'.pc = "tell"
        /\ w'.handshakes = w.handshakes /\ w'.pending = w.pending /\ w'.fail = w.fail
        /\ w'.resume = w.resume /\ sub'.err \in {sub.err, w.fail} /\ sub'.once = sub.once
    BY <1>0, <1>3 DEF FailLock, Fields
  <2> QED
    BY <1>1, <2>1 DEF Bounds, Working
<1>4. CASE Tell
  <2>1. UNCHANGED <<caller, queue, closers>>
    BY <1>4 DEF Tell
  <2>2. CASE Leave("closed") /\ sub' = [sub EXCEPT !.cancelled = TRUE]
    <3>1. sub'.err = sub.err /\ sub'.once = sub.once
      BY <1>0, <2>2 DEF Fields
    <3>2. Connections' /\ Serving' /\ w'.fail = w.fail /\ w'.resume = w.resume /\ w'.pending = <<>>
      BY <2>2, LeftBounds
    <3>3. Working'
      BY <3>1, <3>2, Assumptions DEF Bounds, Working
    <3> QED
      BY <2>1, <3>1, <3>2, <3>3 DEF Bounds, Calling, Queued
  <2>3. CASE w' = [w EXCEPT !.pc = "finish"] /\ UNCHANGED <<srv, lost, sub>>
    <3>1. /\ w'.pc = "finish" /\ w'.handshakes = w.handshakes /\ w'.pending = w.pending
          /\ w'.fail = w.fail /\ w'.resume = w.resume
      BY <1>0, <2>3 DEF Fields
    <3> QED
      BY <1>1, <2>1, <2>3, <3>1 DEF Bounds, Working
  <2> QED
    BY <1>4, <2>2, <2>3 DEF Tell
<1>5. CASE Finish
  <2>1. /\ UNCHANGED <<srv, lost, queue, closers>> /\ w'.pc \in {"close", "ended"}
        /\ w'.handshakes = w.handshakes /\ w'.pending = w.pending /\ w'.fail \in {w.fail, "none"}
        /\ w'.resume \in {w.resume, "none"} /\ sub'.err = sub.err /\ sub'.once = sub.once
        /\ caller'.pc = caller.pc /\ caller'.ready \in {caller.ready, "err"}
    BY <1>0, <1>5 DEF Finish, Fields
  <2> QED
    BY <1>1, <2>1 DEF Bounds, Working, Errors
<1> QED
  BY <1>2, <1>3, <1>4, <1>5

\* The program and the server.
LEMMA OtherBounds ==
    ASSUME Inv, Bounds,
           \/ Return \/ SetOnError \/ Environment
           \/ \E p \in Closers : CloseBegins(p) \/ CloseCancels(p) \/ CloseReturns(p)
    PROVE  Bounds'
<1>0. Fields
  BY DEF Inv, IInv
<1>1. ASSUME UNCHANGED <<srv, lost, w>>, sub'.err = sub.err, Calling', Queued'
      PROVE  Bounds'
  BY <1>1 DEF Bounds, Connections, Serving, Working
<1>2. CASE Return \/ SetOnError \/ TakeResubscribed \/ CancelCtx
  <2>1. /\ UNCHANGED <<srv, lost, w, queue, closers>> /\ sub'.err = sub.err /\ sub'.once = sub.once
        /\ caller'.pc \in {caller.pc, "subscribed", "draining", "refused"}
        /\ caller'.ready = caller.ready
    BY <1>0, <1>2 DEF Return, SetOnError, TakeResubscribed, CancelCtx, Fields
  <2>2. Calling' /\ Queued'
    BY <2>1 DEF Bounds, Calling, Queued
  <2> QED
    BY <1>1, <2>1, <2>2
<1>3. CASE Receive
  <2>1. UNCHANGED <<srv, lost, w, caller, sub, closers>>
    BY <1>3 DEF Receive
  <2>2. queue \in Seq(Items) /\ queue # <<>> /\ queue' = Tail(queue) /\ Len(queue) <= QueueCap
        /\ QueueCap \in Nat
    BY <1>3, Assumptions DEF Receive, Bounds, Queued
  <2>3. queue' \in Seq(Items) /\ Len(queue') = Len(queue) - 1 /\ Len(queue) \in Nat
    BY <2>2
  <2>4. Queued'
    BY <2>2, <2>3 DEF Queued
  <2> QED
    BY <1>1, <2>1, <2>4 DEF Bounds, Calling
<1>4. CASE Server
  <2>1. UNCHANGED <<w, caller, sub, queue, closers>>
    BY <1>4 DEF Server
  <2>2. /\ srv'.conns = srv.conns /\ srv'.unsubs \in 0..MaxUnsubs /\ lost' \in BOOLEAN
        /\ srv'.on \in {"off", "on", "confirmed", "ended"}
    <3>0. DOMAIN srv = {"sent", "conns", "unsubs", "on"} /\ Serving /\ MaxUnsubs \in Nat
      BY <1>0, Assumptions DEF Fields, Bounds
    <3>1. CASE Publish \/ Subscribe \/ Confirm
      <4>1. /\ srv'.conns = srv.conns /\ srv'.unsubs = srv.unsubs /\ lost' = lost
            /\ srv'.on \in {srv.on, "on", "confirmed"}
        BY <3>0, <3>1 DEF Publish, Subscribe, Confirm
      <4> QED
        BY <3>0, <4>1 DEF Serving
    <3>2. CASE Disturb
      <4>1. /\ srv'.conns = srv.conns /\ srv'.unsubs = srv.unsubs + 1 /\ lost' = lost
            /\ srv'.on = "ended" /\ srv.unsubs < MaxUnsubs
        BY <3>0, <3>2 DEF Disturb
      <4> QED
        BY <3>0, <4>1 DEF Serving
    <3>3. CASE Lose
      <4>1. /\ srv'.conns = srv.conns /\ srv'.unsubs = srv.unsubs /\ lost' = TRUE
            /\ srv'.on = "ended"
        BY <3>0, <3>3 DEF Lose
      <4> QED
        BY <3>0, <4>1 DEF Serving
    <3> QED
      BY <1>4, <3>1, <3>2, <3>3 DEF Server
  <2> QED
    BY <2>1, <2>2 DEF Bounds, Connections, Serving, Working, Calling, Queued
<1>5. ASSUME NEW p \in Closers, CloseBegins(p) \/ CloseCancels(p) \/ CloseReturns(p)
      PROVE  Bounds'
  <2>1. /\ UNCHANGED <<srv, lost, w, caller, queue>> /\ sub'.err = sub.err
        /\ sub'.once \in {sub.once, "busy", "done"}
    BY <1>0, <1>5 DEF CloseBegins, CloseCancels, CloseReturns, Fields
  <2>2. closers' \in [Closers -> {"idle", "cancel", "wait", "returned"}]
    BY <1>5 DEF CloseBegins, CloseCancels, CloseReturns, Bounds, Calling
  <2>3. Calling' /\ Queued'
    BY <2>1, <2>2 DEF Bounds, Calling, Queued
  <2> QED
    BY <1>1, <2>1, <2>3
<1> QED
  BY <1>2, <1>3, <1>4, <1>5 DEF Environment

\* The variables have their types; Messages() and the setup buffer keep to their
\* capacities, whatever the server sends and however often it is dialled.
THEOREM TypeCorrect == Spec => []TypeOK
<1>1. Init => RInv /\ Bounds
  BY Opens, BoundsBegin
<1>2. IInv /\ RInv /\ Bounds /\ [Next]_vars => RInv' /\ Bounds'
  <2> SUFFICES ASSUME IInv, RInv, Bounds, [Next]_vars PROVE RInv' /\ Bounds'
    OBVIOUS
  <2>1. ASSUME Next PROVE Bounds'
    BY <2>1, ReaderBounds, LoopBounds, OtherBounds DEF Next, Worker, Inv
  <2>2. ASSUME UNCHANGED vars PROVE Bounds'
    BY <2>2 DEF vars, Bounds, Connections, Serving, Working, Calling, Queued
  <2> QED
    BY <2>1, <2>2, Refines
<1>3. IInv /\ RInv /\ Bounds => TypeOK
  <2> SUFFICES ASSUME IInv, RInv, Bounds PROVE TypeOK
    OBVIOUS
  <2>1. w.handshakes \in 0..MaxConns
    BY Assumptions DEF Bounds, Connections, RInv, Typed
  <2>2. srv.sent \in 0..Len(Contents) /\ wire \in Seq(Messages) /\ w.pending \in Seq(Messages)
    BY DEF RInv, Typed
  <2>3. cb.told \in Nat
    BY DEF IInv, Telling
  <2> QED
    BY <2>1, <2>2, <2>3 DEF Bounds, Connections, Serving, Working, Errors, Calling, Queued, TypeOK
<1> QED
  BY <1>1, <1>2, <1>3, Inductive, PTL DEF Spec
=============================================================================
