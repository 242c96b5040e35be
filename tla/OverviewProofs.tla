---------------------------- MODULE OverviewProofs ----------------------------
(***************************************************************************)
(* Theorems about the managed market overview (MarketOverviewStream), for  *)
(* any markets, publications, queues and callers: its steps are steps of   *)
(* the coordinator; until the first reconnect its rows are the last ones,  *)
(* although two goroutines write them; and its end is reported.            *)
(***************************************************************************)
EXTENDS MarketOverviewStream, SnapshotThenStreamProofs

allVars == <<vars, overviewVars>>

-----------------------------------------------------------------------------
(* The overview's steps are the coordinator's.                             *)

LEMMA LeavesIsNext ==
    ASSUME NEW p \in InCallbacks, NEW o \in Outcomes, Leaves(p, o)
    PROVE  Next
<1>1. CASE p = "worker"
  <2>1. ApplyLive(o)
    BY <1>1 DEF Leaves
  <2> QED
    BY <2>1 DEF Next, Worker
<1>2. CASE p # "worker"
  <2>1. p \in Refreshers /\ (ApplySnapshot(p, o) \/ ApplyBuffered(p, o))
    BY <1>2 DEF Leaves, InCallbacks
  <2> QED
    BY <2>1 DEF Next, Refresh
<1> QED
  BY <1>1, <1>2

LEMMA CallbackIsNext ==
    ASSUME NEW p \in InCallbacks, InCallback(p)
    PROVE  [Next]_vars
<1>1. CASE UseMap(p)
  BY <1>1 DEF UseMap
<1>2. CASE EnqueueRows(p)
  BY <1>2, LeavesIsNext, OverviewAssumptions DEF EnqueueRows
<1>3. CASE StopStream(p)
  BY <1>3, LeavesIsNext, OverviewAssumptions DEF StopStream
<1> QED
  BY <1>1, <1>2, <1>3 DEF InCallback

LEMMA OverviewStepsAreNext == [OverviewNext]_allVars => [Next]_vars
<1> SUFFICES ASSUME [OverviewNext]_allVars PROVE [Next]_vars
  OBVIOUS
<1>1. CASE OverviewRest \/ UNCHANGED allVars
  BY <1>1 DEF OverviewRest, Quiet, Next, allVars
<1>2. CASE Quiet(StartConnected \/ StartRefreshed \/ StartFails \/ SendRefreshDone)
  BY <1>2 DEF Quiet, Next
<1>3. CASE OverviewWorker
  <2>1. CASE LiveBegins
    BY <2>1 DEF LiveBegins, Next, Worker
  <2>2. CASE InCallback("worker")
    BY <2>2, CallbackIsNext DEF InCallbacks
  <2> QED
    BY <1>3, <2>1, <2>2 DEF OverviewWorker, Quiet, Next, Worker
<1>4. CASE OverviewEnv
  BY <1>4 DEF OverviewEnv, Quiet, Next, Consume, CloseUpdates
<1>5. CASE CloseStream \/ DoneCloses \/ Crash
  BY <1>5 DEF CloseStream, DoneCloses, Crash, Next
<1>6. ASSUME NEW p \in Refreshers, OverviewRefresher(p) PROVE [Next]_vars
  <2>1. CASE InCallback(p)
    BY <2>1, CallbackIsNext DEF InCallbacks
  <2>2. CASE ApplyBegins(p) \/ Quiet(RefreshLock(p) \/ FetchFails(p) \/ FetchReturns(p) \/ Retry(p))
    <3>1. Refresh(p)
      BY <2>2 DEF ApplyBegins, Quiet, Refresh
    <3> QED
      BY <3>1 DEF Next
  <2> QED
    BY <1>6, <2>1, <2>2 DEF OverviewRefresher
<1> QED
  BY <1>1, <1>2, <1>3, <1>4, <1>5, <1>6 DEF OverviewNext

LEMMA OverviewCoordinates == OverviewSpec => []CoordInv
<1>1. OverviewInit => CoordInv
  BY CoordBegins DEF OverviewInit
<1>2. CoordInv /\ [OverviewNext]_allVars => CoordInv'
  BY OverviewStepsAreNext, CoordSteps
<1> QED
  BY <1>1, <1>2, PTL DEF OverviewSpec, allVars

\* Whatever the overview's callbacks do beside each other, each publication
\* reaches them once and in order, and a live stream loses none.
THEOREM OverviewInheritsOrder ==
    OverviewSpec => [](TypeOK /\ MergedOnceInOrder /\ NothingLostWhenLive)
<1>1. CoordInv => TypeOK /\ MergedOnceInOrder /\ NothingLostWhenLive
  BY CoordImplies DEF CoordInv
<1> QED
  BY <1>1, OverviewCoordinates, PTL

\* And a stopped overview is not made ready again by what is still under way.
THEOREM OverviewInheritsDisposal == OverviewSpec => DisposedIsFinal
<1>1. CoordInv /\ [OverviewNext]_allVars =>
        [s.disposed => s'.disposed /\ s'.pending = <<>> /\ (s'.ready => s.ready)]_vars
  BY OverviewStepsAreNext, StepSettles DEF Settles, CoordInv
<1> QED
  BY <1>1, OverviewCoordinates, PTL DEF OverviewSpec, DisposedIsFinal, allVars

-----------------------------------------------------------------------------
(* The invariant of the rows.  On the first subscription nothing was missed *)
(* between two publications: what is still to be applied ends with the last *)
(* one (Closed), and a snapshot on its way has the rest (Covered).  An old  *)
(* row may then be written over a newer one, live beside a refresh by the   *)
(* user, but the newer publication is applied again after it (Good).        *)

\* Who is in a callback.
CallbacksOK ==
    /\ cb \in [InCallbacks -> {"off", "map", "enqueue", "stop"}]
    /\ cb["worker"] # "off" <=> w.live
    /\ \A p \in Refreshers : cb[p] # "off" <=> r[p].pc \in {"apply", "applyLive"}

\* Before the first subscription nothing has been received.
First ==
    env.conns = 0 =>
        /\ sub = NoSub /\ w.hand = 0 /\ s.pending = <<>>
        /\ w.connected = "none" \/ w.pc = "done"

OnFirst == env.conns = 1 /\ sub.st = "open" /\ ~s.disposed

\* Publication k is still to be applied to the map.
Ahead(k) ==
    \/ k \in Range(sub.queue) \/ k \in Range(s.pending)
    \/ k = w.hand /\ k # 0 /\ cb["worker"] \in {"off", "map"}
    \/ \E p \in Refreshers : cb[p] = "map" /\ k \in Range(r[p].buf)

\* Refresher p has a snapshot that the map does not show yet.
Brings(p) == r[p].pc \in Fetching /\ cb[p] \in {"off", "map"}

Closed ==
    \A j \in Pubs, k \in 1..env.published :
        Ahead(j) /\ j < k /\ k \notin Silent => Ahead(k)

Covered ==
    \A p \in Refreshers : Brings(p) =>
        \A k \in 1..env.published : k <= r[p].snap \/ k \in Silent \/ Ahead(k)

LastOf(m) == RowOf(m, 1..env.published)

\* A market's row is the last one; or that is to be applied, or in a snapshot.
Good(m) ==
    \/ rows[m] = LastOf(m) \/ (rows[m] = 0 /\ m \notin Listed)
    \/ Ahead(LastOf(m)) \/ \E p \in Refreshers : Brings(p) /\ LastOf(m) <= r[p].snap

Following == OnFirst => Closed /\ Covered /\ (Fetched => \A m \in Selected : Good(m))

LEMMA RowOfIs ==
    ASSUME NEW n \in Nat, NEW ks \in SUBSET (1..n), NEW m
    PROVE  /\ RowOf(m, ks) \in Nat /\ RowOf(m, ks) <= n
           /\ RowOf(m, ks) # 0 => RowOf(m, ks) \in ks /\ MarketOf[RowOf(m, ks)] = m
           /\ \A k \in ks : MarketOf[k] = m => k <= RowOf(m, ks)
<1> DEFINE T == {0} \cup {k \in ks : MarketOf[k] = m}
<1>1. T \in SUBSET (0..n) /\ T # {}
  <2>1. 0 \in 0..n /\ \A k \in 1..n : k \in 0..n
    OBVIOUS
  <2> QED
    BY <2>1
<1>2. Max(T) \in T /\ \A y \in T : Max(T) >= y
  BY <1>1, MaxOf
<1>3. RowOf(m, ks) = Max(T)
  BY DEF RowOf
<1> HIDE DEF RowOf
<1> QED
  BY <1>1, <1>2, <1>3

\* The callbacks begin and end with the coordinator's calls.
LEMMA CallbacksNext ==
    ASSUME TypeOK, CallbacksOK, [OverviewNext]_allVars
    PROVE  CallbacksOK'
<1> USE DEF CallbacksOK
<1>0. "worker" \in InCallbacks /\ "worker" \notin Refreshers /\ Refreshers \subseteq InCallbacks
  BY OverviewAssumptions DEF InCallbacks, Refreshers
<1>a. ASSUME cb' = cb, w'.live = w.live, Outer PROVE CallbacksOK'
  BY <1>a DEF Outer, Section
<1>1. ASSUME NEW p \in InCallbacks, NEW o, Leaves(p, o) PROVE CallbacksOK'
  <2>1. cb' = [cb EXCEPT ![p] = "off"]
    BY <1>1 DEF Leaves
  <2>2. CASE p = "worker"
    <3>1. ~w'.live /\ r' = r
      BY <1>1, <2>2 DEF Leaves, ApplyLive, TypeOK, WorkerOK
    <3> QED
      BY <1>0, <2>1, <2>2, <3>1
  <2>3. CASE p # "worker"
    <3>1. p \in Refreshers /\ Deliver(p, o)
      BY <1>1, <2>3 DEF Leaves, ApplySnapshot, ApplyBuffered, InCallbacks
    <3>2. /\ w' = w /\ r'[p].pc \in {"err", "drain"}
          /\ \A q \in Refreshers : q # p => r'[q] = r[q]
      BY <3>1 DEF Deliver, TypeOK, RefreshersOK, Refresher
    <3> QED
      BY <1>0, <2>1, <2>3, <3>1, <3>2
  <2> QED
    BY <2>2, <2>3
<1>2. ASSUME NEW p \in InCallbacks, InCallback(p) PROVE CallbacksOK'
  <2>1. CASE UseMap(p)
    BY <1>0, <2>1 DEF UseMap, In, Goto, vars
  <2>2. CASE EnqueueRows(p)
    <3>1. CASE Goto(p, "stop") /\ UNCHANGED vars
      BY <1>0, <2>2, <3>1 DEF EnqueueRows, In, Goto, vars
    <3> QED
      BY <1>1, <2>2, <3>1 DEF EnqueueRows
  <2>3. CASE StopStream(p)
    BY <1>1, <2>3 DEF StopStream
  <2> QED
    BY <1>2, <2>1, <2>2, <2>3 DEF InCallback
<1>3. CASE LiveBegins
  <2>1. r' = r /\ ~w.live /\ (cb' = IF w'.live THEN [cb EXCEPT !["worker"] = "map"] ELSE cb)
    BY <1>3 DEF LiveBegins, HandlePublication, Goto
  <2> QED
    BY <1>0, <2>1 DEF TypeOK, WorkerOK, HandlePublication
<1>4. ASSUME NEW p \in Refreshers, ApplyBegins(p) PROVE CallbacksOK'
  <2>1. /\ w' = w /\ r[p].pc \in {"fetched", "drain"}
        /\ \A q \in Refreshers : q # p => r'[q] = r[q]
    BY <1>4 DEF ApplyBegins, MergePending, DrainPending, TakePending, Go, At, TypeOK, RefreshersOK
  <2>2. CASE r'[p].pc \in {"apply", "applyLive"}
    BY <1>0, <1>4, <2>1, <2>2 DEF ApplyBegins, Goto
  <2>3. CASE r'[p].pc \notin {"apply", "applyLive"}
    BY <1>0, <1>4, <2>1, <2>3 DEF ApplyBegins
  <2> QED
    BY <2>2, <2>3
<1>5. ASSUME NEW p \in Refreshers,
             Quiet(RefreshLock(p) \/ FetchFails(p) \/ FetchReturns(p) \/ Retry(p))
      PROVE  CallbacksOK'
  <2>1. w' = w /\ cb' = cb /\ \A q \in Refreshers : q # p => r'[q] = r[q]
    BY <1>5 DEF Quiet, overviewVars, RefreshLock, FetchFails, FetchReturns, Retry, Go,
                TypeOK, RefreshersOK
  <2>2. r[p].pc \notin {"apply", "applyLive"} /\ r'[p].pc \notin {"apply", "applyLive"}
    <3>1. CASE Retry(p)
      <4>1. \/ r' = [r EXCEPT ![p].tries = 2, ![p].pc = "lock"]
            \/ r' = [r EXCEPT ![p].tries = 2] /\ r[p].pc = "err"
        BY <3>1 DEF Retry, At
      <4>2. r[p].pc = "err"
        BY <3>1 DEF Retry, At
      <4>3. r'[p].pc \in {"err", "lock"}
        BY <4>1, <4>2 DEF TypeOK, RefreshersOK, Refresher
      <4> QED
        BY <4>2, <4>3
    <3>2. CASE RefreshLock(p) \/ FetchFails(p) \/ FetchReturns(p)
      BY <3>2 DEF RefreshLock, FetchFails, FetchReturns, Go, At, TypeOK, RefreshersOK, Refresher
    <3> QED
      BY <1>5, <3>1, <3>2 DEF Quiet
  <2> QED
    BY <1>0, <2>1, <2>2
<1>6. CASE \/ Quiet(StartConnected \/ StartRefreshed \/ StartFails \/ SendRefreshDone)
           \/ Quiet(RunTop \/ Subscribed \/ SubscribeFails \/ BackoffEnds
                    \/ DrainCancelled \/ DrainSubDone \/ ReconnectRefreshed \/ LiveEnds)
           \/ Quiet(Start \/ ServerAccepts \/ SubEnds \/ ClientClose \/ CancelContext)
           \/ (\E p \in Users : Quiet(UserRefresh(p) \/ UserReturns(p)))
           \/ CloseStream \/ UNCHANGED allVars
  <2>1. Calm /\ cb' = cb
    BY <1>6, CalmSteps DEF Quiet, CloseStream, overviewVars, allVars
  <2> QED
    BY <1>a, <2>1 DEF Calm
<1>7. CASE Quiet(Receive \/ ReadPanics) \/ Quiet(Publish)
  <2>1. cb' = cb /\ r' = r /\ w'.live = w.live
    BY <1>7 DEF Quiet, overviewVars, Receive, ReadPanics, Publish, TypeOK, WorkerOK
  <2> QED
    BY <1>a, <2>1 DEF Outer
<1>8. CASE OverviewRest \/ Consume \/ CloseUpdates \/ DoneCloses \/ Crash
  BY <1>8 DEF OverviewRest, Quiet, Rest, overviewVars, Consume, CloseUpdates, DoneCloses, Crash, vars
<1>9. CASE OverviewWorker
  BY <1>0, <1>2, <1>3, <1>6, <1>7, <1>9 DEF OverviewWorker, Quiet
<1>10. CASE OverviewEnv
  BY <1>6, <1>7, <1>8, <1>10 DEF OverviewEnv, Quiet
<1>11. ASSUME NEW p \in Refreshers, OverviewRefresher(p) PROVE CallbacksOK'
  BY <1>0, <1>2, <1>4, <1>5, <1>11 DEF OverviewRefresher
<1> QED
  BY <1>6, <1>8, <1>9, <1>10, <1>11 DEF OverviewNext

LEMMA FirstNext ==
    ASSUME TypeOK, Reconnecting, First, [Next]_vars
    PROVE  First'
<1> SUFFICES ASSUME env'.conns = 0 PROVE First'
  BY DEF First
<1> USE DEF First, NoSub
<1>a. Ask => env'.conns = env.conns
  BY DEF Ask, TypeOK, EnvOK
<1>b. \A o : Callback(o) =>
        env'.conns = env.conns /\ (s'.pending = s.pending \/ s'.pending = <<>>)
  BY <1>a DEF Callback, Requested, Stop, FailClosed, TypeOK, CoordOK, Coordinator
<1>c. s' \in {s, SetErr, Stop, FailClosed, Requested} =>
        s'.pending = s.pending \/ s'.pending = <<>>
  BY DEF SetErr, Requested, Stop, FailClosed, TypeOK, CoordOK, Coordinator
<1>1. CASE \E p \in Refreshers : Refresh(p)
  <2>1. PICK p \in Refreshers : Refresh(p)
    BY <1>1
  <2>2. UNCHANGED <<sub, w>>
    BY <2>1 DEF Refresh, RefreshLock, FetchFails, FetchReturns, MergePending, ApplySnapshot,
                ApplyBuffered, Deliver, DrainPending, Retry
  <2>3. env'.conns = env.conns /\ (s'.pending = s.pending \/ s'.pending = <<>>)
    <3>1. CASE \E o \in Outcomes : ApplySnapshot(p, o) \/ ApplyBuffered(p, o)
      BY <1>b, <3>1 DEF ApplySnapshot, ApplyBuffered, Deliver
    <3>2. CASE RefreshLock(p) \/ FetchFails(p) \/ FetchReturns(p) \/ Retry(p)
      BY <3>2 DEF RefreshLock, FetchFails, FetchReturns, Retry, SetErr, TypeOK, CoordOK, Coordinator
    <3>3. CASE MergePending(p) \/ DrainPending(p)
      BY <3>3 DEF MergePending, DrainPending, TakePending, TypeOK, CoordOK, Coordinator
    <3> QED
      BY <2>1, <3>1, <3>2, <3>3 DEF Refresh
  <2> QED
    BY <2>2, <2>3
<1>2. CASE RunTop \/ BackoffEnds \/ Subscribed \/ DrainCancelled \/ DrainSubDone
  BY <1>2 DEF RunTop, BackoffEnds, Subscribed, DrainCancelled, DrainSubDone, TypeOK, WorkerOK
<1>3. CASE SubscribeFails
  BY <1>c, <1>3 DEF SubscribeFails, Signal, TypeOK, WorkerOK
<1>4. CASE ReconnectRefreshed \/ LiveEnds
  <2>1. sub.err \in {"none", "transient", "terminal"}
    BY DEF SubOK, TypeOK
  <2>2. s' \in {FailClosed, SetErr, s} /\ sub' \in {sub, NoSub} /\ UNCHANGED env
    BY <1>4, <2>1 DEF LiveEnds, ReconnectRefreshed
  <2>3. w'.hand = w.hand /\ w'.connected = w.connected /\ w.pc # "done"
    BY <1>4 DEF LiveEnds, ReconnectRefreshed, TypeOK, WorkerOK
  <2> QED
    BY <1>c, <2>2, <2>3
<1>5. CASE Receive \/ HandlePublication \/ ReadPanics \/ (\E o \in Outcomes : ApplyLive(o))
  <2>1. env.conns = 0
    BY <1>b, <1>5 DEF Receive, HandlePublication, ReadPanics, ApplyLive
  <2> QED
    BY <1>5, <2>1 DEF Receive, HandlePublication, ReadPanics, ApplyLive
<1>6. CASE Start
  BY <1>6 DEF Start, Reconnecting, TypeOK, WorkerOK, CoordOK, Coordinator
<1>7. CASE StartConnected \/ StartRefreshed \/ StartFails \/ SendRefreshDone
  BY <1>c, <1>7 DEF StartConnected, StartRefreshed, StartFails, SendRefreshDone
<1>8. CASE GapTop \/ GapRefreshed
  BY <1>8 DEF GapTop, GapRefreshed, FailClosed, Stop, TypeOK, CoordOK, Coordinator
<1>9. CASE ServerAccepts
  BY <1>9, Assumptions DEF ServerAccepts, TypeOK, EnvOK
<1>10. CASE Publish \/ SubEnds \/ ClientClose \/ CancelContext
  BY <1>10 DEF Publish, SubEnds, ClientClose, CancelContext, TypeOK, EnvOK, CoordOK, Coordinator
<1>11. CASE UserStop \/ UserRequest
  BY <1>a, <1>c, <1>11 DEF UserStop, UserRequest
<1>12. CASE \E p \in Users : UserRefresh(p) \/ UserReturns(p)
  BY <1>a, <1>12 DEF UserRefresh, UserReturns
<1>13. CASE Rest \/ UNCHANGED vars
  BY <1>13 DEF Rest, vars
<1> QED
  BY <1>1, <1>2, <1>3, <1>4, <1>5, <1>6, <1>7, <1>8, <1>9, <1>10, <1>11, <1>12, <1>13
  DEF Next, Worker

\* A stream is on its first subscription because it was, or because the server
\* has just accepted it.
LEMMA OnFirstFrom ==
    ASSUME TypeOK, First, Emptied, [Next]_vars, OnFirst'
    PROVE  OnFirst \/ (env.conns = 0 /\ ServerAccepts)
<1>1. ~s.disposed
  BY StepSettles DEF Settles, OnFirst
<1>a. Ask => env'.conns = env.conns
  BY DEF Ask, TypeOK, EnvOK
<1>b. NoSub.st # "open"
  BY DEF NoSub
<1>2. CASE ServerAccepts
  BY <1>1, <1>2 DEF ServerAccepts, OnFirst, TypeOK, EnvOK
<1>3. CASE Publish \/ SubEnds \/ ClientClose \/ CancelContext \/ Receive
  BY <1>1, <1>3 DEF Publish, Enqueue, SubEnds, ClientClose, CancelContext, Receive, OnFirst,
                    TypeOK, EnvOK, SubOK
<1>4. ASSUME sub' \in {sub, NoSub}, env'.conns = env.conns PROVE OnFirst
  BY <1>1, <1>b, <1>4 DEF OnFirst
<1>5. CASE \E p \in Refreshers : Refresh(p)
  BY <1>a, <1>4, <1>5 DEF Refresh, RefreshLock, FetchFails, FetchReturns, MergePending,
       ApplySnapshot, ApplyBuffered, Deliver, Callback, DrainPending, Retry
<1>6. CASE \/ RunTop \/ BackoffEnds \/ Subscribed \/ DrainCancelled \/ DrainSubDone
           \/ SubscribeFails \/ ReconnectRefreshed \/ LiveEnds
  BY <1>4, <1>6 DEF RunTop, BackoffEnds, Subscribed, DrainCancelled, DrainSubDone,
       SubscribeFails, ReconnectRefreshed, LiveEnds
<1>7. CASE HandlePublication \/ ReadPanics \/ (\E o \in Outcomes : ApplyLive(o))
  BY <1>a, <1>4, <1>7 DEF HandlePublication, ReadPanics, ApplyLive, Callback
<1>8. CASE \/ Start \/ StartConnected \/ StartRefreshed \/ StartFails \/ SendRefreshDone
           \/ GapTop \/ GapRefreshed
  BY <1>4, <1>8 DEF Start, StartConnected, StartRefreshed, StartFails, SendRefreshDone,
       GapTop, GapRefreshed
<1>9. CASE UserStop \/ UserRequest \/ (\E p \in Users : UserRefresh(p) \/ UserReturns(p))
           \/ Rest \/ UNCHANGED vars
  BY <1>a, <1>4, <1>9 DEF UserStop, UserRequest, UserRefresh, UserReturns, Rest, vars
<1> QED
  BY <1>2, <1>3, <1>5, <1>6, <1>7, <1>8, <1>9 DEF Next, Worker

LEMMA LastIs ==
    ASSUME TypeOK, NEW m \in Selected
    PROVE  /\ LastOf(m) \in Nat /\ LastOf(m) <= env.published /\ LastOf(m) \notin Silent
           /\ LastOf(m) # 0 => LastOf(m) \in 1..env.published /\ MarketOf[LastOf(m)] = m
           /\ \A k \in 1..env.published : MarketOf[k] = m => k <= LastOf(m)
<1>1. env.published \in Nat /\ env.published <= MaxPubs /\ MaxPubs \in Nat
  BY Assumptions DEF TypeOK, EnvOK
<1>2. 1..env.published \in SUBSET (1..env.published)
  OBVIOUS
<1>3. /\ LastOf(m) \in Nat /\ LastOf(m) <= env.published
      /\ LastOf(m) # 0 => LastOf(m) \in 1..env.published /\ MarketOf[LastOf(m)] = m
      /\ \A k \in 1..env.published : MarketOf[k] = m => k <= LastOf(m)
  BY <1>1, <1>2, RowOfIs DEF LastOf
<1>4. \A k \in Silent : k # 0 /\ MarketOf[k] \notin Selected
  BY <1>1, OverviewAssumptions DEF Pubs
<1> QED
  BY <1>3, <1>4

\* A step that leaves the rows, and what is still to be applied, as they are.
LEMMA FollowFrame ==
    ASSUME TypeOK, Following, OnFirst, OnFirst', env'.published = env.published, rows' = rows,
           \A k : Ahead(k)' => Ahead(k),
           \A k : k \notin Silent /\ Ahead(k) => Ahead(k)',
           Fetched' => Fetched,
           \A p \in Refreshers :
              (Brings(p)' <=> Brings(p)) /\ (Brings(p) => r'[p].snap = r[p].snap)
    PROVE  Following'
<1>1. Closed'
  BY DEF Following, Closed
<1>2. Covered'
  BY DEF Following, Covered
<1>3. ASSUME Fetched', NEW m \in Selected PROVE Good(m)'
  <2>1. LastOf(m)' = LastOf(m)
    BY DEF LastOf
  <2>2. LastOf(m) \notin Silent
    BY LastIs
  <2>3. Good(m)
    BY <1>3 DEF Following
  <2> HIDE DEF LastOf
  <2> QED
    BY <2>1, <2>2, <2>3 DEF Good
<1> QED
  BY <1>1, <1>2, <1>3 DEF Following

\* The coordinator's own steps.
LEMMA FollowCalm ==
    ASSUME CoordInv, CallbacksOK, First, Following, Calm, [Next]_vars,
           UNCHANGED <<rows, cb>>, Fetched' => Fetched
    PROVE  Following'
<1> SUFFICES ASSUME OnFirst' PROVE Following'
  BY DEF Following
<1>1. TypeOK /\ Emptied /\ Exclusive /\ Early
  BY DEF CoordInv
<1>2. CASE OnFirst
  <2>1. ~s'.disposed /\ sub'.st = "open"
    BY DEF OnFirst
  <2>2. /\ s'.pending = s.pending /\ sub'.queue = sub.queue
        /\ env'.published = env.published /\ w'.hand = w.hand
    BY <2>1 DEF Calm, Steady
  <2>3. \A p \in Refreshers :
          r'[p] = r[p] \/ (cb[p] = "off" /\ r[p].pc \notin Section /\ r'[p].pc \notin Section)
    BY DEF Calm, Outer, CallbacksOK, Section
  <2>4. \A k : Ahead(k)' <=> Ahead(k)
    BY <2>2, <2>3 DEF Ahead
  <2>5. \A p \in Refreshers :
          (Brings(p)' <=> Brings(p)) /\ (Brings(p) => r'[p].snap = r[p].snap)
    BY <2>3 DEF Brings, Fetching, Section
  <2> QED
    BY <1>1, <1>2, <2>2, <2>4, <2>5, FollowFrame
<1>3. CASE env.conns = 0 /\ ServerAccepts
  <2>1. /\ w.pc = "subscribing" /\ sub'.queue = sub.queue /\ UNCHANGED <<w, s, r>>
    BY <1>3 DEF ServerAccepts, TypeOK, SubOK
  <2>2. w.connected = "none" /\ sub.queue = <<>> /\ w.hand = 0 /\ s.pending = <<>>
    BY <1>3, <2>1 DEF First, NoSub
  <2>3. ~s.ready /\ \A p \in Refreshers : r[p].pc = "off"
    BY <1>1, <2>2 DEF Early
  <2>4. \A p \in Refreshers : cb[p] = "off"
    BY <2>3 DEF CallbacksOK
  <2>5. \A k : ~Ahead(k)'
    BY <2>1, <2>2, <2>4 DEF Ahead, Range
  <2>6. ~Fetched' /\ \A p \in Refreshers : ~Brings(p)'
    BY <2>1, <2>3 DEF Fetched, Brings, Fetching, Section
  <2> QED
    BY <2>5, <2>6 DEF Following, Closed, Covered
<1> QED
  BY <1>1, <1>2, <1>3, OnFirstFrom

\* A publication moves on: it is received, dropped, buffered or begun.
LEMMA FollowReceive ==
    ASSUME CoordInv, CallbacksOK, First, Following, Quiet(Receive) \/ LiveBegins
    PROVE  Following'
<1> SUFFICES ASSUME OnFirst' PROVE Following'
  BY DEF Following
<1>1. TypeOK /\ Emptied /\ Exclusive /\ Ordered /\ Accounted
  BY DEF CoordInv
<1>2. [Next]_vars /\ ~ServerAccepts
  <2>1. Receive \/ HandlePublication
    BY DEF Quiet, LiveBegins
  <2>2. UNCHANGED env /\ env.conns \in Nat
    BY <1>1, <2>1, Assumptions DEF Receive, HandlePublication, TypeOK, EnvOK
  <2>3. ~ServerAccepts
    BY <1>1, <2>2 DEF ServerAccepts, TypeOK, EnvOK
  <2> QED
    BY <2>1, <2>3 DEF Next, Worker
<1>3. OnFirst
  BY <1>1, <1>2, OnFirstFrom
<1>4. ~s.disposed /\ ~s'.disposed
  BY <1>3 DEF OnFirst
<1>5. UNCHANGED <<env, r, rows>>
  BY DEF Quiet, Receive, LiveBegins, HandlePublication, overviewVars
<1>6. sub.queue \in Seq(Nat) /\ s.pending \in Seq(Nat) /\ w.hand \in Nat
  BY <1>1, Places
<1>7. CASE Quiet(Receive)
  <2>1. /\ w.hand = 0 /\ sub.queue # <<>> /\ sub'.queue = Tail(sub.queue)
        /\ w'.hand = Head(sub.queue) /\ w'.live = w.live /\ UNCHANGED <<s, cb>>
    BY <1>1, <1>4, <1>7 DEF Quiet, Receive, overviewVars, TypeOK, WorkerOK, SubOK
  <2>2. cb["worker"] = "off"
    BY <1>1, <1>4, <2>1 DEF Accounted, Seen, CallbacksOK
  <2>3. \A k : k \in Range(sub.queue) <=> k \in Range(Tail(sub.queue)) \/ k = Head(sub.queue)
    <3>1. ASSUME NEW k \in Range(Tail(sub.queue)) PROVE k \in Range(sub.queue)
      BY <1>6, <2>1, <3>1 DEF Range
    <3>2. Head(sub.queue) \in Range(sub.queue)
      BY <1>6, <2>1 DEF Range
    <3> QED
      BY <1>6, <2>1, <3>1, <3>2, RangeTail
  <2>4. Head(sub.queue) # 0
    BY <1>1, <2>1, Assumptions DEF TypeOK, SubOK, Pubs
  <2>5. \A k : Ahead(k)' <=> Ahead(k)
    BY <1>5, <2>1, <2>2, <2>3, <2>4 DEF Ahead
  <2> QED
    BY <1>1, <1>3, <1>5, <2>1, <2>5, FollowFrame DEF Brings, Fetched
<1>8. CASE LiveBegins
  <2>a. cb' = [cb EXCEPT !["worker"] = "map"] \/ cb' = cb
    BY <1>8 DEF LiveBegins, Goto
  <2>b. \A p \in Refreshers : p # "worker" /\ p \in InCallbacks
    BY OverviewAssumptions DEF Refreshers, InCallbacks
  <2>c. \A p \in Refreshers : cb'[p] = cb[p]
    BY <2>a, <2>b DEF CallbacksOK
  <2>1. /\ w.hand # 0 /\ ~w.live /\ UNCHANGED sub /\ cb["worker"] = "off"
        /\ \A p \in Refreshers : cb'[p] = cb[p]
    BY <1>8, <2>c DEF LiveBegins, HandlePublication, CallbacksOK
  <2>2. (s'.ready => s.ready)
    BY <1>1, <1>8 DEF LiveBegins, HandlePublication, FailClosed, Stop, TypeOK, CoordOK, Coordinator
  <2>3. Fetched' => Fetched
    BY <1>5, <2>2 DEF Fetched
  <2>4. \A p \in Refreshers :
          (Brings(p)' <=> Brings(p)) /\ (Brings(p) => r'[p].snap = r[p].snap)
    BY <1>5, <2>1 DEF Brings
  <2>5. /\ \A k : Ahead(k)' => Ahead(k)
        /\ \A k : k \notin Silent /\ Ahead(k) => Ahead(k)'
    <3>1. CASE w.hand \in Silent
      <4>1. w'.hand = 0 /\ UNCHANGED s
        BY <1>1, <1>4, <1>8, <3>1 DEF LiveBegins, HandlePublication, TypeOK, WorkerOK
      <4> QED
        BY <1>5, <2>1, <3>1, <4>1 DEF Ahead
    <3>2. CASE w.hand \notin Silent /\ s.ready
      <4>1. w'.hand = w.hand /\ w'.live /\ UNCHANGED s /\ cb'["worker"] = "map"
        BY <1>1, <1>4, <1>8, <3>2 DEF LiveBegins, HandlePublication, TypeOK, WorkerOK, Goto,
                                     CallbacksOK, InCallbacks
      <4> QED
        BY <1>5, <2>1, <4>1 DEF Ahead
    <3>3. CASE w.hand \notin Silent /\ ~s.ready
      <4>a. s' # FailClosed
        BY <1>1, <1>4 DEF FailClosed, Stop, TypeOK, CoordOK, Coordinator
      <4>1. s' = [s EXCEPT !.pending = Append(@, w.hand)] /\ w' = [w EXCEPT !.hand = 0]
        BY <1>4, <1>8, <3>3, <4>a DEF LiveBegins, HandlePublication
      <4>2. s'.pending = Append(s.pending, w.hand) /\ w'.hand = 0
        BY <1>1, <4>1 DEF TypeOK, WorkerOK, CoordOK, Coordinator
      <4>3. \A k : k \in Range(Append(s.pending, w.hand)) <=> k \in Range(s.pending) \/ k = w.hand
        <5>1. ASSUME NEW k \in Range(Append(s.pending, w.hand)), k # w.hand
              PROVE  k \in Range(s.pending)
          BY <1>6, <5>1 DEF Range
        <5> QED
          BY <1>6, <5>1, RangeAppend
      <4> QED
        BY <1>5, <2>1, <4>2, <4>3 DEF Ahead
    <3> QED
      BY <3>1, <3>2, <3>3
  <2> QED
    BY <1>1, <1>3, <1>5, <2>3, <2>4, <2>5, FollowFrame
<1> QED
  BY <1>7, <1>8

LEMMA OnFirstStays ==
    ASSUME TypeOK, First, Emptied, [Next]_vars, OnFirst', env'.conns = env.conns
    PROVE  OnFirst
<1>1. ~ServerAccepts
  BY DEF ServerAccepts, TypeOK, EnvOK
<1> QED
  BY <1>1, OnFirstFrom

\* RefreshSnapshot calls a callback, with what was pending; or it is done.
LEMMA FollowBegins ==
    ASSUME CoordInv, CallbacksOK, First, Following, NEW p \in Refreshers, ApplyBegins(p)
    PROVE  Following'
<1> SUFFICES ASSUME OnFirst' PROVE Following'
  BY DEF Following
<1>1. TypeOK /\ Emptied /\ Exclusive /\ Accounted
  BY DEF CoordInv
<1>2. /\ UNCHANGED <<env, sub, w, rows>> /\ r[p].pc \in {"fetched", "drain"}
      /\ [Next]_vars /\ "worker" # p /\ p \in InCallbacks /\ "worker" \in InCallbacks
  <2>1. Refresh(p)
    BY DEF ApplyBegins, Refresh
  <2> QED
    BY <2>1, OverviewAssumptions
    DEF ApplyBegins, MergePending, DrainPending, At, Next, InCallbacks, Refreshers
<1>3. OnFirst
  BY <1>1, <1>2, OnFirstStays
<1>4. Current(p)
  BY <1>1, <1>2, <1>3 DEF OnFirst, Accounted, Latest, Current, Section
<1>5. /\ cb[p] = "off" /\ r[p].buf = <<>> /\ Fetched
      /\ \A q \in Refreshers : q # p => r[q].pc \notin Section
  BY <1>1, <1>2 DEF CallbacksOK, Exclusive, Fetched, Section
<1>6. CASE \E pc \in {"apply", "applyLive"} : TakePending(p, pc)
  <2>1. PICK pc \in {"apply", "applyLive"} : TakePending(p, pc)
    BY <1>6
  <2>2. /\ r'[p].pc = pc /\ r'[p].buf = s.pending /\ r'[p].snap = r[p].snap
        /\ s'.pending = <<>> /\ \A q \in Refreshers : q # p => r'[q] = r[q]
    BY <1>1, <2>1 DEF TakePending, TypeOK, RefreshersOK, Refresher, CoordOK, Coordinator
  <2>3. r[p].pc = "fetched" <=> pc = "apply"
    <3>1. CASE MergePending(p)
      BY <2>2, <3>1, <1>4 DEF MergePending, TakePending, At, Go, TypeOK, RefreshersOK, Refresher, CoordInv
    <3>2. CASE DrainPending(p)
      BY <2>2, <3>2, <1>4 DEF DrainPending, TakePending, At, Go, TypeOK, RefreshersOK, Refresher, CoordInv
    <3> QED
      BY <3>1, <3>2 DEF ApplyBegins
  <2>4. cb' = [cb EXCEPT ![p] = "map"]
    BY <2>2 DEF ApplyBegins, Goto
  <2>5. cb'[p] = "map" /\ \A q \in InCallbacks : q # p => cb'[q] = cb[q]
    BY <1>2, <2>4 DEF CallbacksOK
  <2>6. Range(<<>>) = {}
    BY DEF Range
  <2>7. \A k : Ahead(k)' <=> Ahead(k)
    <3> SUFFICES ASSUME NEW k PROVE Ahead(k)' <=> Ahead(k)
      OBVIOUS
    <3>1. Ahead(k) <=> \/ k \in Range(sub.queue) \/ k \in Range(s.pending)
                       \/ k = w.hand /\ k # 0 /\ cb["worker"] \in {"off", "map"}
                       \/ \E q \in Refreshers \ {p} : cb[q] = "map" /\ k \in Range(r[q].buf)
      BY <1>5 DEF Ahead
    <3>2. Ahead(k)' <=> \/ k \in Range(sub.queue) \/ k \in Range(s.pending)
                        \/ k = w.hand /\ k # 0 /\ cb["worker"] \in {"off", "map"}
                        \/ \E q \in Refreshers \ {p} : cb'[q] = "map" /\ k \in Range(r'[q].buf)
      BY <1>2, <2>2, <2>5, <2>6 DEF Ahead
    <3>3. \A q \in Refreshers \ {p} : cb'[q] = cb[q] /\ r'[q] = r[q]
      BY <2>2, <2>5 DEF InCallbacks
    <3> QED
      BY <3>1, <3>2, <3>3
  <2>8. \A q \in Refreshers :
          (Brings(q)' <=> Brings(q)) /\ (Brings(q) => r'[q].snap = r[q].snap)
    <3>1. (Brings(p)' <=> Brings(p)) /\ r'[p].snap = r[p].snap
      BY <1>2, <1>5, <2>2, <2>3, <2>5 DEF Brings, Fetching
    <3>2. \A q \in Refreshers : q # p => cb'[q] = cb[q] /\ r'[q] = r[q]
      BY <2>2, <2>5 DEF InCallbacks
    <3> QED
      BY <3>1, <3>2 DEF Brings
  <2> QED
    BY <1>1, <1>2, <1>3, <1>5, <2>7, <2>8, FollowFrame
<1>7. CASE Go(p, "nil")
  <2>1. /\ r[p].pc = "drain" /\ r'[p].pc = "nil" /\ s'.pending = s.pending
        /\ \A q \in Refreshers : q # p => r'[q] = r[q]
    <3>1. CASE MergePending(p)
      BY <1>4, <1>7, <3>1, <1>1 DEF MergePending, TakePending, At, Go, TypeOK, RefreshersOK, Refresher
    <3>2. CASE DrainPending(p)
      <4>1. r[p].pc = "drain" /\ r'[p].pc = "nil" /\ \A q \in Refreshers : q # p => r'[q] = r[q]
        BY <1>1, <1>7, <3>2 DEF DrainPending, At, Go, TypeOK, RefreshersOK, Refresher
      <4>2. ~TakePending(p, "applyLive")
        BY <1>1, <4>1 DEF TakePending, TypeOK, RefreshersOK, Refresher
      <4>3. s' = s \/ s' = [s EXCEPT !.ready = TRUE, !.lastErr = FALSE]
        BY <3>2, <4>2 DEF DrainPending
      <4>4. s'.pending = s.pending
        BY <1>1, <4>3 DEF TypeOK, CoordOK, Coordinator
      <4> QED
        BY <4>1, <4>4
    <3> QED
      BY <3>1, <3>2 DEF ApplyBegins
  <2>2. cb' = cb
    BY <2>1 DEF ApplyBegins
  <2>3. \A k : Ahead(k)' <=> Ahead(k)
    BY <1>2, <1>5, <2>1, <2>2 DEF Ahead
  <2>4. \A q \in Refreshers :
          (Brings(q)' <=> Brings(q)) /\ (Brings(q) => r'[q].snap = r[q].snap)
    BY <2>1, <2>2 DEF Brings, Fetching
  <2> QED
    BY <1>1, <1>2, <1>3, <1>5, <2>3, <2>4, FollowFrame
<1> QED
  BY <1>4, <1>6, <1>7 DEF ApplyBegins, MergePending, DrainPending

\* A callback ends; what it wrote to the map is no longer ahead.
LEMMA FollowLeaves ==
    ASSUME CoordInv, CallbacksOK, First, Following, NEW p \in InCallbacks, NEW o \in Outcomes,
           cb[p] \in {"enqueue", "stop"}, Leaves(p, o)
    PROVE  Following'
<1> SUFFICES ASSUME OnFirst' PROVE Following'
  BY DEF Following
<1>1. TypeOK /\ Emptied /\ Exclusive
  BY DEF CoordInv
<1>2. [Next]_vars /\ UNCHANGED <<sub, rows>> /\ Callback(o)
  BY LeavesIsNext DEF Leaves, ApplyLive, ApplySnapshot, ApplyBuffered, Deliver
<1>3. env'.conns = env.conns /\ env'.published = env.published
  BY <1>1, <1>2 DEF Callback, Ask, TypeOK, EnvOK
<1>4. OnFirst
  BY <1>1, <1>2, <1>3, OnFirstStays
<1>5. s'.pending = s.pending /\ (s'.ready => s.ready)
  BY <1>1, <1>2, SteadySections DEF Steady, OnFirst
<1>6. cb'[p] = "off" /\ \A q \in InCallbacks : q # p => cb'[q] = cb[q]
  BY DEF Leaves, CallbacksOK
<1>7. CASE p = "worker"
  <2>1. r' = r /\ w'.hand = 0
    BY <1>1, <1>7 DEF Leaves, ApplyLive, TypeOK, WorkerOK
  <2>2. \A q \in Refreshers : q \in InCallbacks /\ q # p
    BY <1>7, OverviewAssumptions DEF Refreshers, InCallbacks
  <2>3. \A k : Ahead(k)' <=> Ahead(k)
    BY <1>2, <1>5, <1>6, <1>7, <2>1, <2>2 DEF Ahead
  <2>4. \A q \in Refreshers :
          (Brings(q)' <=> Brings(q)) /\ (Brings(q) => r'[q].snap = r[q].snap)
    BY <1>6, <2>1, <2>2 DEF Brings
  <2>5. Fetched' => Fetched
    BY <1>5, <2>1 DEF Fetched
  <2> QED
    BY <1>1, <1>2, <1>3, <1>4, <2>3, <2>4, <2>5, FollowFrame
<1>8. CASE p # "worker"
  <2>1. p \in Refreshers /\ Deliver(p, o) /\ "worker" \in InCallbacks
    BY <1>8 DEF Leaves, ApplySnapshot, ApplyBuffered, InCallbacks
  <2>2. /\ w' = w /\ r'[p].pc \in {"err", "drain"}
        /\ \A q \in Refreshers : q # p => r'[q] = r[q]
    BY <1>1, <2>1 DEF Deliver, TypeOK, RefreshersOK, Refresher
  <2>3. \A q \in Refreshers : q # p => cb'[q] = cb[q]
    BY <1>6 DEF InCallbacks
  <2>4. \A k : Ahead(k)' <=> Ahead(k)
    BY <1>2, <1>5, <1>6, <1>8, <2>1, <2>2, <2>3 DEF Ahead
  <2>5. \A q \in Refreshers :
          (Brings(q)' <=> Brings(q)) /\ (Brings(q) => r'[q].snap = r[q].snap)
    BY <2>2, <2>3 DEF Brings, Fetching
  <2>6. Fetched
    BY <2>1 DEF CallbacksOK, Fetched, Section
  <2> QED
    BY <1>1, <1>2, <1>3, <1>4, <2>4, <2>5, <2>6, FollowFrame
<1> QED
  BY <1>7, <1>8

LEMMA RangeBelow ==
    ASSUME NEW a, NEW b, Below(a, b), NEW x \in Range(a), NEW y \in Range(b)
    PROVE  x < y
BY DEF Below, Range

\* A live publication is written to the map.
LEMMA FollowLive ==
    ASSUME CoordInv, CallbacksOK, First, Following, UseMap("worker")
    PROVE  Following'
<1> SUFFICES ASSUME OnFirst' PROVE Following'
  BY DEF Following
<1>1. TypeOK /\ Emptied /\ Exclusive /\ Ordered /\ Accounted
  BY DEF CoordInv
<1>2. /\ UNCHANGED <<env, sub, w, s, r>> /\ OnFirst
      /\ cb["worker"] = "map" /\ cb' = [cb EXCEPT !["worker"] = "enqueue"]
      /\ rows' = ApplyRows(rows, {w.hand})
  BY DEF UseMap, vars, In, Goto, OnFirst
<1>3. "worker" \in InCallbacks /\ \A q \in Refreshers : q # "worker" /\ q \in InCallbacks
  BY OverviewAssumptions DEF Refreshers, InCallbacks
<1>4. cb'["worker"] = "enqueue" /\ \A q \in Refreshers : cb'[q] = cb[q]
  BY <1>2, <1>3 DEF CallbacksOK
<1>5. /\ w.hand \in 1..env.published /\ env.published \in Nat
      /\ s.pending = <<>> /\ \A q \in Refreshers : r[q].buf = <<>>
      /\ \A q \in Refreshers : Brings(q) => w.hand <= r[q].snap
  <2>1. w.live
    BY <1>2 DEF CallbacksOK
  <2>2. w.hand # 0 /\ w.hand \in Nat /\ w.hand <= env.published /\ env.published \in Nat
    BY <1>1, <1>2, <2>1, Places DEF OnFirst, Accounted, Seen, Ordered
  <2>3. \A q \in Refreshers : Brings(q) => w.hand <= r[q].snap
    BY <1>1, <1>2, <2>1 DEF OnFirst, Accounted, Seen, Brings
  <2> QED
    BY <1>1, <2>1, <2>2, <2>3 DEF Exclusive
<1>6. \A k : Ahead(k)' <=> k \in Range(sub.queue)
  BY <1>2, <1>4, <1>5 DEF Ahead, Range
<1>7. \A k : Ahead(k) <=> k \in Range(sub.queue) \/ k = w.hand
  BY <1>2, <1>5 DEF Ahead, Range
<1>8. \A k \in Range(sub.queue) : w.hand < k
  BY <1>1, <1>5 DEF Ordered, Over, Range
<1>a. \A q \in Refreshers : (Brings(q)' <=> Brings(q)) /\ r'[q].snap = r[q].snap
  BY <1>2, <1>4 DEF Brings
<1>b. Closed /\ Covered /\ (Fetched => \A m \in Selected : Good(m))
  BY <1>2 DEF Following
<1>9. Closed'
  <2> SUFFICES ASSUME NEW j \in Pubs, NEW k \in 1..env.published, Ahead(j)', j < k, k \notin Silent
               PROVE  Ahead(k)'
    BY <1>2 DEF Closed
  <2>1. Ahead(k) /\ w.hand < j
    BY <1>6, <1>7, <1>8, <1>b DEF Closed
  <2>2. j \in Nat
    BY Assumptions DEF Pubs
  <2> QED
    BY <1>5, <1>6, <1>7, <2>1, <2>2
<1>10. Covered'
  <2> SUFFICES ASSUME NEW q \in Refreshers, Brings(q), NEW k \in 1..env.published
               PROVE  k <= r[q].snap \/ k \in Silent \/ Ahead(k)'
    BY <1>2, <1>a DEF Covered
  <2> QED
    BY <1>5, <1>6, <1>7, <1>b DEF Covered
<1>11. ASSUME Fetched', NEW m \in Selected PROVE Good(m)'
  <2>1. LastOf(m)' = LastOf(m) /\ Good(m)
    BY <1>2, <1>11, <1>b DEF LastOf, Fetched
  <2>a. PICK L : L = LastOf(m)
    OBVIOUS
  <2>2. /\ L \in Nat /\ L <= env.published /\ L \notin Silent
        /\ L # 0 => L \in 1..env.published /\ MarketOf[L] = m
        /\ \A k \in 1..env.published : MarketOf[k] = m => k <= L
    BY <1>1, <2>a, LastIs
  <2>3. rows'[m] = IF MarketOf[w.hand] = m THEN w.hand ELSE rows[m]
    <3>1. {w.hand} \in SUBSET (1..env.published) /\ m \in Markets
      BY <1>5, OverviewAssumptions
    <3> DEFINE h == RowOf(m, {w.hand})
    <3>2. /\ h \in Nat
          /\ h # 0 => h = w.hand /\ MarketOf[h] = m
          /\ MarketOf[w.hand] = m => w.hand <= h
      BY <1>5, <3>1, RowOfIs
    <3>3. rows'[m] = IF h # 0 THEN h ELSE rows[m]
      BY <1>2, <3>1 DEF ApplyRows
    <3> HIDE DEF h
    <3> QED
      BY <1>5, <3>2, <3>3
  <2>4. LastOf(m)' = L
    BY <2>1, <2>a
  <2>5. CASE MarketOf[w.hand] = m /\ w.hand # L
    <3>1. w.hand < L /\ L \in 1..env.published
      BY <1>5, <2>2, <2>5
    <3>2. w.hand \in Pubs
      BY <1>1, <1>5, Assumptions DEF TypeOK, WorkerOK, Pubs
    <3>3. Ahead(L)
      BY <1>7, <1>b, <2>2, <3>1, <3>2 DEF Closed
    <3>4. Ahead(L)'
      BY <1>6, <1>7, <2>5, <3>3
    <3>5. Ahead(LastOf(m))'
      BY <2>4, <3>4 DEF Ahead
    <3> QED
      BY <3>5 DEF Good
  <2>6. CASE MarketOf[w.hand] = m /\ w.hand = L
    BY <2>3, <2>4, <2>6 DEF Good
  <2>7. CASE MarketOf[w.hand] # m
    <3>1. rows'[m] = rows[m] /\ L # w.hand
      BY <1>5, <2>2, <2>3, <2>7
    <3>2. Ahead(L) => Ahead(L)'
      BY <1>6, <1>7, <3>1
    <3>3. Ahead(L)' => Ahead(LastOf(m))'
      BY <2>4 DEF Ahead
    <3>4. Good(m) <=> \/ rows[m] = L \/ (rows[m] = 0 /\ m \notin Listed)
                      \/ Ahead(L) \/ \E q \in Refreshers : Brings(q) /\ L <= r[q].snap
      BY <2>a DEF Good
    <3> QED
      BY <1>a, <2>1, <2>4, <3>1, <3>2, <3>3, <3>4 DEF Good
  <2> QED
    BY <2>5, <2>6, <2>7
<1> QED
  BY <1>9, <1>10, <1>11 DEF Following

\* A snapshot, or what was buffered, is written to the map.
LEMMA FollowMerge ==
    ASSUME CoordInv, CallbacksOK, First, Following, NEW p \in Refreshers, UseMap(p)
    PROVE  Following'
<1> SUFFICES ASSUME OnFirst' PROVE Following'
  BY DEF Following
<1>1. TypeOK /\ Exclusive /\ Ordered /\ Accounted
  BY DEF CoordInv
<1>2. /\ UNCHANGED <<env, sub, w, s, r>> /\ OnFirst
      /\ cb[p] = "map" /\ cb' = [cb EXCEPT ![p] = "enqueue"]
  BY DEF UseMap, vars, In, Goto, OnFirst
<1>3. /\ "worker" # p /\ p \in InCallbacks /\ "worker" \in InCallbacks
      /\ \A q \in Refreshers : q \in InCallbacks
  BY OverviewAssumptions DEF Refreshers, InCallbacks
<1>4. cb'[p] = "enqueue" /\ \A q \in InCallbacks : q # p => cb'[q] = cb[q]
  BY <1>2, <1>3 DEF CallbacksOK
<1>5. /\ r[p].pc \in {"apply", "applyLive"} /\ Fetched
      /\ \A q \in Refreshers : q # p => r[q].buf = <<>> /\ r[q].pc \notin Section
  BY <1>1, <1>2 DEF CallbacksOK, Exclusive, Section, Fetched
<1>6. /\ env.published \in Nat /\ r[p].snap \in Nat
      /\ \A k \in Range(r[p].buf) : k \in 1..env.published
      /\ r[p].pc = "apply" => r[p].snap <= env.published
  <2>1. env.published \in Nat /\ r[p].snap \in Nat /\ r[p].buf \in Seq(Nat)
    BY <1>1, Places, Assumptions DEF TypeOK, RefreshersOK, Refresher
  <2>2. \A k \in Range(r[p].buf) : k \in Pubs
    BY <1>1 DEF TypeOK, RefreshersOK, Refresher, Range
  <2>3. \A k \in Range(r[p].buf) : k \in Nat /\ k <= env.published
    BY <1>1, <2>1, RangeUnder DEF Ordered
  <2>4. r[p].pc = "apply" => r[p].snap <= env.published
    BY <1>1, <1>2 DEF Accounted, OnFirst, Seen, Fetching
  <2> QED
    BY <2>1, <2>2, <2>3, <2>4, Assumptions DEF Pubs
<1>7. \A k : Ahead(k)' <=> \/ k \in Range(sub.queue) \/ k \in Range(s.pending)
                           \/ k = w.hand /\ k # 0 /\ cb["worker"] \in {"off", "map"}
  BY <1>2, <1>3, <1>4, <1>5 DEF Ahead, Range
<1>8. \A k : Ahead(k) <=> Ahead(k)' \/ k \in Range(r[p].buf)
  <2> SUFFICES ASSUME NEW k PROVE Ahead(k) <=> Ahead(k)' \/ k \in Range(r[p].buf)
    OBVIOUS
  <2>1. \A q \in Refreshers : k \in Range(r[q].buf) => q = p
    BY <1>5 DEF Range
  <2> QED
    BY <1>2, <1>7, <2>1 DEF Ahead
<1>9. \A j, k : Ahead(j)' /\ k \in Range(r[p].buf) => k < j
  <2> SUFFICES ASSUME NEW j, NEW k \in Range(r[p].buf), Ahead(j)' PROVE k < j
    OBVIOUS
  <2>1. CASE j \in Range(sub.queue) \/ j \in Range(s.pending)
    BY <1>1, <2>1, RangeBelow DEF Ordered
  <2>2. CASE j = w.hand /\ j # 0
    BY <1>1, <2>2 DEF Ordered, Under, Range
  <2> QED
    BY <1>7, <2>1, <2>2
<1>10. \A q \in Refreshers : ~Brings(q)'
  BY <1>2, <1>4, <1>5 DEF Brings, Fetching, Section
<1>b. Closed /\ Covered /\ (Fetched => \A m \in Selected : Good(m))
  BY <1>2 DEF Following
<1>11. Closed'
  <2> SUFFICES ASSUME NEW j \in Pubs, NEW k \in 1..env.published, Ahead(j)', j < k, k \notin Silent
               PROVE  Ahead(k)'
    BY <1>2 DEF Closed
  <2>1. Ahead(k)
    BY <1>8, <1>b DEF Closed
  <2>2. ~(k < j)
    BY Assumptions DEF Pubs
  <2> QED
    BY <1>8, <1>9, <2>1, <2>2
<1>12. Covered'
  BY <1>10 DEF Covered
<1>13. ASSUME NEW m \in Selected PROVE Good(m)'
  <2>1. PICK L : L = LastOf(m)
    OBVIOUS
  <2>2. /\ L \in Nat /\ L <= env.published /\ L \notin Silent
        /\ L # 0 => L \in 1..env.published /\ MarketOf[L] = m
        /\ \A k \in 1..env.published : MarketOf[k] = m => k <= L
    BY <1>1, <2>1, LastIs
  <2>3. LastOf(m)' = L
    BY <1>2, <2>1 DEF LastOf
  <2>4. Ahead(L)' => Good(m)'
    BY <2>3 DEF Good, Ahead
  <2>5. SUFFICES ASSUME ~Ahead(L)' PROVE Good(m)'
    BY <2>4
  <2>6. PICK b : b = RowOf(m, Range(r[p].buf))
    OBVIOUS
  <2>7. /\ b \in Nat
        /\ b # 0 => b \in Range(r[p].buf) /\ b \in 1..env.published /\ MarketOf[b] = m
        /\ \A k \in Range(r[p].buf) : MarketOf[k] = m => k <= b
    <3>1. Range(r[p].buf) \in SUBSET (1..env.published)
      BY <1>6
    <3>2. /\ b \in Nat
          /\ b # 0 => b \in Range(r[p].buf) /\ MarketOf[b] = m
          /\ \A k \in Range(r[p].buf) : MarketOf[k] = m => k <= b
      BY <1>6, <2>6, <3>1, RowOfIs
    <3> QED
      BY <1>6, <3>2
  <2>8. b # 0 => b = L
    <3> SUFFICES ASSUME b # 0, b # L PROVE FALSE
      OBVIOUS
    <3>1. b < L /\ L \in 1..env.published /\ b \in Range(r[p].buf)
      BY <2>2, <2>7
    <3>2. b \in Pubs /\ Ahead(b)
      BY <1>1, <1>8, <3>1 DEF TypeOK, RefreshersOK, Refresher, Range
    <3>3. Ahead(L)
      BY <1>b, <2>2, <3>1, <3>2 DEF Closed
    <3>4. L \in Range(r[p].buf)
      BY <1>8, <2>5, <3>3
    <3>5. L <= b
      BY <2>2, <2>7, <3>1, <3>4
    <3> QED
      BY <2>2, <2>7, <3>1, <3>5
  <2>9. Ahead(L) => b = L /\ b # 0
    <3> SUFFICES ASSUME Ahead(L) PROVE b = L /\ b # 0
      OBVIOUS
    <3>1. L \in Range(r[p].buf)
      BY <1>8, <2>5
    <3>2. L # 0
      BY <1>6, <3>1
    <3>3. L <= b
      BY <2>2, <2>7, <3>1, <3>2
    <3> QED
      BY <2>2, <2>8, <3>2, <3>3
  <2>10. m \in Markets /\ \A rs : ApplyRows(rs, Range(r[p].buf))[m] = IF b # 0 THEN b ELSE rs[m]
    BY <2>6, OverviewAssumptions DEF ApplyRows
  <2>11. CASE r[p].pc = "applyLive"
    <3>1. rows'[m] = IF b # 0 THEN b ELSE rows[m]
      BY <1>3, <2>10, <2>11 DEF UseMap, At
    <3>2. Good(m) <=> \/ rows[m] = L \/ (rows[m] = 0 /\ m \notin Listed)
                      \/ Ahead(L) \/ \E q \in Refreshers : Brings(q) /\ L <= r[q].snap
      BY <2>1 DEF Good
    <3>3. \A q \in Refreshers : ~Brings(q)
      BY <1>5, <2>11 DEF Brings, Fetching, Section
    <3>4. rows'[m] = L \/ (rows'[m] = 0 /\ m \notin Listed)
      BY <1>5, <1>b, <2>2, <2>8, <2>9, <3>1, <3>2, <3>3
    <3> QED
      BY <2>3, <3>4 DEF Good
  <2>12. CASE r[p].pc = "apply"
    <3>1. PICK f : f = RowOf(m, 1..r[p].snap)
      OBVIOUS
    <3>2. rows'[m] = IF b # 0 THEN b ELSE IF m \in Listed THEN f ELSE 0
      <4>1. rows' = ApplyRows(SnapshotRows(r[p].snap), Range(r[p].buf))
        BY <1>3, <2>12 DEF UseMap, At, Merged
      <4>2. SnapshotRows(r[p].snap)[m] = IF m \in Listed THEN f ELSE 0
        BY <2>10, <3>1 DEF SnapshotRows
      <4> QED
        BY <2>10, <4>1, <4>2
    <3>3. /\ f \in Nat
          /\ f # 0 => f \in 1..r[p].snap /\ MarketOf[f] = m
          /\ \A k \in 1..r[p].snap : MarketOf[k] = m => k <= f
      BY <1>6, <3>1, RowOfIs
    <3>4. f <= L
      BY <1>6, <2>2, <2>12, <3>3
    <3>5. b # L /\ L # 0 => L <= r[p].snap
      BY <1>2, <1>b, <2>2, <2>9, <2>12 DEF Covered, Brings, Fetching
    <3>6. b # L => f = L
      <4>1. CASE L = 0
        BY <3>3, <3>4, <4>1
      <4>2. CASE L # 0 /\ b # L
        BY <1>6, <2>2, <3>3, <3>4, <3>5, <4>2
      <4> QED
        BY <4>1, <4>2
    <3>7. rows'[m] = L \/ (rows'[m] = 0 /\ m \notin Listed)
      BY <2>2, <2>8, <3>2, <3>3, <3>4, <3>6
    <3> QED
      BY <2>3, <3>7 DEF Good
  <2> QED
    BY <1>5, <2>11, <2>12
<1> QED
  BY <1>11, <1>12, <1>13 DEF Following

\* The server publishes to the open subscription.
LEMMA FollowPublish ==
    ASSUME CoordInv, CoordInv', CallbacksOK, First, Following, Quiet(Publish)
    PROVE  Following'
<1> SUFFICES ASSUME OnFirst' PROVE Following'
  BY DEF Following
<1>1. TypeOK /\ TypeOK' /\ Emptied
  BY DEF CoordInv
<1>2. PICK n : n = env.published + 1
  OBVIOUS
<1>3. /\ UNCHANGED <<w, s, r, rows, cb>> /\ env'.published = n /\ env'.conns = env.conns
      /\ sub' = IF sub.st = "open" THEN Enqueue(n) ELSE sub
      /\ env.published \in Nat /\ n \in Nat
  BY <1>1, <1>2, Assumptions DEF Quiet, overviewVars, Publish, TypeOK, EnvOK
<1>4. OnFirst
  <2>1. [Next]_vars
    BY DEF Quiet, Next
  <2> QED
    BY <1>1, <1>3, <2>1, OnFirstStays
<1>5. sub'.queue = Append(sub.queue, n) /\ sub.queue \in Seq(Nat)
  BY <1>1, <1>3, <1>4, Places DEF OnFirst, Enqueue, TypeOK, SubOK
<1>6. \A k : k \in Range(sub'.queue) <=> k \in Range(sub.queue) \/ k = n
  <2>1. ASSUME NEW k \in Range(Append(sub.queue, n)), k # n PROVE k \in Range(sub.queue)
    BY <1>3, <1>5, <2>1 DEF Range
  <2> QED
    BY <1>3, <1>5, <2>1, RangeAppend
<1>7. \A k : Ahead(k)' <=> Ahead(k) \/ k = n
  BY <1>3, <1>6 DEF Ahead
<1>8. \A p \in Refreshers : (Brings(p)' <=> Brings(p)) /\ r'[p].snap = r[p].snap
  BY <1>3 DEF Brings
<1>9. \A k \in 1..n : k = n \/ k \in 1..env.published
  BY <1>2, <1>3
<1>b. Closed /\ Covered /\ (Fetched' => \A m \in Selected : Good(m))
  BY <1>3, <1>4 DEF Following, Fetched
<1>10. Closed'
  <2> SUFFICES ASSUME NEW j \in Pubs, NEW k \in 1..n, Ahead(j)', j < k, k \notin Silent
               PROVE  Ahead(k)'
    BY <1>3 DEF Closed
  <2>1. CASE k # n
    <3>1. k \in 1..env.published /\ j # n
      BY <1>2, <1>3, <1>9, <2>1
    <3> QED
      BY <1>7, <1>b, <3>1 DEF Closed
  <2> QED
    BY <1>7, <2>1
<1>11. Covered'
  BY <1>3, <1>7, <1>8, <1>9, <1>b DEF Covered
<1>12. ASSUME Fetched', NEW m \in Selected PROVE Good(m)'
  <2>1. PICK L : L = LastOf(m)
    OBVIOUS
  <2>2. PICK N : N = LastOf(m)'
    OBVIOUS
  <2>3. /\ L \in Nat /\ L <= env.published
        /\ L # 0 => L \in 1..env.published /\ MarketOf[L] = m
        /\ \A k \in 1..env.published : MarketOf[k] = m => k <= L
    BY <1>1, <2>1, LastIs
  <2>4. /\ N \in Nat /\ N <= n
        /\ N # 0 => N \in 1..n /\ MarketOf[N] = m
        /\ \A k \in 1..n : MarketOf[k] = m => k <= N
    <3>1. \A k \in Nat : k \in 1..n <=> k \in 1..env'.published
      BY <1>3
    <3>2. 1..n \in SUBSET (1..n)
      OBVIOUS
    <3>3. N = RowOf(m, 1..n)
      BY <1>3, <2>2 DEF LastOf
    <3> QED
      BY <1>3, <3>2, <3>3, RowOfIs
  <2>5. CASE N = n
    <3>1. Ahead(N)'
      BY <1>7, <2>5
    <3>2. Ahead(LastOf(m))'
      BY <2>2, <3>1 DEF Ahead
    <3> QED
      BY <3>2 DEF Good
  <2>6. CASE N # n
    <3>1. N <= L /\ L <= N
      <4>1. N # 0 => N \in 1..env.published
        BY <1>9, <2>4, <2>6
      <4>2. L # 0 => L \in 1..n
        BY <1>2, <1>3, <2>3
      <4>3. N # 0 => N <= L
        BY <2>3, <2>4, <4>1
      <4>4. L # 0 => L <= N
        BY <2>3, <2>4, <4>2
      <4> QED
        BY <2>3, <2>4, <4>3, <4>4
    <3>2. N = L
      BY <2>3, <2>4, <3>1
    <3>3. Good(m) <=> \/ rows[m] = L \/ (rows[m] = 0 /\ m \notin Listed)
                      \/ Ahead(L) \/ \E q \in Refreshers : Brings(q) /\ L <= r[q].snap
      BY <2>1 DEF Good
    <3>4. Ahead(L) => Ahead(LastOf(m))'
      <4>1. Ahead(L) => Ahead(L)'
        BY <1>7
      <4> QED
        BY <2>2, <3>2, <4>1 DEF Ahead
    <3>5. Good(m)
      BY <1>12, <1>b
    <3> QED
      BY <1>3, <1>8, <2>2, <3>2, <3>3, <3>4, <3>5 DEF Good
  <2> QED
    BY <2>5, <2>6
<1> QED
  BY <1>10, <1>11, <1>12 DEF Following

\* The other steps of RefreshSnapshot: a new snapshot has every publication.
LEMMA FollowFetch ==
    ASSUME CoordInv, CallbacksOK, First, Following, NEW p \in Refreshers,
           Quiet(RefreshLock(p) \/ FetchFails(p) \/ FetchReturns(p) \/ Retry(p))
    PROVE  Following'
<1> SUFFICES ASSUME OnFirst' PROVE Following'
  BY DEF Following
<1>1. TypeOK /\ Emptied /\ Exclusive
  BY DEF CoordInv
<1>2. UNCHANGED <<env, sub, w, rows, cb>> /\ Refresh(p) /\ [Next]_vars
  BY DEF Quiet, overviewVars, RefreshLock, FetchFails, FetchReturns, Retry, Refresh, Next
<1>3. OnFirst
  BY <1>1, <1>2, OnFirstStays
<1>4. s'.pending = s.pending
  BY <1>1 DEF Quiet, RefreshLock, FetchFails, FetchReturns, Retry, SetErr, TypeOK, CoordOK, Coordinator
<1>5. \A q \in Refreshers : q # p => r'[q] = r[q]
  BY <1>1, <1>2, OffStaysOff
<1>6. r[p].pc \in {"lock", "fetch", "err"} /\ cb[p] = "off"
  BY DEF Quiet, RefreshLock, FetchFails, FetchReturns, Retry, At, CallbacksOK
<1>7. \A k : Ahead(k)' <=> Ahead(k)
  BY <1>2, <1>4, <1>5, <1>6 DEF Ahead
<1>8. CASE FetchReturns(p)
  <2>1. r'[p].snap = env.published /\ r'[p].pc = "fetched" /\ r[p].pc = "fetch"
    BY <1>1, <1>8 DEF FetchReturns, At, TypeOK, RefreshersOK, Refresher
  <2>2. Brings(p)' /\ \A q \in Refreshers : q # p => ~Brings(q)'
    BY <1>1, <1>2, <1>5, <1>6, <2>1 DEF Brings, Fetching, Exclusive, Section
  <2>3. Closed'
    BY <1>2, <1>3, <1>7 DEF Following, Closed
  <2>4. Covered'
    BY <1>2, <2>1, <2>2 DEF Covered
  <2>5. ASSUME NEW m \in Selected PROVE Good(m)'
    <3>1. LastOf(m)' = LastOf(m) /\ LastOf(m) <= env.published
      BY <1>1, <1>2, LastIs DEF LastOf
    <3> HIDE DEF LastOf
    <3> QED
      BY <2>1, <2>2, <3>1 DEF Good
  <2> QED
    BY <2>3, <2>4, <2>5 DEF Following
<1>9. CASE RefreshLock(p) \/ FetchFails(p) \/ Retry(p)
  <2>1. Fetched' => Fetched
    BY <1>1, <1>9, FetchedQuiet
  <2>2. r'[p].pc \notin Fetching
    <3>1. CASE RefreshLock(p) \/ FetchFails(p)
      BY <1>1, <3>1 DEF RefreshLock, FetchFails, Go, Fetching, TypeOK, RefreshersOK, Refresher
    <3>2. CASE Retry(p)
      <4>1. \/ r' = [r EXCEPT ![p].tries = 2, ![p].pc = "lock"]
            \/ r' = [r EXCEPT ![p].tries = 2]
        BY <3>2 DEF Retry
      <4> QED
        BY <1>1, <1>6, <4>1 DEF Fetching, TypeOK, RefreshersOK, Refresher
    <3> QED
      BY <1>9, <3>1, <3>2
  <2>3. \A q \in Refreshers :
          (Brings(q)' <=> Brings(q)) /\ (Brings(q) => r'[q].snap = r[q].snap)
    BY <1>2, <1>5, <1>6, <2>2 DEF Brings, Fetching
  <2> QED
    BY <1>1, <1>2, <1>3, <1>7, <2>1, <2>3, FollowFrame
<1> QED
  BY <1>8, <1>9 DEF Quiet

LEMMA FollowingNext ==
    ASSUME CoordInv, CoordInv', CallbacksOK, First, Following, [OverviewNext]_allVars
    PROVE  Following'
<1>0. [Next]_vars
  BY OverviewStepsAreNext
<1>a. "worker" \in InCallbacks /\ Refreshers \subseteq InCallbacks
  BY DEF InCallbacks
<1>1. ASSUME NEW p \in InCallbacks, InCallback(p) PROVE Following'
  <2>1. CASE UseMap(p)
    BY <2>1, FollowLive, FollowMerge DEF InCallbacks
  <2>2. ASSUME NEW o \in Outcomes, cb[p] \in {"enqueue", "stop"}, Leaves(p, o) PROVE Following'
    BY <2>2, FollowLeaves
  <2>3. CASE EnqueueRows(p)
    <3>1. CASE Goto(p, "stop") /\ UNCHANGED <<vars, rows>>
      <4>1. cb[p] = "enqueue" /\ cb' = [cb EXCEPT ![p] = "stop"]
        BY <2>3, <3>1 DEF EnqueueRows, In, Goto
      <4>2. \A q \in InCallbacks : cb'[q] = cb[q] \/ (cb[q] = "enqueue" /\ cb'[q] = "stop")
        BY <4>1 DEF CallbacksOK
      <4>3. UNCHANGED <<env, sub, w, s, r, rows>>
        BY <3>1 DEF vars
      <4>4. \A k : Ahead(k)' <=> Ahead(k)
        BY <1>a, <4>2, <4>3 DEF Ahead
      <4>5. \A q \in Refreshers :
              (Brings(q)' <=> Brings(q)) /\ (Brings(q) => r'[q].snap = r[q].snap)
        BY <1>a, <4>2, <4>3 DEF Brings
      <4>6. OnFirst' <=> OnFirst
        BY <4>3 DEF OnFirst
      <4>7. Fetched' => Fetched
        BY <4>3 DEF Fetched
      <4> QED
        BY <4>3, <4>4, <4>5, <4>6, <4>7, FollowFrame DEF Following, CoordInv
    <3> QED
      BY <2>2, <2>3, <3>1, OverviewAssumptions DEF EnqueueRows, In
  <2>4. CASE StopStream(p)
    BY <2>2, <2>4, OverviewAssumptions DEF StopStream, In
  <2> QED
    BY <1>1, <2>1, <2>3, <2>4 DEF InCallback
<1>2. CASE LiveBegins \/ Quiet(Receive)
  BY <1>2, FollowReceive
<1>3. CASE Quiet(ReadPanics)
  <2>1. s' = FailClosed /\ s.disposed \in BOOLEAN
    BY <1>3 DEF Quiet, ReadPanics, CoordInv, TypeOK, CoordOK, Coordinator
  <2>2. s'.disposed
    BY <2>1 DEF FailClosed, Stop, CoordInv, TypeOK, CoordOK, Coordinator
  <2> QED
    BY <2>2 DEF Following, OnFirst
<1>4. CASE Quiet(Publish)
  BY <1>4, FollowPublish
<1>5. ASSUME NEW p \in Refreshers, OverviewRefresher(p) PROVE Following'
  BY <1>a, <1>1, <1>5, FollowBegins, FollowFetch DEF OverviewRefresher
<1>6. ASSUME UNCHANGED <<rows, cb>>,
             \/ RunTop \/ Subscribed \/ SubscribeFails \/ BackoffEnds
             \/ DrainCancelled \/ DrainSubDone \/ ReconnectRefreshed \/ LiveEnds
             \/ Start \/ StartConnected \/ StartRefreshed \/ StartFails
             \/ SendRefreshDone \/ ServerAccepts \/ SubEnds \/ ClientClose \/ CancelContext
             \/ UserStop \/ (\E p \in Users : UserRefresh(p) \/ UserReturns(p))
             \/ UNCHANGED vars
      PROVE  Following'
  <2>1. Calm /\ (Fetched' => Fetched)
    BY <1>6, CalmSteps, FetchedQuiet DEF CoordInv
  <2> QED
    BY <1>0, <1>6, <2>1, FollowCalm
<1>7. CASE OverviewWorker
  BY <1>a, <1>1, <1>2, <1>3, <1>6, <1>7 DEF OverviewWorker, Quiet, overviewVars
<1>8. CASE OverviewEnv
  BY <1>4, <1>6, <1>8 DEF OverviewEnv, Quiet, Consume, CloseUpdates, overviewVars
<1>9. CASE \/ Quiet(StartConnected \/ StartRefreshed \/ StartFails \/ SendRefreshDone)
           \/ CloseStream \/ DoneCloses \/ Crash \/ OverviewRest \/ UNCHANGED allVars
  BY <1>6, <1>9 DEF Quiet, CloseStream, DoneCloses, Crash, OverviewRest, Rest,
                    overviewVars, allVars
<1> QED
  BY <1>5, <1>7, <1>8, <1>9 DEF OverviewNext

LEMMA OverviewFollows == OverviewSpec => [](CoordInv /\ CallbacksOK /\ First /\ Following)
<1>1. OverviewInit => CallbacksOK /\ First /\ Following
  <2> SUFFICES ASSUME OverviewInit PROVE CallbacksOK /\ First /\ Following
    OBVIOUS
  <2> USE DEF OverviewInit, Init
  <2>a. /\ \A p \in InCallbacks : cb[p] = "off"
        /\ "worker" \in InCallbacks /\ Refreshers \subseteq InCallbacks
    BY DEF InCallbacks
  <2>b. ~w.live /\ \A p \in Refreshers : r[p].pc = "off"
    BY DEF Idle
  <2>c. cb \in [InCallbacks -> {"off", "map", "enqueue", "stop"}]
    OBVIOUS
  <2>1. CallbacksOK
    BY <2>a, <2>b, <2>c DEF CallbacksOK
  <2>2. First /\ Following
    BY DEF First, Following, OnFirst
  <2> QED
    BY <2>1, <2>2
<1>2. /\ CoordInv /\ CoordInv' /\ CallbacksOK /\ First /\ Following /\ [OverviewNext]_allVars
      => CallbacksOK' /\ First' /\ Following'
  BY CallbacksNext, FirstNext, FollowingNext, OverviewStepsAreNext DEF CoordInv
<1> QED
  BY <1>1, <1>2, OverviewCoordinates, PTL DEF OverviewSpec, allVars

\* While the first subscription is open and all it brought has been handled, the
\* rows of a ready overview are the last ones the server published, although a
\* refresh by the user writes the map beside the worker: for any publications,
\* markets, callers and queue sizes.
THEOREM OverviewRowsFollow == OverviewSpec => []RowsFollow
<1>1. CoordInv /\ CallbacksOK /\ First /\ Following => RowsFollow
  <2> SUFFICES ASSUME CoordInv, CallbacksOK, First, Following, env.conns = 1, Settled,
                      NEW m \in Selected
               PROVE  rows[m] = RowOf(m, 1..env.published) \/ (rows[m] = 0 /\ m \notin Listed)
    BY DEF RowsFollow, RowsAreCurrent
  <2>1. Good(m)
    BY DEF Settled, Following, OnFirst, Fetched
  <2>2. s.pending = <<>> /\ \A p \in Refreshers : r[p].pc \notin Section /\ r[p].buf = <<>>
    BY DEF Settled, CoordInv, Exclusive, Section
  <2>3. \A k : ~Ahead(k)
    BY <2>2 DEF Ahead, Settled, Range
  <2>4. \A p \in Refreshers : ~Brings(p)
    BY <2>2 DEF Brings, Fetching, Section
  <2> QED
    BY <2>1, <2>3, <2>4 DEF Good, LastOf
<1> QED
  BY <1>1, OverviewFollows, PTL

-----------------------------------------------------------------------------
(* The end of a stream is reported.  What disposed the coordinator is known *)
(* from then on: an error it keeps, a full queue, the user, or Start.       *)

Reported ==
    /\ out \in [queued : Nat, closed : BOOLEAN, err : BOOLEAN, user : BOOLEAN]
    /\ s.disposed => s.lastErr \/ out.err \/ out.user \/ spc \in {"closing", "failed"}
    /\ s.cancelled => s.disposed \/ env.ctxDone
    /\ \A p \in InCallbacks : cb[p] = "stop" => out.err
    /\ spc = "failed" => w.pc = "done"

\* A step that disposes the coordinator only with an error, or not at all.
Blameless ==
    /\ s'.disposed => s.disposed \/ s'.lastErr
    /\ s.disposed /\ s.lastErr => s'.lastErr
    /\ s'.cancelled => s.cancelled \/ s'.disposed \/ env'.ctxDone
    /\ s.disposed => s'.disposed

\* The subscription keeps what it has to report.
KeepsReport ==
    /\ out' \in [queued : Nat, closed : BOOLEAN, err : BOOLEAN, user : BOOLEAN]
    /\ (out.err => out'.err) /\ (out.user => out'.user)
    /\ \A p \in InCallbacks : cb'[p] = "stop" => cb[p] = "stop" \/ out'.err

LEMMA BlamelessSections ==
    ASSUME TypeOK
    PROVE  /\ s' \in {s, SetErr, FailClosed} => Blameless
           /\ \A o \in {"ok", "panic"} : Callback(o) => Blameless
<1>1. s' \in {s, SetErr, FailClosed} => Blameless
  BY DEF Blameless, SetErr, FailClosed, Stop, TypeOK, CoordOK, Coordinator
<1> QED
  BY <1>1 DEF Callback

LEMMA ReportedFrame ==
    ASSUME Reported, Blameless, KeepsReport, env.ctxDone => env'.ctxDone,
           spc \in {"closing", "failed"} => spc' \in {"closing", "failed"},
           spc' = "failed" => w'.pc = "done"
    PROVE  Reported'
BY DEF Reported, Blameless, KeepsReport

LEMMA OutChanges ==
    ASSUME CallbacksOK, Reported
    PROVE  /\ UNCHANGED <<cb, out>> => KeepsReport
           /\ UNCHANGED out /\ (\E p \in InCallbacks : cb' = [cb EXCEPT ![p] = "off"]) => KeepsReport
           /\ UNCHANGED out /\ (\E p \in InCallbacks : Goto(p, "map") \/ Goto(p, "enqueue")) => KeepsReport
           /\ UNCHANGED cb /\ (Consume \/ CloseUpdates \/ DoneCloses) => KeepsReport
           /\ out' = [out EXCEPT !.queued = @ + 1]
                /\ (\E p \in InCallbacks : cb' = [cb EXCEPT ![p] = "off"]) => KeepsReport
           /\ out' = Overflowed /\ (\E p \in InCallbacks : Goto(p, "stop")) => KeepsReport
<1> USE DEF CallbacksOK, Reported, KeepsReport
<1>1. UNCHANGED out /\ (\E p \in InCallbacks : cb' = [cb EXCEPT ![p] = "off"]) => KeepsReport
  OBVIOUS
<1>2. UNCHANGED out /\ (\E p \in InCallbacks : Goto(p, "map") \/ Goto(p, "enqueue")) => KeepsReport
  BY DEF Goto
<1>3. UNCHANGED cb /\ (Consume \/ CloseUpdates \/ DoneCloses) => KeepsReport
  <2>1. ASSUME UNCHANGED cb, Consume PROVE KeepsReport
    BY <2>1 DEF Consume
  <2>2. ASSUME UNCHANGED cb, CloseUpdates PROVE KeepsReport
    BY <2>2 DEF CloseUpdates
  <2>3. ASSUME UNCHANGED cb, DoneCloses PROVE KeepsReport
    BY <2>3 DEF DoneCloses
  <2> QED
    BY <2>1, <2>2, <2>3
<1>4. out' = [out EXCEPT !.queued = @ + 1]
         /\ (\E p \in InCallbacks : cb' = [cb EXCEPT ![p] = "off"]) => KeepsReport
  OBVIOUS
<1>5. out' = Overflowed /\ (\E p \in InCallbacks : Goto(p, "stop")) => KeepsReport
  BY DEF Goto, Overflowed
<1> QED
  BY <1>1, <1>2, <1>3, <1>4, <1>5

LEMMA ReportedCallback ==
    ASSUME TypeOK, CallbacksOK, Reported, NEW p \in InCallbacks, InCallback(p)
    PROVE  Reported'
<1>1. ASSUME NEW o \in Outcomes, Leaves(p, o)
      PROVE  /\ Callback(o) /\ spc' = spc /\ w'.pc = w.pc /\ env'.ctxDone = env.ctxDone
             /\ cb' = [cb EXCEPT ![p] = "off"]
  <2>1. /\ Callback(o) /\ spc' = spc /\ cb' = [cb EXCEPT ![p] = "off"]
        /\ w' = w \/ w' = [w EXCEPT !.hand = 0, !.live = FALSE]
    BY <1>1 DEF Leaves, ApplyLive, ApplySnapshot, ApplyBuffered, Deliver
  <2>2. env'.ctxDone = env.ctxDone
    BY <2>1 DEF Callback, Ask, TypeOK, EnvOK
  <2> QED
    BY <2>1, <2>2 DEF TypeOK, WorkerOK
<1>2. CASE UseMap(p)
  BY <1>2, BlamelessSections, OutChanges, ReportedFrame DEF UseMap, vars, Reported
<1>3. CASE EnqueueRows(p)
  <2>1. CASE Goto(p, "stop") /\ out' = Overflowed /\ UNCHANGED vars
    BY <2>1, BlamelessSections, OutChanges, ReportedFrame DEF vars, Reported
  <2>2. ASSUME NEW o \in Outcomes, o \in {"ok", "panic"}, Leaves(p, o),
               out' = out \/ out' = [out EXCEPT !.queued = @ + 1]
        PROVE  Reported'
    BY <1>1, <2>2, BlamelessSections, OutChanges, ReportedFrame DEF Reported
  <2> QED
    BY <1>3, <2>1, <2>2, OverviewAssumptions DEF EnqueueRows
<1>4. CASE StopStream(p)
  <2>1. "stop" \in Outcomes /\ Leaves(p, "stop") /\ UNCHANGED out /\ cb[p] = "stop"
    BY <1>4, OverviewAssumptions DEF StopStream, In
  <2>2. out.err /\ KeepsReport
    BY <1>1, <2>1, OutChanges DEF Reported
  <2>3. s' = Stop
    BY <1>1, <2>1 DEF Callback
  <2>4. s'.disposed
    BY <2>3 DEF Stop, TypeOK, CoordOK, Coordinator
  <2> QED
    BY <1>1, <2>1, <2>2, <2>4 DEF Reported, KeepsReport
<1> QED
  BY <1>2, <1>3, <1>4 DEF InCallback

LEMMA ReportedNext ==
    ASSUME CoordInv, CallbacksOK, Reported, [OverviewNext]_allVars
    PROVE  Reported'
<1>0. TypeOK /\ Reconnecting /\ Accounted
  BY DEF CoordInv
<1> USE BlamelessSections, OutChanges, ReportedFrame
<1>1. ASSUME NEW p \in InCallbacks, InCallback(p) PROVE Reported'
  BY <1>0, <1>1, ReportedCallback
<1>2. CASE LiveBegins
  <2>1. Blameless
    <3>1. s' \in {s, FailClosed} \/ s' = [s EXCEPT !.pending = Append(@, w.hand)]
      BY <1>2 DEF LiveBegins, HandlePublication
    <3> QED
      BY <1>0, <3>1 DEF Blameless, TypeOK, CoordOK, Coordinator
  <2>2. KeepsReport
    BY <1>2 DEF LiveBegins, InCallbacks
  <2>3. UNCHANGED <<env, spc>> /\ w'.pc = w.pc
    BY <1>0, <1>2 DEF LiveBegins, HandlePublication, TypeOK, WorkerOK
  <2> QED
    BY <2>1, <2>2, <2>3 DEF Reported
<1>3. ASSUME NEW p \in Refreshers, ApplyBegins(p) PROVE Reported'
  <2>1. UNCHANGED <<env, spc, w>> /\ KeepsReport
    BY <1>3 DEF ApplyBegins, MergePending, DrainPending, InCallbacks
  <2>2. Blameless
    <3>1. \/ s' = s \/ s' = [s EXCEPT !.pending = <<>>]
          \/ ~s.disposed /\ s' = [s EXCEPT !.ready = TRUE, !.lastErr = FALSE]
      BY <1>3 DEF ApplyBegins, MergePending, DrainPending, TakePending, Current
    <3> QED
      BY <1>0, <3>1 DEF Blameless, TypeOK, CoordOK, Coordinator
  <2> QED
    BY <2>1, <2>2 DEF Reported
<1>4. ASSUME NEW p \in Refreshers,
             Quiet(RefreshLock(p) \/ FetchFails(p) \/ FetchReturns(p) \/ Retry(p))
      PROVE  Reported'
  <2>1. UNCHANGED <<env, spc, w, cb, out>>
    BY <1>4 DEF Quiet, overviewVars, RefreshLock, FetchFails, FetchReturns, Retry
  <2>2. Blameless
    <3>1. s' \in {s, SetErr} \/ s' = [s EXCEPT !.generation = @ + 1, !.ready = FALSE]
      BY <1>4 DEF Quiet, RefreshLock, FetchFails, FetchReturns, Retry
    <3> QED
      BY <1>0, <3>1 DEF Blameless, TypeOK, CoordOK, Coordinator
  <2> QED
    BY <2>1, <2>2 DEF Reported
<1>5. CASE Consume \/ CloseUpdates \/ DoneCloses
  BY <1>0, <1>5 DEF Consume, CloseUpdates, DoneCloses, vars, Reported
<1>6. CASE Crash \/ OverviewRest \/ UNCHANGED allVars
  BY <1>6 DEF Crash, OverviewRest, Quiet, Rest, vars, overviewVars, allVars, Reported
<1>7. CASE CloseStream
  <2>1. UNCHANGED <<env, spc, w, cb, out>> /\ out.user
    BY <1>7 DEF CloseStream, UserStop, overviewVars
  <2> QED
    <3>1. s' = Stop
      BY <1>7 DEF CloseStream, UserStop
    <3>2. s'.disposed
      BY <1>0, <3>1 DEF Stop, TypeOK, CoordOK, Coordinator
    <3> QED
      BY <2>1, <3>2 DEF Reported
<1>8. CASE Quiet(StartConnected \/ StartRefreshed)
  <2>1. /\ UNCHANGED <<env, w, cb, out>>
        /\ \/ s' = s /\ spc' \in {"refreshing", "ok"}
           \/ s' = Stop /\ spc' = "closing"
        /\ spc \in {"connecting", "refreshing"}
    BY <1>8 DEF Quiet, overviewVars, StartConnected, StartRefreshed
  <2>2. s' = Stop => s'.disposed
    BY <1>0 DEF Stop, TypeOK, CoordOK, Coordinator
  <2> QED
    BY <2>1, <2>2 DEF Reported
<1>9. CASE Quiet(StartFails \/ SendRefreshDone)
  BY <1>0, <1>9 DEF Quiet, overviewVars, StartFails, SendRefreshDone, Reported
<1>10. CASE Quiet(Start)
  <2>1. /\ UNCHANGED <<env, cb, out>> /\ spc = "idle" /\ spc' = "connecting"
        /\ s' = [s EXCEPT !.cancelled = env.ctxDone]
    BY <1>10 DEF Quiet, overviewVars, Start
  <2>2. Blameless
    BY <1>0, <2>1 DEF Blameless, TypeOK, CoordOK, Coordinator
  <2> QED
    BY <2>1, <2>2
<1>11. CASE Quiet(CancelContext)
  <2>1. UNCHANGED <<w, spc, cb, out>> /\ env'.ctxDone
        /\ s' = [s EXCEPT !.cancelled = @ \/ spc # "idle"]
    BY <1>0, <1>11 DEF Quiet, overviewVars, CancelContext, TypeOK, EnvOK
  <2>2. Blameless
    BY <1>0, <2>1 DEF Blameless, TypeOK, CoordOK, Coordinator
  <2> QED
    BY <2>1, <2>2 DEF Reported
<1>12. CASE Quiet(ServerAccepts \/ Publish \/ SubEnds \/ ClientClose)
           \/ (\E p \in Users : Quiet(UserRefresh(p) \/ UserReturns(p)))
  <2>1. UNCHANGED <<w, s, spc, cb, out>> /\ env'.ctxDone = env.ctxDone
    BY <1>0, <1>12 DEF Quiet, overviewVars, ServerAccepts, Publish, SubEnds, ClientClose,
       UserRefresh, UserReturns, Ask, TypeOK, EnvOK
  <2> QED
    BY <1>0, <2>1 DEF Reported
<1>13. CASE Quiet(RunTop \/ Subscribed \/ SubscribeFails \/ BackoffEnds \/ Receive
                  \/ ReadPanics \/ DrainCancelled \/ DrainSubDone \/ ReconnectRefreshed \/ LiveEnds)
  <2>1. UNCHANGED <<env, spc, cb, out>>
    BY <1>13 DEF Quiet, overviewVars, RunTop, Subscribed, SubscribeFails, BackoffEnds, Receive,
       ReadPanics, DrainCancelled, DrainSubDone, ReconnectRefreshed, LiveEnds
  <2>2. s' \in {s, SetErr, FailClosed}
    <3>1. sub.err \in {"none", "transient", "terminal"}
      BY <1>0 DEF SubOK, TypeOK
    <3> QED
      BY <1>13, <3>1 DEF Quiet, RunTop, Subscribed, SubscribeFails, BackoffEnds, Receive,
         ReadPanics, DrainCancelled, DrainSubDone, ReconnectRefreshed, LiveEnds
  <2>3. w.pc = "done" => w'.pc = "done"
    BY <1>0, <1>13 DEF Quiet, RunTop, Subscribed, SubscribeFails, BackoffEnds, Receive,
       ReadPanics, DrainCancelled, DrainSubDone, ReconnectRefreshed, LiveEnds, TypeOK, WorkerOK
  <2> QED
    BY <1>0, <2>1, <2>2, <2>3 DEF Reported
<1>14. CASE OverviewWorker
  BY <1>1, <1>2, <1>13, <1>14 DEF OverviewWorker, InCallbacks
<1>15. CASE OverviewEnv
  BY <1>5, <1>10, <1>11, <1>12, <1>15 DEF OverviewEnv, Quiet
<1>16. ASSUME NEW p \in Refreshers, OverviewRefresher(p) PROVE Reported'
  BY <1>1, <1>3, <1>4, <1>16 DEF OverviewRefresher, InCallbacks
<1>17. CASE Quiet(StartConnected \/ StartRefreshed \/ StartFails \/ SendRefreshDone)
  BY <1>8, <1>9, <1>17 DEF Quiet
<1> QED
  BY <1>5, <1>6, <1>7, <1>14, <1>15, <1>16, <1>17 DEF OverviewNext

\* The worker ends in one of these ways.
LEMMA WorkerEnds ==
    ASSUME TypeOK, Reconnecting, [Next]_vars, w.pc # "done", w'.pc = "done"
    PROVE  /\ UNCHANGED <<env, spc>>
           /\ \/ s' = s /\ Stopped
              \/ s' \in {SetErr, FailClosed}
<1> USE DEF TypeOK, WorkerOK
<1>1. CASE RunTop \/ SubscribeFails \/ BackoffEnds \/ DrainCancelled \/ ReconnectRefreshed
  BY <1>1 DEF RunTop, SubscribeFails, BackoffEnds, DrainCancelled, ReconnectRefreshed, Stopped
<1>2. CASE LiveEnds
  <2>1. sub.err \in {"none", "transient", "terminal"}
    BY DEF SubOK
  <2> QED
    BY <1>2, <2>1 DEF LiveEnds
<1>3. CASE \/ Subscribed \/ DrainSubDone \/ Receive \/ HandlePublication \/ ReadPanics
           \/ (\E o \in Outcomes : ApplyLive(o))
  BY <1>3 DEF Subscribed, DrainSubDone, Receive, HandlePublication, ReadPanics, ApplyLive
<1>4. CASE Start \/ (\E p \in Refreshers : Refresh(p))
  BY <1>4, OffStaysOff DEF Start
<1>5. CASE \/ StartConnected \/ StartRefreshed \/ StartFails \/ SendRefreshDone
           \/ GapTop \/ GapRefreshed
  BY <1>5 DEF StartConnected, StartRefreshed, StartFails, SendRefreshDone, GapTop, GapRefreshed
<1>6. CASE \/ ServerAccepts \/ Publish \/ SubEnds \/ ClientClose \/ CancelContext
           \/ UserStop \/ UserRequest \/ (\E p \in Users : UserRefresh(p) \/ UserReturns(p))
           \/ Rest \/ UNCHANGED vars
  BY <1>6 DEF ServerAccepts, Publish, SubEnds, ClientClose, CancelContext, UserStop,
     UserRequest, UserRefresh, UserReturns, Rest, vars
<1> QED
  BY <1>1, <1>2, <1>3, <1>4, <1>5, <1>6 DEF Next, Worker

\* When the stream of an overview ends, Err() says why, unless the user closed
\* it, the context ended or Start failed and returned the error itself.
THEOREM OverviewEndIsReported == OverviewSpec => EndIsReported
<1>1. OverviewInit => Reported
  <2> SUFFICES ASSUME OverviewInit PROVE Reported
    OBVIOUS
  <2> QED
    BY DEF OverviewInit, Init, Reported
<1>2. CoordInv /\ CallbacksOK /\ Reported /\ [OverviewNext]_allVars => Reported'
  BY ReportedNext
<1>3. CoordInv /\ Reported /\ [OverviewNext]_allVars =>
        [w.pc # "done" /\ w'.pc = "done" =>
           \/ s'.lastErr \/ out.err
           \/ out.user \/ env.ctxDone \/ spc \in {"connecting", "closing"}]_allVars
  <2> SUFFICES ASSUME CoordInv, Reported, [OverviewNext]_allVars, w.pc # "done", w'.pc = "done"
               PROVE  \/ s'.lastErr \/ out.err
                      \/ out.user \/ env.ctxDone \/ spc \in {"connecting", "closing"}
    OBVIOUS
  <2>1. /\ UNCHANGED <<env, spc>>
        /\ \/ s' = s /\ Stopped
           \/ s' \in {SetErr, FailClosed}
    BY OverviewStepsAreNext, WorkerEnds DEF CoordInv
  <2>2. s' = SetErr => s'.lastErr
    BY DEF SetErr, CoordInv, TypeOK, CoordOK, Coordinator
  <2>3. s' = FailClosed => s'.lastErr \/ (s' = s /\ Stopped)
    BY DEF FailClosed, Stop, Stopped, CoordInv, TypeOK, CoordOK, Coordinator
  <2>4. CASE s' = s /\ Stopped
    BY <2>4 DEF Stopped, Reported
  <2> QED
    BY <2>1, <2>2, <2>3, <2>4
<1> QED
  BY <1>1, <1>2, <1>3, OverviewFollows, PTL DEF OverviewSpec, EndIsReported, allVars
=============================================================================
