---------------------- MODULE SnapshotThenStreamProofs ----------------------
(***************************************************************************)
(* Theorems about SnapshotThenStream, for every value of its constants:    *)
(* type correctness with both buffers bounded, that publications reach the *)
(* apply callbacks once and in order, that a disposed stream stays         *)
(* disposed and empty, and that a live one loses no publication.           *)
(***************************************************************************)
EXTENDS SnapshotThenStream, FiniteSetsExt, FiniteSetTheorems, TLAPS

-----------------------------------------------------------------------------
(* Type correctness.                                                       *)

\* The type invariant of a step that changes only some variables follows from
\* the parts it changes.
LEMMA Frame ==
    ASSUME TypeOK,
           EnvOK' \/ UNCHANGED env,     SubOK' \/ UNCHANGED sub,
           WorkerOK' \/ UNCHANGED w,    StartOK' \/ UNCHANGED spc,
           CoordOK' \/ UNCHANGED s,     RefreshersOK' \/ UNCHANGED r,
           HistOK' \/ UNCHANGED <<refreshDone, delivered, view>>
    PROVE  TypeOK'
<1>1. EnvOK'
  BY DEF TypeOK, EnvOK
<1>2. SubOK'
  BY DEF TypeOK, SubOK
<1>3. WorkerOK'
  BY DEF TypeOK, WorkerOK
<1>4. StartOK'
  BY DEF TypeOK, StartOK
<1>5. CoordOK'
  BY DEF TypeOK, CoordOK
<1>6. RefreshersOK'
  BY DEF TypeOK, RefreshersOK
<1>7. HistOK'
  BY DEF TypeOK, HistOK
<1> QED
  BY <1>1, <1>2, <1>3, <1>4, <1>5, <1>6, <1>7 DEF TypeOK

LEMMA TypeInit == Init => TypeOK
<1> SUFFICES ASSUME Init PROVE TypeOK
  OBVIOUS
<1> USE Assumptions DEF Init
<1>1. EnvOK
  BY DEF EnvOK
<1>2. SubOK
  BY DEF SubOK, NoSub
<1>3. WorkerOK /\ StartOK
  BY DEF WorkerOK, StartOK
<1>4. CoordOK
  BY DEF CoordOK, Coordinator
<1>5. RefreshersOK
  BY DEF RefreshersOK, Refresher, Idle
<1>6. HistOK
  BY DEF HistOK
<1> QED
  BY <1>1, <1>2, <1>3, <1>4, <1>5, <1>6 DEF TypeOK

LEMMA FailClosedType ==
    ASSUME TypeOK
    PROVE  /\ Stop \in Coordinator /\ Len(Stop.pending) <= MaxBuffered
           /\ FailClosed \in Coordinator /\ Len(FailClosed.pending) <= MaxBuffered
<1> USE DEF TypeOK, CoordOK
<1>1. s.generation + 1 \in Nat
  BY DEF Coordinator
<1>2. <<>> \in Seq(Pubs) /\ Len(<<>>) <= MaxBuffered
  BY Assumptions
<1>3. Stop \in Coordinator /\ FailClosed \in Coordinator
  BY <1>1, <1>2 DEF Stop, FailClosed, Coordinator
<1>4. Len(Stop.pending) <= MaxBuffered /\ Len(FailClosed.pending) <= MaxBuffered
  BY <1>2 DEF Stop, FailClosed, Coordinator
<1> QED
  BY <1>3, <1>4

\* The critical sections return coordinator states.
LEMMA SectionTypes ==
    ASSUME TypeOK
    PROVE  /\ s' = SetErr => CoordOK'
           /\ s' = Stop => CoordOK'
           /\ s' = FailClosed => CoordOK'
           /\ s' = Requested => CoordOK'
           /\ Ask => EnvOK'
<1> USE DEF TypeOK, CoordOK
<1>1. s' = SetErr => CoordOK'
  BY DEF SetErr, Coordinator
<1>2. s' = Requested => CoordOK'
  BY DEF Requested, Coordinator
<1>3. Ask => EnvOK'
  BY Assumptions DEF Ask, EnvOK
<1> QED
  BY <1>1, <1>2, <1>3, FailClosedType

LEMMA CallbackTypes ==
    ASSUME TypeOK, NEW o, Callback(o)
    PROVE  /\ CoordOK' \/ UNCHANGED s
           /\ EnvOK' \/ UNCHANGED env
BY SectionTypes DEF Callback

LEMMA IdleType == Idle \in Refresher
BY Assumptions DEF Idle, Refresher

LEMMA TypeRefresh ==
    ASSUME TypeOK, NEW p \in Refreshers, Refresh(p)
    PROVE  TypeOK'
<1>0. env.published \in 0..MaxPubs /\ s.pending \in Seq(Pubs) /\ <<>> \in Seq(Pubs)
      /\ 0 \in 0..MaxPubs /\ s.generation + 1 \in Nat
  BY Assumptions DEF TypeOK, EnvOK, CoordOK, Coordinator
<1> USE DEF At, Go, Section, hist
<1>1. CASE RefreshLock(p)
  <2>1. RefreshersOK'
    <3>1. CASE s.disposed
      <4>1. r' = [r EXCEPT ![p].pc = "nil"]
        BY <1>1, <3>1 DEF RefreshLock
      <4> QED
        BY <4>1 DEF RefreshersOK, Refresher, TypeOK
    <3>2. CASE ~s.disposed
      <4>1. r' = [r EXCEPT ![p].pc = "fetch", ![p].gen = s.generation + 1]
        BY <1>1, <3>2 DEF RefreshLock
      <4> QED
        BY <1>0, <4>1 DEF RefreshersOK, Refresher, TypeOK
    <3> QED
      BY <3>1, <3>2
  <2>2. CoordOK'
    <3>1. [s EXCEPT !.generation = s.generation + 1, !.ready = FALSE] \in Coordinator
      BY <1>0 DEF CoordOK, Coordinator, TypeOK
    <3>2. s'.pending = s.pending
      BY <1>1 DEF RefreshLock, CoordOK, Coordinator, TypeOK
    <3> QED
      BY <1>1, <3>1, <3>2 DEF RefreshLock, CoordOK, TypeOK
  <2> QED
    BY <1>1, <2>1, <2>2, Frame DEF RefreshLock
<1>2. CASE FetchFails(p)
  <2>1. RefreshersOK'
    BY <1>2 DEF FetchFails, RefreshersOK, Refresher, TypeOK
  <2> QED
    BY <1>2, <2>1, Frame, SectionTypes DEF FetchFails
<1>3. CASE FetchReturns(p)
  <2>1. RefreshersOK'
    BY <1>0, <1>3 DEF FetchReturns, RefreshersOK, Refresher, TypeOK
  <2> QED
    BY <1>3, <2>1, Frame DEF FetchReturns
<1>4. ASSUME NEW pc \in {"apply", "applyLive"}, TakePending(p, pc)
      PROVE  RefreshersOK' /\ CoordOK'
  <2>1. RefreshersOK'
    BY <1>0, <1>4 DEF TakePending, RefreshersOK, Refresher, TypeOK
  <2>2. s' \in Coordinator
    BY <1>0, <1>4 DEF TakePending, CoordOK, Coordinator, TypeOK
  <2>3. Len(s'.pending) <= MaxBuffered
    BY <1>4, Assumptions DEF TakePending, CoordOK, Coordinator, TypeOK
  <2> QED
    BY <2>1, <2>2, <2>3 DEF CoordOK
<1>5. CASE MergePending(p)
  <2>1. RefreshersOK' /\ (CoordOK' \/ UNCHANGED s)
    <3>1. ASSUME Go(p, "nil") PROVE RefreshersOK'
      BY <3>1 DEF RefreshersOK, Refresher, TypeOK
    <3> QED
      BY <1>4, <1>5, <3>1 DEF MergePending
  <2> QED
    BY <1>5, <2>1, Frame DEF MergePending
<1>6. ASSUME NEW o \in Outcomes, Deliver(p, o)
      PROVE  RefreshersOK' /\ delivered' \in Seq(Pubs) /\ Range(r[p].buf) \subseteq Pubs
  <2>1. r[p].buf \in Seq(Pubs) /\ delivered \in Seq(Pubs)
    BY DEF TypeOK, RefreshersOK, Refresher, HistOK
  <2>2. RefreshersOK'
    <3> DEFINE pc == IF o = "panic" THEN "err" ELSE "drain"
    <3>1. pc \in Section \cup {"off", "lock", "nil", "err"}
      OBVIOUS
    <3>2. r' = [r EXCEPT ![p].pc = pc, ![p].buf = <<>>, ![p].snap = 0]
      BY <1>6 DEF Deliver
    <3> HIDE DEF pc
    <3> QED
      BY <1>0, <3>1, <3>2 DEF RefreshersOK, Refresher, TypeOK
  <2> QED
    BY <1>6, <2>1, <2>2 DEF Deliver, Range
<1>7. ASSUME NEW o \in Outcomes, ApplySnapshot(p, o)
      PROVE  TypeOK'
  <2>1. 1..r[p].snap \subseteq Pubs
    BY Assumptions DEF TypeOK, RefreshersOK, Refresher, Pubs
  <2>2. RefreshersOK' /\ HistOK'
    BY <1>6, <1>7, <2>1 DEF ApplySnapshot, Deliver, HistOK, TypeOK
  <2> QED
    BY <1>7, <2>2, CallbackTypes, Frame DEF ApplySnapshot, Deliver
<1>8. ASSUME NEW o \in Outcomes, ApplyBuffered(p, o)
      PROVE  TypeOK'
  <2>1. RefreshersOK' /\ HistOK'
    BY <1>6, <1>8 DEF ApplyBuffered, Deliver, HistOK, TypeOK
  <2> QED
    BY <1>8, <2>1, CallbackTypes, Frame DEF ApplyBuffered, Deliver
<1>9. CASE DrainPending(p)
  <2>1. s' = [s EXCEPT !.ready = TRUE, !.lastErr = FALSE] => CoordOK'
    BY DEF CoordOK, Coordinator, TypeOK
  <2>2. RefreshersOK' /\ (CoordOK' \/ UNCHANGED s)
    <3>1. ASSUME Go(p, "nil") PROVE RefreshersOK'
      BY <3>1 DEF RefreshersOK, Refresher, TypeOK
    <3> QED
      BY <1>4, <1>9, <2>1, <3>1 DEF DrainPending
  <2> QED
    BY <1>9, <2>2, Frame DEF DrainPending
<1>10. CASE Retry(p)
  <2>1. \/ r' = [r EXCEPT ![p].tries = 2, ![p].pc = "lock"]
        \/ r' = [r EXCEPT ![p].tries = 2]
    BY <1>10 DEF Retry
  <2>2. RefreshersOK'
    <3>0. 2 \in 0..2
      OBVIOUS
    <3>1. CASE r' = [r EXCEPT ![p].tries = 2, ![p].pc = "lock"]
      BY <3>0, <3>1, Zenon DEF RefreshersOK, Refresher, TypeOK
    <3>2. CASE r' = [r EXCEPT ![p].tries = 2]
      BY <3>0, <3>2, Zenon DEF RefreshersOK, Refresher, TypeOK
    <3> QED
      BY <2>1, <3>1, <3>2
  <2> QED
    BY <1>10, <2>2, Frame DEF Retry
<1> QED
  BY <1>1, <1>2, <1>3, <1>5, <1>7, <1>8, <1>9, <1>10 DEF Refresh

LEMMA CallTypes ==
    ASSUME TypeOK, NEW p \in Refreshers
    PROVE  /\ Call(p) => RefreshersOK'
           /\ \A res : Returned(p, res) => RefreshersOK'
<1>1. ASSUME Call(p) PROVE RefreshersOK'
  <2>1. 1 \in 0..2
    OBVIOUS
  <2>2. r' = [r EXCEPT ![p].pc = "lock", ![p].tries = 1]
    BY <1>1 DEF Call
  <2> QED
    BY <2>1, <2>2, Zenon DEF TypeOK, RefreshersOK, Refresher
<1>2. ASSUME NEW res, Returned(p, res) PROVE RefreshersOK'
  BY <1>2, IdleType DEF Returned, TypeOK, RefreshersOK
<1> QED
  BY <1>1, <1>2

LEMMA NoSubType == sub' = NoSub => SubOK'
BY Assumptions DEF NoSub, SubOK

LEMMA TypeWorker ==
    ASSUME TypeOK, Worker
    PROVE  TypeOK'
<1>0. "start" \in Refreshers /\ "reconnect" \in Refreshers /\ "gap" \in Refreshers
  BY DEF Refreshers
<1>a. 0 \in 0..MaxPubs
  BY Assumptions
<1> USE DEF hist
<1>1. CASE RunTop
  <2>1. WorkerOK'
    BY <1>1 DEF RunTop, WorkerOK, TypeOK
  <2> QED
    BY <1>1, <2>1, Frame DEF RunTop
<1>2. CASE Subscribed
  <2>1. WorkerOK'
    BY <1>2 DEF Subscribed, WorkerOK, TypeOK
  <2>2. (RefreshersOK' \/ UNCHANGED r) /\ HistOK'
    BY <1>0, <1>2, CallTypes DEF Subscribed, HistOK, TypeOK
  <2> QED
    BY <1>2, <2>1, <2>2, Frame DEF Subscribed
<1>3. CASE SubscribeFails
  <2>1. WorkerOK'
    BY <1>3 DEF SubscribeFails, Signal, WorkerOK, TypeOK
  <2> QED
    BY <1>3, <2>1, NoSubType, SectionTypes, Frame DEF SubscribeFails
<1>4. CASE BackoffEnds
  <2>1. WorkerOK'
    BY <1>4 DEF BackoffEnds, WorkerOK, TypeOK
  <2> QED
    BY <1>4, <2>1, Frame DEF BackoffEnds
<1>5. CASE Receive
  <2>1. /\ Tail(sub.queue) \in Seq(Pubs) /\ Head(sub.queue) \in 0..MaxPubs
        /\ Len(Tail(sub.queue)) <= MaxQueue /\ 0 \in 0..MaxPubs
    BY <1>5, Assumptions DEF Receive, SubOK, TypeOK, Pubs
  <2>2. SubOK'
    BY <1>5, <2>1 DEF Receive, SubOK, TypeOK
  <2>3. WorkerOK'
    BY <1>5, <2>1 DEF Receive, WorkerOK, TypeOK
  <2> QED
    BY <1>5, <2>2, <2>3, Frame DEF Receive
<1>6. CASE HandlePublication
  <2>1. WorkerOK'
    <3>1. w' \in {[w EXCEPT !.hand = 0], [w EXCEPT !.live = TRUE]}
      BY <1>6 DEF HandlePublication
    <3> QED
      BY <1>a, <3>1, Zenon DEF WorkerOK, TypeOK
  <2>2. ASSUME ~PendingFull, s' = [s EXCEPT !.pending = Append(@, w.hand)]
        PROVE  CoordOK'
    <3>1. w.hand \in Pubs
      BY <1>6, Assumptions DEF HandlePublication, WorkerOK, TypeOK, Pubs
    <3>2. Append(s.pending, w.hand) \in Seq(Pubs) /\ Len(Append(s.pending, w.hand)) <= MaxBuffered
      BY <2>2, <3>1, Assumptions DEF PendingFull, CoordOK, Coordinator, TypeOK
    <3> QED
      BY <2>2, <3>2 DEF CoordOK, Coordinator, TypeOK
  <2> QED
    BY <1>6, <2>1, <2>2, SectionTypes, Frame DEF HandlePublication
<1>7. CASE ReadPanics
  <2>1. WorkerOK'
    BY <1>7, Assumptions DEF ReadPanics, WorkerOK, TypeOK
  <2> QED
    BY <1>7, <2>1, SectionTypes, Frame DEF ReadPanics
<1>8. ASSUME NEW o \in Outcomes, ApplyLive(o)
      PROVE  TypeOK'
  <2>1. w.hand \in Pubs
    BY <1>8, Assumptions DEF ApplyLive, WorkerOK, TypeOK, Pubs
  <2>2. HistOK'
    BY <1>8, <2>1 DEF ApplyLive, HistOK, TypeOK
  <2>3. WorkerOK'
    <3>1. w' = [w EXCEPT !.hand = 0, !.live = FALSE]
      BY <1>8 DEF ApplyLive
    <3> QED
      BY <1>a, <3>1, Zenon DEF WorkerOK, TypeOK
  <2> QED
    BY <1>8, <2>2, <2>3, CallbackTypes, Frame DEF ApplyLive
<1>9. CASE DrainCancelled
  <2>1. WorkerOK'
    BY <1>9 DEF DrainCancelled, WorkerOK, TypeOK
  <2> QED
    BY <1>9, <2>1, NoSubType, Frame DEF DrainCancelled
<1>10. CASE DrainSubDone
  <2>1. WorkerOK'
    BY <1>10 DEF DrainSubDone, WorkerOK, TypeOK
  <2> QED
    BY <1>10, <2>1, Frame DEF DrainSubDone
<1>11. CASE ReconnectRefreshed
  <2>1. WorkerOK'
    BY <1>11 DEF ReconnectRefreshed, WorkerOK, TypeOK
  <2>2. HistOK'
    BY <1>11 DEF ReconnectRefreshed, HistOK, TypeOK
  <2> QED
    BY <1>11, <2>1, <2>2, NoSubType, SectionTypes, Frame DEF ReconnectRefreshed
<1>12. CASE LiveEnds
  <2>1. WorkerOK'
    BY <1>12 DEF LiveEnds, WorkerOK, TypeOK
  <2>2. sub.err \in {"none", "transient", "terminal"}
    BY DEF SubOK, TypeOK
  <2>3. s' \in {FailClosed, SetErr, s}
    BY <1>12, <2>2 DEF LiveEnds
  <2> QED
    BY <1>12, <2>1, <2>3, NoSubType, SectionTypes, Frame DEF LiveEnds
<1> QED
  BY <1>1, <1>2, <1>3, <1>4, <1>5, <1>6, <1>7, <1>8, <1>9, <1>10, <1>11, <1>12
  DEF Worker

LEMMA TypeNext ==
    ASSUME TypeOK, [Next]_vars
    PROVE  TypeOK'
<1>0. "start" \in Refreshers /\ "reconnect" \in Refreshers /\ "gap" \in Refreshers
      /\ Users \subseteq Refreshers
  BY DEF Refreshers
<1> USE DEF hist
<1>1. CASE Start
  <2>1. WorkerOK' /\ StartOK'
    BY <1>1 DEF Start, WorkerOK, StartOK, TypeOK
  <2>2. env.ctxDone \in BOOLEAN
    BY DEF EnvOK, TypeOK
  <2>3. CoordOK'
    BY <1>1, <2>2 DEF Start, CoordOK, Coordinator, TypeOK
  <2> QED
    BY <1>1, <2>1, <2>3, Frame DEF Start
<1>2. CASE StartConnected
  <2>1. StartOK'
    BY <1>2 DEF StartConnected, StartOK
  <2> QED
    BY <1>0, <1>2, <2>1, CallTypes, SectionTypes, Frame DEF StartConnected
<1>3. CASE StartRefreshed
  <2>1. StartOK'
    BY <1>3 DEF StartRefreshed, StartOK
  <2> QED
    BY <1>0, <1>3, <2>1, CallTypes, SectionTypes, Frame DEF StartRefreshed
<1>4. CASE StartFails
  BY <1>4, Frame DEF StartFails, StartOK
<1>5. CASE SendRefreshDone
  <2>1. HistOK'
    BY <1>5 DEF SendRefreshDone, HistOK, TypeOK
  <2> QED
    BY <1>0, <1>5, <2>1, CallTypes, Frame DEF SendRefreshDone
<1>6. CASE GapTop
  <2>1. CoordOK'
    BY <1>6 DEF GapTop, CoordOK, Coordinator, TypeOK
  <2> QED
    BY <1>0, <1>6, <2>1, CallTypes, Frame DEF GapTop
<1>7. CASE GapRefreshed
  <2>1. s' = [s EXCEPT !.gap = AfterGapRefresh] => CoordOK'
    BY DEF AfterGapRefresh, CoordOK, Coordinator, TypeOK
  <2>2. s' = [FailClosed EXCEPT !.gap = "dead"] => CoordOK'
    <3> DEFINE f == FailClosed
    <3>1. f \in Coordinator /\ Len(f.pending) <= MaxBuffered
      BY FailClosedType
    <3> HIDE DEF f
    <3>2. [f EXCEPT !.gap = "dead"] \in Coordinator
          /\ [f EXCEPT !.gap = "dead"].pending = f.pending
      BY <3>1 DEF Coordinator
    <3>3. s' = [f EXCEPT !.gap = "dead"] => CoordOK'
      BY <3>1, <3>2 DEF CoordOK
    <3> QED
      BY <3>3 DEF f
  <2> QED
    BY <1>0, <1>7, <2>1, <2>2, CallTypes, Frame DEF GapRefreshed
<1>8. CASE ServerAccepts
  <2>1. EnvOK'
    BY <1>8, Assumptions DEF ServerAccepts, EnvOK, TypeOK
  <2>2. SubOK'
    BY <1>8 DEF ServerAccepts, SubOK, TypeOK
  <2> QED
    BY <1>8, <2>1, <2>2, Frame DEF ServerAccepts
<1>9. CASE Publish
  <2>1. EnvOK' /\ env.published + 1 \in Pubs
    BY <1>9, Assumptions DEF Publish, EnvOK, TypeOK, Pubs
  <2>2. SubOK'
    <3>1. CASE sub' = [sub EXCEPT !.queue = Append(@, env.published + 1)] /\ Len(sub.queue) < MaxQueue
      <4> DEFINE q == Append(sub.queue, env.published + 1)
      <4>1. q \in Seq(Pubs) /\ Len(q) <= MaxQueue
        BY <2>1, <3>1, Assumptions DEF SubOK, TypeOK
      <4>2. sub' = [sub EXCEPT !.queue = q]
        BY <3>1
      <4> HIDE DEF q
      <4> QED
        BY <4>1, <4>2 DEF SubOK, TypeOK
    <3>2. CASE sub' = [sub EXCEPT !.st = "ended", !.err = "terminal"]
      BY <3>2 DEF SubOK, TypeOK
    <3> QED
      BY <1>9, <3>1, <3>2 DEF Publish, Enqueue, SubOK, TypeOK
  <2> QED
    BY <1>9, <2>1, <2>2, Frame DEF Publish
<1>10. CASE SubEnds
  <2>1. SubOK'
    BY <1>10 DEF SubEnds, SubOK, TypeOK
  <2> QED
    BY <1>10, <2>1, Frame DEF SubEnds
<1>11. CASE ClientClose
  <2>1. EnvOK'
    BY <1>11 DEF ClientClose, EnvOK, TypeOK
  <2>2. SubOK'
    BY <1>11 DEF ClientClose, SubOK, TypeOK
  <2> QED
    BY <1>11, <2>1, <2>2, Frame DEF ClientClose
<1>12. CASE CancelContext
  <2>1. EnvOK'
    BY <1>12 DEF CancelContext, EnvOK, TypeOK
  <2>2. CoordOK'
    BY <1>12 DEF CancelContext, CoordOK, Coordinator, TypeOK
  <2> QED
    BY <1>12, <2>1, <2>2, Frame DEF CancelContext
<1>13. CASE UserStop
  BY <1>13, SectionTypes, Frame DEF UserStop
<1>14. CASE UserRequest
  BY <1>14, SectionTypes, Frame DEF UserRequest
<1>15. ASSUME NEW p \in Users, UserRefresh(p) \/ UserReturns(p)
       PROVE  TypeOK'
  BY <1>0, <1>15, CallTypes, SectionTypes, Frame DEF UserRefresh, UserReturns
<1>16. CASE UNCHANGED vars
  BY <1>16, Frame DEF vars
<1> QED
  BY <1>1, <1>2, <1>3, <1>4, <1>5, <1>6, <1>7, <1>8, <1>9, <1>10, <1>11, <1>12, <1>13,
     <1>14, <1>15, <1>16, TypeRefresh, TypeWorker DEF Next, Rest

\* Every reachable state is well typed; in particular the pending buffer of
\* handlePublication never holds more than MaxBuffered publications and the
\* subscription's queue never more than MaxQueue, whatever their sizes.
THEOREM TypeCorrect == Spec => []TypeOK
<1>1. Init => TypeOK
  BY TypeInit
<1>2. TypeOK /\ [Next]_vars => TypeOK'
  BY TypeNext
<1> QED
  BY <1>1, <1>2, PTL DEF Spec

-----------------------------------------------------------------------------
(* Delivery in order.  A publication moves from the subscription's queue to *)
(* the worker's hand, from there to the callbacks or to pending, from       *)
(* pending to a refresher's buffer, and from there to the callbacks.  The   *)
(* inductive invariant says that these places hold increasing numbers, in   *)
(* that order.  It needs what the two mutexes ensure: one refresher at a    *)
(* time, and nothing buffered anywhere while the worker delivers live.      *)

Ascending(a) == \A i, j \in DOMAIN a : i < j => a[i] < a[j]
Below(a, b)  == \A i \in DOMAIN a, j \in DOMAIN b : a[i] < b[j]
Under(a, k)  == \A i \in DOMAIN a : a[i] < k
Over(k, a)   == \A i \in DOMAIN a : k < a[i]

\* refreshMu admits one refresher; a stream marked ready has nothing buffered.
Exclusive ==
    /\ \A p, q \in Refreshers : r[p].pc \in Section /\ r[q].pc \in Section => p = q
    /\ \A p \in Refreshers : r[p].buf # <<>> => r[p].pc \in {"apply", "applyLive"}
    /\ s.ready => s.pending = <<>> /\ \A p \in Refreshers : r[p].pc \notin Section
    /\ w.live => s.pending = <<>> /\ \A p \in Refreshers : r[p].buf = <<>>

Ordered ==
    /\ Ascending(delivered) /\ Ascending(s.pending) /\ Ascending(sub.queue)
    /\ Below(delivered, s.pending) /\ Below(delivered, sub.queue)
    /\ Below(s.pending, sub.queue)
    /\ Under(delivered, env.published + 1) /\ Under(s.pending, env.published + 1)
    /\ Under(sub.queue, env.published + 1) /\ w.hand <= env.published
    /\ \A p \in Refreshers :
         /\ Ascending(r[p].buf) /\ Below(delivered, r[p].buf)
         /\ Below(r[p].buf, s.pending) /\ Below(r[p].buf, sub.queue)
         /\ Under(r[p].buf, env.published + 1)
    /\ w.hand # 0 =>
         /\ Under(delivered, w.hand) /\ Under(s.pending, w.hand) /\ Over(w.hand, sub.queue)
         /\ \A p \in Refreshers : Under(r[p].buf, w.hand)

\* The sequence operations that move publications along.
LEMMA EmptySeq ==
    /\ Ascending(<<>>)
    /\ \A a : Below(a, <<>>) /\ Below(<<>>, a)
    /\ \A k : Under(<<>>, k) /\ Over(k, <<>>)
BY DEF Ascending, Below, Under, Over

LEMMA AppendSeq ==
    ASSUME NEW a \in Seq(Nat), NEW k \in Nat, Under(a, k)
    PROVE  /\ Ascending(a) => Ascending(Append(a, k))
           /\ \A b : Below(b, a) /\ Under(b, k) => Below(b, Append(a, k))
           /\ \A b : Below(a, b) /\ Over(k, b) => Below(Append(a, k), b)
           /\ \A n \in Nat : k < n => Under(Append(a, k), n)
           /\ \A n : Over(n, a) /\ n < k => Over(n, Append(a, k))
<1>1. /\ DOMAIN Append(a, k) = 1..(Len(a) + 1) /\ DOMAIN a = 1..Len(a)
      /\ \A i \in 1..Len(a) : Append(a, k)[i] = a[i] /\ a[i] \in Nat
      /\ Append(a, k)[Len(a) + 1] = k
      /\ Len(a) \in Nat
  OBVIOUS
<1>2. \A i \in 1..Len(a) : a[i] < k
  BY <1>1 DEF Under
<1>3. \A i \in 1..(Len(a) + 1) : i \in 1..Len(a) \/ i = Len(a) + 1
  BY <1>1
<1>4. Ascending(a) => Ascending(Append(a, k))
  BY <1>1, <1>2, <1>3 DEF Ascending
<1>5. \A b : Below(b, a) /\ Under(b, k) => Below(b, Append(a, k))
  BY <1>1, <1>3 DEF Below, Under
<1>6. \A b : Below(a, b) /\ Over(k, b) => Below(Append(a, k), b)
  BY <1>1, <1>3 DEF Below, Over
<1>7. \A n \in Nat : k < n => Under(Append(a, k), n)
  BY <1>1, <1>2, <1>3 DEF Under
<1>8. \A n : Over(n, a) /\ n < k => Over(n, Append(a, k))
  BY <1>1, <1>3 DEF Over
<1> QED
  BY <1>4, <1>5, <1>6, <1>7, <1>8

LEMMA TailSeq ==
    ASSUME NEW a \in Seq(Nat), a # <<>>
    PROVE  /\ Ascending(a) => Ascending(Tail(a)) /\ Over(Head(a), Tail(a))
           /\ \A b : Below(b, a) => Below(b, Tail(a)) /\ Under(b, Head(a))
           /\ \A n : Under(a, n) => Under(Tail(a), n) /\ Head(a) < n
<1>1. /\ DOMAIN a = 1..Len(a) /\ DOMAIN Tail(a) = 1..(Len(a) - 1)
      /\ \A i \in 1..(Len(a) - 1) : Tail(a)[i] = a[i + 1] /\ i + 1 \in 1..Len(a)
      /\ Head(a) = a[1] /\ 1 \in 1..Len(a) /\ Len(a) \in Nat
  OBVIOUS
<1>2. Ascending(a) => Ascending(Tail(a)) /\ Over(Head(a), Tail(a))
  <2> SUFFICES ASSUME Ascending(a) PROVE Ascending(Tail(a)) /\ Over(Head(a), Tail(a))
    OBVIOUS
  <2>1. \A i, j \in 1..(Len(a) - 1) : i < j => a[i + 1] < a[j + 1]
    BY <1>1 DEF Ascending
  <2>2. \A i \in 1..(Len(a) - 1) : a[1] < a[i + 1]
    BY <1>1 DEF Ascending
  <2> QED
    BY <1>1, <2>1, <2>2 DEF Ascending, Over
<1>3. \A b : Below(b, a) => Below(b, Tail(a)) /\ Under(b, Head(a))
  BY <1>1 DEF Below, Under
<1>4. \A n : Under(a, n) => Under(Tail(a), n) /\ Head(a) < n
  BY <1>1 DEF Under
<1> QED
  BY <1>2, <1>3, <1>4

LEMMA ConcatSeq ==
    ASSUME NEW a \in Seq(Nat), NEW b \in Seq(Nat), Below(a, b)
    PROVE  /\ Ascending(a) /\ Ascending(b) => Ascending(a \o b)
           /\ \A c : Below(a, c) /\ Below(b, c) => Below(a \o b, c)
           /\ \A n : Under(a, n) /\ Under(b, n) => Under(a \o b, n)
<1>1. /\ DOMAIN a = 1..Len(a) /\ DOMAIN b = 1..Len(b) /\ Len(a) \in Nat /\ Len(b) \in Nat
      /\ DOMAIN (a \o b) = 1..(Len(a) + Len(b))
      /\ \A i \in 1..(Len(a) + Len(b)) :
           (a \o b)[i] = IF i <= Len(a) THEN a[i] ELSE b[i - Len(a)]
  OBVIOUS
<1>2. \A i \in DOMAIN (a \o b) :
         \/ i \in DOMAIN a /\ (a \o b)[i] = a[i]
         \/ i - Len(a) \in DOMAIN b /\ (a \o b)[i] = b[i - Len(a)] /\ i > Len(a)
  BY <1>1
<1>3. Ascending(a) /\ Ascending(b) => Ascending(a \o b)
  BY <1>1 DEF Ascending, Below
<1>4. \A c : Below(a, c) /\ Below(b, c) => Below(a \o b, c)
  BY <1>2 DEF Below
<1>5. \A n : Under(a, n) /\ Under(b, n) => Under(a \o b, n)
  BY <1>2 DEF Under
<1> QED
  BY <1>3, <1>4, <1>5

\* A step that moves no publication forward, but may drop some.
LEMMA Shrink ==
    ASSUME Ordered, UNCHANGED delivered, env'.published = env.published,
           s'.pending \in {s.pending, <<>>}, sub'.queue \in {sub.queue, <<>>},
           w'.hand \in {w.hand, 0}, env.published \in Nat,
           \A p \in Refreshers : r'[p].buf \in {r[p].buf, <<>>}
    PROVE  Ordered'
<1>1. /\ Ascending(delivered') /\ Ascending(s'.pending) /\ Ascending(sub'.queue)
      /\ Below(delivered', s'.pending) /\ Below(delivered', sub'.queue)
      /\ Below(s'.pending, sub'.queue)
      /\ Under(delivered', env'.published + 1) /\ Under(s'.pending, env'.published + 1)
      /\ Under(sub'.queue, env'.published + 1) /\ w'.hand <= env'.published
  BY EmptySeq DEF Ordered
<1>2. ASSUME NEW p \in Refreshers
      PROVE  /\ Ascending(r'[p].buf) /\ Below(delivered', r'[p].buf)
             /\ Below(r'[p].buf, s'.pending) /\ Below(r'[p].buf, sub'.queue)
             /\ Under(r'[p].buf, env'.published + 1)
             /\ w'.hand # 0 => Under(r'[p].buf, w'.hand)
  BY EmptySeq DEF Ordered
<1>3. w'.hand # 0 =>
         Under(delivered', w'.hand) /\ Under(s'.pending, w'.hand) /\ Over(w'.hand, sub'.queue)
  BY EmptySeq DEF Ordered
<1> QED
  BY <1>1, <1>2, <1>3 DEF Ordered

\* What most steps do to the places a publication can be in: they drop some,
\* they move none, no refresher enters its critical section.
StillCoord == s'.pending \in {s.pending, <<>>} /\ (s'.ready => s.ready)

StillRefreshers ==
    \A p \in Refreshers :
        /\ r'[p].pc \in Section => r[p].pc \in Section
        /\ r'[p].buf = <<>> \/ (r'[p].buf = r[p].buf /\ r'[p].pc = r[p].pc)

Still ==
    /\ StillCoord /\ StillRefreshers
    /\ UNCHANGED delivered /\ env'.published = env.published
    /\ sub'.queue \in {sub.queue, <<>>}
    /\ w'.hand \in {w.hand, 0} /\ (w'.live => w.live)

LEMMA StillPreserves ==
    ASSUME TypeOK, Exclusive, Ordered, Still
    PROVE  Exclusive' /\ Ordered'
<1>1. Exclusive'
  <2>1. \A p, q \in Refreshers : r'[p].pc \in Section /\ r'[q].pc \in Section => p = q
    BY DEF Still, StillRefreshers, Exclusive
  <2>2. \A p \in Refreshers : r'[p].buf # <<>> => r'[p].pc \in {"apply", "applyLive"}
    BY DEF Still, StillRefreshers, Exclusive
  <2>3. s'.ready => s'.pending = <<>> /\ \A p \in Refreshers : r'[p].pc \notin Section
    BY DEF Still, StillCoord, StillRefreshers, Exclusive
  <2>4. w'.live => s'.pending = <<>> /\ \A p \in Refreshers : r'[p].buf = <<>>
    BY DEF Still, StillCoord, StillRefreshers, Exclusive
  <2> QED
    BY <2>1, <2>2, <2>3, <2>4 DEF Exclusive
<1>2. Ordered'
  <2>1. env.published \in Nat
    BY Assumptions DEF TypeOK, EnvOK
  <2> QED
    BY <2>1, Shrink DEF Still, StillCoord, StillRefreshers
<1> QED
  BY <1>1, <1>2

LEMMA StillSections ==
    ASSUME TypeOK
    PROVE  /\ s' \in {s, SetErr, Stop, FailClosed, Requested} => StillCoord
           /\ Ask => env'.published = env.published
           /\ \A o : Callback(o) => StillCoord /\ env'.published = env.published
<1>1. s' \in {s, SetErr, Stop, FailClosed, Requested} => StillCoord
  BY DEF StillCoord, SetErr, Stop, FailClosed, Requested, TypeOK, CoordOK, Coordinator
<1>2. Ask => env'.published = env.published
  BY DEF Ask, TypeOK, EnvOK
<1> QED
  BY <1>1, <1>2 DEF Callback

\* Calls and returns of RefreshSnapshot move no publication.
LEMMA StillCalls ==
    ASSUME TypeOK, Exclusive, NEW p \in Refreshers
    PROVE  /\ UNCHANGED r => StillRefreshers
           /\ Call(p) => StillRefreshers
           /\ \A res : Returned(p, res) => StillRefreshers
           /\ \A pc : Go(p, pc) /\ pc \notin Section /\ r[p].pc \notin {"apply", "applyLive"}
                  => StillRefreshers
<1> USE DEF TypeOK, RefreshersOK, Refresher, Exclusive, StillRefreshers
<1>1. ASSUME Call(p) PROVE StillRefreshers
  BY <1>1 DEF Call, At, Section
<1>2. ASSUME NEW res, Returned(p, res) PROVE StillRefreshers
  BY <1>2 DEF Returned, Idle, Section
<1>3. ASSUME NEW pc, Go(p, pc), pc \notin Section, r[p].pc \notin {"apply", "applyLive"}
      PROVE  StillRefreshers
  BY <1>3 DEF Go
<1>4. UNCHANGED r => StillRefreshers
  OBVIOUS
<1> QED
  BY <1>1, <1>2, <1>3, <1>4

\* The steps that move no publication.
LEMMA StillSteps ==
    ASSUME TypeOK, Exclusive,
           \/ RunTop \/ Subscribed \/ SubscribeFails \/ BackoffEnds \/ ReadPanics
           \/ DrainCancelled \/ DrainSubDone \/ ReconnectRefreshed \/ LiveEnds
           \/ Start \/ StartConnected \/ StartRefreshed \/ StartFails
           \/ SendRefreshDone \/ GapTop \/ GapRefreshed
           \/ ServerAccepts \/ SubEnds \/ ClientClose \/ CancelContext
           \/ UserStop \/ UserRequest
           \/ (\E p \in Users : UserRefresh(p) \/ UserReturns(p))
           \/ UNCHANGED vars
    PROVE  Still
<1>0. "start" \in Refreshers /\ "reconnect" \in Refreshers /\ "gap" \in Refreshers
      /\ Users \subseteq Refreshers
  BY DEF Refreshers
<1>a. sub' = NoSub => sub'.queue = <<>>
  BY DEF NoSub
<1> USE <1>0, <1>a, StillSections, StillCalls DEF hist, Still
<1>1. CASE RunTop \/ BackoffEnds \/ DrainSubDone \/ DrainCancelled
  BY <1>1 DEF RunTop, BackoffEnds, DrainSubDone, DrainCancelled, TypeOK, WorkerOK
<1>2. CASE Subscribed
  BY <1>2 DEF Subscribed, TypeOK, WorkerOK
<1>3. CASE SubscribeFails \/ ReadPanics
  BY <1>3 DEF SubscribeFails, ReadPanics, TypeOK, WorkerOK
<1>4. CASE ReconnectRefreshed
  BY <1>4 DEF ReconnectRefreshed, TypeOK, WorkerOK
<1>5. CASE LiveEnds
  <2>1. sub.err \in {"none", "transient", "terminal"}
    BY DEF SubOK, TypeOK
  <2>2. s' \in {FailClosed, SetErr, s}
    BY <1>5, <2>1 DEF LiveEnds
  <2> QED
    BY <1>5, <2>2 DEF LiveEnds, TypeOK, WorkerOK
<1>6. CASE Start
  BY <1>6 DEF Start, StillCoord, TypeOK, WorkerOK, CoordOK, Coordinator
<1>7. CASE StartConnected \/ StartRefreshed \/ StartFails
  BY <1>7 DEF StartConnected, StartRefreshed, StartFails
<1>8. CASE SendRefreshDone
  BY <1>8 DEF SendRefreshDone
<1>9. CASE GapTop
  <2>1. StillCoord
    BY <1>9 DEF GapTop, StillCoord, TypeOK, CoordOK, Coordinator
  <2> QED
    BY <1>9, <2>1 DEF GapTop
<1>10. CASE GapRefreshed
  <2>1. StillCoord
    <3> DEFINE f == FailClosed
    <3>1. f \in Coordinator /\ f.pending \in {s.pending, <<>>} /\ (f.ready => s.ready)
      BY FailClosedType DEF FailClosed, Stop, TypeOK, CoordOK, Coordinator
    <3> HIDE DEF f
    <3>2. s' \in {[s EXCEPT !.gap = AfterGapRefresh], [f EXCEPT !.gap = "dead"]}
      BY <1>10 DEF GapRefreshed, f
    <3> QED
      BY <3>1, <3>2 DEF StillCoord, TypeOK, CoordOK, Coordinator
  <2> QED
    BY <1>10, <2>1 DEF GapRefreshed
<1>11. CASE ServerAccepts \/ SubEnds \/ ClientClose
  BY <1>11 DEF ServerAccepts, SubEnds, ClientClose, TypeOK, EnvOK, SubOK
<1>12. CASE CancelContext
  BY <1>12 DEF CancelContext, StillCoord, TypeOK, EnvOK, CoordOK, Coordinator
<1>13. CASE UserStop \/ UserRequest
  BY <1>13 DEF UserStop, UserRequest
<1>14. ASSUME NEW p \in Users, UserRefresh(p) \/ UserReturns(p)
       PROVE  Still
  BY <1>14 DEF UserRefresh, UserReturns
<1>15. CASE UNCHANGED vars
  BY <1>15 DEF vars
<1> QED
  BY <1>1, <1>2, <1>3, <1>4, <1>5, <1>6, <1>7, <1>8, <1>9, <1>10, <1>11, <1>12, <1>13,
     <1>14, <1>15

LEMMA Places ==
    ASSUME TypeOK
    PROVE  /\ delivered \in Seq(Nat) /\ s.pending \in Seq(Nat) /\ sub.queue \in Seq(Nat)
           /\ \A p \in Refreshers : r[p].buf \in Seq(Nat)
           /\ w.hand \in Nat /\ env.published \in Nat
<1>1. ASSUME NEW a \in Seq(Pubs) PROVE a \in Seq(Nat)
  <2>1. Len(a) \in Nat /\ a \in [1..Len(a) -> Pubs]
    OBVIOUS
  <2>2. a \in [1..Len(a) -> Nat]
    BY <2>1 DEF Pubs
  <2> QED
    BY <2>1, <2>2
<1>a. delivered \in Seq(Pubs)
  BY DEF TypeOK, HistOK
<1>b. s.pending \in Seq(Pubs)
  BY DEF TypeOK, CoordOK, Coordinator
<1>c. sub.queue \in Seq(Pubs)
  BY DEF TypeOK, SubOK
<1>2. delivered \in Seq(Nat) /\ s.pending \in Seq(Nat) /\ sub.queue \in Seq(Nat)
  BY <1>1, <1>a, <1>b, <1>c
<1>3. \A p \in Refreshers : r[p].buf \in Seq(Nat)
  BY <1>1 DEF TypeOK, RefreshersOK, Refresher
<1>4. w.hand \in Nat /\ env.published \in Nat
  BY Assumptions DEF TypeOK, EnvOK, WorkerOK
<1> QED
  BY <1>2, <1>3, <1>4

\* The steps of RefreshSnapshot.
LEMMA OrderedRefresh ==
    ASSUME TypeOK, Exclusive, Ordered, NEW p \in Refreshers, Refresh(p)
    PROVE  Exclusive' /\ Ordered'
<1> USE Places DEF hist
<1>1. CASE RefreshLock(p)
  <2>1. CASE s.disposed
    BY <1>1, <2>1, StillCalls, StillSections, StillPreserves
    DEF RefreshLock, Section, At, Still
  <2>2. CASE ~s.disposed
    <3>a. s'.pending = s.pending /\ ~s'.ready
      BY <1>1, <2>2 DEF RefreshLock, TypeOK, CoordOK, Coordinator
    <3>b. r' = [r EXCEPT ![p].pc = "fetch", ![p].gen = s.generation + 1]
      BY <1>1, <2>2 DEF RefreshLock
    <3>c. r[p].pc = "lock" /\ \A q \in Refreshers : r[q].pc \notin Section
      BY <1>1 DEF RefreshLock, At
    <3>d. /\ r'[p].buf = r[p].buf /\ r'[p].pc = "fetch"
          /\ \A q \in Refreshers \ {p} : r'[q] = r[q]
      BY <3>b DEF TypeOK, RefreshersOK, Refresher
    <3>1. /\ s'.pending = s.pending /\ ~s'.ready
          /\ r'[p].buf = r[p].buf /\ r[p].pc = "lock" /\ r'[p].pc = "fetch"
          /\ \A q \in Refreshers \ {p} : r'[q] = r[q]
          /\ \A q \in Refreshers : r[q].pc \notin Section
      BY <3>a, <3>c, <3>d
    <3>2. Exclusive'
      <4>1. \A q \in Refreshers : r'[q].pc \in Section => q = p
        BY <3>1
      <4>2. \A q \in Refreshers : r'[q].buf = <<>>
        BY <3>1 DEF Exclusive, Section
      <4>3. w'.live = w.live
        BY <1>1 DEF RefreshLock
      <4> QED
        BY <3>1, <4>1, <4>2, <4>3 DEF Exclusive
    <3>3. Ordered'
      BY <1>1, <3>1, Shrink DEF RefreshLock
    <3> QED
      BY <3>2, <3>3
  <2> QED
    BY <2>1, <2>2
<1>2. CASE FetchFails(p)
  <2>1. Still
    BY <1>2, StillCalls, StillSections DEF FetchFails, Section, At, Still
  <2> QED
    BY <2>1, StillPreserves
<1>3. CASE FetchReturns(p) \/ Retry(p)
  <2>1. StillRefreshers
    <3> USE DEF At, StillRefreshers, Section, Exclusive, TypeOK, RefreshersOK, Refresher
    <3>1. CASE FetchReturns(p)
      BY <3>1 DEF FetchReturns
    <3>2. CASE Retry(p)
      <4>1. \/ r' = [r EXCEPT ![p].tries = 2, ![p].pc = "lock"]
            \/ r' = [r EXCEPT ![p].tries = 2]
        BY <3>2 DEF Retry
      <4>2. /\ r'[p].buf = r[p].buf /\ r[p].pc = "err" /\ r'[p].pc \in {"lock", "err"}
            /\ \A q \in Refreshers \ {p} : r'[q] = r[q]
        BY <3>2, <4>1 DEF Retry
      <4> QED
        BY <4>2
    <3> QED
      BY <1>3, <3>1, <3>2
  <2>2. Still
    BY <1>3, <2>1, StillSections DEF FetchReturns, Retry, Still
  <2> QED
    BY <2>2, StillPreserves
<1>4. ASSUME NEW pc \in {"apply", "applyLive"}, TakePending(p, pc),
             r[p].pc \in {"fetched", "drain"}, UNCHANGED <<env, sub, w, hist>>
      PROVE  Exclusive' /\ Ordered'
  <2>1. /\ s'.pending = <<>> /\ s'.ready = s.ready
        /\ r'[p].buf = s.pending /\ r'[p].pc = pc
        /\ \A q \in Refreshers \ {p} : r'[q] = r[q]
    BY <1>4 DEF TakePending, TypeOK, CoordOK, Coordinator, RefreshersOK, Refresher
  <2>2. ~s.ready /\ \A q \in Refreshers \ {p} : r[q].pc \notin Section /\ r[q].buf = <<>>
    BY <1>4 DEF Exclusive, Section
  <2>3. Exclusive'
    BY <1>4, <2>1, <2>2 DEF Exclusive, Section
  <2>4. Ordered'
    BY <1>4, <2>1, <2>2, EmptySeq DEF Ordered
  <2> QED
    BY <2>3, <2>4
<1>5. CASE MergePending(p)
  <2>1. CASE Current(p)
    BY <1>4, <1>5, <2>1 DEF MergePending, At
  <2>2. CASE ~Current(p)
    BY <1>5, <2>2, StillCalls, StillSections, StillPreserves
    DEF MergePending, Section, At, Still
  <2> QED
    BY <2>1, <2>2
<1>6. CASE DrainPending(p)
  <2>1. CASE ~Current(p)
    BY <1>6, <2>1, StillCalls, StillSections, StillPreserves
    DEF DrainPending, Section, At, Still
  <2>2. CASE Current(p) /\ ~Drained
    BY <1>4, <1>6, <2>2 DEF DrainPending, At
  <2>3. CASE Current(p) /\ Drained
    <3>a. s'.pending = <<>> /\ s.pending = <<>>
      BY <1>6, <2>3 DEF DrainPending, Drained, TypeOK, CoordOK, Coordinator
    <3>b. r' = [r EXCEPT ![p].pc = "nil"] /\ r[p].pc = "drain"
      BY <1>6, <2>3 DEF DrainPending, At, Go
    <3>1. /\ s'.pending = <<>> /\ s.pending = <<>>
          /\ r'[p].buf = r[p].buf /\ r[p].pc = "drain" /\ r'[p].pc = "nil"
          /\ \A q \in Refreshers \ {p} : r'[q] = r[q]
      BY <3>a, <3>b DEF TypeOK, RefreshersOK, Refresher
    <3>2. \A q \in Refreshers : r'[q].pc \notin Section /\ r'[q].buf = <<>>
      BY <3>1 DEF Exclusive, Section
    <3>3. Exclusive'
      BY <1>6, <3>1, <3>2 DEF DrainPending, Exclusive, Section
    <3>4. Ordered'
      BY <1>6, <3>1, Shrink DEF DrainPending
    <3> QED
      BY <3>3, <3>4
  <2> QED
    BY <2>1, <2>2, <2>3
<1>7. ASSUME NEW o \in Outcomes, r[p].pc \in {"apply", "applyLive"}, Deliver(p, o)
      PROVE  Exclusive' /\ Ordered'
  <2>1. /\ r'[p].buf = <<>> /\ r'[p].pc \in {"err", "drain"}
        /\ \A q \in Refreshers \ {p} : r'[q] = r[q]
        /\ delivered' = delivered \o r[p].buf
        /\ StillCoord /\ env'.published = env.published /\ UNCHANGED <<sub, w>>
    BY <1>7, StillSections DEF Deliver, TypeOK, RefreshersOK, Refresher
  <2>2. ~s.ready /\ \A q \in Refreshers \ {p} : r[q].pc \notin Section /\ r[q].buf = <<>>
    BY <1>7 DEF Exclusive, Section
  <2>3. Exclusive'
    BY <1>7, <2>1, <2>2 DEF Exclusive, Section, StillCoord
  <2>4. /\ Ascending(delivered') /\ Below(delivered', s.pending) /\ Below(delivered', sub.queue)
        /\ Under(delivered', env.published + 1)
        /\ w.hand # 0 => Under(delivered', w.hand)
    BY <2>1, ConcatSeq DEF Ordered
  <2>5. Ordered'
    BY <2>1, <2>2, <2>4, EmptySeq DEF Ordered, StillCoord
  <2> QED
    BY <2>3, <2>5
<1>8. ASSUME NEW o \in Outcomes, ApplySnapshot(p, o) \/ ApplyBuffered(p, o)
      PROVE  Exclusive' /\ Ordered'
  BY <1>7, <1>8 DEF ApplySnapshot, ApplyBuffered, At
<1> QED
  BY <1>1, <1>2, <1>3, <1>5, <1>6, <1>8 DEF Refresh

\* The worker's steps that move a publication, and the server's.
LEMMA OrderedReceive ==
    ASSUME TypeOK, Exclusive, Ordered, Receive
    PROVE  Exclusive' /\ Ordered'
<1> USE Places DEF hist
<1>1. /\ sub'.queue = Tail(sub.queue) /\ sub.queue # <<>>
      /\ w'.hand \in {0, Head(sub.queue)} /\ w'.live = w.live
      /\ UNCHANGED <<env, s, r, delivered>> /\ Head(sub.queue) \in Nat
  BY DEF Receive, TypeOK, SubOK, WorkerOK
<1>2. Exclusive'
  BY <1>1 DEF Exclusive
<1>3. /\ Ascending(Tail(sub.queue)) /\ Over(Head(sub.queue), Tail(sub.queue))
      /\ Under(delivered, Head(sub.queue)) /\ Below(delivered, Tail(sub.queue))
      /\ Under(s.pending, Head(sub.queue)) /\ Below(s.pending, Tail(sub.queue))
      /\ Under(Tail(sub.queue), env.published + 1) /\ Head(sub.queue) < env.published + 1
      /\ \A p \in Refreshers : Under(r[p].buf, Head(sub.queue)) /\ Below(r[p].buf, Tail(sub.queue))
  BY <1>1, TailSeq DEF Ordered
<1>4. w'.hand <= env.published
  BY <1>1, <1>3
<1>5. Ordered'
  BY <1>1, <1>3, <1>4 DEF Ordered
<1> QED
  BY <1>2, <1>5

LEMMA OrderedHandle ==
    ASSUME TypeOK, Exclusive, Ordered, HandlePublication
    PROVE  Exclusive' /\ Ordered'
<1> USE Places DEF hist
<1>1. CASE s.disposed \/ w.hand \in Silent
  <2>1. Still
    BY <1>1, StillCalls, StillSections
    DEF HandlePublication, Still, StillRefreshers, TypeOK, WorkerOK
  <2> QED
    BY <2>1, StillPreserves
<1>2. CASE ~(s.disposed \/ w.hand \in Silent) /\ s.ready
  <2>1. /\ w'.hand = w.hand /\ UNCHANGED <<env, sub, s, r, delivered>>
    BY <1>2 DEF HandlePublication, TypeOK, WorkerOK
  <2>2. \A p \in Refreshers : r[p].buf = <<>>
    BY <1>2 DEF Exclusive, Section
  <2> QED
    BY <1>2, <2>1, <2>2 DEF Exclusive, Ordered
<1>3. CASE ~(s.disposed \/ w.hand \in Silent) /\ ~s.ready /\ PendingFull
  <2>1. Still
    BY <1>3, StillSections DEF HandlePublication, Still, StillRefreshers, TypeOK, WorkerOK
  <2> QED
    BY <2>1, StillPreserves
<1>4. CASE ~(s.disposed \/ w.hand \in Silent) /\ ~s.ready /\ ~PendingFull
  <2>1. /\ w.hand # 0 /\ ~w.live /\ w'.hand = 0 /\ w'.live = w.live
        /\ UNCHANGED <<env, sub, r, delivered>>
    BY <1>4 DEF HandlePublication, TypeOK, WorkerOK
  <2>2. s'.pending = Append(s.pending, w.hand) /\ s'.ready = s.ready
    BY <1>4 DEF HandlePublication, TypeOK, CoordOK, Coordinator
  <2>3. Exclusive'
    BY <1>4, <2>1, <2>2 DEF Exclusive
  <2>4. /\ Ascending(s'.pending) /\ Below(delivered, s'.pending) /\ Below(s'.pending, sub.queue)
        /\ Under(s'.pending, env.published + 1)
        /\ \A p \in Refreshers : Below(r[p].buf, s'.pending)
    BY <2>1, <2>2, AppendSeq DEF Ordered
  <2>5. Ordered'
    BY <2>1, <2>2, <2>4 DEF Ordered
  <2> QED
    BY <2>3, <2>5
<1> QED
  BY <1>1, <1>2, <1>3, <1>4

LEMMA OrderedApplyLive ==
    ASSUME TypeOK, Exclusive, Ordered, NEW o \in Outcomes, ApplyLive(o)
    PROVE  Exclusive' /\ Ordered'
<1> USE Places DEF hist
<1>1. /\ w.hand # 0 /\ w.live /\ w'.hand = 0 /\ ~w'.live
      /\ delivered' = Append(delivered, w.hand)
      /\ UNCHANGED <<sub, r>> /\ StillCoord /\ env'.published = env.published
  BY StillSections DEF ApplyLive, TypeOK, WorkerOK
<1>2. s.pending = <<>> /\ s'.pending = <<>> /\ \A p \in Refreshers : r[p].buf = <<>>
  BY <1>1 DEF Exclusive, StillCoord
<1>3. Exclusive'
  BY <1>1, <1>2 DEF Exclusive, StillCoord
<1>4. /\ Ascending(delivered') /\ Below(delivered', sub.queue)
      /\ Under(delivered', env.published + 1)
  BY <1>1, AppendSeq DEF Ordered
<1>5. Ordered'
  BY <1>1, <1>2, <1>4, EmptySeq DEF Ordered
<1> QED
  BY <1>3, <1>5

LEMMA OrderedPublish ==
    ASSUME TypeOK, Exclusive, Ordered, Publish
    PROVE  Exclusive' /\ Ordered'
<1> USE Places DEF hist
<1>1. /\ env'.published = env.published + 1 /\ UNCHANGED <<w, s, r, delivered>>
      /\ sub'.queue \in {sub.queue, Append(sub.queue, env.published + 1)}
  BY DEF Publish, Enqueue, TypeOK, EnvOK, SubOK
<1>2. Exclusive'
  BY <1>1 DEF Exclusive
<1>3. \A a \in Seq(Nat) : Under(a, env.published + 1) => Under(a, env.published + 2)
  BY DEF Under
<1>4. /\ Ascending(sub'.queue) /\ Below(delivered, sub'.queue) /\ Below(s.pending, sub'.queue)
      /\ Under(sub'.queue, env.published + 2)
      /\ \A p \in Refreshers : Below(r[p].buf, sub'.queue)
      /\ w.hand # 0 => Over(w.hand, sub'.queue)
  <2>1. CASE sub'.queue = sub.queue
    BY <1>3, <2>1 DEF Ordered
  <2>2. CASE sub'.queue = Append(sub.queue, env.published + 1)
    <3>1. w.hand # 0 => Over(w.hand, sub.queue) /\ w.hand < env.published + 1
      BY DEF Ordered
    <3>2. Under(sub.queue, env.published + 2) /\ env.published + 1 < env.published + 2
      BY <1>3 DEF Ordered
    <3> QED
      BY <2>2, <3>1, <3>2, AppendSeq DEF Ordered
  <2> QED
    BY <1>1, <2>1, <2>2
<1>a. env'.published + 1 = env.published + 2 /\ w.hand <= env.published + 1
  BY <1>1 DEF Ordered
<1>b. /\ Under(delivered, env.published + 2) /\ Under(s.pending, env.published + 2)
      /\ \A p \in Refreshers : Under(r[p].buf, env.published + 2)
  BY <1>3 DEF Ordered
<1>5. Ordered'
  BY <1>1, <1>a, <1>b, <1>4 DEF Ordered
<1> QED
  BY <1>2, <1>5

LEMMA OrderedNext ==
    ASSUME TypeOK, Exclusive, Ordered, [Next]_vars
    PROVE  Exclusive' /\ Ordered'
<1>1. CASE Receive
  BY <1>1, OrderedReceive
<1>2. CASE HandlePublication
  BY <1>2, OrderedHandle
<1>3. ASSUME NEW o \in Outcomes, ApplyLive(o) PROVE Exclusive' /\ Ordered'
  BY <1>3, OrderedApplyLive
<1>4. ASSUME NEW p \in Refreshers, Refresh(p) PROVE Exclusive' /\ Ordered'
  BY <1>4, OrderedRefresh
<1>5. CASE Publish
  BY <1>5, OrderedPublish
<1>6. CASE /\ ~Receive /\ ~HandlePublication /\ ~Publish
           /\ ~\E o \in Outcomes : ApplyLive(o)
           /\ ~\E p \in Refreshers : Refresh(p)
  BY <1>6, StillSteps, StillPreserves DEF Next, Worker, Rest
<1> QED
  BY <1>1, <1>2, <1>3, <1>4, <1>5, <1>6

\* RefreshSnapshot and handlePublication hand every publication to the apply
\* callbacks at most once and in the order the server sent them, for any
\* buffer sizes, any number of concurrent RefreshSnapshot callers, reconnects
\* and failed refreshes.
THEOREM DeliveryOrder == Spec => []MergedOnceInOrder
<1> DEFINE Inv == TypeOK /\ Exclusive /\ Ordered
<1>1. Init => Inv
  <2> SUFFICES ASSUME Init PROVE Inv
    OBVIOUS
  <2>1. Exclusive
    BY DEF Init, Exclusive, Idle, Section
  <2>2. Ordered
    BY EmptySeq DEF Init, Ordered, Idle, NoSub
  <2> QED
    BY <2>1, <2>2, TypeInit
<1>2. Inv /\ [Next]_vars => Inv'
  BY TypeNext, OrderedNext
<1>3. Inv => MergedOnceInOrder
  BY DEF Ordered, Ascending, MergedOnceInOrder
<1> QED
  BY <1>1, <1>2, <1>3, PTL DEF Spec

-----------------------------------------------------------------------------
(* Disposal.  The inductive invariant is that a disposed coordinator has   *)
(* nothing pending; a step that disposes it empties pending, and one that  *)
(* fills pending or marks the stream ready looks at disposed first.        *)

Emptied == s.disposed => s.pending = <<>>

Settles ==
    /\ s.disposed => s'.disposed /\ s'.pending = <<>> /\ (s'.ready => s.ready)
    /\ Emptied'

\* The critical sections that may be entered without looking at disposed.
LEMMA SectionsSettle ==
    ASSUME TypeOK, Emptied
    PROVE  /\ s' \in {s, SetErr, Stop, FailClosed} => Settles
           /\ ~s.disposed /\ s' = Requested => Settles
           /\ \A o : Callback(o) => Settles
<1> USE DEF TypeOK, CoordOK, Coordinator, Emptied, Settles
<1>1. s' \in {s, SetErr, Stop, FailClosed} => Settles
  BY DEF SetErr, Stop, FailClosed
<1>2. ~s.disposed /\ s' = Requested => Settles
  BY DEF Requested
<1> QED
  BY <1>1, <1>2 DEF Callback

LEMMA RefreshSettles ==
    ASSUME TypeOK, Emptied, NEW p \in Refreshers, Refresh(p)
    PROVE  Settles
<1> USE SectionsSettle
<1>1. CASE RefreshLock(p)
  BY <1>1 DEF RefreshLock, TypeOK, CoordOK, Coordinator, Emptied, Settles
<1>2. CASE FetchFails(p) \/ FetchReturns(p) \/ Retry(p)
  BY <1>2 DEF FetchFails, FetchReturns, Retry
<1>3. ASSUME NEW pc, ~s.disposed, TakePending(p, pc) PROVE Settles
  BY <1>3 DEF TakePending, TypeOK, CoordOK, Coordinator, Emptied, Settles
<1>4. CASE MergePending(p)
  BY <1>3, <1>4 DEF MergePending, Current
<1>5. ASSUME NEW o \in Outcomes, ApplySnapshot(p, o) \/ ApplyBuffered(p, o)
      PROVE  Settles
  BY <1>5 DEF ApplySnapshot, ApplyBuffered, Deliver
<1>6. CASE DrainPending(p)
  <2>1. CASE Current(p) /\ s' = [s EXCEPT !.ready = TRUE, !.lastErr = FALSE]
    BY <2>1 DEF Current, TypeOK, CoordOK, Coordinator, Emptied, Settles
  <2> QED
    BY <1>3, <1>6, <2>1 DEF DrainPending, Current
<1> QED
  BY <1>1, <1>2, <1>4, <1>5, <1>6 DEF Refresh

LEMMA WorkerSettles ==
    ASSUME TypeOK, Emptied, Worker
    PROVE  Settles
<1> USE SectionsSettle
<1>1. CASE \/ RunTop \/ Subscribed \/ SubscribeFails \/ BackoffEnds \/ Receive \/ ReadPanics
           \/ DrainCancelled \/ DrainSubDone \/ ReconnectRefreshed
  BY <1>1 DEF RunTop, Subscribed, SubscribeFails, BackoffEnds, Receive, ReadPanics,
     DrainCancelled, DrainSubDone, ReconnectRefreshed
<1>2. CASE HandlePublication
  <2>1. CASE ~s.disposed /\ s' = [s EXCEPT !.pending = Append(@, w.hand)]
    BY <2>1 DEF TypeOK, CoordOK, Coordinator, Emptied, Settles
  <2> QED
    BY <1>2, <2>1 DEF HandlePublication
<1>3. ASSUME NEW o \in Outcomes, ApplyLive(o) PROVE Settles
  BY <1>3 DEF ApplyLive
<1>4. CASE LiveEnds
  <2>1. sub.err \in {"none", "transient", "terminal"}
    BY DEF SubOK, TypeOK
  <2> QED
    BY <1>4, <2>1 DEF LiveEnds
<1> QED
  BY <1>1, <1>2, <1>3, <1>4 DEF Worker

LEMMA StepSettles ==
    ASSUME TypeOK, Emptied, [Next]_vars
    PROVE  Settles
<1> USE SectionsSettle
<1>1. CASE Start \/ CancelContext
  BY <1>1 DEF Start, CancelContext, TypeOK, CoordOK, Coordinator, Emptied, Settles
<1>2. CASE StartConnected \/ StartRefreshed \/ StartFails \/ SendRefreshDone
  BY <1>2 DEF StartConnected, StartRefreshed, StartFails, SendRefreshDone
<1>3. CASE GapTop
  BY <1>3 DEF GapTop, TypeOK, CoordOK, Coordinator, Emptied, Settles
<1>4. CASE GapRefreshed
  <2> DEFINE f == FailClosed
  <2>1. f \in Coordinator /\ f.disposed /\ f.pending = <<>> /\ (f.ready => s.ready)
    BY FailClosedType DEF FailClosed, Stop, TypeOK, CoordOK, Coordinator, Emptied
  <2> HIDE DEF f
  <2>2. s' \in {[s EXCEPT !.gap = AfterGapRefresh], [f EXCEPT !.gap = "dead"]}
    BY <1>4 DEF GapRefreshed, f
  <2> QED
    BY <2>1, <2>2 DEF TypeOK, CoordOK, Coordinator, Emptied, Settles
<1>5. CASE ServerAccepts \/ Publish \/ SubEnds \/ ClientClose \/ UserStop \/ UserRequest
  BY <1>5 DEF ServerAccepts, Publish, SubEnds, ClientClose, UserStop, UserRequest
<1>6. CASE (\E p \in Users : UserRefresh(p) \/ UserReturns(p)) \/ Rest \/ UNCHANGED vars
  BY <1>6 DEF UserRefresh, UserReturns, Rest, vars
<1> QED
  BY <1>1, <1>2, <1>3, <1>4, <1>5, <1>6, RefreshSettles, WorkerSettles DEF Next

\* Once Stop or failClosed has disposed the stream, no refresh in flight, no
\* publication and no callback makes it ready or buffers anything again.
THEOREM DisposedStays == Spec => DisposedIsFinal
<1>1. Init => Emptied
  BY DEF Init, Emptied
<1>2. TypeOK /\ Emptied /\ [Next]_vars => Emptied'
  BY StepSettles DEF Settles
<1>3. TypeOK /\ Emptied /\ [Next]_vars =>
        [s.disposed => s'.disposed /\ s'.pending = <<>> /\ (s'.ready => s.ready)]_vars
  BY StepSettles DEF Settles
<1> QED
  BY <1>1, <1>2, <1>3, TypeCorrect, PTL DEF Spec, DisposedIsFinal

-----------------------------------------------------------------------------
(* Nothing lost.  The inductive invariant, Kept, says the same of every     *)
(* moment between the fetch of a refresh and the next one: what the server  *)
(* has sent is in one of the places of Has.  It is claimed of an open       *)
(* subscription unless the refresh its reconnect owes is still due.  The    *)
(* rest says why a snapshot may replace the consumer's state (Seen), that   *)
(* a refresh in flight is the latest (Latest), and how the first connection *)
(* and the reconnect are ordered with the refreshes.                        *)

Fetching == {"fetched", "apply"}

Has(k) ==
    \/ k \in view \/ k \in Range(sub.queue) \/ k = w.hand
    \/ k \in Silent \/ k \in Range(s.pending)
    \/ \E p \in Refreshers :
         k \in Range(r[p].buf) \/ (r[p].pc \in Fetching /\ k <= r[p].snap)

Fetched == s.ready \/ \E p \in Refreshers : r[p].pc \in Section \ {"fetch"}

Due == r["reconnect"].pc \in {"lock", "err"} \/ refreshDone = "err"

Claimed ==
    sub.st = "open" /\ w.pc \in {"drain", "live"} /\ Fetched /\ ~Due

Kept == Claimed => \A k \in 1..env.published : Has(k)

Early ==
    w.connected = "none" =>
        /\ spc \notin {"refreshing", "ok"}
        /\ ~s.ready /\ ~w.live /\ s.gap = "off"
        /\ \A p \in Refreshers : r[p].pc = "off"

Reconnecting ==
    /\ w.pc \notin {"drain", "await", "done"} =>
         r["reconnect"].pc = "off" /\ refreshDone = "none"
    /\ refreshDone # "none" => r["reconnect"].pc = "off"
    /\ sub.st = "open" => w.pc \in {"subscribing", "drain", "live"}
    /\ spc = "idle" => w.pc = "off"

Latest == \A p \in Refreshers : r[p].pc \in Section => r[p].gen = s.generation

Seen ==
    /\ \A k \in view : k <= env.published
    /\ w.live => w.hand # 0
    /\ \A p \in Refreshers : r[p].pc \in Fetching =>
         /\ r[p].snap <= env.published
         /\ \A k \in view : k <= r[p].snap
         /\ w.live => w.hand <= r[p].snap

Accounted == ~s.disposed => Latest /\ Seen /\ Kept

\* What the steps outside RefreshSnapshot do to the refreshers and to s.
Outer ==
    \A p \in Refreshers :
        r'[p] = r[p] \/ (r[p].pc \notin Section /\ r'[p].pc \notin Section)

Steady ==
    /\ s'.ready => s.ready
    /\ s'.disposed \/ (s'.generation = s.generation /\ s'.pending = s.pending)

LEMMA OuterCalls ==
    ASSUME TypeOK, NEW p \in Refreshers
    PROVE  /\ UNCHANGED r => Outer
           /\ Call(p) => Outer
           /\ \A res \in {"nil", "err"} : Returned(p, res) => Outer
<1> USE DEF TypeOK, RefreshersOK, Refresher, Outer, At, Section
<1>1. ASSUME Call(p) PROVE Outer
  BY <1>1 DEF Call
<1>2. ASSUME NEW res \in {"nil", "err"}, Returned(p, res) PROVE Outer
  BY <1>2 DEF Returned, Idle
<1> QED
  BY <1>1, <1>2

LEMMA SteadySections ==
    ASSUME TypeOK
    PROVE  /\ s' \in {s, SetErr, Stop, FailClosed, Requested} => Steady
           /\ \A o : Callback(o) => Steady
<1>1. s' \in {s, SetErr, Stop, FailClosed, Requested} => Steady
  BY DEF Steady, SetErr, Stop, FailClosed, Requested, TypeOK, CoordOK, Coordinator
<1> QED
  BY <1>1 DEF Callback

\* The steps outside RefreshSnapshot that move no publication; one that empties
\* the queue ends the subscription.
Calm ==
    /\ Outer /\ Steady
    /\ UNCHANGED view /\ env'.published = env.published
    /\ w'.hand = w.hand /\ w'.live = w.live
    /\ sub'.queue = sub.queue \/ sub'.st # "open"

LEMMA CalmSteps ==
    ASSUME TypeOK,
           \/ RunTop \/ Subscribed \/ SubscribeFails \/ BackoffEnds
           \/ DrainCancelled \/ DrainSubDone \/ ReconnectRefreshed \/ LiveEnds
           \/ Start \/ StartConnected \/ StartRefreshed \/ StartFails
           \/ SendRefreshDone \/ GapTop \/ GapRefreshed
           \/ ServerAccepts \/ SubEnds \/ ClientClose \/ CancelContext
           \/ UserStop \/ UserRequest
           \/ (\E p \in Users : UserRefresh(p) \/ UserReturns(p))
           \/ UNCHANGED vars
    PROVE  Calm
<1>0. "start" \in Refreshers /\ "reconnect" \in Refreshers /\ "gap" \in Refreshers
      /\ Users \subseteq Refreshers
  BY DEF Refreshers
<1>a. sub' = NoSub => sub'.st # "open"
  BY DEF NoSub
<1>b. Ask => env'.published = env.published
  BY DEF Ask, TypeOK, EnvOK
<1> USE <1>0, <1>a, <1>b, SteadySections, OuterCalls DEF hist, Calm
<1>1. CASE RunTop \/ BackoffEnds \/ DrainSubDone \/ DrainCancelled
  BY <1>1 DEF RunTop, BackoffEnds, DrainSubDone, DrainCancelled, TypeOK, WorkerOK
<1>2. CASE Subscribed
  BY <1>2 DEF Subscribed, TypeOK, WorkerOK
<1>3. CASE SubscribeFails
  BY <1>3 DEF SubscribeFails, TypeOK, WorkerOK
<1>4. CASE ReconnectRefreshed
  BY <1>4 DEF ReconnectRefreshed, TypeOK, WorkerOK
<1>5. CASE LiveEnds
  <2>1. sub.err \in {"none", "transient", "terminal"}
    BY DEF SubOK, TypeOK
  <2>2. s' \in {FailClosed, SetErr, s}
    BY <1>5, <2>1 DEF LiveEnds
  <2> QED
    BY <1>5, <2>2 DEF LiveEnds, TypeOK, WorkerOK
<1>6. CASE Start
  BY <1>6 DEF Start, Steady, TypeOK, WorkerOK, CoordOK, Coordinator
<1>7. CASE StartConnected \/ StartRefreshed \/ StartFails
  BY <1>7 DEF StartConnected, StartRefreshed, StartFails
<1>8. CASE SendRefreshDone
  BY <1>8 DEF SendRefreshDone
<1>9. CASE GapTop
  <2>1. Steady
    BY <1>9 DEF GapTop, Steady, TypeOK, CoordOK, Coordinator
  <2> QED
    BY <1>9, <2>1 DEF GapTop
<1>10. CASE GapRefreshed
  <2>1. Steady
    <3> DEFINE f == FailClosed
    <3>1. f \in Coordinator /\ f.disposed /\ (f.ready => s.ready)
      BY FailClosedType DEF FailClosed, Stop, TypeOK, CoordOK, Coordinator
    <3> HIDE DEF f
    <3>2. s' \in {[s EXCEPT !.gap = AfterGapRefresh], [f EXCEPT !.gap = "dead"]}
      BY <1>10 DEF GapRefreshed, f
    <3> QED
      BY <3>1, <3>2 DEF Steady, TypeOK, CoordOK, Coordinator
  <2> QED
    BY <1>10, <2>1 DEF GapRefreshed
<1>11. CASE ServerAccepts \/ SubEnds \/ ClientClose
  BY <1>11 DEF ServerAccepts, SubEnds, ClientClose, TypeOK, EnvOK, SubOK
<1>12. CASE CancelContext
  BY <1>12 DEF CancelContext, Steady, TypeOK, EnvOK, CoordOK, Coordinator
<1>13. CASE UserStop \/ UserRequest
  BY <1>13 DEF UserStop, UserRequest
<1>14. ASSUME NEW p \in Users, UserRefresh(p) \/ UserReturns(p)
       PROVE  Calm
  BY <1>14 DEF UserRefresh, UserReturns
<1>15. CASE UNCHANGED vars
  BY <1>15 DEF vars
<1> QED
  BY <1>1, <1>2, <1>3, <1>4, <1>5, <1>6, <1>7, <1>8, <1>9, <1>10, <1>11, <1>12, <1>13,
     <1>14, <1>15

\* A refresher that is off is left off by everybody's RefreshSnapshot.
LEMMA OffStaysOff ==
    ASSUME TypeOK, NEW p \in Refreshers, Refresh(p)
    PROVE  /\ r[p].pc # "off"
           /\ \A q \in Refreshers : q # p => r'[q] = r[q]
           /\ UNCHANGED <<sub, w, spc, refreshDone>>
           /\ r'[p].pc \notin {"off"}
           /\ env'.published = env.published
<1> USE DEF At, Go, TypeOK, RefreshersOK, Refresher
<1>b. Ask => env'.published = env.published
  BY DEF Ask, TypeOK, EnvOK
<1>c. \A o : Callback(o) => env'.published = env.published
  BY <1>b DEF Callback
<1>1. CASE RefreshLock(p)
  BY <1>1 DEF RefreshLock
<1>2. CASE FetchFails(p) \/ FetchReturns(p)
  BY <1>2 DEF FetchFails, FetchReturns
<1>3. CASE MergePending(p) \/ DrainPending(p)
  BY <1>3 DEF MergePending, DrainPending, TakePending
<1>4. ASSUME NEW o \in Outcomes, ApplySnapshot(p, o) \/ ApplyBuffered(p, o)
      PROVE  /\ r[p].pc # "off" /\ r'[p].pc \in {"err", "drain"}
             /\ \A q \in Refreshers : q # p => r'[q] = r[q]
             /\ UNCHANGED <<sub, w, spc, refreshDone>>
             /\ env'.published = env.published
  BY <1>c, <1>4 DEF ApplySnapshot, ApplyBuffered, Deliver
<1>5. CASE Retry(p)
  <2>1. \/ r' = [r EXCEPT ![p].tries = 2, ![p].pc = "lock"]
        \/ r' = [r EXCEPT ![p].tries = 2]
    BY <1>5 DEF Retry
  <2> QED
    BY <1>5, <2>1 DEF Retry
<1> QED
  BY <1>1, <1>2, <1>3, <1>4, <1>5 DEF Refresh

LEMMA EarlyNext ==
    ASSUME TypeOK, Early, [Next]_vars
    PROVE  Early'
<1> SUFFICES ASSUME w'.connected = "none"
             PROVE  /\ spc' \notin {"refreshing", "ok"}
                    /\ ~s'.ready /\ ~w'.live /\ s'.gap = "off"
                    /\ \A p \in Refreshers : r'[p].pc = "off"
  BY DEF Early
<1>0. "start" \in Refreshers /\ "reconnect" \in Refreshers /\ "gap" \in Refreshers
      /\ Users \subseteq Refreshers
  BY DEF Refreshers
<1> USE <1>0 DEF TypeOK, WorkerOK, CoordOK, Coordinator, StartOK
<1>1. ASSUME w.connected # "none" PROVE w'.connected # "none"
  <2>1. CASE Worker
    <3>1. CASE SubscribeFails
      BY <1>1, <3>1 DEF SubscribeFails, Signal
    <3> QED
      BY <1>1, <2>1, <3>1 DEF Worker, RunTop, Subscribed, BackoffEnds, Receive,
         HandlePublication, ReadPanics, ApplyLive, DrainCancelled, DrainSubDone,
         ReconnectRefreshed, LiveEnds
  <2>2. CASE Start
    BY <1>1, <2>2 DEF Start
  <2>3. CASE \E p \in Refreshers : Refresh(p)
    BY <1>1, <2>3, OffStaysOff
  <2> QED
    BY <1>1, <2>1, <2>2, <2>3 DEF Next, StartConnected, StartRefreshed, StartFails,
       SendRefreshDone, GapTop, GapRefreshed, ServerAccepts, Publish, SubEnds, ClientClose,
       CancelContext, UserStop, UserRequest, UserRefresh, UserReturns, Rest, vars
<1>2. /\ spc \notin {"refreshing", "ok"} /\ w.connected = "none"
      /\ ~s.ready /\ ~w.live /\ s.gap = "off"
      /\ \A p \in Refreshers : r[p].pc = "off"
  BY <1>1 DEF Early
<1>3. s' \in {s, Stop, SetErr, FailClosed} => ~s'.ready /\ s'.gap = "off"
  BY <1>2 DEF Stop, SetErr, FailClosed
<1> USE <1>2, <1>3
<1>4. CASE Worker
  <2>1. CASE SubscribeFails
    BY <2>1 DEF SubscribeFails, Signal
  <2>2. CASE HandlePublication
    <3>1. CASE s' = [s EXCEPT !.pending = Append(@, w.hand)]
      BY <2>2, <3>1 DEF HandlePublication
    <3> QED
      BY <2>2, <3>1 DEF HandlePublication
  <2>3. CASE LiveEnds
    <3>1. sub.err \in {"none", "transient", "terminal"}
      BY DEF SubOK
    <3> QED
      BY <2>3, <3>1 DEF LiveEnds
  <2>4. CASE Subscribed
    BY <2>4 DEF Subscribed
  <2> QED
    BY <1>4, <2>1, <2>2, <2>3, <2>4 DEF Worker, RunTop, BackoffEnds, Receive, ReadPanics,
       ApplyLive, DrainCancelled, DrainSubDone, ReconnectRefreshed
<1>5. CASE Start \/ CancelContext
  BY <1>5 DEF Start, CancelContext
<1>6. CASE StartConnected \/ StartRefreshed \/ StartFails
  BY <1>6 DEF StartConnected, StartRefreshed, StartFails
<1>7. CASE SendRefreshDone \/ GapTop \/ GapRefreshed
  BY <1>7 DEF SendRefreshDone, GapTop, GapRefreshed, Returned, At
<1>8. CASE UserStop \/ UserRequest \/ ServerAccepts \/ Publish \/ SubEnds \/ ClientClose
  BY <1>8 DEF UserStop, UserRequest, ServerAccepts, Publish, SubEnds, ClientClose
<1>9. ASSUME NEW p \in Users, UserRefresh(p) \/ UserReturns(p) PROVE FALSE
  BY <1>9 DEF UserRefresh, UserReturns, Returned, At
<1>10. CASE Rest \/ UNCHANGED vars
  BY <1>10 DEF Rest, vars
<1>11. CASE \E p \in Refreshers : Refresh(p)
  BY <1>11, OffStaysOff
<1> QED
  BY <1>4, <1>5, <1>6, <1>7, <1>8, <1>9, <1>10, <1>11 DEF Next

LEMMA ReconnectingNext ==
    ASSUME TypeOK, Reconnecting, [Next]_vars
    PROVE  Reconnecting'
<1>0. "start" \in Refreshers /\ "reconnect" \in Refreshers /\ "gap" \in Refreshers
      /\ Users \subseteq Refreshers /\ "reconnect" \notin Users
  BY Assumptions DEF Refreshers
<1>a. sub' = NoSub => sub'.st # "open"
  BY DEF NoSub
<1>b. /\ Call("reconnect") => r["reconnect"].pc = "off" /\ r'["reconnect"].pc = "lock"
      /\ \A res \in {"nil", "err"} : Returned("reconnect", res) =>
           r["reconnect"].pc = res /\ r'["reconnect"].pc = "off"
      /\ \A p \in Refreshers \ {"reconnect"} : Call(p) => UNCHANGED r["reconnect"]
      /\ \A p \in Refreshers \ {"reconnect"}, res \in {"nil", "err"} :
           Returned(p, res) => UNCHANGED r["reconnect"]
  BY <1>0 DEF Call, Returned, At, Idle, TypeOK, RefreshersOK, Refresher
<1> USE <1>0, <1>a, <1>b DEF Reconnecting, TypeOK, WorkerOK, SubOK
<1>1. CASE RunTop \/ BackoffEnds
  BY <1>1 DEF RunTop, BackoffEnds
<1>2. CASE Subscribed
  BY <1>2 DEF Subscribed
<1>3. CASE SubscribeFails
  BY <1>3 DEF SubscribeFails, Signal
<1>4. CASE Receive \/ ReadPanics \/ (\E o \in Outcomes : ApplyLive(o))
  BY <1>4 DEF Receive, ReadPanics, ApplyLive
<1>5. CASE HandlePublication
  BY <1>5 DEF HandlePublication
<1>6. CASE DrainCancelled \/ DrainSubDone \/ ReconnectRefreshed
  BY <1>6 DEF DrainCancelled, DrainSubDone, ReconnectRefreshed
<1>7. CASE LiveEnds
  BY <1>7 DEF LiveEnds
<1>8. CASE Start
  BY <1>8 DEF Start
<1>9. CASE StartConnected \/ StartRefreshed \/ StartFails
  BY <1>9 DEF StartConnected, StartRefreshed, StartFails
<1>10. CASE SendRefreshDone
  BY <1>10 DEF SendRefreshDone
<1>11. CASE GapTop \/ GapRefreshed
  BY <1>11 DEF GapTop, GapRefreshed
<1>12. CASE ServerAccepts \/ SubEnds \/ ClientClose \/ CancelContext \/ UserStop \/ UserRequest
  BY <1>12 DEF ServerAccepts, SubEnds, ClientClose, CancelContext, UserStop, UserRequest
<1>13. CASE Publish
  BY <1>13 DEF Publish, Enqueue
<1>14. ASSUME NEW p \in Users, UserRefresh(p) \/ UserReturns(p) PROVE Reconnecting'
  BY <1>14 DEF UserRefresh, UserReturns
<1>15. CASE Rest \/ UNCHANGED vars
  BY <1>15 DEF Rest, vars
<1>16. ASSUME NEW p \in Refreshers, Refresh(p) PROVE Reconnecting'
  BY <1>16, OffStaysOff
<1> QED
  BY <1>1, <1>2, <1>3, <1>4, <1>5, <1>6, <1>7, <1>8, <1>9, <1>10, <1>11, <1>12, <1>13,
     <1>14, <1>15, <1>16 DEF Next, Worker

LEMMA RangeAppend ==
    ASSUME NEW a \in Seq(Nat), NEW e \in Nat
    PROVE  /\ e \in Range(Append(a, e))
           /\ \A k \in Range(a) : k \in Range(Append(a, e))
<1>1. DOMAIN Append(a, e) = 1..(Len(a) + 1) /\ DOMAIN a = 1..Len(a) /\ Len(a) \in Nat
  OBVIOUS
<1>2. Append(a, e)[Len(a) + 1] = e /\ \A i \in 1..Len(a) : Append(a, e)[i] = a[i]
  OBVIOUS
<1>3. Len(a) + 1 \in DOMAIN Append(a, e) /\ \A i \in DOMAIN a : i \in DOMAIN Append(a, e)
  BY <1>1
<1> HIDE DEF Range
<1> QED
  BY <1>1, <1>2, <1>3 DEF Range

LEMMA RangeTail ==
    ASSUME NEW a \in Seq(Nat), a # <<>>, NEW k \in Range(a), k # Head(a)
    PROVE  k \in Range(Tail(a))
<1>1. PICK i \in DOMAIN a : a[i] = k
  BY DEF Range
<1>2. i \in 2..Len(a) /\ Head(a) = a[1]
  BY <1>1
<1>3. i - 1 \in DOMAIN Tail(a) /\ Tail(a)[i - 1] = k
  BY <1>1, <1>2
<1> QED
  BY <1>3 DEF Range

LEMMA RangeUnder ==
    ASSUME NEW a \in Seq(Nat), NEW n \in Nat, Under(a, n + 1), NEW k \in Range(a)
    PROVE  k \in Nat /\ k <= n
BY DEF Range, Under

\* RefreshSnapshot: a step of the refresher p that leaves the stream undisposed.
LEMMA AccountedRefresh ==
    ASSUME TypeOK, Exclusive, Exclusive', Ordered, Emptied, Accounted,
           NEW p \in Refreshers, Refresh(p)
    PROVE  Accounted'
<1> SUFFICES ASSUME ~s'.disposed PROVE Latest' /\ Seen' /\ Kept'
  BY DEF Accounted
<1>0. ~s.disposed /\ Latest /\ Seen /\ Kept
  BY RefreshSettles DEF Settles, Accounted
<1>a. /\ \A q \in Refreshers : q # p => r'[q] = r[q]
      /\ UNCHANGED <<sub, w, spc, refreshDone>>
      /\ env'.published = env.published /\ env.published \in Nat
      /\ "reconnect" \in Refreshers
  BY OffStaysOff, Places DEF Refreshers
<1>b. r[p].pc \in Section => Current(p)
  BY <1>0 DEF Current, Latest
<1> USE <1>0, <1>a DEF At, Go
<1>1. CASE RefreshLock(p)
  <2>1. r' = [r EXCEPT ![p].pc = "fetch", ![p].gen = s.generation + 1]
        /\ s' = [s EXCEPT !.generation = @ + 1, !.ready = FALSE] /\ UNCHANGED view
    BY <1>1 DEF RefreshLock, hist
  <2>2. /\ r'[p].pc = "fetch" /\ r'[p].gen = s'.generation /\ ~s'.ready
        /\ \A q \in Refreshers : q # p => r'[q].pc \notin Section
    BY <1>1, <2>1 DEF RefreshLock, TypeOK, RefreshersOK, Refresher, CoordOK, Coordinator
  <2>3. Latest'
    BY <2>2 DEF Latest
  <2>4. Seen'
    BY <2>1, <2>2 DEF Seen, Fetching, Section
  <2>5. ~Fetched'
    BY <2>2 DEF Fetched, Section
  <2> QED
    BY <2>3, <2>4, <2>5 DEF Kept, Claimed
<1>2. CASE FetchFails(p)
  <2>1. /\ r'[p].pc = "err" /\ ~s'.ready /\ s'.generation = s.generation /\ UNCHANGED view
        /\ r[p].pc = "fetch"
    BY <1>2 DEF FetchFails, hist, SetErr, TypeOK, RefreshersOK, Refresher, CoordOK, Coordinator
  <2>2. \A q \in Refreshers : q # p => r'[q].pc \notin Section
    BY <2>1 DEF Exclusive, Section
  <2>3. Latest' /\ Seen' /\ ~Fetched'
    BY <2>1, <2>2 DEF Latest, Seen, Fetched, Section, Fetching
  <2> QED
    BY <2>3 DEF Kept, Claimed
<1>3. CASE FetchReturns(p)
  <2>1. /\ r'[p].pc = "fetched" /\ r'[p].snap = env.published /\ r'[p].gen = r[p].gen
        /\ r[p].pc = "fetch" /\ UNCHANGED <<s, view>>
    BY <1>3 DEF FetchReturns, hist, TypeOK, RefreshersOK, Refresher
  <2>2. Latest'
    BY <2>1 DEF Latest, Section
  <2>3. Seen'
    BY <2>1 DEF Seen, Fetching, Ordered
  <2>4. \A k \in 1..env.published : Has(k)'
    BY <2>1 DEF Has, Fetching
  <2> QED
    BY <2>2, <2>3, <2>4 DEF Kept
<1>4. ASSUME NEW pc \in {"apply", "applyLive"}, TakePending(p, pc), UNCHANGED view,
             r[p].pc = IF pc = "apply" THEN "fetched" ELSE "drain"
      PROVE  Latest' /\ Seen' /\ Kept'
  <2>1. /\ r'[p].pc = pc /\ r'[p].snap = r[p].snap /\ r'[p].gen = r[p].gen
        /\ r'[p].buf = s.pending /\ s'.generation = s.generation /\ s'.ready = s.ready
    BY <1>4 DEF TakePending, TypeOK, RefreshersOK, Refresher, CoordOK, Coordinator
  <2>2. Latest' /\ Seen'
    BY <1>4, <2>1 DEF Latest, Seen, Section, Fetching
  <2>3. Claimed' => Claimed
    BY <1>4, <2>1 DEF Claimed, Fetched, Due, Section
  <2>4. r[p].buf = <<>> /\ Range(<<>>) = {}
    BY <1>4 DEF Exclusive, Range
  <2>5. \A k : Has(k) => Has(k)'
    BY <1>4, <2>1, <2>4 DEF Has, Fetching
  <2> QED
    BY <2>2, <2>3, <2>5 DEF Kept
<1>5. CASE MergePending(p)
  <2>1. r[p].pc = "fetched" /\ TakePending(p, "apply") /\ UNCHANGED view
    BY <1>b, <1>5 DEF MergePending, Section, hist
  <2> QED
    BY <1>4, <2>1
<1>6. ASSUME NEW o \in Outcomes, Deliver(p, o), r[p].pc \in {"apply", "applyLive"},
             \A k \in Range(r[p].buf) : k \in view',
             \A k \in view' : k <= env.published,
             \A k \in view : k \in view',
             r[p].pc = "apply" => 1..r[p].snap \subseteq view'
      PROVE  Latest' /\ Seen' /\ Kept'
  <2>1. Steady /\ (o = "panic" => s'.disposed)
    BY <1>6, SteadySections
    DEF Deliver, Callback, FailClosed, Stop, TypeOK, CoordOK, Coordinator
  <2>2. /\ r'[p].pc = "drain" /\ r'[p].gen = r[p].gen
        /\ s'.generation = s.generation /\ s'.pending = s.pending /\ (s'.ready => s.ready)
    BY <1>6, <2>1 DEF Deliver, Steady, TypeOK, RefreshersOK, Refresher
  <2>3. Latest'
    BY <1>6, <2>2 DEF Latest, Section
  <2>4. \A q \in Refreshers : q # p => r'[q].pc \notin Fetching
    BY <1>6 DEF Exclusive, Section, Fetching
  <2>5. Seen'
    BY <1>6, <2>2, <2>4 DEF Seen, Fetching
  <2>6. Claimed' => Claimed
    BY <1>6, <2>2 DEF Claimed, Fetched, Due, Section
  <2>7. \A k \in 1..env.published : Has(k) => Has(k)'
    <3> SUFFICES ASSUME NEW k \in 1..env.published, Has(k) PROVE Has(k)'
      OBVIOUS
    <3>1. ASSUME k \in Range(r[p].buf) \/ (r[p].pc \in Fetching /\ k <= r[p].snap)
          PROVE  k \in view'
      <4>1. r[p].snap \in Nat
        BY Assumptions DEF TypeOK, RefreshersOK, Refresher
      <4> QED
        BY <1>6, <3>1, <4>1 DEF Fetching
    <3> QED
      BY <1>6, <2>2, <3>1 DEF Has
  <2> QED
    BY <2>3, <2>5, <2>6, <2>7 DEF Kept
<1>7. \A k \in Range(r[p].buf) : k \in Nat /\ k <= env.published
  BY Places, RangeUnder DEF Ordered
<1>8. ASSUME NEW o \in Outcomes, ApplySnapshot(p, o)
      PROVE  Latest' /\ Seen' /\ Kept'
  <2>1. view' = 1..r[p].snap \cup Range(r[p].buf) /\ r[p].pc = "apply" /\ Deliver(p, o)
    BY <1>8 DEF ApplySnapshot
  <2>2. r[p].snap \in Nat /\ view \subseteq Pubs /\ r[p].snap <= env.published
        /\ \A k \in view : k <= r[p].snap
    BY <2>1, Assumptions DEF TypeOK, RefreshersOK, Refresher, HistOK, Seen, Fetching
  <2>3. \A k \in view : k \in view'
    BY <2>1, <2>2, Assumptions DEF Pubs
  <2>4. \A k \in view' : k <= env.published
    BY <1>7, <2>1, <2>2
  <2> QED
    BY <1>6, <2>1, <2>3, <2>4
<1>9. ASSUME NEW o \in Outcomes, ApplyBuffered(p, o)
      PROVE  Latest' /\ Seen' /\ Kept'
  <2>1. view' = view \cup Range(r[p].buf) /\ r[p].pc = "applyLive" /\ Deliver(p, o)
    BY <1>9 DEF ApplyBuffered
  <2>2. \A k \in view' : k <= env.published
    BY <1>7, <2>1 DEF Seen
  <2> QED
    BY <1>6, <2>1, <2>2
<1>10. CASE DrainPending(p)
  <2>1. CASE ~Drained
    <3>1. r[p].pc = "drain" /\ TakePending(p, "applyLive") /\ UNCHANGED view
      BY <1>b, <1>10, <2>1 DEF DrainPending, Section, hist
    <3> QED
      BY <1>4, <3>1
  <2>2. CASE Drained
    <3>a. /\ r[p].pc = "drain" /\ r' = [r EXCEPT ![p].pc = "nil"] /\ UNCHANGED view
          /\ s' = [s EXCEPT !.ready = TRUE, !.lastErr = FALSE]
      BY <1>b, <1>10, <2>2 DEF DrainPending, Section, hist
    <3>1. /\ r'[p].pc = "nil" /\ r[p].pc = "drain" /\ r'[p].buf = r[p].buf
          /\ s'.generation = s.generation /\ s'.pending = s.pending /\ UNCHANGED view
      BY <3>a DEF TypeOK, RefreshersOK, Refresher, CoordOK, Coordinator
    <3>2. Latest' /\ Seen'
      BY <3>1 DEF Latest, Seen, Section, Fetching
    <3>3. Claimed' => Claimed
      BY <3>1 DEF Claimed, Fetched, Due, Section
    <3>4. \A k : Has(k) => Has(k)'
      BY <3>1 DEF Has, Fetching
    <3> QED
      BY <3>2, <3>3, <3>4 DEF Kept
  <2> QED
    BY <2>1, <2>2
<1>11. CASE Retry(p)
  <2>1. \/ r' = [r EXCEPT ![p].tries = 2, ![p].pc = "lock"]
        \/ r' = [r EXCEPT ![p].tries = 2]
    BY <1>11 DEF Retry
  <2>2. /\ r[p].pc = "err" /\ r'[p].pc \in {"lock", "err"} /\ r'[p].buf = r[p].buf
        /\ UNCHANGED <<s, view>>
    BY <1>11, <2>1 DEF Retry, hist, TypeOK, RefreshersOK, Refresher
  <2>3. Latest' /\ Seen'
    BY <2>2 DEF Latest, Seen, Section, Fetching
  <2>4. Claimed' => Claimed
    BY <2>2 DEF Claimed, Fetched, Due, Section
  <2>5. \A k : Has(k) => Has(k)'
    BY <2>2 DEF Has, Fetching
  <2> QED
    BY <2>3, <2>4, <2>5 DEF Kept
<1> QED
  BY <1>1, <1>2, <1>3, <1>5, <1>8, <1>9, <1>10, <1>11 DEF Refresh

\* The steps that move no publication: what is claimed after one of them was
\* claimed before.
LEMMA ClaimedCalm ==
    ASSUME TypeOK, Early, Reconnecting, Calm, Claimed',
           \/ RunTop \/ Subscribed \/ SubscribeFails \/ BackoffEnds
           \/ DrainCancelled \/ DrainSubDone \/ ReconnectRefreshed \/ LiveEnds
           \/ Start \/ StartConnected \/ StartRefreshed \/ StartFails
           \/ SendRefreshDone \/ GapTop \/ GapRefreshed
           \/ ServerAccepts \/ SubEnds \/ ClientClose \/ CancelContext
           \/ UserStop \/ UserRequest
           \/ (\E p \in Users : UserRefresh(p) \/ UserReturns(p))
           \/ UNCHANGED vars
    PROVE  Claimed
<1>0. "start" \in Refreshers /\ "reconnect" \in Refreshers /\ "gap" \in Refreshers
      /\ Users \subseteq Refreshers /\ "reconnect" \notin Users
  BY Assumptions DEF Refreshers
<1>1. Fetched
  BY DEF Claimed, Fetched, Calm, Outer, Steady
<1>2. /\ sub'.st = "open" /\ w'.pc \in {"drain", "live"}
      /\ r'["reconnect"].pc \notin {"lock", "err"} /\ refreshDone' # "err"
  BY DEF Claimed, Due
<1>3. SUFFICES /\ sub.st = "open" /\ w.pc \in {"drain", "live"}
               /\ r["reconnect"].pc \notin {"lock", "err"} /\ refreshDone # "err"
  BY <1>1 DEF Claimed, Due
<1>a. sub' = NoSub => sub'.st # "open"
  BY DEF NoSub
<1>b. /\ Call("reconnect") => r'["reconnect"].pc = "lock"
      /\ \A p \in Refreshers \ {"reconnect"} : Call(p) => r'["reconnect"] = r["reconnect"]
      /\ \A p \in Refreshers \ {"reconnect"}, res \in {"nil", "err"} :
           Returned(p, res) => r'["reconnect"] = r["reconnect"]
      /\ \A res \in {"nil", "err"} : Returned("reconnect", res) => r["reconnect"].pc = res
  BY <1>0 DEF Call, Returned, At, TypeOK, RefreshersOK, Refresher
<1> USE <1>0, <1>2, <1>a, <1>b DEF TypeOK, WorkerOK, SubOK
<1>4. CASE RunTop \/ SubscribeFails \/ BackoffEnds \/ DrainCancelled \/ LiveEnds \/ Start
  BY <1>4 DEF RunTop, SubscribeFails, BackoffEnds, DrainCancelled, LiveEnds, Start
<1>5. CASE Subscribed
  <2>1. w.connected # "none"
    BY <1>1 DEF Early, Fetched, Section
  <2> QED
    BY <1>5, <2>1 DEF Subscribed
<1>6. CASE DrainSubDone
  BY <1>6 DEF DrainSubDone
<1>7. CASE ReconnectRefreshed
  BY <1>7 DEF ReconnectRefreshed, Reconnecting
<1>8. CASE SendRefreshDone
  BY <1>8 DEF SendRefreshDone, Reconnecting
<1>9. CASE StartConnected \/ StartRefreshed \/ StartFails \/ GapTop \/ GapRefreshed
  BY <1>9 DEF StartConnected, StartRefreshed, StartFails, GapTop, GapRefreshed
<1>10. CASE ServerAccepts \/ SubEnds \/ ClientClose
  BY <1>10 DEF ServerAccepts, SubEnds, ClientClose
<1>11. CASE CancelContext \/ UserStop \/ UserRequest \/ UNCHANGED vars
  BY <1>11 DEF CancelContext, UserStop, UserRequest, vars
<1>12. ASSUME NEW p \in Users, UserRefresh(p) \/ UserReturns(p)
       PROVE  /\ sub.st = "open" /\ w.pc \in {"drain", "live"}
              /\ r["reconnect"].pc \notin {"lock", "err"} /\ refreshDone # "err"
  BY <1>12 DEF UserRefresh, UserReturns
<1> QED
  BY <1>4, <1>5, <1>6, <1>7, <1>8, <1>9, <1>10, <1>11, <1>12

LEMMA AccountedCalm ==
    ASSUME TypeOK, Exclusive, Accounted, Calm, ~s'.disposed => ~s.disposed,
           Claimed' => Claimed
    PROVE  Accounted'
<1> SUFFICES ASSUME ~s'.disposed PROVE Latest' /\ Seen' /\ Kept'
  BY DEF Accounted
<1>0. ~s.disposed /\ Latest /\ Seen /\ Kept
  BY DEF Accounted
<1>1. /\ s'.generation = s.generation /\ s'.pending = s.pending
      /\ UNCHANGED view /\ env'.published = env.published
      /\ w'.hand = w.hand /\ w'.live = w.live
      /\ sub'.queue = sub.queue \/ sub'.st # "open"
      /\ \A p \in Refreshers : r'[p].pc \in Section => r'[p] = r[p]
      /\ \A p \in Refreshers : r'[p] = r[p] \/ r[p].pc \notin Section
  BY DEF Calm, Steady, Outer
<1>2. Latest'
  BY <1>0, <1>1 DEF Latest
<1>3. Seen'
  BY <1>0, <1>1 DEF Seen, Fetching, Section
<1>4. \A p \in Refreshers : r[p].pc \notin Section => Range(r[p].buf) = {}
  BY DEF Exclusive, Section, Range
<1>5. ASSUME sub'.queue = sub.queue, NEW k, Has(k) PROVE Has(k)'
  BY <1>1, <1>4, <1>5 DEF Has, Fetching, Section
<1>6. Kept'
  BY <1>0, <1>1, <1>5 DEF Kept, Claimed
<1> QED
  BY <1>2, <1>3, <1>6

\* The worker's steps that move a publication, and the server's.
LEMMA AccountedMoves ==
    ASSUME TypeOK, Exclusive, Ordered, Emptied, Accounted, [Next]_vars,
           Receive \/ HandlePublication \/ ReadPanics \/ Publish
             \/ (\E o \in Outcomes : ApplyLive(o))
    PROVE  Accounted'
<1> SUFFICES ASSUME ~s'.disposed PROVE Latest' /\ Seen' /\ Kept'
  BY DEF Accounted
<1>0. ~s.disposed /\ Latest /\ Seen /\ Kept
  BY StepSettles DEF Settles, Accounted
<1> USE <1>0, Places DEF hist
<1>1. CASE Receive
  <2>1. /\ w.pc \in {"drain", "live"} /\ w.hand = 0 /\ sub.queue # <<>>
        /\ sub'.queue = Tail(sub.queue) /\ sub'.st = sub.st
        /\ w'.hand = Head(sub.queue) /\ w'.live = w.live /\ w'.pc = w.pc
        /\ UNCHANGED <<env, spc, s, r, refreshDone, view>>
    BY <1>1 DEF Receive, TypeOK, SubOK, WorkerOK
  <2>2. Latest' /\ Seen'
    BY <2>1 DEF Latest, Seen
  <2>3. Claimed' => Claimed
    BY <2>1 DEF Claimed, Fetched, Due
  <2>4. \A k \in 1..env.published : Has(k) => Has(k)'
    BY <2>1, RangeTail DEF Has
  <2> QED
    BY <2>1, <2>2, <2>3, <2>4 DEF Kept
<1>2. CASE HandlePublication
  <2>1. /\ w'.pc = w.pc /\ w.hand # 0 /\ UNCHANGED <<env, sub, r, refreshDone, view>>
    BY <1>2 DEF HandlePublication, TypeOK, WorkerOK
  <2>2. CASE w.hand \in Silent
    <3>1. w'.hand = 0 /\ w'.live = w.live /\ ~w.live /\ UNCHANGED s
      BY <1>2, <2>2 DEF HandlePublication, TypeOK, WorkerOK
    <3>2. Latest' /\ Seen' /\ (Claimed' => Claimed)
      BY <2>1, <3>1 DEF Latest, Seen, Claimed, Fetched, Due
    <3>3. \A k : Has(k) => Has(k)'
      BY <2>1, <2>2, <3>1 DEF Has
    <3> QED
      BY <2>1, <3>2, <3>3 DEF Kept
  <2>3. CASE w.hand \notin Silent /\ s.ready
    <3>1. w'.hand = w.hand /\ UNCHANGED s
      BY <1>2, <2>3 DEF HandlePublication, TypeOK, WorkerOK
    <3>2. \A p \in Refreshers : r[p].pc \notin Fetching
      BY <2>3 DEF Exclusive, Fetching, Section
    <3>3. Latest' /\ Seen' /\ (Claimed' => Claimed)
      BY <2>1, <3>1, <3>2 DEF Latest, Seen, Claimed, Fetched, Due
    <3>4. \A k : Has(k) => Has(k)'
      BY <2>1, <3>1 DEF Has
    <3> QED
      BY <2>1, <3>3, <3>4 DEF Kept
  <2>4. CASE w.hand \notin Silent /\ ~s.ready
    <3>a. s' # FailClosed
      BY DEF FailClosed, Stop, TypeOK, CoordOK, Coordinator
    <3>b. s' = [s EXCEPT !.pending = Append(@, w.hand)] /\ w' = [w EXCEPT !.hand = 0] /\ ~w.live
      BY <1>2, <2>4, <3>a DEF HandlePublication
    <3>1. /\ s'.pending = Append(s.pending, w.hand) /\ s'.generation = s.generation
          /\ s'.ready = s.ready /\ w'.hand = 0 /\ ~w'.live
      BY <3>b DEF TypeOK, WorkerOK, CoordOK, Coordinator
    <3>2. Latest' /\ Seen' /\ (Claimed' => Claimed)
      BY <2>1, <3>1 DEF Latest, Seen, Claimed, Fetched, Due
    <3>3. \A k : Has(k) => Has(k)'
      BY <2>1, <3>1, RangeAppend DEF Has
    <3> QED
      BY <2>1, <3>2, <3>3 DEF Kept
  <2> QED
    BY <2>2, <2>3, <2>4
<1>3. CASE ReadPanics
  <2>1. s' = FailClosed
    BY <1>3 DEF ReadPanics
  <2> QED
    BY <2>1 DEF FailClosed, Stop, TypeOK, CoordOK, Coordinator
<1>4. ASSUME NEW o \in Outcomes, ApplyLive(o) PROVE Latest' /\ Seen' /\ Kept'
  <2>1. /\ w.hand # 0 /\ w.live /\ w'.hand = 0 /\ ~w'.live /\ w'.pc = w.pc
        /\ view' = view \cup {w.hand} /\ UNCHANGED <<sub, r, refreshDone>>
    BY <1>4 DEF ApplyLive, TypeOK, WorkerOK
  <2>2. /\ s'.generation = s.generation /\ s'.pending = s.pending /\ (s'.ready => s.ready)
        /\ env'.published = env.published
    BY <1>4, SteadySections, StillSections DEF ApplyLive, Steady
  <2>3. Latest' /\ Seen' /\ (Claimed' => Claimed)
    BY <2>1, <2>2 DEF Latest, Seen, Claimed, Fetched, Due, Ordered
  <2>4. \A k : Has(k) => Has(k)'
    BY <2>1, <2>2 DEF Has
  <2> QED
    BY <2>2, <2>3, <2>4 DEF Kept
<1>5. CASE Publish
  <2>1. /\ env'.published = env.published + 1 /\ UNCHANGED <<w, s, r, refreshDone, view>>
        /\ sub' = IF sub.st = "open" THEN Enqueue(env.published + 1) ELSE sub
    BY <1>5 DEF Publish, TypeOK, EnvOK
  <2>2. sub'.st = "open" =>
          sub.st = "open" /\ sub'.queue = Append(sub.queue, env.published + 1)
    BY <2>1 DEF Enqueue, TypeOK, SubOK
  <2>3. Latest'
    BY <2>1 DEF Latest
  <2>4. Seen'
    <3>1. \A k \in view : k \in Nat
      BY DEF TypeOK, HistOK, Pubs
    <3>2. \A p \in Refreshers : r[p].snap \in Nat
      BY Assumptions DEF TypeOK, RefreshersOK, Refresher
    <3> QED
      BY <2>1, <3>1, <3>2 DEF Seen
  <2>5. Claimed' => Claimed
    BY <2>1, <2>2 DEF Claimed, Fetched, Due
  <2>6. ASSUME Claimed', NEW k \in 1..env'.published PROVE Has(k)'
    <3>1. sub'.queue = Append(sub.queue, env.published + 1)
      BY <2>2, <2>6 DEF Claimed
    <3>2. CASE k = env.published + 1
      BY <3>1, <3>2, RangeAppend DEF Has
    <3>3. CASE k # env.published + 1
      <4>1. k \in 1..env.published
        BY <2>1, <2>6, <3>3
      <4>2. Has(k)
        BY <2>5, <2>6, <4>1 DEF Kept
      <4>3. k \in Range(sub.queue) => k \in Range(sub'.queue)
        BY <3>1, RangeAppend
      <4> QED
        BY <2>1, <4>2, <4>3 DEF Has
    <3> QED
      BY <3>2, <3>3
  <2> QED
    BY <2>3, <2>4, <2>6 DEF Kept
<1> QED
  BY <1>1, <1>2, <1>3, <1>4, <1>5

LEMMA AccountedNext ==
    ASSUME TypeOK, Exclusive, Exclusive', Ordered, Emptied, Early, Reconnecting, Accounted,
           [Next]_vars
    PROVE  Accounted'
<1>1. CASE \E p \in Refreshers : Refresh(p)
  BY <1>1, AccountedRefresh
<1>2. CASE \/ Receive \/ HandlePublication \/ ReadPanics \/ Publish
           \/ (\E o \in Outcomes : ApplyLive(o))
  BY <1>2, AccountedMoves
<1>3. CASE \/ RunTop \/ Subscribed \/ SubscribeFails \/ BackoffEnds
           \/ DrainCancelled \/ DrainSubDone \/ ReconnectRefreshed \/ LiveEnds
           \/ Start \/ StartConnected \/ StartRefreshed \/ StartFails
           \/ SendRefreshDone \/ GapTop \/ GapRefreshed
           \/ ServerAccepts \/ SubEnds \/ ClientClose \/ CancelContext
           \/ UserStop \/ UserRequest
           \/ (\E p \in Users : UserRefresh(p) \/ UserReturns(p))
           \/ UNCHANGED vars
  <2>1. Calm /\ (Claimed' => Claimed)
    BY <1>3, CalmSteps, ClaimedCalm
  <2>2. ~s'.disposed => ~s.disposed
    BY StepSettles DEF Settles
  <2> QED
    BY <2>1, <2>2, AccountedCalm
<1> QED
  BY <1>1, <1>2, <1>3 DEF Next, Worker, Rest

\* The inductive invariant of the coordinator.
CoordInv ==
    /\ TypeOK /\ Exclusive /\ Ordered /\ Emptied
    /\ Early /\ Reconnecting /\ Accounted

LEMMA CoordBegins == Init => CoordInv
<1> SUFFICES ASSUME Init PROVE CoordInv
  OBVIOUS
<1>1. Exclusive /\ Emptied
  BY DEF Init, Exclusive, Emptied, Idle, Section
<1>2. Ordered
  BY EmptySeq DEF Init, Ordered, Idle, NoSub
<1>3. Early /\ Reconnecting
  BY DEF Init, Early, Reconnecting, Idle, NoSub, Refreshers
<1>4. Accounted
  BY DEF Init, Accounted, Latest, Seen, Kept, Claimed, Idle, NoSub, Section, Fetching
<1> QED
  BY <1>1, <1>2, <1>3, <1>4, TypeInit DEF CoordInv

LEMMA CoordSteps == CoordInv /\ [Next]_vars => CoordInv'
BY TypeNext, OrderedNext, StepSettles, EarlyNext, ReconnectingNext, AccountedNext
   DEF CoordInv, Settles

LEMMA CoordImplies == CoordInv => MergedOnceInOrder /\ NothingLostWhenLive
<1> SUFFICES ASSUME CoordInv PROVE MergedOnceInOrder /\ NothingLostWhenLive
  OBVIOUS
<1> USE DEF CoordInv
<1>1. MergedOnceInOrder
  BY DEF Ordered, Ascending, MergedOnceInOrder
<1>2. ASSUME w.pc = "live", sub.st = "open", s.ready, ~s.disposed, NEW k \in 1..env.published
      PROVE  k \in view \cup Range(sub.queue) \cup {w.hand} \cup Silent
  <2>1. Claimed
    BY <1>2 DEF Claimed, Fetched, Due, Reconnecting
  <2>2. Has(k)
    BY <1>2, <2>1 DEF Accounted, Kept
  <2>3. Range(s.pending) = {} /\ \A p \in Refreshers : r[p].pc \notin Fetching /\ Range(r[p].buf) = {}
    BY <1>2 DEF Exclusive, Section, Fetching, Range
  <2> QED
    BY <2>2, <2>3 DEF Has
<1> QED
  BY <1>1, <1>2 DEF NothingLostWhenLive

\* While the stream is live and ready, every publication the server has sent is
\* in the consumer's state, in the queue or in the worker's hand: neither a
\* refresh beside the live path, nor a reconnect, nor the drain of pending loses
\* one, for any number of publications, refreshes and reconnects.
THEOREM NothingIsLost == Spec => []NothingLostWhenLive
BY CoordBegins, CoordSteps, CoordImplies, PTL DEF Spec

-----------------------------------------------------------------------------
(* For the streams on top of the coordinator.                              *)

\* These steps do not make the stream ready, nor take a refresh past its fetch.
LEMMA FetchedQuiet ==
    ASSUME TypeOK,
           \/ RunTop \/ Subscribed \/ SubscribeFails \/ BackoffEnds
           \/ DrainCancelled \/ DrainSubDone \/ ReconnectRefreshed \/ LiveEnds
           \/ Start \/ StartConnected \/ StartRefreshed \/ StartFails
           \/ SendRefreshDone \/ GapTop \/ GapRefreshed
           \/ ServerAccepts \/ SubEnds \/ ClientClose \/ CancelContext
           \/ UserStop \/ UserRequest \/ Receive \/ Publish
           \/ (\E p \in Users : UserRefresh(p) \/ UserReturns(p))
           \/ (\E p \in Refreshers : RefreshLock(p) \/ Retry(p) \/ FetchFails(p))
           \/ UNCHANGED vars
    PROVE  Fetched' => Fetched
<1>1. CASE Receive \/ Publish \/ UNCHANGED vars
  BY <1>1 DEF Receive, Publish, vars, Fetched
<1>2. ASSUME NEW p \in Refreshers, RefreshLock(p) \/ Retry(p) \/ FetchFails(p)
      PROVE  Fetched' => Fetched
  <2>1. r'[p].pc \notin Section \ {"fetch"} /\ (s'.ready => s.ready)
    <3>1. CASE RefreshLock(p)
      BY <1>2, <3>1 DEF RefreshLock, Go, At, Section, TypeOK, RefreshersOK, Refresher,
                        CoordOK, Coordinator
    <3>2. CASE Retry(p)
      <4>1. \/ r' = [r EXCEPT ![p].tries = 2, ![p].pc = "lock"]
            \/ r' = [r EXCEPT ![p].tries = 2] /\ r[p].pc = "err"
        BY <3>2 DEF Retry, At
      <4>2. r'[p].pc \in {"lock", "err"} /\ UNCHANGED s
        BY <3>2, <4>1 DEF Retry, TypeOK, RefreshersOK, Refresher
      <4> QED
        BY <4>2 DEF Section
    <3>3. CASE FetchFails(p)
      BY <1>2, <3>3 DEF FetchFails, SetErr, Go, At, Section, TypeOK, RefreshersOK,
                        Refresher, CoordOK, Coordinator
    <3> QED
      BY <1>2, <3>1, <3>2, <3>3
  <2>2. \A q \in Refreshers : q # p => r'[q] = r[q]
    BY <1>2 DEF RefreshLock, Retry, FetchFails, Go, TypeOK, RefreshersOK
  <2> QED
    BY <2>1, <2>2 DEF Fetched
<1>3. CASE \/ RunTop \/ Subscribed \/ SubscribeFails \/ BackoffEnds
           \/ DrainCancelled \/ DrainSubDone \/ ReconnectRefreshed \/ LiveEnds
           \/ Start \/ StartConnected \/ StartRefreshed \/ StartFails
           \/ SendRefreshDone \/ GapTop \/ GapRefreshed
           \/ ServerAccepts \/ SubEnds \/ ClientClose \/ CancelContext
           \/ UserStop \/ UserRequest
           \/ (\E p \in Users : UserRefresh(p) \/ UserReturns(p))
  <2>1. Outer /\ Steady
    BY <1>3, CalmSteps DEF Calm
  <2> QED
    BY <2>1 DEF Outer, Steady, Fetched, Section
<1> QED
  BY <1>1, <1>2, <1>3

LEMMA LeastOf ==
    ASSUME NEW T \in SUBSET Nat, T # {}
    PROVE  \E x \in T : \A y \in T : x <= y
<1> DEFINE R == OpToRel(<, Nat)
<1>1. IsWellFoundedOn(R, Nat)
  BY NatLessThanWellFounded
<1>2. R = {ss \in Nat \X Nat : ss[1] < ss[2]}
  BY DEF OpToRel
<1> HIDE DEF R
<1>3. PICK x \in T : \A y \in T : ~(<<y, x>> \in R)
  BY <1>1, WFMin
<1>4. \A y \in T : <<y, x>> \in R <=> y < x
  BY <1>2
<1>5. \A y \in T : ~(y < x)
  BY <1>3, <1>4
<1>6. \A y \in T : x <= y
  BY <1>5
<1> QED
  BY <1>6

LEMMA MaxOf ==
    ASSUME NEW n \in Nat, NEW T \in SUBSET (0..n), T # {}
    PROVE  Max(T) \in T /\ \A y \in T : Max(T) >= y
<1> DEFINE D == {d \in 0..n : n - d \in T}
<1>1. D \in SUBSET Nat /\ D # {}
  <2>1. PICK x \in T : TRUE
    OBVIOUS
  <2>2. n - (n - x) = x /\ n - x \in 0..n
    BY <2>1
  <2>3. n - x \in D
    BY <2>1, <2>2
  <2>4. D \subseteq Nat
    OBVIOUS
  <2> QED
    BY <2>3, <2>4, Zenon
<1>2. PICK d \in D : \A y \in D : d <= y
  BY <1>1, LeastOf
<1>3. \A y \in T : n - y \in D /\ n - d >= y
  <2> TAKE y \in T
  <2>1. n - (n - y) = y /\ n - y \in 0..n
    OBVIOUS
  <2>2. n - y \in D
    BY <2>1
  <2> QED
    BY <1>2, <2>2
<1>4. \E x \in T : \A y \in T : x >= y
  BY <1>2, <1>3
<1> QED
  BY <1>4, Zenon DEF Max
=============================================================================
