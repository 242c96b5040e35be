--------------------------- MODULE OrderbookProofs ---------------------------
(***************************************************************************)
(* Theorems about the managed order book (OrderbookStream), for any book,  *)
(* publications, lag of the snapshots, queues and callers: its steps are   *)
(* steps of the coordinator, so that what is proved of that holds of it;   *)
(* an available book is the server's; no view is of the initial book; and  *)
(* what LocalBook renders is exact and safe, for any width of the          *)
(* integers, side and visit of it.                                         *)
(***************************************************************************)
EXTENDS MCOrderbook, SnapshotThenStreamProofs

-----------------------------------------------------------------------------
(* The book's steps are the coordinator's.  Its callbacks may stop the     *)
(* stream at any time, also before Start is told of the connection.        *)

Stops ==
    /\ ~s.disposed /\ s' = Stop
    /\ UNCHANGED <<env, sub, w, spc, r, refreshDone, hist>>

LEMMA LeavesIsNext ==
    ASSUME NEW p \in Refreshers \cup {"worker"}, NEW o \in Outcomes, Leaves(p, o)
    PROVE  Next
<1>1. CASE p = "worker"
  <2>1. ApplyLive(o)
    BY <1>1 DEF Leaves
  <2> QED
    BY <2>1 DEF Next, Worker
<1>2. CASE p # "worker"
  <2>1. p \in Refreshers /\ (ApplySnapshot(p, o) \/ ApplyBuffered(p, o))
    BY <1>2 DEF Leaves
  <2> QED
    BY <2>1 DEF Next, Refresh
<1> QED
  BY <1>1, <1>2

LEMMA CallbackIsNext ==
    ASSUME NEW p \in Refreshers \cup {"worker"}, InCallback(p)
    PROVE  [Next]_vars
<1>1. CASE HandleDelta(p) \/ SnapshotView(p) \/ Recheck(p)
  BY <1>1 DEF HandleDelta, SnapshotView, Recheck
<1>2. CASE RequestRefresh(p)
  BY <1>2 DEF RequestRefresh, Next
<1>3. CASE Returns(p)
  <2>1. "ok" \in Outcomes
    BY BookAssumptions
  <2> QED
    BY <1>3, <2>1, LeavesIsNext DEF Returns
<1>4. CASE Panics(p)
  BY <1>4, LeavesIsNext DEF Panics
<1> QED
  BY <1>1, <1>2, <1>3, <1>4 DEF InCallback

LEMMA EmittingIsNext ==
    ASSUME NEW p, Emitting(p)
    PROVE  Stops \/ UNCHANGED vars
<1>1. CASE Emit(p) \/ EnqueueView(p) \/ Fail(p)
  BY <1>1 DEF Emit, EnqueueView, Fail
<1>2. CASE StopStream(p)
  BY <1>2 DEF StopStream, Stops, vars
<1> QED
  BY <1>1, <1>2 DEF Emitting

LEMMA BookStepsAreNext == [BookNext]_allVars => [Next \/ Stops]_vars
<1> SUFFICES ASSUME [BookNext]_allVars PROVE [Next \/ Stops]_vars
  OBVIOUS
<1>0. "start" \in Refreshers /\ "reconnect" \in Refreshers /\ "gap" \in Refreshers
  BY DEF Refreshers
<1>1. CASE BookStart \/ BookRest \/ Quiet(SendRefreshDone \/ GapTop \/ GapRefreshed)
  BY <1>1 DEF BookStart, BookRest, Quiet, Next
<1>2. CASE BookWorker
  <2>1. CASE LiveBegins
    BY <2>1 DEF LiveBegins, Next, Worker
  <2>2. CASE InCallback("worker") \/ Emitting("worker")
    BY <2>2, CallbackIsNext, EmittingIsNext
  <2> QED
    BY <1>2, <2>1, <2>2 DEF BookWorker, Quiet, Next, Worker
<1>3. CASE BookEnv
  BY <1>3 DEF BookEnv, Quiet, Next, Consume, SetBucket, Close
<1>4. ASSUME NEW p \in Refreshers, BookRefresher(p) PROVE [Next \/ Stops]_vars
  <2>1. CASE FetchSnapshot(p) \/ ApplyBegins(p) \/ Quiet(RefreshLock(p)) \/ Quiet(Retry(p))
    <3>1. Refresh(p)
      BY <2>1 DEF FetchSnapshot, ApplyBegins, Quiet, Refresh
    <3> QED
      BY <3>1 DEF Next
  <2>2. CASE InCallback(p) \/ Emitting(p)
    BY <2>2, CallbackIsNext, EmittingIsNext
  <2> QED
    BY <1>4, <2>1, <2>2 DEF BookRefresher
<1>5. ASSUME NEW t \in timers, RecheckTimer(t) PROVE [Next \/ Stops]_vars
  BY <1>5 DEF RecheckTimer, Next
<1>6. CASE SetBucketEmits \/ Emitting("api") \/ DoneCloses
  BY <1>6, EmittingIsNext DEF SetBucketEmits, DoneCloses
<1>7. CASE UNCHANGED allVars
  BY <1>7 DEF allVars
<1> QED
  BY <1>1, <1>2, <1>3, <1>4, <1>5, <1>6, <1>7 DEF BookNext

\* A stop from a callback keeps the coordinator's invariant.
LEMMA StopsKeeps == CoordInv /\ Stops => CoordInv'
<1> SUFFICES ASSUME CoordInv, Stops PROVE CoordInv'
  OBVIOUS
<1> USE DEF CoordInv
<1>1. /\ s' = Stop /\ UNCHANGED <<env, sub, w, spc, r, refreshDone, delivered, view>>
  BY DEF Stops, hist
<1>2. TypeOK'
  BY <1>1, SectionTypes, Frame
<1>3. s'.disposed /\ s'.pending = <<>> /\ s'.ready = s.ready /\ s'.gap = s.gap
  BY <1>1 DEF Stop, TypeOK, CoordOK, Coordinator
<1>4. Still
  BY <1>1, <1>3 DEF Still, StillCoord, StillRefreshers
<1>5. Exclusive' /\ Ordered'
  BY <1>4, StillPreserves
<1>6. Emptied' /\ Accounted'
  BY <1>3 DEF Emptied, Accounted
<1>7. Early' /\ Reconnecting'
  BY <1>1, <1>3 DEF Early, Reconnecting
<1> QED
  BY <1>2, <1>5, <1>6, <1>7

LEMMA BookCoordinates == BookSpec => []CoordInv
<1>1. BookInit => CoordInv
  BY CoordBegins DEF BookInit
<1>2. CoordInv /\ [BookNext]_allVars => CoordInv'
  BY BookStepsAreNext, CoordSteps, StopsKeeps
<1> QED
  BY <1>1, <1>2, PTL DEF BookSpec

\* What is promised of the coordinator holds under the managed book, whose
\* callbacks run beside each other, ask for refreshes and stop the stream: every
\* publication reaches them once and in order, and a live stream loses none.
THEOREM BookInheritsOrder == BookSpec => [](TypeOK /\ MergedOnceInOrder /\ NothingLostWhenLive)
<1>1. CoordInv => TypeOK /\ MergedOnceInOrder /\ NothingLostWhenLive
  BY CoordImplies DEF CoordInv
<1> QED
  BY <1>1, BookCoordinates, PTL

\* And a managed book that was stopped, by its user, by a full queue or by an
\* error, is not made ready again by a refresh or a callback still under way.
THEOREM BookInheritsDisposal == BookSpec => DisposedIsFinal
<1>1. CoordInv /\ [BookNext]_allVars =>
        [s.disposed => s'.disposed /\ s'.pending = <<>> /\ (s'.ready => s.ready)]_vars
  <2> SUFFICES ASSUME CoordInv, [Next]_vars \/ Stops PROVE Settles
    BY BookStepsAreNext DEF Settles
  <2> QED
    BY StepSettles, SectionsSettle DEF CoordInv, Stops
<1> QED
  BY <1>1, BookCoordinates, PTL DEF BookSpec, DisposedIsFinal

-----------------------------------------------------------------------------
(* The server's book.                                                      *)

LEMMA ServerBookType ==
    ASSUME NEW q \in Nat
    PROVE  ServerBook(q) \in [Levels -> Nat]
<1> DEFINE S(l) == {0} \cup {e \in 1..q : Touch[e] = l}
<1>1. \A l \in Levels : S(l) \in SUBSET (0..q) /\ S(l) # {}
  OBVIOUS
<1>2. \A l \in Levels : Max(S(l)) \in S(l)
  BY <1>1, MaxOf
<1>3. \A l \in Levels : Max(S(l)) \in Nat
  BY <1>1, <1>2
<1> HIDE DEF S
<1>4. [l \in Levels |-> Max(S(l))] \in [Levels -> Nat]
  BY <1>3
<1> QED
  BY <1>4 DEF ServerBook, S

\* Events that do not touch a level leave it as it is.
LEMMA Untouched ==
    ASSUME NEW a \in Nat, NEW b \in Nat, a <= b, NEW l \in Levels,
           \A e \in a+1..b : Touch[e] # l
    PROVE  ServerBook(b)[l] = ServerBook(a)[l]
<1>1. {e \in 1..b : Touch[e] = l} = {e \in 1..a : Touch[e] = l}
  OBVIOUS
<1> QED
  BY <1>1 DEF ServerBook

\* A delta that is applied to the server's book gives the server's book.
LEMMA DeltaFollows ==
    ASSUME NEW b, NEW d, b.seq \in Nat, d.start \in Nat, d.end \in Nat, d.start <= d.end,
           b.lv = ServerBook(b.seq), ~NeedsRefresh(b, d), ~Stale(b, d)
    PROVE  [l \in Levels |-> IF d.reset \/ \E e \in d.start..d.end : Touch[e] = l
                             THEN ServerBook(d.end)[l] ELSE b.lv[l]] = ServerBook(d.end)
<1>1. d.end > b.seq /\ (~d.reset => d.start <= b.seq + 1)
  BY DEF NeedsRefresh, Stale
<1>2. ASSUME NEW l \in Levels, ~d.reset, \A e \in d.start..d.end : Touch[e] # l
      PROVE  b.lv[l] = ServerBook(d.end)[l]
  <2>1. \A e \in b.seq + 1..d.end : Touch[e] # l
    BY <1>1, <1>2
  <2>2. ServerBook(d.end)[l] = ServerBook(b.seq)[l]
    BY <1>1, <2>1, Untouched
  <2> QED
    BY <2>2
<1>3. ServerBook(d.end) = [l \in Levels |-> ServerBook(d.end)[l]]
  BY DEF ServerBook
<1> QED
  BY <1>2, <1>3

-----------------------------------------------------------------------------
(* The invariant of the book.  Of the coordinator it needs only the types. *)

View == [seq : Nat, avail : BOOLEAN, fetched : BOOLEAN]

Book ==
    [lv : [Levels -> Nat], seq : Nat, avail : BOOLEAN, bucket : Nat, fetched : BOOLEAN,
     lastUnavailable : BOOLEAN, pending : BOOLEAN, generation : Nat]

BookOK == book \in Book

CallerPC ==
    {"off", "delta", "request", "emit", "enqueue", "fail", "stop", "recheck", "return", "ready"}

Caller == [pc : CallerPC, todo : Seq(Pubs), view : View, final : BOOLEAN]

CallersOK == cb \in [Callers -> Caller]

OutOK == out \in [queue : Seq(View), closed : BOOLEAN, last : View, unavailable : Nat]


\* A snapshot was stored before the stream is ready, before a refresh has
\* fetched, before a callback runs and before a view is rendered; and every view
\* on its way is of a book that was stored.
CallersStored ==
    \A p \in Callers :
        /\ cb[p].pc # "off" /\ (p = "api" => cb[p].pc = "emit") => book.fetched
        /\ cb[p].view.fetched

Stored == (Fetched => book.fetched) /\ CallersStored /\ out.last.fetched

BookInv == BookOK /\ CallersOK /\ OutOK /\ Stored /\ BookIsServers

LEMMA StopsQuiet == TypeOK /\ Stops => (Fetched' => Fetched)
BY DEF Stops, Stop, Fetched, TypeOK, CoordOK, Coordinator

LEMMA FetchedApplies ==
    ASSUME TypeOK,
           \/ LiveBegins
           \/ (\E p \in Refreshers : ApplyBegins(p))
           \/ (\E p \in Refreshers \cup {"worker"}, o \in Outcomes : Leaves(p, o))
    PROVE  Fetched' => Fetched
<1>1. CASE LiveBegins
  <2>1. HandlePublication
    BY <1>1 DEF LiveBegins
  <2>2. r' = r /\ (s'.ready => s.ready)
    BY <2>1 DEF HandlePublication, FailClosed, Stop, TypeOK, CoordOK, Coordinator
  <2> QED
    BY <2>2 DEF Fetched
<1>2. ASSUME NEW p \in Refreshers, ApplyBegins(p) PROVE Fetched
  <2>1. r[p].pc \in {"fetched", "drain"}
    BY <1>2 DEF ApplyBegins, MergePending, DrainPending, At
  <2> QED
    BY <2>1 DEF Fetched, Section
<1>3. ASSUME NEW p \in Refreshers \cup {"worker"}, NEW o \in Outcomes, Leaves(p, o)
      PROVE  Fetched' => Fetched
  <2>1. CASE p = "worker"
    <3>1. ApplyLive(o)
      BY <1>3, <2>1 DEF Leaves
    <3>2. r' = r /\ Steady
      BY <3>1, SteadySections DEF ApplyLive
    <3> QED
      BY <3>2 DEF Fetched, Steady
  <2>2. CASE p # "worker"
    <3>1. p \in Refreshers /\ r[p].pc \in {"apply", "applyLive"}
      BY <1>3, <2>2 DEF Leaves, ApplySnapshot, ApplyBuffered, At
    <3> QED
      BY <3>1 DEF Fetched, Section
  <2> QED
    BY <2>1, <2>2
<1> QED
  BY <1>1, <1>2, <1>3

\* What a step does to a caller, and what it does to the rest.
LEMMA CallerMoves ==
    ASSUME CallersOK, CallersStored, book.fetched => book'.fetched,
           NEW p \in Callers, NEW c \in Caller, cb' = [cb EXCEPT ![p] = c],
           c.pc # "off" /\ (p = "api" => c.pc = "emit") => book'.fetched,
           c.view.fetched
    PROVE  CallersOK' /\ CallersStored'
<1>1. CallersOK'
  BY DEF CallersOK
<1>2. \A q \in Callers : cb'[q] = IF q = p THEN c ELSE cb[q]
  BY DEF CallersOK
<1> QED
  BY <1>1, <1>2 DEF CallersStored

\* Most steps of a callback change only its place, and maybe its view.
LEMMA CallerGoes ==
    ASSUME CallersOK, CallersStored, book.fetched => book'.fetched,
           NEW p \in Callers, NEW pc \in CallerPC, NEW v \in View, NEW f \in BOOLEAN,
           cb' = [cb EXCEPT ![p] = [cb[p] EXCEPT !.pc = pc, !.view = v, !.final = f]],
           v.fetched,
           pc # "off" /\ (p = "api" => pc = "emit") =>
             book.fetched \/ (cb[p].pc # "off" /\ (p = "api" => cb[p].pc = "emit"))
    PROVE  CallersOK' /\ CallersStored'
<1> DEFINE c == [cb[p] EXCEPT !.pc = pc, !.view = v, !.final = f]
<1>1. c \in Caller /\ c.pc = pc /\ c.view = v
  BY DEF CallersOK, Caller
<1>2. pc # "off" /\ (p = "api" => pc = "emit") => book'.fetched
  BY DEF CallersStored
<1>3. cb' = [cb EXCEPT ![p] = c]
  OBVIOUS
<1> HIDE DEF c
<1> QED
  BY <1>1, <1>2, <1>3, CallerMoves

LEMMA FirstViews == NoView \in View /\ NoView.fetched /\ Off \in Caller
<1>1. <<>> \in Seq(Pubs)
  OBVIOUS
<1>2. NoView \in View /\ NoView.fetched
  BY DEF NoView, View
<1> QED
  BY <1>1, <1>2 DEF Off, Caller, CallerPC

LEMMA BookBegins == BookInit => BookInv
<1> SUFFICES ASSUME BookInit PROVE BookInv
  OBVIOUS
<1> USE DEF BookInit
<1>1. Empty \in [Levels -> Nat]
  BY DEF Empty
<1>2. BookOK /\ BookIsServers
  BY <1>1 DEF BookOK, Book, BookIsServers
<1>3. CallersOK /\ CallersStored
  <2>1. Off.pc = "off" /\ Off.view = NoView
    BY DEF Off
  <2> QED
    BY <2>1, FirstViews DEF CallersOK, CallersStored
<1>4. OutOK /\ out.last.fetched
  <2>1. <<>> \in Seq(View)
    OBVIOUS
  <2> QED
    BY <2>1, FirstViews DEF OutOK
<1>5. ~Fetched
  BY DEF Init, Fetched, Idle, Section
<1> QED
  BY <1>2, <1>3, <1>4, <1>5 DEF BookInv, Stored

\* What the steps that change the book leave of it.
Held == BookOK' /\ BookIsServers' /\ (book.fetched => book'.fetched)

LEMMA StoreHolds ==
    ASSUME TypeOK, BookOK, OutOK, StoreSnapshot
    PROVE  Held /\ book'.fetched /\ OutOK' /\ out'.last = out.last
<1>1. PICK q \in SnapshotAt, available \in BOOLEAN :
        /\ book' = [book EXCEPT !.lv = IF available THEN ServerBook(q) ELSE Empty,
                                !.seq = q, !.avail = available, !.fetched = TRUE]
        /\ out' = [out EXCEPT !.unavailable = IF available THEN @ ELSE @ + 1]
  BY DEF StoreSnapshot
<1>2. q \in Nat
  <2>1. Happened \in Nat
    <3>1. env.published \in Nat /\ env.published <= MaxPubs /\ MaxPubs \in Nat
      BY Assumptions DEF TypeOK, EnvOK
    <3>2. \A k \in Pubs : Delta[k].end \in Nat
      BY BookAssumptions
    <3> QED
      BY <3>1, <3>2 DEF Happened, Sent, Pubs
  <2> QED
    BY <2>1 DEF SnapshotAt
<1>3. ServerBook(q) \in [Levels -> Nat] /\ Empty \in [Levels -> Nat]
  BY <1>2, ServerBookType DEF Empty
<1>4. book' \in Book /\ book'.fetched
      /\ (book'.avail => book'.lv = ServerBook(book'.seq))
  BY <1>1, <1>2, <1>3 DEF BookOK, Book
<1>5. OutOK' /\ out'.last = out.last
  BY <1>1 DEF OutOK
<1> QED
  BY <1>4, <1>5 DEF Held, BookOK, BookIsServers

LEMMA DeltaHolds ==
    ASSUME BookOK, BookIsServers, NEW k \in Pubs, book' = ApplyDelta(book, Delta[k])
    PROVE  Held
<1> DEFINE d == Delta[k]
<1>1. /\ d.start \in Nat /\ d.end \in Nat /\ d.start <= d.end /\ d.reset \in BOOLEAN
      /\ d.malformed \in BOOLEAN
  BY BookAssumptions
<1>2. book \in Book
  BY DEF BookOK
<1> HIDE DEF d
<1>3. CASE NeedsRefresh(book, d) \/ Stale(book, d)
  BY <1>3 DEF ApplyDelta, Held, BookOK, BookIsServers, d
<1>4. CASE ~NeedsRefresh(book, d) /\ ~Stale(book, d)
  <2> DEFINE lv == [l \in Levels |-> IF d.reset \/ \E e \in d.start..d.end : Touch[e] = l
                                     THEN ServerBook(d.end)[l] ELSE book.lv[l]]
  <2>1. book' = [book EXCEPT !.seq = d.end, !.lv = lv]
    BY <1>4 DEF ApplyDelta, d
  <2>2. lv \in [Levels -> Nat]
    BY <1>1, <1>2, ServerBookType DEF Book
  <2>3. book.avail => lv = ServerBook(d.end)
    BY <1>1, <1>2, <1>4, DeltaFollows DEF Book, BookIsServers
  <2> HIDE DEF lv
  <2>4. /\ book' \in Book /\ book'.avail = book.avail /\ book'.lv = lv /\ book'.seq = d.end
        /\ book'.fetched = book.fetched
    BY <1>1, <1>2, <2>1, <2>2 DEF Book
  <2> QED
    BY <2>3, <2>4 DEF Held, BookOK, BookIsServers
<1> QED
  BY <1>3, <1>4

\* The steps in a callback: they leave the rest of the coordinator as it is.
LEMMA CallbackHolds ==
    ASSUME TypeOK, BookInv, NEW p \in Refreshers \cup {"worker"},
           HandleDelta(p) \/ RequestRefresh(p) \/ SnapshotView(p) \/ Recheck(p)
    PROVE  Held /\ CallersOK' /\ CallersStored' /\ OutOK' /\ out'.last = out.last
<1> USE DEF BookInv, Stored
<1>p. p \in Callers /\ p # "api"
  BY BookAssumptions DEF Callers, Refreshers
<1>0. out' = out => OutOK' /\ out'.last = out.last
  BY DEF OutOK
<1>a. book' = book => Held
  BY DEF Held, BookOK, BookIsServers
<1>b. /\ cb[p].todo \in Seq(Pubs) /\ cb[p].view \in View /\ cb[p].final \in BOOLEAN
      /\ cb[p].view.fetched /\ cb[p] \in Caller
  BY <1>p DEF CallersOK, Caller, CallersStored
<1>c. ASSUME NEW pc \in {"delta", "emit", "request", "recheck", "return"}, NEW f \in BOOLEAN,
             cb' = [cb EXCEPT ![p].pc = pc, ![p].final = f], Held,
             cb[p].pc # "off"
      PROVE  CallersOK' /\ CallersStored'
  <2>1. cb' = [cb EXCEPT ![p] = [cb[p] EXCEPT !.pc = pc, !.view = cb[p].view, !.final = f]]
    BY <1>b, <1>c DEF CallersOK, Caller
  <2>2. pc \in CallerPC
    BY DEF CallerPC
  <2>3. book.fetched /\ (book.fetched => book'.fetched)
    BY <1>p, <1>c DEF CallersStored, Held
  <2> QED
    BY <1>p, <1>b, <2>1, <2>2, <2>3, CallerGoes
<1>1. CASE HandleDelta(p)
  <2> DEFINE k == Head(cb[p].todo)
             rest == Tail(cb[p].todo)
  <2>1. k \in Pubs /\ rest \in Seq(Pubs) /\ cb[p].pc = "delta"
    BY <1>1, <1>b DEF HandleDelta, In
  <2> HIDE DEF rest
  <2>2. CASE out.closed
    <3>1. cb' = [cb EXCEPT ![p].todo = rest] /\ UNCHANGED <<book, out>>
      BY <1>1, <2>2 DEF HandleDelta, rest
    <3> DEFINE c == [cb[p] EXCEPT !.todo = rest]
    <3>2. c \in Caller /\ c.pc = cb[p].pc /\ c.view = cb[p].view
      BY <1>b, <2>1 DEF Caller
    <3>3. cb' = [cb EXCEPT ![p] = c]
      BY <3>1
    <3> HIDE DEF c
    <3>4. c.pc # "off" => book'.fetched
      BY <1>p, <3>1, <3>2 DEF CallersStored
    <3> QED
      BY <1>p, <1>0, <1>a, <1>b, <3>1, <3>2, <3>3, <3>4, CallerMoves
  <2>3. CASE ~out.closed
    <3> DEFINE pc == IF NeedsRefresh(book, Delta[k]) THEN "request" ELSE "emit"
               c == [cb[p] EXCEPT !.todo = rest, !.final = FALSE, !.pc = pc]
    <3>1. /\ book' = ApplyDelta(book, Delta[k]) /\ UNCHANGED out
          /\ cb' = [cb EXCEPT ![p].todo = rest, ![p].final = FALSE, ![p].pc = pc]
      BY <1>1, <2>3 DEF HandleDelta, rest
    <3>2. Held
      BY <2>1, <3>1, DeltaHolds
    <3>3. pc \in CallerPC
      BY DEF CallerPC
    <3> HIDE DEF pc
    <3>4. c \in Caller /\ c.view = cb[p].view
      BY <1>b, <2>1, <3>3 DEF Caller
    <3>5. cb' = [cb EXCEPT ![p] = c]
      BY <3>1
    <3> HIDE DEF c
    <3>6. book'.fetched
      BY <1>p, <2>1, <3>2 DEF CallersStored, Held
    <3> QED
      BY <1>p, <1>0, <1>b, <3>1, <3>2, <3>4, <3>5, <3>6, CallerMoves DEF Held
  <2> QED
    BY <2>2, <2>3
<1>2. CASE RequestRefresh(p)
  <2>1. /\ cb' = [cb EXCEPT ![p].pc = "delta", ![p].final = cb[p].final]
        /\ UNCHANGED <<book, out>> /\ cb[p].pc # "off"
    BY <1>2, <1>b DEF RequestRefresh, Goto, In, Caller, CallersOK
  <2> QED
    BY <1>0, <1>a, <1>b, <1>c, <2>1
<1>3. CASE SnapshotView(p)
  <2>1. PICK pc \in {"recheck", "emit"} :
          /\ cb' = [cb EXCEPT ![p].pc = pc, ![p].final = TRUE]
          /\ UNCHANGED <<book, out>> /\ cb[p].pc # "off"
    BY <1>3 DEF SnapshotView, In, CallersOK, Caller
  <2> QED
    BY <1>0, <1>a, <1>b, <1>c, <2>1
<1>4. CASE Recheck(p)
  <2>1. /\ cb' = [cb EXCEPT ![p].pc = "return", ![p].final = cb[p].final]
        /\ UNCHANGED out /\ cb[p].pc # "off"
    BY <1>4, <1>b DEF Recheck, Goto, In, Caller, CallersOK
  <2>2. \/ book' = [book EXCEPT !.pending = FALSE, !.generation = book.generation + 1]
        \/ book' = [book EXCEPT !.pending = TRUE]
        \/ book' = book
    BY <1>4 DEF Recheck
  <2>3. /\ book' \in Book /\ book'.avail = book.avail /\ book'.lv = book.lv
        /\ book'.seq = book.seq /\ book'.fetched = book.fetched
    <3>1. book \in Book /\ book.generation + 1 \in Nat
      BY DEF BookOK, Book
    <3>2. CASE book' = [book EXCEPT !.pending = FALSE, !.generation = book.generation + 1]
      BY <3>1, <3>2, Zenon DEF Book
    <3>3. CASE book' = [book EXCEPT !.pending = TRUE]
      BY <3>1, <3>3, Zenon DEF Book
    <3> QED
      BY <2>2, <3>1, <3>2, <3>3
  <2>4. Held
    BY <2>3 DEF Held, BookOK, BookIsServers
  <2> QED
    BY <1>0, <1>b, <1>c, <2>1, <2>4
<1> QED
  BY <1>1, <1>2, <1>3, <1>4

\* The steps of emit, and of what follows it.
LEMMA EmittingHolds ==
    ASSUME TypeOK, BookInv, NEW p \in Callers, Emitting(p)
    PROVE  Held /\ CallersOK' /\ CallersStored' /\ OutOK' /\ out'.last.fetched
<1> USE DEF BookInv, Stored
<1>1. CallersOK /\ CallersStored /\ OutOK /\ BookOK /\ cb[p].pc # "off"
  BY DEF Emitting, Emit, EnqueueView, Fail, StopStream, In
<1>2. /\ cb[p] \in Caller /\ cb[p].view \in View /\ cb[p].view.fetched
      /\ cb[p].final \in BOOLEAN
  BY DEF CallersOK, Caller, CallersStored
<1>3. book' = book => Held
  BY DEF Held, BookOK, BookIsServers
<1>4. out' = out => OutOK' /\ out'.last.fetched
  BY DEF OutOK
<1>5. ASSUME Emitted(p), book.fetched => book'.fetched
      PROVE  CallersOK' /\ CallersStored'
  <2>1. PICK pc \in {"off", "recheck", "delta"} :
          /\ cb' = [cb EXCEPT ![p].view = NoView, ![p].pc = pc]
          /\ p = "api" => pc = "off"
    BY <1>5 DEF Emitted
  <2>2. cb' = [cb EXCEPT ![p] = [cb[p] EXCEPT !.pc = pc, !.view = NoView, !.final = cb[p].final]]
    BY <1>2, <2>1 DEF CallersOK, Caller
  <2>3. pc \in CallerPC
    BY DEF CallerPC
  <2>4. pc # "off" /\ (p = "api" => pc = "emit") =>
          book.fetched \/ (cb[p].pc # "off" /\ (p = "api" => cb[p].pc = "emit"))
    BY <1>1, <2>1
  <2>5. NoView \in View /\ NoView.fetched
    BY FirstViews
  <2> QED
    BY <1>1, <1>2, <1>5, <2>2, <2>3, <2>4, <2>5, CallerGoes
<1>6. ASSUME NEW pc \in {"fail", "stop", "enqueue"}, NEW v \in View, v.fetched,
             cb' = [cb EXCEPT ![p] = [cb[p] EXCEPT !.pc = pc, !.view = v, !.final = cb[p].final]],
             book.fetched => book'.fetched
      PROVE  CallersOK' /\ CallersStored'
  <2>1. pc \in CallerPC
    BY DEF CallerPC
  <2> QED
    BY <1>1, <1>2, <1>6, <2>1, CallerGoes
<1>7. ASSUME NEW pc \in {"fail", "stop"}, Goto(p, pc), book.fetched => book'.fetched
      PROVE  CallersOK' /\ CallersStored'
  <2>1. cb' = [cb EXCEPT ![p] = [cb[p] EXCEPT !.pc = pc, !.view = cb[p].view,
                                             !.final = cb[p].final]]
    BY <1>2, <1>7 DEF Goto, CallersOK, Caller
  <2> QED
    BY <1>2, <1>6, <1>7, <2>1
<1>8. CASE Emit(p)
  <2>1. UNCHANGED out /\ book.fetched
    BY <1>8 DEF Emit, In, CallersStored
  <2>2. CASE Emitted(p) /\ UNCHANGED book
    BY <1>3, <1>4, <1>5, <2>1, <2>2
  <2>3. ASSUME book' = [book EXCEPT !.lastUnavailable = ~book.avail]
        PROVE  Held
    <3>1. /\ book' \in Book /\ book'.avail = book.avail /\ book'.lv = book.lv
          /\ book'.seq = book.seq /\ book'.fetched = book.fetched
      BY <2>3 DEF BookOK, Book
    <3> QED
      BY <3>1 DEF Held, BookOK, BookIsServers
  <2>4. CASE Goto(p, "fail") /\ Held
    BY <1>4, <1>7, <2>1, <2>4 DEF Held
  <2> DEFINE v == [seq |-> book.seq, avail |-> book.avail, fetched |-> book.fetched]
  <2>5. CASE cb' = [cb EXCEPT ![p].pc = "enqueue", ![p].view = v] /\ Held
    <3>1. v \in View /\ v.fetched
      BY <2>1 DEF View, BookOK, Book
    <3> HIDE DEF v
    <3>2. cb' = [cb EXCEPT ![p] = [cb[p] EXCEPT !.pc = "enqueue", !.view = v,
                                               !.final = cb[p].final]]
      BY <1>2, <2>5 DEF CallersOK, Caller
    <3> QED
      BY <1>4, <1>6, <2>1, <2>5, <3>1, <3>2 DEF Held
  <2> QED
    BY <1>8, <2>2, <2>3, <2>4, <2>5 DEF Emit
<1>9. CASE EnqueueView(p)
  <2>1. UNCHANGED book
    BY <1>9 DEF EnqueueView
  <2>2. CASE Emitted(p)
    <3>1. CASE out' = [out EXCEPT !.queue = Append(@, cb[p].view), !.last = cb[p].view]
      <4>1. Append(out.queue, cb[p].view) \in Seq(View)
        BY <1>2 DEF OutOK
      <4>2. OutOK' /\ out'.last.fetched
        BY <1>2, <3>1, <4>1 DEF OutOK
      <4> QED
        BY <1>3, <1>5, <2>1, <2>2, <4>2
    <3> QED
      BY <1>3, <1>4, <1>5, <1>9, <2>1, <2>2, <3>1 DEF EnqueueView, Goto, Emitted
  <2>3. CASE Goto(p, "fail") /\ UNCHANGED out
    BY <1>3, <1>4, <1>7, <2>1, <2>3
  <2> QED
    BY <1>9, <2>2, <2>3 DEF EnqueueView
<1>10. CASE Fail(p)
  <2>1. UNCHANGED book /\ (out' = [out EXCEPT !.closed = TRUE] \/ UNCHANGED out)
    BY <1>10 DEF Fail
  <2>2. OutOK' /\ out'.last.fetched
    BY <2>1 DEF OutOK
  <2>3. Emitted(p) \/ Goto(p, "stop")
    BY <1>10 DEF Fail
  <2> QED
    BY <1>3, <1>5, <1>7, <2>1, <2>2, <2>3
<1>11. CASE StopStream(p)
  BY <1>3, <1>4, <1>5, <1>11 DEF StopStream
<1> QED
  BY <1>8, <1>9, <1>10, <1>11 DEF Emitting

\* The coordinator calls a callback, and the callback returns.
LEMMA CallsHold ==
    ASSUME TypeOK, BookInv,
           \/ LiveBegins
           \/ (\E p \in Refreshers : ApplyBegins(p))
           \/ (\E p \in Refreshers \cup {"worker"}, o \in Outcomes : Leaves(p, o))
    PROVE  BookInv'
<1> USE DEF BookInv, Stored
<1>1. UNCHANGED <<book, out>>
  BY DEF LiveBegins, ApplyBegins, Leaves
<1>2. BookOK' /\ OutOK' /\ BookIsServers' /\ out'.last.fetched /\ (Fetched' => book'.fetched)
  BY <1>1, FetchedApplies DEF BookOK, OutOK, BookIsServers
<1>3. ASSUME NEW p \in Refreshers \cup {"worker"}, NEW items \in Seq(Pubs), book.fetched,
             cb' = [cb EXCEPT ![p] = Handling(items)]
      PROVE  CallersOK' /\ CallersStored'
  <2>1. Handling(items) \in Caller /\ Handling(items).view.fetched
    BY FirstViews DEF Handling, Off, Caller, CallerPC
  <2>2. p \in Callers
    BY DEF Callers
  <2> QED
    BY <1>1, <1>3, <2>1, <2>2, CallerMoves
<1>4. cb' = cb => CallersOK' /\ CallersStored'
  BY <1>1 DEF CallersOK, CallersStored
<1>5. CASE LiveBegins
  <2>1. w'.live => s.ready
    BY <1>5 DEF LiveBegins, HandlePublication, TypeOK, WorkerOK
  <2>2. <<w.hand>> \in Seq(Pubs)
    <3>1. w.hand \in Pubs
      BY <1>5, Assumptions DEF LiveBegins, HandlePublication, TypeOK, WorkerOK, Pubs
    <3> QED
      BY <3>1
  <2>3. w'.live => book.fetched
    BY <2>1 DEF Fetched
  <2> QED
    BY <1>2, <1>3, <1>4, <1>5, <2>2, <2>3 DEF LiveBegins
<1>6. ASSUME NEW p \in Refreshers, ApplyBegins(p) PROVE BookInv'
  <2>1. r[p].pc \in {"fetched", "drain"}
    BY <1>6 DEF ApplyBegins, MergePending, DrainPending, At
  <2>2. book.fetched
    BY <2>1 DEF Fetched, Section
  <2>3. r'[p].buf \in Seq(Pubs)
    <3>1. \/ r' = [r EXCEPT ![p].pc = "nil"]
          \/ r' = [r EXCEPT ![p].pc = "apply", ![p].buf = s.pending]
          \/ r' = [r EXCEPT ![p].pc = "applyLive", ![p].buf = s.pending]
      BY <1>6 DEF ApplyBegins, MergePending, DrainPending, TakePending, Go
    <3>2. r \in [Refreshers -> Refresher] /\ r[p].buf \in Seq(Pubs) /\ s.pending \in Seq(Pubs)
      BY DEF TypeOK, RefreshersOK, Refresher, CoordOK, Coordinator
    <3>3. CASE r' = [r EXCEPT ![p].pc = "nil"]
      BY <3>2, <3>3 DEF Refresher
    <3>4. CASE r' = [r EXCEPT ![p].pc = "apply", ![p].buf = s.pending]
      BY <3>2, <3>4 DEF Refresher
    <3>5. CASE r' = [r EXCEPT ![p].pc = "applyLive", ![p].buf = s.pending]
      BY <3>2, <3>5 DEF Refresher
    <3> QED
      BY <3>1, <3>3, <3>4, <3>5
  <2> QED
    BY <1>2, <1>3, <1>4, <1>6, <2>2, <2>3 DEF ApplyBegins
<1>7. ASSUME NEW p \in Refreshers \cup {"worker"}, NEW o \in Outcomes, Leaves(p, o)
      PROVE  BookInv'
  <2>1. cb' = [cb EXCEPT ![p] = Off] /\ Off.pc = "off" /\ Off.view.fetched /\ p \in Callers
    BY <1>7, FirstViews DEF Leaves, Off, Callers
  <2> QED
    BY <1>1, <1>2, <2>1, FirstViews, CallerMoves
<1> QED
  BY <1>5, <1>6, <1>7

\* The user's SetBucket and Close, and the end of the updates.
LEMMA UserHolds ==
    ASSUME TypeOK, BookInv, SetBucket \/ SetBucketEmits \/ Close \/ DoneCloses \/ Consume
    PROVE  Held /\ CallersOK' /\ CallersStored' /\ OutOK' /\ out'.last.fetched
<1> USE DEF BookInv, Stored
<1>1. book' = book => Held
  BY DEF Held, BookOK, BookIsServers
<1>2. /\ out' = [out EXCEPT !.closed = TRUE] => OutOK' /\ out'.last.fetched
      /\ out' = out => OutOK' /\ out'.last.fetched
  BY DEF OutOK
<1>3. cb' = cb /\ book' = book => CallersOK' /\ CallersStored'
  BY DEF CallersOK, CallersStored
<1>4. ASSUME NEW pc \in {"ready", "emit", "off", "stop"}, Goto("api", pc),
             book.fetched => book'.fetched, pc = "emit" => book.fetched
      PROVE  CallersOK' /\ CallersStored'
  <2>1. "api" \in Callers /\ pc \in CallerPC
    BY DEF Callers, CallerPC
  <2>2. cb["api"].view \in View /\ cb["api"].view.fetched /\ cb["api"].final \in BOOLEAN
        /\ cb["api"] \in Caller
    BY <2>1 DEF CallersOK, Caller, CallersStored
  <2>3. cb' = [cb EXCEPT !["api"] = [cb["api"] EXCEPT !.pc = pc, !.view = cb["api"].view,
                                                     !.final = cb["api"].final]]
    BY <1>4, <2>1, <2>2 DEF Goto, CallersOK, Caller
  <2> QED
    BY <1>4, <2>1, <2>2, <2>3, CallerGoes
<1>5. CASE SetBucket
  <2>1. book' = [book EXCEPT !.bucket = book.bucket + 1]
    BY <1>5 DEF SetBucket
  <2>2. /\ book' \in Book /\ book'.avail = book.avail /\ book'.lv = book.lv
        /\ book'.seq = book.seq /\ book'.fetched = book.fetched
    <3>1. book \in Book /\ book.bucket + 1 \in Nat
      BY DEF BookOK, Book
    <3> QED
      BY <2>1, <3>1, Zenon DEF Book
  <2>3. Held
    BY <2>2 DEF Held, BookOK, BookIsServers
  <2> QED
    BY <1>2, <1>4, <1>5, <2>3 DEF SetBucket, Held
<1>6. CASE SetBucketEmits
  <2>1. MayRender => book.fetched
    BY DEF MayRender, Fetched
  <2> QED
    BY <1>1, <1>2, <1>4, <1>6, <2>1 DEF SetBucketEmits
<1>7. CASE Close
  BY <1>1, <1>2, <1>4, <1>7 DEF Close
<1>8. CASE DoneCloses
  BY <1>1, <1>2, <1>3, <1>8 DEF DoneCloses
<1>9. CASE Consume
  <2>1. out' = [out EXCEPT !.queue = Tail(out.queue)] /\ Tail(out.queue) \in Seq(View)
    BY <1>9 DEF Consume, OutOK
  <2>2. OutOK' /\ out'.last.fetched
    BY <2>1 DEF OutOK
  <2> QED
    BY <1>1, <1>3, <1>9, <2>2 DEF Consume
<1> QED
  BY <1>5, <1>6, <1>7, <1>8, <1>9

\* A fetch stores the answer, unless the call itself fails.
LEMMA FetchHolds ==
    ASSUME TypeOK, BookInv, NEW p \in Refreshers, FetchSnapshot(p)
    PROVE  BookInv'
<1> USE DEF BookInv, Stored
<1>1. CallersOK'
  BY DEF FetchSnapshot, CallersOK
<1>2. CASE StoreSnapshot
  <2>1. Held /\ book'.fetched /\ OutOK' /\ out'.last = out.last
    BY <1>2, StoreHolds
  <2>2. CallersStored'
    BY <2>1 DEF FetchSnapshot, CallersStored
  <2> QED
    BY <1>1, <2>1, <2>2 DEF Held
<1>3. CASE FetchFails(p) /\ UNCHANGED <<book, out>>
  <2>1. Fetched' => Fetched
    BY <1>3, FetchedQuiet
  <2> QED
    BY <1>3, <2>1 DEF FetchSnapshot, BookOK, OutOK, BookIsServers, CallersOK, CallersStored
<1> QED
  BY <1>2, <1>3 DEF FetchSnapshot

LEMMA TimerHolds ==
    ASSUME TypeOK, BookInv, NEW t \in timers, RecheckTimer(t)
    PROVE  BookInv'
<1> USE DEF BookInv, Stored
<1>1. UNCHANGED <<cb, out>> /\ (UserRequest \/ UNCHANGED vars)
  BY DEF RecheckTimer
<1>2. Fetched' => Fetched
  BY <1>1, FetchedQuiet
<1>3. Held
  <2>1. book' = book \/ book' = [book EXCEPT !.pending = FALSE]
    BY DEF RecheckTimer, Fired
  <2>2. /\ book' \in Book /\ book'.avail = book.avail /\ book'.lv = book.lv
        /\ book'.seq = book.seq /\ book'.fetched = book.fetched
    BY <2>1 DEF BookOK, Book
  <2> QED
    BY <2>2 DEF Held, BookOK, BookIsServers
<1>4. CallersOK' /\ CallersStored'
  BY <1>1, <1>3 DEF Held, CallersOK, CallersStored
<1> QED
  BY <1>1, <1>2, <1>3, <1>4 DEF Held, OutOK

\* The steps of the coordinator alone.
LEMMA QuietHolds ==
    ASSUME TypeOK, BookInv, Fetched' => Fetched, UNCHANGED bookVars
    PROVE  BookInv'
BY DEF BookInv, Stored, bookVars, BookOK, CallersOK, CallersStored, OutOK, BookIsServers

LEMMA BookSteps == TypeOK /\ BookInv /\ [BookNext]_allVars => BookInv'
<1> SUFFICES ASSUME TypeOK, BookInv, [BookNext]_allVars PROVE BookInv'
  OBVIOUS
<1>0. "start" \in Refreshers /\ "reconnect" \in Refreshers /\ "gap" \in Refreshers
  BY DEF Refreshers
<1>1. ASSUME Held, CallersOK', CallersStored', OutOK', out'.last.fetched, Fetched' => Fetched
      PROVE  BookInv'
  BY <1>1 DEF Held, BookInv, Stored
<1>2. ASSUME NEW p \in Refreshers \cup {"worker"}, InCallback(p) PROVE BookInv'
  <2>1. CASE HandleDelta(p) \/ RequestRefresh(p) \/ SnapshotView(p) \/ Recheck(p)
    <3>1. UserRequest \/ UNCHANGED vars
      BY <2>1 DEF HandleDelta, RequestRefresh, SnapshotView, Recheck
    <3>2. Fetched' => Fetched
      BY <3>1, FetchedQuiet
    <3>3. out.last.fetched
      BY DEF BookInv, Stored
    <3>4. Held /\ CallersOK' /\ CallersStored' /\ OutOK' /\ out'.last = out.last
      BY <2>1, CallbackHolds
    <3> QED
      BY <1>1, <3>2, <3>3, <3>4
  <2>2. CASE Returns(p) \/ Panics(p)
    <3>1. \E o \in Outcomes : Leaves(p, o)
      BY <2>2, BookAssumptions DEF Returns, Panics
    <3> QED
      BY <3>1, CallsHold
  <2> QED
    BY <1>2, <2>1, <2>2 DEF InCallback
<1>3. ASSUME NEW p \in Callers, Emitting(p) PROVE BookInv'
  <2>1. Fetched' => Fetched
    BY <1>3, EmittingIsNext, FetchedQuiet, StopsQuiet
  <2>2. Held /\ CallersOK' /\ CallersStored' /\ OutOK' /\ out'.last.fetched
    BY <1>3, EmittingHolds
  <2> QED
    BY <1>1, <2>1, <2>2
<1>4. CASE SetBucket \/ SetBucketEmits \/ Close \/ DoneCloses \/ Consume
  <2>1. UNCHANGED vars
    BY <1>4 DEF SetBucket, SetBucketEmits, Close, DoneCloses, Consume
  <2>2. Fetched' => Fetched
    BY <2>1, FetchedQuiet
  <2>3. Held /\ CallersOK' /\ CallersStored' /\ OutOK' /\ out'.last.fetched
    BY <1>4, UserHolds
  <2> QED
    BY <1>1, <2>2, <2>3
<1>5. CASE BookStart \/ BookRest \/ Quiet(SendRefreshDone \/ GapTop \/ GapRefreshed)
  BY <1>5, FetchedQuiet, QuietHolds DEF BookStart, BookRest, Rest, Quiet
<1>6. CASE BookWorker
  <2>1. CASE LiveBegins
    BY <2>1, CallsHold
  <2>2. CASE InCallback("worker") \/ Emitting("worker")
    BY <1>2, <1>3, <2>2 DEF Callers
  <2>3. CASE Quiet(RunTop \/ Subscribed \/ SubscribeFails \/ BackoffEnds \/ Receive
                   \/ DrainCancelled \/ DrainSubDone \/ ReconnectRefreshed \/ LiveEnds)
    BY <2>3, FetchedQuiet, QuietHolds DEF Quiet
  <2> QED
    BY <1>6, <2>1, <2>2, <2>3 DEF BookWorker
<1>7. CASE BookEnv
  <2>1. CASE Quiet(Start \/ ServerAccepts \/ Publish \/ SubEnds \/ ClientClose \/ CancelContext)
    BY <2>1, FetchedQuiet, QuietHolds DEF Quiet
  <2>2. ASSUME NEW p \in Users, Quiet(UserRefresh(p) \/ UserReturns(p)) PROVE BookInv'
    BY <2>2, FetchedQuiet, QuietHolds DEF Quiet
  <2> QED
    BY <1>4, <1>7, <2>1, <2>2 DEF BookEnv
<1>8. ASSUME NEW p \in Refreshers, BookRefresher(p) PROVE BookInv'
  <2>1. CASE Quiet(RefreshLock(p)) \/ Quiet(Retry(p))
    BY <2>1, FetchedQuiet, QuietHolds DEF Quiet
  <2>2. CASE FetchSnapshot(p)
    BY <2>2, FetchHolds
  <2>3. CASE ApplyBegins(p)
    BY <2>3, CallsHold
  <2>4. CASE InCallback(p) \/ Emitting(p)
    BY <1>2, <1>3, <2>4 DEF Callers
  <2> QED
    BY <1>8, <2>1, <2>2, <2>3, <2>4 DEF BookRefresher
<1>9. ASSUME NEW t \in timers, RecheckTimer(t) PROVE BookInv'
  BY <1>9, TimerHolds
<1>10. CASE Emitting("api")
  BY <1>3, <1>10 DEF Callers
<1>11. CASE UNCHANGED allVars
  BY <1>11, FetchedQuiet, QuietHolds DEF allVars
<1> QED
  BY <1>4, <1>5, <1>6, <1>7, <1>8, <1>9, <1>10, <1>11 DEF BookNext

LEMMA BookAlways == BookSpec => [](TypeOK /\ BookInv)
<1>1. BookInit => CoordInv /\ BookInv
  BY CoordBegins, BookBegins DEF BookInit
<1>2. CoordInv /\ BookInv /\ [BookNext]_allVars => BookInv'
  BY BookSteps DEF CoordInv
<1>3. CoordInv => TypeOK
  BY DEF CoordInv
<1> QED
  BY <1>1, <1>2, <1>3, BookCoordinates, PTL DEF BookSpec

\* handleDelta, resets, and FetchSnapshot's store into the shared book before
\* the coordinator has accepted it: an available book at sequence q has the
\* server's levels at q, for any book, any split of its events into publications
\* and any lag of the snapshots.
THEOREM BookExact == BookSpec => []BookIsServers
<1>1. BookInv => BookIsServers
  BY DEF BookInv
<1> QED
  BY <1>1, BookAlways, PTL

\* And whichever goroutine emits, no view of the book before its first snapshot
\* enters the consumer's channel, whenever SetBucket is called.
THEOREM ViewsAreStored == BookSpec => []NoViewBeforeSnapshot
<1>1. BookInv => NoViewBeforeSnapshot
  BY DEF BookInv, Stored, NoViewBeforeSnapshot
<1> QED
  BY <1>1, BookAlways, PTL

-----------------------------------------------------------------------------
(* A bucket, in the integers of the code (LocalBook).                      *)

LEMMA Quotients ==
    ASSUME NEW m \in Nat \ {0}, NEW q \in Nat, NEW e \in Nat, e < m
    PROVE  (m * q + e) \div m = q /\ ((m * q + e) % m) = e
OBVIOUS

LEMMA Divides ==
    ASSUME NEW x \in Nat, NEW m \in Nat \ {0}
    PROVE  /\ x \div m \in Nat /\ (x % m) \in Nat /\ (x % m) < m
           /\ x = m * (x \div m) + (x % m) /\ m * (x \div m) <= x
OBVIOUS

LEMMA Grows ==
    ASSUME NEW m \in Nat \ {0}, NEW q \in Nat
    PROVE  m * q \in Nat /\ m * (q + 1) = m * q + m /\ m * q = q * m
OBVIOUS

\* What an int can hold is held, and what exceeds it by less than its range is below 0.
LEMMA WrapIs ==
    ASSUME NEW x \in 0..(2 * MaxInt)
    PROVE  Wrap(x) = IF x <= MaxInt THEN x ELSE x - 2 * Half
<1>1. Half \in Nat \ {0, 1} /\ MaxInt = Half - 1
  BY LocalBookAssumptions DEF MaxInt
<1>2. CASE x <= MaxInt
  <2>1. x + Half \in Nat /\ x + Half < 2 * Half
    BY <1>1, <1>2
  <2>2. (((2 * Half) * 0 + (x + Half)) % (2 * Half)) = x + Half
    BY <1>1, <2>1, Quotients
  <2>3. ((x + Half) % (2 * Half)) = x + Half
    BY <1>1, <2>2
  <2> QED
    BY <1>1, <1>2, <2>3 DEF Wrap
<1>3. CASE x > MaxInt
  <2>1. x - Half \in Nat /\ x - Half < 2 * Half /\ (2 * Half) * 1 + (x - Half) = x + Half
    BY <1>1, <1>3
  <2>2. (((2 * Half) * 1 + (x - Half)) % (2 * Half)) = x - Half
    BY <1>1, <2>1, Quotients
  <2>3. ((x + Half) % (2 * Half)) = x - Half
    BY <2>1, <2>2
  <2> QED
    BY <1>1, <1>3, <2>3 DEF Wrap
<1> QED
  BY <1>1, <1>2, <1>3

LEMMA SumChecked ==
    ASSUME NEW a \in 0..MaxInt, NEW b \in 1..MaxInt
    PROVE  CheckedAdd(a, b) = IF a + b <= MaxInt THEN Gives(a + b) ELSE Refused
<1>1. Half \in Nat \ {0, 1} /\ MaxInt = Half - 1
  BY LocalBookAssumptions DEF MaxInt
<1> DEFINE c == a + b
<1>2. c \in 0..(2 * MaxInt)
  BY <1>1
<1>3. Wrap(c) = IF c <= MaxInt THEN c ELSE c - 2 * Half
  <2> HIDE DEF c
  <2> QED
    BY <1>2, WrapIs
<1>4. b > 0 /\ ~(b < 0) /\ a \in Nat /\ b \in Nat /\ b < 2 * Half
  BY <1>1
<1>5. CASE a + b <= MaxInt
  <2>1. Wrap(a + b) = a + b /\ ~(a + b < a)
    BY <1>3, <1>4, <1>5
  <2> QED
    BY <1>4, <1>5, <2>1 DEF CheckedAdd
<1>6. CASE ~(a + b <= MaxInt)
  <2>1. Wrap(a + b) < a
    BY <1>1, <1>3, <1>4, <1>6
  <2> QED
    BY <1>4, <1>6, <2>1 DEF CheckedAdd
<1> QED
  BY <1>5, <1>6

\* A product that an int can hold is not refused.
LEMMA ProductKept ==
    ASSUME NEW a \in Nat, NEW b \in Nat \ {0}, a * b <= MaxInt
    PROVE  CheckedMul(a, b) = Gives(a * b)
<1>1. Half \in Nat \ {0, 1} /\ MaxInt = Half - 1 /\ a * b \in Nat
  BY LocalBookAssumptions DEF MaxInt
<1>2. CASE a = 0
  BY <1>2 DEF CheckedMul
<1>3. CASE a # 0
  <2>1. Wrap(a * b) = a * b
    <3>1. a * b \in 0..(2 * MaxInt)
      BY <1>1
    <3> QED
      BY <3>1, WrapIs
  <2>2. Quotient(a * b, a) = b
    <3>1. (a * b + 0) \div a = b
      BY <1>3, Quotients
    <3>2. ~(a * b < 0) /\ a * b + 0 = a * b
      BY <1>1
    <3> QED
      BY <3>1, <3>2 DEF Quotient
  <2> QED
    BY <1>3, <2>1, <2>2 DEF CheckedMul
<1> QED
  BY <1>2, <1>3

\* A price's bucket is exact or, beyond the integers, refused; a bid's is not above
\* the price and an ask's not below.
LEMMA BucketIs ==
    ASSUME NEW p \in 1..MaxInt, NEW ticks \in 1..MaxInt, NEW asks \in BOOLEAN
    PROVE  LET b == ExactBucket(p, ticks, asks) IN
           /\ b \in Nat /\ IF asks THEN p <= b ELSE b <= p
           /\ BucketOf(p, ticks, asks) = IF b <= MaxInt THEN Gives(b) ELSE Refused
<1> DEFINE q == p \div ticks
           e == p % ticks
           b == ExactBucket(p, ticks, asks)
<1>1. Half \in Nat \ {0, 1} /\ MaxInt = Half - 1 /\ ticks \in Nat \ {0} /\ p \in Nat \ {0}
  BY LocalBookAssumptions DEF MaxInt
<1>2. q \in Nat /\ e \in Nat /\ e < ticks /\ p = ticks * q + e /\ ticks * q <= p
  BY <1>1, Divides
<1>3. ticks * q \in Nat /\ ticks * (q + 1) = ticks * q + ticks /\ ticks * q = q * ticks
  <2> HIDE DEF q
  <2> QED
    BY <1>1, <1>2, Grows
<1>4. CheckedMul(q, ticks) = Gives(ticks * q)
  <2>1. q * ticks <= MaxInt
    BY <1>1, <1>2, <1>3
  <2> HIDE DEF q
  <2> QED
    BY <1>1, <1>2, <1>3, <2>1, ProductKept
<1>5. BucketOf(p, ticks, asks) = IF asks /\ e # 0 THEN CheckedAdd(ticks * q, ticks)
                                 ELSE Gives(ticks * q)
  BY <1>4 DEF BucketOf, Gives
<1>6. b = ticks * (IF asks /\ e # 0 THEN q + 1 ELSE q)
  <2>1. ~asks => b = ticks * q
    BY <1>1 DEF ExactBucket
  <2>2. asks => b = ticks * ((p + ticks - 1) \div ticks)
    BY <1>1 DEF ExactBucket
  <2> DEFINE up == p + ticks - 1
  <2>3. e = 0 => up \div ticks = q
    <3>1. SUFFICES ASSUME e = 0 PROVE up \div ticks = q
      OBVIOUS
    <3>2. ticks - 1 \in Nat /\ ticks - 1 < ticks /\ ticks * q + (ticks - 1) = up
      BY <1>1, <1>2, <1>3, <3>1
    <3> HIDE DEF q, e, up
    <3> QED
      BY <1>1, <1>2, <3>2, Quotients
  <2>4. e # 0 => up \div ticks = q + 1
    <3>1. SUFFICES ASSUME e # 0 PROVE up \div ticks = q + 1
      OBVIOUS
    <3>2. e - 1 \in Nat /\ e - 1 < ticks /\ ticks * (q + 1) + (e - 1) = up /\ q + 1 \in Nat
      BY <1>1, <1>2, <1>3, <3>1
    <3> HIDE DEF q, e, up
    <3> QED
      BY <1>1, <1>2, <3>2, Quotients
  <2> HIDE DEF q, e, b
  <2> QED
    BY <2>1, <2>2, <2>3, <2>4
<1>7. CASE asks /\ e # 0
  <2>1. b = ticks * q + ticks /\ BucketOf(p, ticks, asks) = CheckedAdd(ticks * q, ticks)
    BY <1>3, <1>5, <1>6, <1>7
  <2>2. ticks * q \in 0..MaxInt
    BY <1>1, <1>2, <1>3
  <2>3. CheckedAdd(ticks * q, ticks) = IF ticks * q + ticks <= MaxInt
                                       THEN Gives(ticks * q + ticks) ELSE Refused
    <3> HIDE DEF q
    <3> QED
      BY <2>2, SumChecked
  <2> HIDE DEF q, e, b
  <2>4. b \in Nat /\ p <= b
    BY <1>1, <1>2, <1>3, <2>1
  <2> QED
    BY <1>7, <2>1, <2>3, <2>4 DEF b
<1>8. CASE ~(asks /\ e # 0)
  <2>1. b = ticks * q /\ BucketOf(p, ticks, asks) = Gives(ticks * q)
    BY <1>5, <1>6, <1>8
  <2> HIDE DEF q, e, b
  <2>2. b \in Nat /\ b <= MaxInt /\ b <= p /\ (e = 0 => p = b)
    BY <1>1, <1>2, <1>3, <2>1
  <2> QED
    BY <1>8, <2>1, <2>2 DEF b
<1> QED
  BY <1>7, <1>8
-----------------------------------------------------------------------------
(* Sums over a finite set.  A family of its subsets has a least one, which *)
(* is how what a sum is for one element more is carried to every set.      *)

Family(F, All) == IsFiniteSet(All) /\ F \subseteq SUBSET All /\ F # {}

LEMMA Minimal ==
    ASSUME NEW All, NEW F, Family(F, All)
    PROVE  \E A \in F : \A B \in F : B \subseteq A => B = A
<1>0. IsFiniteSet(All) /\ F \subseteq SUBSET All /\ F # {}
  BY DEF Family
<1> DEFINE N == {Cardinality(A) : A \in F}
<1>1. \A A \in F : IsFiniteSet(A) /\ Cardinality(A) \in Nat
  BY <1>0, FS_Subset, FS_CardinalityType
<1>2. N \in SUBSET Nat /\ N # {}
  BY <1>0, <1>1
<1>3. PICK n \in N : \A m \in N : n <= m
  BY <1>2, LeastOf
<1>4. PICK A \in F : n = Cardinality(A)
  BY <1>3
<1>5. ASSUME NEW B \in F, B \subseteq A PROVE B = A
  <2>1. Cardinality(A) <= Cardinality(B) /\ Cardinality(B) <= Cardinality(A)
    BY <1>1, <1>3, <1>4, <1>5, FS_Subset
  <2> QED
    BY <1>1, <1>5, <2>1, FS_Subset
<1> QED
  BY <1>5

Sum(weight, g, A) == IF A = {} THEN 0
                ELSE LET x == CHOOSE x \in A : TRUE IN weight[x] + g[A \ {x}]
Sums(All, weight, g) == g = [A \in SUBSET All |-> Sum(weight, g, A)]

\* A function that sums exists: one right up to every number of elements does.
LEMMA SumsExist ==
    ASSUME NEW All, IsFiniteSet(All), NEW weight
    PROVE  \E g : Sums(All, weight, g)
<1> DEFINE Upto(n, h) == \A A \in SUBSET All : Cardinality(A) <= n => h[A] = Sum(weight, h, A)
           N == {n \in Nat : ~ \E h : Upto(n, h)}
           Less(A) == A \ {CHOOSE x \in A : TRUE}
<1>1. ASSUME NEW A \in SUBSET All
      PROVE  /\ IsFiniteSet(A) /\ Cardinality(A) \in Nat /\ Cardinality(A) <= Cardinality(All)
             /\ A # {} => Less(A) \in SUBSET All /\ Cardinality(Less(A)) = Cardinality(A) - 1
  <2>1. IsFiniteSet(A)
    BY FS_Subset
  <2>2. A # {} => (CHOOSE x \in A : TRUE) \in A
    OBVIOUS
  <2> QED
    BY <2>1, <2>2, FS_Subset, FS_CardinalityType, FS_RemoveElement
<1>2. \A h, f, A : (A # {} => h[Less(A)] = f[Less(A)]) => Sum(weight, h, A) = Sum(weight, f, A)
  BY DEF Sum
<1> HIDE DEF Less
<1>3. N = {}
  <2>1. SUFFICES ASSUME N # {} PROVE FALSE
    OBVIOUS
  <2>2. PICK n \in N : \A m \in N : n <= m
    <3>1. N \in SUBSET Nat
      OBVIOUS
    <3> HIDE DEF N
    <3> QED
      BY <2>1, <3>1, LeastOf
  <2>3. n # 0
    <3>1. SUFFICES \E h : Upto(0, h)
      BY <2>2
    <3> DEFINE h0 == [A \in SUBSET All |-> 0]
    <3>2. ASSUME NEW A \in SUBSET All, Cardinality(A) <= 0 PROVE h0[A] = Sum(weight, h0, A)
      <4>1. Cardinality(A) = 0 /\ IsFiniteSet(A)
        BY <1>1, <3>2
      <4>2. A = {}
        BY <4>1, FS_EmptySet
      <4> QED
        BY <4>2 DEF Sum
    <3> HIDE DEF h0
    <3>3. Upto(0, h0)
      BY <3>2
    <3> QED
      BY <3>3
  <2>4. n \in Nat /\ n - 1 \in Nat /\ n - 1 \notin N
    BY <2>2, <2>3
  <2>5. PICK h : Upto(n - 1, h)
    BY <2>4
  <2> DEFINE h1 == [A \in SUBSET All |-> IF Cardinality(A) <= n - 1 THEN h[A] ELSE Sum(weight, h, A)]
  <2>6. ASSUME NEW A \in SUBSET All, Cardinality(A) <= n PROVE h1[A] = Sum(weight, h1, A)
    <3>1. A # {} => h1[Less(A)] = h[Less(A)]
      BY <1>1, <2>4, <2>6
    <3>2. h1[A] = Sum(weight, h, A)
      BY <2>5
    <3> HIDE DEF h1
    <3> QED
      BY <1>2, <3>1, <3>2
  <2> HIDE DEF h1
  <2>7. Upto(n, h1)
    BY <2>6
  <2> QED
    BY <2>2, <2>7
<1>4. PICK h : Upto(Cardinality(All), h)
  <2>1. Cardinality(All) \in Nat
    BY FS_CardinalityType
  <2> QED
    BY <1>3, <2>1
<1> DEFINE g == [A \in SUBSET All |-> h[A]]
<1>5. ASSUME NEW A \in SUBSET All PROVE h[A] = Sum(weight, g, A)
  <2>1. h[A] = Sum(weight, h, A)
    BY <1>1, <1>4
  <2>2. A # {} => g[Less(A)] = h[Less(A)]
    BY <1>1
  <2> HIDE DEF g
  <2> QED
    BY <1>2, <2>1, <2>2
<1>6. Sums(All, weight, g)
  <2>1. g = [A \in SUBSET All |-> h[A]]
    OBVIOUS
  <2> HIDE DEF g
  <2> QED
    BY <1>5, <2>1 DEF Sums
<1> QED
  BY <1>6

\* A sum is one of its weights and the sum of the rest, whichever it is.
Adds(All, weight, g) ==
    /\ g[{}] = 0
    /\ \A A \in SUBSET All : g[A] \in Nat
    /\ \A A \in SUBSET All : \A a \in A : g[A] = g[A \ {a}] + weight[a]

LEMMA SumOne ==
    ASSUME NEW All, IsFiniteSet(All), NEW weight \in [All -> Nat], NEW g, Sums(All, weight, g)
    PROVE  Adds(All, weight, g)
<1>1. \A A \in SUBSET All : g[A] = Sum(weight, g, A)
  BY DEF Sums
<1>2. g[{}] = 0
  BY <1>1 DEF Sum
<1>3. \A A \in SUBSET All : A # {} => \E x \in A : g[A] = weight[x] + g[A \ {x}]
  BY <1>1 DEF Sum
<1>4. \A A \in SUBSET All : g[A] \in Nat
  <2> DEFINE F == {A \in SUBSET All : g[A] \notin Nat}
  <2>1. SUFFICES ASSUME F # {} PROVE FALSE
    OBVIOUS
  <2>2. PICK A \in F : \A B \in F : B \subseteq A => B = A
    <3>1. Family(F, All)
      BY <2>1 DEF Family
    <3> HIDE DEF F
    <3> QED
      BY <3>1, Minimal
  <2>3. A # {}
    <3>1. g[A] \notin Nat
      OBVIOUS
    <3> QED
      BY <1>2, <3>1
  <2>4. PICK x \in A : g[A] = weight[x] + g[A \ {x}]
    BY <1>3, <2>3
  <2>5. g[A \ {x}] \in Nat
    BY <2>2
  <2>6. weight[x] \in Nat
    OBVIOUS
  <2> QED
    BY <2>4, <2>5, <2>6
<1>5. \A A \in SUBSET All : \A a \in A : g[A] = g[A \ {a}] + weight[a]
  <2> DEFINE F == {A \in SUBSET All : \E a \in A : g[A] # g[A \ {a}] + weight[a]}
  <2>1. SUFFICES ASSUME F # {} PROVE FALSE
    OBVIOUS
  <2>2. PICK A \in F : \A B \in F : B \subseteq A => B = A
    <3>1. Family(F, All)
      BY <2>1 DEF Family
    <3> HIDE DEF F
    <3> QED
      BY <3>1, Minimal
  <2>3. PICK a \in A : g[A] # g[A \ {a}] + weight[a]
    OBVIOUS
  <2>4. PICK x \in A : g[A] = weight[x] + g[A \ {x}]
    BY <1>3, <2>3
  <2>5. x # a
    <3>1. g[A \ {a}] \in Nat /\ weight[a] \in Nat
      BY <1>4
    <3>2. weight[a] + g[A \ {a}] = g[A \ {a}] + weight[a]
      BY <3>1
    <3>3. ASSUME x = a PROVE g[A] = weight[a] + g[A \ {a}]
      BY <2>4, <3>3
    <3> HIDE DEF F
    <3> QED
      BY <2>3, <3>2, <3>3
  <2>6. g[A \ {x}] = g[(A \ {x}) \ {a}] + weight[a]
    <3>1. A \ {x} \in SUBSET All /\ A \ {x} \notin F
      BY <2>2
    <3> QED
      BY <2>5, <3>1
  <2>7. g[A \ {a}] = g[(A \ {a}) \ {x}] + weight[x]
    <3>1. A \ {a} \in SUBSET All /\ A \ {a} \notin F
      BY <2>2
    <3> QED
      BY <2>5, <3>1
  <2>8. (A \ {a}) \ {x} = (A \ {x}) \ {a}
    OBVIOUS
  <2> DEFINE rest == g[(A \ {x}) \ {a}]
  <2>9. weight[a] \in Nat /\ weight[x] \in Nat /\ rest \in Nat
    BY <1>4
  <2>10. g[A] = weight[x] + (rest + weight[a])
    BY <2>4, <2>6
  <2>11. g[A \ {a}] = rest + weight[x]
    BY <2>7, <2>8
  <2> HIDE DEF F, rest
  <2> QED
    BY <2>3, <2>9, <2>10, <2>11
<1> QED
  BY <1>2, <1>4, <1>5 DEF Adds

Total(side, A) == SumFunctionOnSet(side, A)

\* The total of some prices is the quantity of one of them and the total of the rest.
LEMMA TotalIs ==
    ASSUME NEW All, IsFiniteSet(All), NEW side \in [All -> Nat]
    PROVE  /\ Total(side, {}) = 0
           /\ \A A \in SUBSET All : Total(side, A) \in Nat
           /\ \A A \in SUBSET All : \A a \in A : Total(side, A) = Total(side, A \ {a}) + side[a]
<1> DEFINE Iter(A, g) == g = [B \in SUBSET A |->
                                IF B = {} THEN 0
                                ELSE LET x == CHOOSE x \in B : TRUE
                                     IN  side[x] + g[B \ {x}]]
           G(A) == CHOOSE g : Iter(A, g)
<1>1. PICK g : Sums(All, side, g)
  BY SumsExist
<1>2. Adds(All, side, g)
  BY <1>1, SumOne
<1>3. ASSUME NEW A \in SUBSET All PROVE Total(side, A) = g[A]
  <2>1. IsFiniteSet(A)
    BY FS_Subset
  <2>2. \A h : Iter(A, h) <=> Sums(A, side, h)
    BY DEF Sums, Sum
  <2>3. Total(side, A) = G(A)[A]
    BY DEF Total, SumFunctionOnSet, FoldFunctionOnSet, MapThenFoldSet
  <2>4. Iter(A, G(A))
    <3>1. PICK h : Sums(A, side, h)
      BY <2>1, SumsExist
    <3> HIDE DEF Iter
    <3> QED
      BY <2>2, <3>1
  <2> DEFINE h == G(A)
  <2>5. Sums(A, side, h)
    BY <2>2, <2>4
  <2> HIDE DEF Iter, G, h
  <2> DEFINE F == {B \in SUBSET A : h[B] # g[B]}
  <2>6. F = {}
    <3>1. SUFFICES ASSUME F # {} PROVE FALSE
      OBVIOUS
    <3>2. PICK B \in F : \A E \in F : E \subseteq B => E = B
      <4>1. Family(F, A)
        BY <2>1, <3>1 DEF Family
      <4> HIDE DEF F
      <4> QED
        BY <4>1, Minimal
    <3>3. B \in SUBSET A /\ B \in SUBSET All /\ h[B] # g[B]
      OBVIOUS
    <3>4. h[B] = Sum(side, h, B) /\ g[B] = Sum(side, g, B)
      <4> HIDE DEF F
      <4> QED
        BY <1>1, <2>5, <3>3 DEF Sums
    <3>5. CASE B = {}
      BY <3>3, <3>4, <3>5 DEF Sum
    <3>6. CASE B # {}
      <4> DEFINE x == CHOOSE x \in B : TRUE
      <4>1. x \in B
        BY <3>6
      <4>2. h[B \ {x}] = g[B \ {x}]
        <5>1. B \ {x} \in SUBSET A /\ B \ {x} \subseteq B /\ B \ {x} # B
          BY <3>3, <4>1
        <5> QED
          BY <3>2, <5>1
      <4> QED
        BY <3>3, <3>4, <3>6, <4>2 DEF Sum
    <3> QED
      BY <3>5, <3>6
  <2> QED
    BY <2>3, <2>6 DEF h
<1>4. g[{}] = 0 /\ \A A \in SUBSET All : g[A] \in Nat
  BY <1>2 DEF Adds
<1>5. \A A \in SUBSET All : \A a \in A : g[A] = g[A \ {a}] + side[a]
  BY <1>2 DEF Adds
<1>6. \A A \in SUBSET All : \A a \in A : A \ {a} \in SUBSET All
  OBVIOUS
<1>7. {} \in SUBSET All
  OBVIOUS
<1> HIDE DEF Iter, G
<1> QED
  BY <1>3, <1>4, <1>5, <1>6, <1>7
-----------------------------------------------------------------------------
(* Bucketing a side.  After some of its prices the book has their buckets, *)
(* or was refused because these do not fit an int.                         *)

Into(ticks, asks, S, b) == {p \in S : ExactBucket(p, ticks, asks) = b}
Part(side, ticks, asks, S) ==
    [b \in {ExactBucket(p, ticks, asks) : p \in S} |-> Total(side, Into(ticks, asks, S, b))]
FitsInt(buckets) == \A b \in DOMAIN buckets : b <= MaxInt /\ buckets[b] <= MaxInt
Checked(buckets) == IF FitsInt(buckets) THEN Gives(buckets) ELSE Refused

QtyAt(buckets, b) == IF b \in DOMAIN buckets THEN buckets[b] ELSE 0
Grown(buckets, b, q) ==
    [c \in DOMAIN buckets \cup {b} |-> IF c = b THEN QtyAt(buckets, b) + q ELSE buckets[c]]

\* One price more adds its quantity to its bucket and leaves the others alone.
LEMMA PartGrows ==
    ASSUME NEW P \in SUBSET (1..MaxInt), NEW side \in [P -> 1..MaxInt],
           NEW ticks \in 1..MaxInt, NEW asks \in BOOLEAN,
           NEW S \in SUBSET P, NEW p \in P, p \notin S
    PROVE  /\ \A c : QtyAt(Part(side, ticks, asks, S), c) \in Nat
           /\ Part(side, ticks, asks, S \cup {p}) =
                 Grown(Part(side, ticks, asks, S), ExactBucket(p, ticks, asks), side[p])
<1> DEFINE old  == Part(side, ticks, asks, S)
           b    == ExactBucket(p, ticks, asks)
           held == QtyAt(old, b)
           T    == S \cup {p}
           I(U, c) == Into(ticks, asks, U, c)
<1>0. IsFiniteSet(P) /\ side \in [P -> Nat]
  <2>1. MaxInt \in Nat
    BY LocalBookAssumptions DEF MaxInt
  <2>2. IsFiniteSet(1..MaxInt)
    BY <2>1, FS_Interval
  <2>3. IsFiniteSet(P)
    BY <2>2, FS_Subset
  <2>4. side \in [P -> Nat]
    BY <2>1
  <2> QED
    BY <2>3, <2>4
<1>1. /\ Total(side, {}) = 0
      /\ \A A \in SUBSET P : Total(side, A) \in Nat
      /\ \A A \in SUBSET P : \A a \in A : Total(side, A) = Total(side, A \ {a}) + side[a]
  BY <1>0, TotalIs
<1>2. \A c : I(S, c) \in SUBSET P /\ I(T, c) \in SUBSET P
  BY DEF Into
<1>3. \A c : c # b => I(T, c) = I(S, c)
  BY DEF Into
<1>4. p \in I(T, b) /\ I(T, b) \ {p} = I(S, b)
  BY DEF Into
<1>5. DOMAIN old = {ExactBucket(x, ticks, asks) : x \in S}
      /\ \A c \in DOMAIN old : old[c] = Total(side, I(S, c))
  BY DEF Part
<1>6. b \notin DOMAIN old => I(S, b) = {}
  BY <1>5 DEF Into
<1>7. held = Total(side, I(S, b))
  <2> HIDE DEF b, old, I
  <2> QED
    BY <1>1, <1>5, <1>6 DEF QtyAt
<1>8. Total(side, I(T, b)) = held + side[p]
  <2> HIDE DEF I
  <2> QED
    BY <1>1, <1>2, <1>4, <1>7
<1>9. {ExactBucket(x, ticks, asks) : x \in T} = DOMAIN old \cup {b}
  BY <1>5
<1>10. Part(side, ticks, asks, T) = [c \in DOMAIN old \cup {b} |-> Total(side, I(T, c))]
  <2>1. Part(side, ticks, asks, T) =
            [c \in {ExactBucket(x, ticks, asks) : x \in T} |-> Total(side, I(T, c))]
    BY DEF Part
  <2> HIDE DEF old, b, I, T, held
  <2> QED
    BY <1>9, <2>1
<1>11. \A c \in DOMAIN old \cup {b} :
          Total(side, I(T, c)) = IF c = b THEN held + side[p] ELSE old[c]
  <2> HIDE DEF old, b, I, T, held
  <2> QED
    BY <1>3, <1>5, <1>8
<1>12. \A c : QtyAt(old, c) \in Nat
  <2> HIDE DEF old, I
  <2> QED
    BY <1>1, <1>2, <1>5 DEF QtyAt
<1>13. Part(side, ticks, asks, T) = Grown(old, b, side[p])
  <2> HIDE DEF old, b, I, T
  <2> QED
    BY <1>10, <1>11 DEF Grown
<1> QED
  BY <1>12, <1>13

LEMMA LevelAdded ==
    ASSUME NEW P \in SUBSET (1..MaxInt), NEW side \in [P -> 1..MaxInt],
           NEW ticks \in 1..MaxInt, NEW asks \in BOOLEAN,
           NEW S \in SUBSET P, NEW p \in P, p \notin S
    PROVE  AddLevel(side, ticks, asks, Checked(Part(side, ticks, asks, S)), p) =
              Checked(Part(side, ticks, asks, S \cup {p}))
<1> DEFINE old  == Part(side, ticks, asks, S)
           new  == Part(side, ticks, asks, S \cup {p})
           b    == ExactBucket(p, ticks, asks)
           held == QtyAt(old, b)
           kept == Checked(old)
           add  == AddLevel(side, ticks, asks, kept, p)
<1>1. MaxInt \in Nat /\ p \in 1..MaxInt /\ side[p] \in 1..MaxInt
  BY LocalBookAssumptions DEF MaxInt
<1>2. b \in Nat /\ BucketOf(p, ticks, asks) = IF b <= MaxInt THEN Gives(b) ELSE Refused
  BY <1>1, BucketIs
<1>3. /\ held \in Nat /\ \A c \in DOMAIN old : old[c] \in Nat
      /\ new = [c \in DOMAIN old \cup {b} |-> IF c = b THEN held + side[p] ELSE old[c]]
  <2>1. \A c : QtyAt(old, c) \in Nat
    BY PartGrows
  <2>2. new = Grown(old, b, side[p])
    BY PartGrows
  <2> HIDE DEF old, new, b
  <2>3. \A c \in DOMAIN old : old[c] \in Nat
    BY <2>1 DEF QtyAt
  <2> QED
    BY <2>1, <2>2, <2>3 DEF Grown
<1>4. held \in 0..MaxInt =>
        CheckedAdd(held, side[p]) = IF held + side[p] <= MaxInt THEN Gives(held + side[p])
                                    ELSE Refused
  <2> HIDE DEF held
  <2> QED
    BY <1>1, SumChecked
<1> HIDE DEF old, new, b
<1>5. CASE ~FitsInt(old)
  <2>1. ~FitsInt(new)
    <3>1. PICK c \in DOMAIN old : ~(c <= MaxInt /\ old[c] <= MaxInt)
      BY <1>5 DEF FitsInt
    <3>2. c \in DOMAIN new
      BY <1>3
    <3>3. new[c] = old[c] \/ (c = b /\ new[c] = old[c] + side[p])
      <4>1. c # b => new[c] = old[c]
        BY <1>3, <3>1
      <4>2. c = b => new[c] = held + side[p] /\ held = old[c]
        BY <1>3, <3>1 DEF QtyAt
      <4> HIDE DEF held
      <4> QED
        BY <4>1, <4>2
    <3>4. old[c] \in Nat
      BY <1>3, <3>1
    <3>5. ~(c <= MaxInt /\ new[c] <= MaxInt)
      BY <1>1, <1>2, <3>1, <3>3, <3>4
    <3> QED
      BY <3>2, <3>5 DEF FitsInt
  <2>2. kept = Refused /\ Checked(new) = Refused
    BY <1>5, <2>1 DEF Checked
  <2>3. add = Refused
    BY <2>2 DEF AddLevel, Refused
  <2> QED
    BY <2>2, <2>3 DEF old, new
<1>6. CASE FitsInt(old) /\ b > MaxInt
  <2>1. ~FitsInt(new)
    BY <1>1, <1>2, <1>3, <1>6 DEF FitsInt
  <2>2. BucketOf(p, ticks, asks) = Refused
    BY <1>1, <1>2, <1>6
  <2>3. add = Refused
    BY <2>2 DEF AddLevel, Refused
  <2> QED
    BY <2>1, <2>3 DEF old, new, Checked
<1>7. CASE FitsInt(old) /\ b <= MaxInt
  <2>1. BucketOf(p, ticks, asks) = Gives(b) /\ kept = Gives(old)
    BY <1>2, <1>7 DEF Checked
  <2>2. held <= MaxInt
    BY <1>1, <1>7 DEF FitsInt, QtyAt
  <2>3. held \in 0..MaxInt
    <3> HIDE DEF held
    <3> QED
      BY <1>1, <1>3, <2>2
  <2> DEFINE sum == CheckedAdd(held, side[p])
  <2>4. add = IF ~sum.ok THEN Refused
              ELSE Gives([c \in DOMAIN old \cup {b} |-> IF c = b THEN sum.v ELSE old[c]])
    BY <2>1 DEF AddLevel, Gives, QtyAt
  <2>5. FitsInt(new) <=> held + side[p] <= MaxInt
    <3> HIDE DEF held
    <3>1. FitsInt(new) => held + side[p] <= MaxInt
      BY <1>3 DEF FitsInt
    <3>2. held + side[p] <= MaxInt => FitsInt(new)
      BY <1>3, <1>7 DEF FitsInt
    <3> QED
      BY <3>1, <3>2
  <2>6. CASE held + side[p] <= MaxInt
    <3>1. sum = Gives(held + side[p])
      BY <1>4, <2>3, <2>6
    <3>2. add = Gives(new)
      <4>1. sum.ok /\ sum.v = held + side[p]
        BY <3>1 DEF Gives
      <4> HIDE DEF held, add, sum
      <4> QED
        BY <1>3, <2>4, <4>1
    <3> QED
      BY <2>5, <2>6, <3>2 DEF Checked, old, new
  <2>7. CASE ~(held + side[p] <= MaxInt)
    <3>1. sum = Refused
      BY <1>4, <2>3, <2>7
    <3>2. add = Refused
      <4> HIDE DEF held, add
      <4> QED
        BY <2>4, <3>1 DEF Refused
    <3> QED
      BY <2>5, <2>7, <3>2 DEF Checked, old, new
  <2> QED
    BY <2>6, <2>7
<1> QED
  BY <1>1, <1>2, <1>5, <1>6, <1>7

\* The order of a visit does not matter: after each price the book is what the
\* prices so far make of it.
LEMMA SideBucketed ==
    ASSUME NEW P \in SUBSET (1..MaxInt), NEW side \in [P -> 1..MaxInt],
           NEW ticks \in 1..MaxInt, NEW asks \in BOOLEAN,
           NEW visit \in Bijection(1..Cardinality(P), P)
    PROVE  BucketSide(visit, side, ticks, asks) = Checked(Exact(side, ticks, asks))
<1> DEFINE n == Len(visit)
           Step(books, k) == IF k = 0 THEN Gives([b \in {} |-> 0])
                             ELSE AddLevel(side, ticks, asks, books[k - 1], visit[k])
           Books(books) == books = [k \in 0..n |-> Step(books, k)]
           Visited(k) == {visit[i] : i \in 1..k}
           right == [k \in 0..n |-> Checked(Part(side, ticks, asks, Visited(k)))]
           run == CHOOSE books : Books(books)
<1>1. /\ MaxInt \in Nat /\ n \in Nat /\ visit \in [1..n -> P]
      /\ \A i, j \in 1..n : visit[i] = visit[j] => i = j
      /\ \A p \in P : \E i \in 1..n : visit[i] = p
  <2>1. MaxInt \in Nat
    BY LocalBookAssumptions DEF MaxInt
  <2>2. IsFiniteSet(1..MaxInt)
    BY <2>1, FS_Interval
  <2>3. Cardinality(P) \in Nat
    BY <2>2, FS_Subset, FS_CardinalityType
  <2>4. visit \in [1..Cardinality(P) -> P]
    BY DEF Bijection, Injection
  <2>5. n = Cardinality(P)
    BY <2>3, <2>4
  <2> HIDE DEF n
  <2> QED
    BY <2>1, <2>3, <2>4, <2>5 DEF Bijection, Injection, Surjection, IsInjective
<1> HIDE DEF n
<1>2. BucketSide(visit, side, ticks, asks) = run[n]
  <2>1. ticks # 0
    BY <1>1
  <2> QED
    BY <2>1 DEF BucketSide, n
<1>3. right[0] = Gives([b \in {} |-> 0])
  <2>1. Visited(0) = {}
    OBVIOUS
  <2>2. Part(side, ticks, asks, {}) = [b \in {} |-> 0]
    BY DEF Part
  <2>3. FitsInt([b \in {} |-> 0])
    BY DEF FitsInt
  <2>4. 0 \in 0..n
    BY <1>1
  <2> QED
    BY <2>1, <2>2, <2>3, <2>4 DEF Checked
<1>4. ASSUME NEW k \in 1..n
      PROVE  right[k] = AddLevel(side, ticks, asks, right[k - 1], visit[k])
  <2> DEFINE S == Visited(k - 1)
             p == visit[k]
  <2>1. k \in 0..n /\ k - 1 \in 0..n /\ k - 1 \in Nat /\ \A i \in 1..k : i = k \/ i \in 1..(k - 1)
    BY <1>1
  <2>2. p \in P /\ S \in SUBSET P
    BY <1>1, <2>1
  <2>3. p \notin S
    BY <1>1, <2>1
  <2>4. Visited(k) = S \cup {p}
    BY <2>1
  <2>5. right[k] = Checked(Part(side, ticks, asks, S \cup {p}))
        /\ right[k - 1] = Checked(Part(side, ticks, asks, S))
    BY <2>1, <2>4
  <2> HIDE DEF S, p, right
  <2>6. AddLevel(side, ticks, asks, Checked(Part(side, ticks, asks, S)), p) =
           Checked(Part(side, ticks, asks, S \cup {p}))
    BY <2>2, <2>3, LevelAdded
  <2> QED
    BY <2>5, <2>6 DEF p
<1>5. Books(right)
  <2> DEFINE steps == [k \in 0..n |-> Step(right, k)]
  <2>1. ASSUME NEW k \in 0..n PROVE right[k] = Step(right, k)
    <3>1. k = 0 \/ k \in 1..n
      BY <1>1
    <3> HIDE DEF right
    <3> QED
      BY <1>3, <1>4, <3>1
  <2>2. right = [k \in 0..n |-> right[k]]
    OBVIOUS
  <2> HIDE DEF right
  <2>3. [k \in 0..n |-> right[k]] = steps
    BY <2>1
  <2> QED
    BY <2>2, <2>3
<1>6. Books(run)
  <2> HIDE DEF Books
  <2> QED
    BY <1>5
<1> HIDE DEF run
<1>7. run[n] = right[n]
  <2> DEFINE N == {k \in 0..n : run[k] # right[k]}
  <2>1. N = {}
    <3>1. SUFFICES ASSUME N # {} PROVE FALSE
      OBVIOUS
    <3>2. PICK k \in N : \A j \in N : k <= j
      <4>1. N \in SUBSET Nat
        BY <1>1
      <4> HIDE DEF N
      <4> QED
        BY <3>1, <4>1, LeastOf
    <3>3. k \in 0..n /\ run[k] # right[k]
      OBVIOUS
    <3>4. run[k] = Step(run, k)
      <4> HIDE DEF Step, N, right
      <4> QED
        BY <1>6, <3>3
    <3>5. k # 0
      <4> HIDE DEF N, right
      <4> QED
        BY <1>3, <3>3, <3>4
    <3>6. k \in 1..n /\ k - 1 \in 0..n /\ ~(k <= k - 1)
      <4> HIDE DEF N, right
      <4> QED
        BY <1>1, <3>3, <3>5
    <3>7. run[k - 1] = right[k - 1]
      <4> HIDE DEF right
      <4> QED
        BY <3>2, <3>6
    <3> HIDE DEF N, right
    <3> QED
      BY <1>4, <3>3, <3>4, <3>5, <3>6, <3>7
  <2>2. n \in 0..n
    BY <1>1
  <2> HIDE DEF right
  <2> QED
    BY <2>1, <2>2
<1>8. Part(side, ticks, asks, Visited(n)) = Exact(side, ticks, asks)
  <2>1. Visited(n) \subseteq P
    BY <1>1
  <2>2. P \subseteq Visited(n)
    BY <1>1
  <2>3. Visited(n) = P /\ P = DOMAIN side
    BY <2>1, <2>2
  <2> QED
    BY <2>3 DEF Part, Exact, Into, Total
<1>9. right[n] = Checked(Exact(side, ticks, asks))
  <2>1. n \in 0..n
    BY <1>1
  <2> HIDE DEF Visited
  <2> QED
    BY <1>8, <2>1
<1> QED
  BY <1>2, <1>7, <1>9

\* Without buckets the side is its own view.
LEMMA SideItself ==
    ASSUME NEW P \in SUBSET (1..MaxInt), NEW side \in [P -> 1..MaxInt], NEW asks \in BOOLEAN,
           NEW visit
    PROVE  /\ Exact(side, 0, asks) = side
           /\ BucketSide(visit, side, 0, asks) = Checked(side)
<1>1. MaxInt \in Nat
  BY LocalBookAssumptions DEF MaxInt
<1>2. IsFiniteSet(P) /\ side \in [P -> Nat] /\ P = DOMAIN side
  <2>1. IsFiniteSet(1..MaxInt)
    BY <1>1, FS_Interval
  <2>2. IsFiniteSet(P)
    BY <2>1, FS_Subset
  <2>3. side \in [P -> Nat]
    BY <1>1
  <2> QED
    BY <2>2, <2>3
<1>3. ASSUME NEW p \in P PROVE Total(side, {p}) = side[p]
  <2>1. {p} \in SUBSET P /\ p \in {p} /\ side[p] \in Nat
    BY <1>2
  <2>2. {p} \ {p} = {}
    OBVIOUS
  <2>3. Total(side, {}) = 0 /\ \A A \in SUBSET P : \A a \in A :
                                    Total(side, A) = Total(side, A \ {a}) + side[a]
    BY <1>2, TotalIs
  <2>4. Total(side, {p}) = Total(side, {p} \ {p}) + side[p]
    BY <2>1, <2>3
  <2> QED
    BY <2>1, <2>2, <2>3, <2>4
<1>4. Exact(side, 0, asks) = [b \in P |-> Total(side, {b})]
  <2>1. \A p : ExactBucket(p, 0, asks) = p
    BY DEF ExactBucket
  <2>2. {ExactBucket(p, 0, asks) : p \in P} = P
    BY <2>1
  <2>3. \A b \in P : {p \in P : ExactBucket(p, 0, asks) = b} = {b}
    BY <2>1
  <2>4. Exact(side, 0, asks) = [b \in {ExactBucket(p, 0, asks) : p \in P} |->
                                   Total(side, {p \in P : ExactBucket(p, 0, asks) = b})]
    BY <1>2 DEF Exact, Total
  <2> QED
    BY <2>2, <2>3, <2>4
<1>5. Exact(side, 0, asks) = side
  <2>1. side = [b \in P |-> side[b]]
    BY <1>2
  <2> QED
    BY <1>3, <1>4, <2>1
<1>6. FitsInt(side)
  BY <1>1, <1>2 DEF FitsInt
<1> QED
  BY <1>5, <1>6 DEF BucketSide, Checked

\* Every side and every visit: exact when the buckets fit an int, refused when not.
LEMMA SideExact ==
    ASSUME NEW P \in SUBSET (1..MaxInt), NEW side \in [P -> 1..MaxInt],
           NEW ticks \in 0..MaxInt, NEW asks \in BOOLEAN,
           NEW visit \in Bijection(1..Cardinality(P), P)
    PROVE  BucketSide(visit, side, ticks, asks) = Checked(Exact(side, ticks, asks))
<1>1. MaxInt \in Nat
  BY LocalBookAssumptions DEF MaxInt
<1>2. CASE ticks = 0
  BY <1>2, SideItself
<1>3. CASE ticks # 0
  <2>1. ticks \in 1..MaxInt
    BY <1>1, <1>3
  <2> QED
    BY <2>1, SideBucketed
<1> QED
  BY <1>2, <1>3

LEMMA SidesOfInts ==
    ASSUME NEW Q \in SUBSET (1..MaxInt), NEW side \in SidesOf(Q)
    PROVE  \E P \in SUBSET (1..MaxInt) : side \in [P -> 1..MaxInt] /\ DOMAIN side = P
<1>1. Prices \subseteq 1..MaxInt
  BY LocalBookAssumptions DEF MaxInt
<1>2. PICK P \in SUBSET Prices : side \in [P -> Q]
  BY DEF SidesOf
<1>3. P \in SUBSET (1..MaxInt) /\ side \in [P -> 1..MaxInt] /\ DOMAIN side = P
  BY <1>1, <1>2
<1> QED
  BY <1>3

LEMMA SidesExact == ExactOnEverySide
<1> SUFFICES ASSUME NEW side \in SidesOf(Qtys), NEW ticks \in 0..MaxInt, NEW asks \in BOOLEAN,
                    NEW visit \in Visits(side)
    PROVE  LET exact == Exact(side, ticks, asks)
               fits  == \A b \in DOMAIN exact : b <= MaxInt /\ exact[b] <= MaxInt
           IN  BucketSide(visit, side, ticks, asks) = IF fits THEN Gives(exact) ELSE Refused
  BY DEF ExactOnEverySide
<1>1. Qtys \in SUBSET (1..MaxInt)
  BY LocalBookAssumptions DEF MaxInt
<1>2. PICK P \in SUBSET (1..MaxInt) : side \in [P -> 1..MaxInt] /\ DOMAIN side = P
  BY <1>1, SidesOfInts
<1>3. visit \in Bijection(1..Cardinality(P), P)
  BY <1>2 DEF Visits
<1>4. BucketSide(visit, side, ticks, asks) = Checked(Exact(side, ticks, asks))
  BY <1>2, <1>3, SideExact
<1> QED
  BY <1>4 DEF Checked, FitsInt

-----------------------------------------------------------------------------
(* The displayed levels.                                                   *)

BestFirst(seq, asks) == \A i, j \in DOMAIN seq : i < j => Better(seq[i], seq[j], asks)

\* Every finite set of buckets can be listed with the best first.
LEMMA SortedIs ==
    ASSUME NEW m \in Nat, NEW S \in SUBSET (0..m), NEW asks \in BOOLEAN
    PROVE  /\ Cardinality(S) \in Nat
           /\ Sorted(S, asks) \in Bijection(1..Cardinality(S), S)
           /\ BestFirst(Sorted(S, asks), asks)
<1> DEFINE Lists(A) == \E seq \in [1..Cardinality(A) -> A] :
                          /\ BestFirst(seq, asks)
                          /\ \A a \in A : \E i \in 1..Cardinality(A) : seq[i] = a
           F == {A \in SUBSET (0..m) : ~Lists(A)}
<1>1. IsFiniteSet(0..m) /\ F \in SUBSET SUBSET (0..m)
  BY FS_Interval
<1>2. \A A \in SUBSET (0..m) : IsFiniteSet(A) /\ Cardinality(A) \in Nat
  BY <1>1, FS_Subset, FS_CardinalityType
<1>3. F = {}
  <2>1. SUFFICES ASSUME F # {} PROVE FALSE
    OBVIOUS
  <2>2. PICK A \in F : \A B \in F : B \subseteq A => B = A
    <3>1. Family(F, 0..m)
      BY <1>1, <2>1 DEF Family
    <3> HIDE DEF F
    <3> QED
      BY <3>1, Minimal
  <2>3. A # {}
    <3>1. Lists({})
      <4> DEFINE none == [i \in 1..0 |-> 0]
      <4>1. Cardinality({}) = 0
        BY FS_EmptySet
      <4>2. none \in [1..Cardinality({}) -> {}] /\ BestFirst(none, asks)
        BY <4>1 DEF BestFirst
      <4> QED
        BY <4>2
    <3> QED
      BY <2>2, <3>1
  <2>4. PICK x \in A : \A y \in A : y = x \/ Better(y, x, asks)
    <3>1. A \in SUBSET Nat /\ A \in SUBSET (0..m)
      OBVIOUS
    <3>2. CASE asks
      <4>1. Max(A) \in A /\ \A y \in A : Max(A) >= y
        BY <2>3, <3>1, MaxOf
      <4>2. \A y \in A : y = Max(A) \/ y < Max(A)
        <5> DEFINE x == Max(A)
        <5>1. x \in A /\ \A y \in A : x >= y
          BY <4>1
        <5> HIDE DEF x, F
        <5>2. \A y \in A : y = x \/ y < x
          BY <3>1, <5>1
        <5> QED
          BY <5>2 DEF x
      <4> QED
        BY <3>2, <4>1, <4>2 DEF Better
    <3>3. CASE ~asks
      <4>1. PICK x \in A : \A y \in A : x <= y
        BY <2>3, <3>1, LeastOf
      <4>2. \A y \in A : y = x \/ y > x
        BY <3>1, <4>1
      <4> QED
        BY <3>3, <4>2 DEF Better
    <3> QED
      BY <3>2, <3>3
  <2> DEFINE B == A \ {x}
             k == Cardinality(A)
  <2>5. k \in Nat \ {0} /\ Cardinality(B) = k - 1
    BY <1>2, FS_RemoveElement, FS_EmptySet
  <2>6. PICK seq \in [1..k - 1 -> B] : /\ BestFirst(seq, asks)
                                       /\ \A a \in B : \E i \in 1..k - 1 : seq[i] = a
    <3>1. B \in SUBSET (0..m) /\ B \notin F
      BY <2>2
    <3> QED
      BY <2>5, <3>1
  <2> DEFINE next == [i \in 1..k |-> IF i < k THEN seq[i] ELSE x]
  <2>7. next \in [1..k -> A]
    BY <2>5
  <2>8. BestFirst(next, asks)
    <3>1. ASSUME NEW i \in 1..k, NEW j \in 1..k, i < j PROVE Better(next[i], next[j], asks)
      <4>1. i \in 1..k - 1 /\ next[i] = seq[i] /\ seq[i] \in B
        BY <2>5, <3>1
      <4>2. CASE j = k
        <5>1. next[j] = x
          BY <2>5, <4>2
        <5>2. seq[i] # x /\ seq[i] \in A
          BY <4>1
        <5> QED
          BY <2>4, <4>1, <5>1, <5>2
      <4>3. CASE j # k
        <5>1. j \in 1..k - 1 /\ next[j] = seq[j]
          BY <2>5, <4>3
        <5> QED
          BY <2>6, <3>1, <4>1, <5>1 DEF BestFirst
      <4> QED
        BY <4>2, <4>3
    <3> QED
      BY <3>1 DEF BestFirst
  <2>9. \A a \in A : \E i \in 1..k : next[i] = a
    <3>1. k \in 1..k /\ next[k] = x
      BY <2>5
    <3>2. ASSUME NEW a \in B PROVE \E i \in 1..k : next[i] = a
      <4>1. PICK i \in 1..k - 1 : seq[i] = a
        BY <2>6
      <4>2. i \in 1..k /\ next[i] = a
        BY <2>5, <4>1
      <4> QED
        BY <4>2
    <3> HIDE DEF next
    <3> QED
      BY <3>1, <3>2
  <2> HIDE DEF next
  <2>10. Lists(A)
    BY <2>7, <2>8, <2>9
  <2> QED
    BY <2>2, <2>10
<1>4. PICK seq \in [1..Cardinality(S) -> S] :
        /\ BestFirst(seq, asks)
        /\ \A a \in S : \E i \in 1..Cardinality(S) : seq[i] = a
  BY <1>3
<1>5. \A i, j \in 1..Cardinality(S) : seq[i] = seq[j] => i = j
  <2>1. SUFFICES ASSUME NEW i \in 1..Cardinality(S), NEW j \in 1..Cardinality(S), i < j
                 PROVE  seq[i] # seq[j]
    BY <1>2
  <2>2. Better(seq[i], seq[j], asks)
    BY <1>4, <2>1 DEF BestFirst
  <2>3. seq[i] \in Nat /\ seq[j] \in Nat
    <3>1. \A A \in SUBSET (0..m) : \A a \in A : a \in Nat
      OBVIOUS
    <3>2. seq[i] \in S /\ seq[j] \in S
      BY <1>4
    <3> QED
      BY <3>1, <3>2
  <2> QED
    BY <2>2, <2>3 DEF Better
<1>6. seq \in Bijection(1..Cardinality(S), S)
  BY <1>4, <1>5 DEF Bijection, Injection, Surjection, IsInjective
<1> QED
  BY <1>2, <1>4, <1>6 DEF Sorted, BestFirst

LEMMA BucketSafe ==
    ASSUME NEW p \in 1..MaxInt, NEW ticks \in 0..MaxInt, NEW asks \in BOOLEAN
    PROVE  /\ ExactBucket(p, ticks, asks) \in Nat
           /\ asks => p <= ExactBucket(p, ticks, asks)
           /\ ~asks => ExactBucket(p, ticks, asks) <= p
<1>1. MaxInt \in Nat
  BY LocalBookAssumptions DEF MaxInt
<1>2. CASE ticks = 0
  BY <1>1, <1>2 DEF ExactBucket
<1>3. CASE ticks # 0
  <2>1. ticks \in 1..MaxInt
    BY <1>1, <1>3
  <2> QED
    BY <2>1, BucketIs
<1> QED
  BY <1>2, <1>3

LEMMA MinOfTwo ==
    ASSUME NEW a \in Nat, NEW b \in Nat
    PROVE  /\ Min({a, b}) \in Nat /\ Min({a, b}) <= a /\ Min({a, b}) <= b
           /\ a # 0 /\ b # 0 => Min({a, b}) # 0
<1>1. \E x \in {a, b} : \A y \in {a, b} : x <= y
  BY LeastOf
<1>2. Min({a, b}) \in {a, b} /\ \A y \in {a, b} : Min({a, b}) <= y
  BY <1>1 DEF Min
<1> QED
  BY <1>2

\* The levels of a side that is not refused are its best buckets, the best first.
LEMMA SideShown ==
    ASSUME NEW P \in SUBSET (1..MaxInt), NEW side \in [P -> 1..MaxInt],
           NEW ticks \in 0..MaxInt, NEW asks \in BOOLEAN, NEW limit \in Nat,
           NEW visit \in Bijection(1..Cardinality(P), P),
           SideToLevels(visit, side, ticks, asks, limit).ok
    PROVE  LET levels  == SideToLevels(visit, side, ticks, asks, limit).v
               buckets == DOMAIN Exact(side, ticks, asks)
           IN  /\ BestOf(levels, buckets, asks, limit)
               /\ levels # <<>> => Head(levels) \in buckets
<1> DEFINE exact   == Exact(side, ticks, asks)
           buckets == DOMAIN exact
           best    == Sorted(buckets, asks)
           n       == Cardinality(buckets)
           k       == Min({limit, Len(best)})
           levels  == SubSeq(best, 1, k)
<1>1. MaxInt \in Nat
  BY LocalBookAssumptions DEF MaxInt
<1>2. BucketSide(visit, side, ticks, asks) = Checked(exact)
  BY SideExact
<1> HIDE DEF exact
<1>3. FitsInt(exact) /\ SideToLevels(visit, side, ticks, asks, limit).v = levels
  <2>1. SideToLevels(visit, side, ticks, asks, limit) =
           IF ~Checked(exact).ok THEN Refused
           ELSE Gives(SubSeq(Sorted(DOMAIN Checked(exact).v, asks), 1,
                             Min({limit, Len(Sorted(DOMAIN Checked(exact).v, asks))})))
    BY <1>2 DEF SideToLevels
  <2>2. CASE ~FitsInt(exact)
    BY <2>1, <2>2 DEF Checked, Refused
  <2>3. CASE FitsInt(exact)
    <3>1. Checked(exact) = Gives(exact)
      BY <2>3 DEF Checked
    <3>2. Checked(exact).ok /\ Checked(exact).v = exact
      BY <3>1 DEF Gives
    <3>3. SideToLevels(visit, side, ticks, asks, limit) = Gives(levels)
      BY <2>1, <3>2
    <3> HIDE DEF levels
    <3> QED
      BY <2>3, <3>3 DEF Gives
  <2> QED
    BY <2>2, <2>3
<1>4. buckets \in SUBSET (0..MaxInt)
  <2>1. \A b \in buckets : b \in Nat
    <3>1. buckets = {ExactBucket(p, ticks, asks) : p \in P}
      BY DEF exact, Exact
    <3>2. \A p \in P : ExactBucket(p, ticks, asks) \in Nat
      BY BucketSafe
    <3> QED
      BY <3>1, <3>2
  <2> QED
    BY <1>1, <1>3, <2>1 DEF FitsInt
<1> HIDE DEF buckets
<1>5. n \in Nat /\ best \in Bijection(1..n, buckets) /\ BestFirst(best, asks)
  BY <1>1, <1>4, SortedIs
<1> HIDE DEF n, best
<1>6. best \in [1..n -> buckets] /\ Len(best) = n /\ best \in Seq(buckets)
  <2>1. best \in [1..n -> buckets]
    BY <1>5 DEF Bijection, Injection
  <2> QED
    BY <1>5, <2>1
<1>7. k \in Nat /\ k <= n
  BY <1>5, <1>6, MinOfTwo
<1>8. Len(levels) = k /\ \A i \in 1..k : levels[i] = best[i]
  <2> HIDE DEF k
  <2> QED
    BY <1>5, <1>6, <1>7
<1>9. ASSUME NEW i \in 1..Len(levels), NEW b \in buckets
      PROVE  b \in {levels[j] : j \in 1..i} \/ Better(levels[i], b, asks)
  <2>1. PICK j \in 1..n : best[j] = b
    BY <1>5 DEF Bijection, Surjection
  <2> HIDE DEF k, levels
  <2>2. i \in 1..k /\ i \in 1..n /\ levels[i] = best[i]
    BY <1>5, <1>7, <1>8
  <2>3. CASE j <= i
    <3>1. j \in 1..i /\ j \in 1..k
      BY <1>5, <1>7, <2>2, <2>3
    <3> QED
      BY <1>8, <2>1, <3>1
  <2>4. CASE ~(j <= i)
    <3>1. i < j /\ i \in DOMAIN best /\ j \in DOMAIN best
      BY <1>5, <1>6, <2>2, <2>4
    <3> QED
      BY <1>5, <2>1, <2>2, <3>1 DEF BestFirst
  <2> QED
    BY <1>5, <2>2, <2>3, <2>4
<1>10. BestOf(levels, buckets, asks, limit)
  <2>1. Len(levels) = Min({limit, Cardinality(buckets)})
    BY <1>6, <1>8 DEF n
  <2> HIDE DEF levels
  <2> QED
    BY <1>9, <2>1 DEF BestOf
<1>11. levels # <<>> => Head(levels) \in buckets
  <2>1. levels \in Seq(buckets)
    <3> HIDE DEF k
    <3> QED
      BY <1>5, <1>6, <1>7
  <2> HIDE DEF levels
  <2> QED
    BY <2>1
<1> QED
  BY <1>3, <1>10, <1>11 DEF buckets, exact

LEMMA BooksSafe == SafeOnEveryBook
<1> DEFINE Shown(bidLevels, askLevels, bids, asks, ticks, limit) ==
             bidLevels.ok /\ askLevels.ok =>
               /\ BestOf(bidLevels.v, DOMAIN Exact(bids, ticks, FALSE), FALSE, limit)
               /\ BestOf(askLevels.v, DOMAIN Exact(asks, ticks, TRUE), TRUE, limit)
               /\ bidLevels.v # <<>> /\ askLevels.v # <<>> =>
                     Head(bidLevels.v) < Head(askLevels.v)
<1> HIDE DEF Shown
<1> SUFFICES ASSUME NEW bids \in SidesOf({1}), NEW asks \in SidesOf({1}),
                    \A b \in DOMAIN bids, a \in DOMAIN asks : b < a,
                    NEW ticks \in 0..MaxInt, NEW limit \in 0..Depth,
                    NEW bidVisit \in Visits(bids), NEW askVisit \in Visits(asks)
    PROVE  Shown(SideToLevels(bidVisit, bids, ticks, FALSE, limit),
                 SideToLevels(askVisit, asks, ticks, TRUE, limit), bids, asks, ticks, limit)
  BY DEF SafeOnEveryBook, Shown
<1> SUFFICES ASSUME SideToLevels(bidVisit, bids, ticks, FALSE, limit).ok,
                    SideToLevels(askVisit, asks, ticks, TRUE, limit).ok
    PROVE  Shown(SideToLevels(bidVisit, bids, ticks, FALSE, limit),
                 SideToLevels(askVisit, asks, ticks, TRUE, limit), bids, asks, ticks, limit)
  BY DEF Shown
<1> DEFINE bidLevels == SideToLevels(bidVisit, bids, ticks, FALSE, limit).v
           askLevels == SideToLevels(askVisit, asks, ticks, TRUE, limit).v
<1>1. MaxInt \in Nat /\ {1} \in SUBSET (1..MaxInt) /\ limit \in Nat
  BY LocalBookAssumptions DEF MaxInt
<1>2. PICK B \in SUBSET (1..MaxInt) : bids \in [B -> 1..MaxInt] /\ DOMAIN bids = B
  BY <1>1, SidesOfInts
<1>3. PICK A \in SUBSET (1..MaxInt) : asks \in [A -> 1..MaxInt] /\ DOMAIN asks = A
  BY <1>1, SidesOfInts
<1>4. /\ BestOf(bidLevels, DOMAIN Exact(bids, ticks, FALSE), FALSE, limit)
      /\ bidLevels # <<>> => Head(bidLevels) \in DOMAIN Exact(bids, ticks, FALSE)
  <2>1. bidVisit \in Bijection(1..Cardinality(B), B)
    BY <1>2 DEF Visits
  <2> QED
    BY <1>1, <1>2, <2>1, SideShown
<1>5. /\ BestOf(askLevels, DOMAIN Exact(asks, ticks, TRUE), TRUE, limit)
      /\ askLevels # <<>> => Head(askLevels) \in DOMAIN Exact(asks, ticks, TRUE)
  <2>1. askVisit \in Bijection(1..Cardinality(A), A)
    BY <1>3 DEF Visits
  <2> QED
    BY <1>1, <1>3, <2>1, SideShown
<1>6. ASSUME NEW b \in DOMAIN Exact(bids, ticks, FALSE), NEW a \in DOMAIN Exact(asks, ticks, TRUE)
      PROVE  b < a
  <2>1. PICK p \in B : b = ExactBucket(p, ticks, FALSE)
    BY <1>2 DEF Exact
  <2>2. PICK q \in A : a = ExactBucket(q, ticks, TRUE)
    BY <1>3 DEF Exact
  <2>3. b \in Nat /\ b <= p
    BY <2>1, BucketSafe
  <2>4. a \in Nat /\ q <= a
    BY <2>2, BucketSafe
  <2>5. p < q /\ p \in Nat /\ q \in Nat
    BY <1>2, <1>3
  <2> QED
    BY <2>3, <2>4, <2>5
<1> HIDE DEF bidLevels, askLevels
<1>7. bidLevels # <<>> /\ askLevels # <<>> => Head(bidLevels) < Head(askLevels)
  BY <1>4, <1>5, <1>6
<1> QED
  BY <1>4, <1>5, <1>7 DEF bidLevels, askLevels, Shown

\* For every width of the integers, every side and every order in which Go visits it:
\* what BucketSide gives is the exact aggregation, which it refuses only when a price or
\* a quantity of it does not fit an int; and of a book whose bids are below its asks
\* sideToLevels shows the best buckets, the best first, bids below asks.
THEOREM ViewsAreExact == BookSpec => []DisplayIsExact
<1>1. DisplayIsExact
  BY SidesExact, BooksSafe DEF DisplayIsExact
<1> QED
  BY <1>1, PTL
=============================================================================
