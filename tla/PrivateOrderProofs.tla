-------------------------- MODULE PrivateOrderProofs --------------------------
(***************************************************************************)
(* Theorems about the shared private order stream (PrivateOrderStream),    *)
(* for any consumers, accounts, logs, losses and failures: the views and   *)
(* the cursor follow the server's log, the consumers of an account agree,  *)
(* and no server subscription is left behind.                              *)
(***************************************************************************)
EXTENDS PrivateOrderStream, FiniteSetTheorems, TLAPS

-----------------------------------------------------------------------------
(* The values of the state.                                                *)

SomeConsumer == Consumers \cup {"none"}
Cursors      == {None} \cup 0..MaxLog
States       == {"pending", "connected", "disconnected"}
Requests     == [kind : {"subscribe", "refresh"}, id : 1..MaxIds, s : Consumers]
Fetching     == [kind : {"connect", "reauth", "subscribe", "refresh"}, run : Consumers,
                 conn : 0..MaxConns, s : SomeConsumer, id : Ids, sub : Ids]
Messages     == [op : {"subscribe", "unsubscribe", "refresh"}, id : Ids, sub : Ids,
                 s : SomeConsumer, cursor : Cursors]
SubRecord    == [consumers : SUBSET Consumers, sub : Ids, seq : Nat, cursor : Cursors,
                 staging : BOOLEAN, orders : Cursors, state : States, stale : BOOLEAN,
                 ready : BOOLEAN, retries : BOOLEAN, retryTimer : BOOLEAN, confirmed : BOOLEAN,
                 ackTimer : Ids]
Knowledge    == [state : States, ready : BOOLEAN, stale : BOOLEAN, view : Views]
Queue        == [st : {"new", "open", "ended", "closing", "waiting", "closed"}, room : 0..Many,
                 told : Knowledge, run : SomeConsumer, sub : SomeConsumer]
StreamState  == [run : SomeConsumer, conn : 0..MaxConns, connecting : BOOLEAN, timer : BOOLEAN,
                 at : [Accounts -> SomeConsumer], subs : [Consumers -> SubRecord],
                 cons : [Consumers -> Queue], pending : SUBSET Requests,
                 fetches : SUBSET Fetching, up : Seq(Messages)]

DataTypes  == {"resync", "begin", "end", "short", "unit", "covered", "ready", "unavailable",
               "available"}
ReplyTypes == {"subscribed", "refreshed", "cursorInvalid", "refused", "unknown", "token",
               "garbage", "expiring", "ended"}
Frames     == [type : DataTypes \cup ReplyTypes, id : Ids, sub : Ids, seq : Nat, val : 0..MaxLog]
ServerSubs == [sub : 1..MaxIds, a : Accounts, pos : Cursors, boundary : 0..MaxLog, seq : Nat,
               phase : {"resync", "begin", "end", "live"}, ready : BOOLEAN, behind : BOOLEAN]

-----------------------------------------------------------------------------
(* The invariant, of a state x of the stream, so that it can be followed   *)
(* through a handler; E are the records that the handler has in hand.  P   *)
(* gives each server subscription's position after each of its frames.     *)

\* Who belongs to whom: an open consumer is one of the record of its account, and
\* what was never begun is as at first.
Linked(x) ==
    /\ \A a \in Accounts : x.at[a] # "none" => AccountOf[x.at[a]] = a
    /\ \A i \in Consumers : \A c \in x.subs[i].consumers : x.cons[c].sub = i
    /\ \A c \in Consumers :
         /\ x.cons[c].st = "new" =>
              x.cons[c] = NewCons /\ x.subs[c] = NewSub /\ x.at[AccountOf[c]] # c
         /\ x.cons[c].st # "new" => x.cons[c].sub \in Consumers
         /\ x.cons[c].st = "open" =>
              Current(x, x.cons[c].sub) /\ c \in x.subs[x.cons[c].sub].consumers
    /\ x.run # "none" => x.cons[x.run].st # "new"
    /\ \A f \in x.fetches : x.cons[f.run].st # "new"

Asking(x) == {q \in x.pending : q.kind = "subscribe"}

\* A subscription that is asked for is not there yet, and is asked for once.
Asked(x) ==
    /\ \A q \in x.pending : Current(x, q.s) /\ x.conn # 0
    /\ \A q \in Asking(x) : x.subs[q.s].sub = 0 /\ ~x.subs[q.s].retryTimer
    /\ \A p, q \in Asking(x) : p.s = q.s \/ p.id = q.id => p = q

Attached(x) ==
    \A i \in Consumers :
      /\ x.subs[i].sub # 0 => Current(x, i) /\ x.conn # 0 /\ ~x.subs[i].retryTimer
      /\ x.subs[i].retryTimer /\ Current(x, i) => x.conn # 0

OneConnect(x) ==
    /\ x.connecting => x.conn = 0
    /\ x.conn = 0 => x.up = <<>>
    /\ \A f \in x.fetches : f.kind = "connect" /\ f.run = x.run => x.connecting

WellFormed(x) ==
    /\ \A f \in x.fetches :
         /\ f.kind \in {"subscribe", "refresh"} => f.s \in Consumers
         /\ f.kind = "refresh" => f.sub # 0
         /\ f.kind = "connect" => f.conn = 0 /\ f.s = "none" /\ f.id = 0 /\ f.sub = 0
    /\ \A m \in Elems(x.up) :
         /\ m.op = "subscribe" => m.s \in Consumers
         /\ m.op = "refresh" => m.sub # 0

\* The resume cursor: what was sent with a subscribe, and what the server began with.
Resumes(x, P) ==
    \A q \in Asking(x) :
      /\ \A m \in Elems(x.up) :
           m.op = "subscribe" /\ m.id = q.id => m.cursor = x.subs[q.s].cursor
      /\ \A f \in Elems(srv.down) :
           f.type = "subscribed" /\ f.id = q.id => P[f.sub][0] = x.subs[q.s].cursor

Positioned(x) ==
    \A i \in Consumers :
      /\ x.subs[i].cursor # None => x.subs[i].orders = Position(x.subs[i].cursor)
      /\ x.subs[i].sub # 0 =>
           \A d \in srv.subs : x.subs[i].sub = d.sub => x.subs[i].seq <= d.seq

\* A record that no handler has in hand.
Settled(x, P, i) ==
    LET s == x.subs[i] IN
    /\ s.ready => s.sub # 0
    /\ s.sub # 0 => s.state = "connected" /\ s.cursor = P[s.sub][s.seq]

Base(x, P, E) ==
    /\ x \in StreamState
    /\ Linked(x) /\ Asked(x) /\ Attached(x) /\ OneConnect(x) /\ WellFormed(x)
    /\ Resumes(x, P) /\ Positioned(x)
    /\ \A i \in Consumers \ E : Settled(x, P, i)

\* What a consumer was told is what its record says.
Matches(told, s) ==
    /\ (told.state = "connected") <=> (s.state = "connected")
    /\ told.ready = s.ready
    /\ told.stale = s.stale
    /\ told.view = s.orders

Agree(x, i) ==
    \A c \in Consumers :
      x.cons[c].st = "open" /\ x.cons[c].sub = i => Matches(x.cons[c].told, x.subs[i])

-----------------------------------------------------------------------------
(* Numbers.                                                                *)

LEMMA LeastOf ==
    ASSUME NEW T \in SUBSET Nat, T # {}
    PROVE  \E x \in T : \A y \in T : x <= y
<1> DEFINE R == OpToRel(<, Nat)
<1>1. IsWellFoundedOn(R, Nat)
  BY NatLessThanWellFounded
<1>2. R = {ss \in Nat \X Nat : ss[1] < ss[2]}
  BY DEF OpToRel
<1> HIDE DEF R
<1>3. PICK x \in T : \A y \in T : ~(<<y, x>> \in R)
  BY <1>1, WFMin
<1>4. \A y \in T : <<y, x>> \in R <=> y < x
  BY <1>2
<1>5. \A y \in T : ~(y < x)
  BY <1>3, <1>4
<1>6. \A y \in T : x <= y
  BY <1>5
<1> QED
  BY <1>6

LEMMA FreshIs ==
    ASSUME NEW n \in Nat, NEW used, Unused(n, used) # {}
    PROVE  Fresh(n, used) \in 1..n /\ Fresh(n, used) \notin used
<1> DEFINE U == Unused(n, used)
<1>1. U \in SUBSET Nat /\ U # {} /\ U \subseteq 1..n
  BY DEF Unused
<1>2. \E x \in U : \A y \in U : x <= y
  BY <1>1, LeastOf
<1>3. Min(U) \in U
  BY <1>2, Zenon DEF Min
<1> QED
  BY <1>1, <1>3 DEF Fresh, Unused

\* The position of a log: as far as it, and itself when its last change is seen.
LEMMA PositionIs ==
    ASSUME NEW n \in Nat
    PROVE  /\ Position(n) \in 0..n
           /\ n \notin Unseen /\ n # 0 => Position(n) = n
           /\ n \in Unseen /\ n # 0 => Position(n) = Position(n - 1)
<1> DEFINE T == {0} \cup {e \in 1..n : e \notin Unseen}
           D == {d \in 0..n : n - d \in T}
<1>1. T \subseteq 0..n /\ 0 \in T
  OBVIOUS
<1>2. D \in SUBSET Nat /\ n \in D
  OBVIOUS
<1>3. PICK d \in D : \A y \in D : d <= y
  BY <1>2, LeastOf
<1>4. \A y \in T : n - y \in D /\ n - (n - y) = y
  BY <1>1
<1>5. \A y \in T : n - d >= y
  BY <1>1, <1>3, <1>4
<1>6. n - d \in T
  BY <1>3
<1>7. \E x \in T : \A y \in T : x >= y
  BY <1>5, <1>6
<1>8. Max(T) \in T /\ \A y \in T : Max(T) >= y
  BY <1>7, Zenon DEF Max
<1>9. Position(n) = Max(T)
  BY DEF Position
<1>10. ASSUME n \notin Unseen, n # 0 PROVE Position(n) = n
  <2>1. n \in T
    BY <1>10
  <2> QED
    BY <1>1, <1>8, <1>9, <2>1
<1>11. ASSUME n \in Unseen, n # 0 PROVE Position(n) = Position(n - 1)
  <2>1. {e \in 1..n : e \notin Unseen} = {e \in 1..(n-1) : e \notin Unseen}
    BY <1>11
  <2> QED
    BY <2>1 DEF Position
<1> QED
  BY <1>1, <1>8, <1>9, <1>10, <1>11

-----------------------------------------------------------------------------
(* Primitive changes of the stream's state.                                *)

Replaced(x, i, t) == [x EXCEPT !.subs[i] = t]

LEMMA ReplacedIs ==
    ASSUME NEW x \in StreamState, NEW i \in Consumers, NEW t \in SubRecord
    PROVE  LET y == Replaced(x, i, t) IN
           /\ y \in StreamState
           /\ y.subs = [x.subs EXCEPT ![i] = t]
           /\ y.run = x.run /\ y.conn = x.conn /\ y.connecting = x.connecting
           /\ y.timer = x.timer /\ y.at = x.at /\ y.cons = x.cons
           /\ y.pending = x.pending /\ y.fetches = x.fetches /\ y.up = x.up
BY DEF StreamState, Replaced

LEMMA ReplacedBase ==
    ASSUME NEW x, NEW P, NEW E, NEW F, Base(x, P, E),
           NEW i \in Consumers, NEW t \in SubRecord,
           t.consumers = x.subs[i].consumers, x.cons[i].st # "new",
           \A q \in Asking(x) :
             q.s = i => t.sub = 0 /\ ~t.retryTimer /\ t.cursor = x.subs[i].cursor,
           t.sub # 0 => Current(x, i) /\ x.conn # 0 /\ ~t.retryTimer,
           t.retryTimer /\ Current(x, i) => x.conn # 0,
           t.cursor # None => t.orders = Position(t.cursor),
           t.sub # 0 => \A d \in srv.subs : t.sub = d.sub => t.seq <= d.seq,
           E \subseteq F \cup {i},
           i \in F \/ (/\ t.ready => t.sub # 0
                       /\ t.sub # 0 => t.state = "connected" /\ t.cursor = P[t.sub][t.seq])
    PROVE  Base(Replaced(x, i, t), P, F)
<1> DEFINE y == Replaced(x, i, t)
<1>1. x \in StreamState
  BY DEF Base
<1>2. /\ y \in StreamState
      /\ y.subs = [x.subs EXCEPT ![i] = t]
      /\ y.run = x.run /\ y.conn = x.conn /\ y.connecting = x.connecting
      /\ y.timer = x.timer /\ y.at = x.at /\ y.cons = x.cons
      /\ y.pending = x.pending /\ y.fetches = x.fetches /\ y.up = x.up
  BY <1>1, ReplacedIs
<1> HIDE DEF y
<1>3. x.subs \in [Consumers -> SubRecord]
  BY <1>1 DEF StreamState
<1>4. y.subs[i] = t /\ \A j \in Consumers \ {i} : y.subs[j] = x.subs[j]
  BY <1>2, <1>3
<1>5. \A j : Current(y, j) <=> Current(x, j)
  BY <1>2 DEF Current
<1>6. Linked(y)
  <2>1. \A j \in Consumers : y.subs[j].consumers = x.subs[j].consumers
    BY <1>4
  <2>2. \A c \in Consumers : x.cons[c].st = "new" => y.subs[c] = x.subs[c]
    BY <1>4
  <2>3. Linked(x)
    BY DEF Base
  <2> QED
    BY <1>2, <1>5, <2>1, <2>2, <2>3 DEF Linked
<1>7. Asking(y) = Asking(x) /\ \A q \in Asking(x) : q.s \in Consumers /\ q \in x.pending
  <2>1. x.pending \subseteq Requests
    BY <1>1 DEF StreamState
  <2> QED
    BY <1>2, <2>1 DEF Asking, Requests
<1>8. Asked(y)
  <2>1. Asked(x)
    BY DEF Base
  <2>2. \A q \in Asking(x) : y.subs[q.s].sub = 0 /\ ~y.subs[q.s].retryTimer
    BY <1>4, <1>7, <2>1 DEF Asked
  <2> QED
    BY <1>2, <1>5, <1>7, <2>1, <2>2 DEF Asked
<1>9. Attached(y)
  <2>1. Attached(x)
    BY DEF Base
  <2> QED
    BY <1>2, <1>4, <1>5, <2>1 DEF Attached
<1>10. OneConnect(y) /\ WellFormed(y)
  BY <1>2 DEF Base, OneConnect, WellFormed
<1>11. Resumes(y, P)
  <2>1. Resumes(x, P)
    BY DEF Base
  <2>2. \A q \in Asking(x) : y.subs[q.s].cursor = x.subs[q.s].cursor
    BY <1>4, <1>7
  <2> QED
    BY <1>2, <1>7, <2>1, <2>2 DEF Resumes
<1>12. Positioned(y)
  BY <1>4 DEF Base, Positioned
<1>13. \A j \in Consumers \ F : Settled(y, P, j)
  <2>1. \A j \in Consumers \ E : Settled(x, P, j)
    BY DEF Base
  <2>2. \A j \in Consumers \ F : j # i => Settled(y, P, j)
    BY <1>4, <2>1 DEF Settled
  <2>3. i \notin F => Settled(y, P, i)
    BY <1>4 DEF Settled
  <2> QED
    BY <2>2, <2>3
<1> QED
  BY <1>2, <1>6, <1>8, <1>9, <1>10, <1>11, <1>12, <1>13 DEF Base, y

LEMMA AppendElems ==
    ASSUME NEW S, NEW seq \in Seq(S), NEW e \in S
    PROVE  Append(seq, e) \in Seq(S) /\ Elems(Append(seq, e)) = Elems(seq) \cup {e}
<1> DEFINE t == Append(seq, e)
<1>1. /\ t \in Seq(S) /\ Len(t) = Len(seq) + 1 /\ t[Len(t)] = e
      /\ \A j \in 1..Len(seq) : t[j] = seq[j]
  OBVIOUS
<1>2. DOMAIN t = 1..(Len(seq) + 1) /\ DOMAIN seq = 1..Len(seq) /\ Len(seq) \in Nat
  BY <1>1
<1> HIDE DEF t
<1>3. \A j \in DOMAIN t : t[j] \in Elems(seq) \cup {e}
  BY <1>1, <1>2 DEF Elems
<1>4. \A j \in DOMAIN seq : seq[j] \in Elems(t)
  BY <1>1, <1>2 DEF Elems
<1>5. e \in Elems(t)
  BY <1>1, <1>2 DEF Elems
<1> QED
  BY <1>1, <1>3, <1>4, <1>5 DEF Elems, t

LEMMA TailElems ==
    ASSUME NEW S, NEW seq \in Seq(S), seq # <<>>
    PROVE  /\ Tail(seq) \in Seq(S) /\ Head(seq) \in Elems(seq)
           /\ Elems(seq) = Elems(Tail(seq)) \cup {Head(seq)}
<1>1. /\ Tail(seq) \in Seq(S) /\ Len(seq) \in Nat \ {0} /\ DOMAIN seq = 1..Len(seq)
      /\ Len(Tail(seq)) = Len(seq) - 1 /\ Head(seq) = seq[1]
      /\ \A j \in 1..(Len(seq) - 1) : Tail(seq)[j] = seq[j + 1]
  OBVIOUS
<1>2. DOMAIN Tail(seq) = 1..(Len(seq) - 1)
  BY <1>1
<1>3. \A j \in DOMAIN seq : seq[j] \in Elems(Tail(seq)) \cup {Head(seq)}
  <2> TAKE j \in DOMAIN seq
  <2>1. j # 1 => j - 1 \in DOMAIN Tail(seq) /\ Tail(seq)[j - 1] = seq[j]
    BY <1>1, <1>2
  <2> QED
    BY <1>1, <2>1 DEF Elems
<1>4. \A j \in DOMAIN Tail(seq) : Tail(seq)[j] \in Elems(seq)
  BY <1>1, <1>2 DEF Elems
<1>5. Head(seq) \in Elems(seq)
  BY <1>1 DEF Elems
<1> QED
  BY <1>1, <1>3, <1>4, <1>5 DEF Elems

\* The requests of a state become fewer.
LEMMA AnsweredBase ==
    ASSUME NEW x, NEW P, NEW E, Base(x, P, E), NEW ps \in SUBSET x.pending
    PROVE  Base([x EXCEPT !.pending = ps], P, E)
<1> DEFINE y == [x EXCEPT !.pending = ps]
<1>1. x \in StreamState
  BY DEF Base
<1>2. /\ y \in StreamState /\ y.pending = ps
      /\ y.run = x.run /\ y.conn = x.conn /\ y.connecting = x.connecting /\ y.at = x.at
      /\ y.subs = x.subs /\ y.cons = x.cons /\ y.fetches = x.fetches /\ y.up = x.up
  BY <1>1 DEF StreamState
<1> HIDE DEF y
<1>3. Asking(y) \subseteq Asking(x) /\ \A j : Current(y, j) <=> Current(x, j)
  BY <1>2 DEF Asking, Current
<1>4. Linked(y)
  BY <1>2, <1>3 DEF Base, Linked
<1>5. Asked(y)
  BY <1>2, <1>3 DEF Base, Asked
<1>6. Attached(y) /\ OneConnect(y) /\ WellFormed(y)
  BY <1>2, <1>3 DEF Base, Attached, OneConnect, WellFormed
<1>7. Resumes(y, P) /\ Positioned(y)
  BY <1>2, <1>3 DEF Base, Resumes, Positioned
<1>8. \A j \in Consumers \ E : Settled(y, P, j)
  BY <1>2 DEF Base, Settled
<1> QED
  BY <1>2, <1>4, <1>5, <1>6, <1>7, <1>8 DEF Base, y

\* A subscription is asked for.
AskedFor(x, i, id) == [x EXCEPT !.pending = @ \cup {[kind |-> "subscribe", id |-> id, s |-> i]}]

LEMMA AskedForBase ==
    ASSUME NEW x, NEW P, NEW E, Base(x, P, E), NEW i \in Consumers, Current(x, i), x.conn # 0,
           x.subs[i].sub = 0, ~x.subs[i].retryTimer, \A q \in Asking(x) : q.s # i,
           NEW id \in 1..MaxIds, id \notin IdsInUse(x)
    PROVE  /\ Base(AskedFor(x, i, id), P, E)
           /\ Asking(AskedFor(x, i, id)) = Asking(x) \cup {[kind |-> "subscribe", id |-> id, s |-> i]}
<1> DEFINE new == [kind |-> "subscribe", id |-> id, s |-> i]
           y == AskedFor(x, i, id)
<1>1. x \in StreamState
  BY DEF Base
<1>2. /\ y \in StreamState /\ y.pending = x.pending \cup {new}
      /\ y.run = x.run /\ y.conn = x.conn /\ y.connecting = x.connecting /\ y.at = x.at
      /\ y.subs = x.subs /\ y.cons = x.cons /\ y.fetches = x.fetches /\ y.up = x.up
  <2>1. new \in Requests
    BY DEF Requests
  <2> QED
    BY <1>1, <2>1 DEF StreamState, AskedFor
<1> HIDE DEF y
<1>3. new.kind = "subscribe" /\ new.id = id /\ new.s = i
  OBVIOUS
<1> HIDE DEF new
<1>4. Asking(y) = Asking(x) \cup {new} /\ \A j : Current(y, j) <=> Current(x, j)
  BY <1>2, <1>3 DEF Asking, Current
<1>5. Linked(y)
  BY <1>2, <1>4 DEF Base, Linked
<1>6. \A q \in x.pending : q.id # id
  BY DEF IdsInUse
<1>7. \A m \in Elems(x.up) \cup Elems(srv.down) : m.id # id
  BY DEF IdsInUse
<1>8. Asked(y)
  <2>1. Asked(x)
    BY DEF Base
  <2>2. \A q \in y.pending : Current(y, q.s) /\ y.conn # 0
    BY <1>2, <1>3, <1>4, <2>1 DEF Asked
  <2>3. \A q \in Asking(y) : y.subs[q.s].sub = 0 /\ ~y.subs[q.s].retryTimer
    BY <1>2, <1>3, <1>4, <2>1 DEF Asked
  <2>4. \A q \in Asking(x) : q.s # new.s /\ q.id # new.id
    BY <1>3, <1>6 DEF Asking
  <2>5. \A p, q \in Asking(y) : p.s = q.s \/ p.id = q.id => p = q
    BY <1>4, <2>1, <2>4 DEF Asked
  <2> QED
    BY <2>2, <2>3, <2>5 DEF Asked
<1>9. Attached(y) /\ OneConnect(y) /\ WellFormed(y)
  BY <1>2, <1>4 DEF Base, Attached, OneConnect, WellFormed
<1>10. Resumes(y, P) /\ Positioned(y)
  BY <1>2, <1>3, <1>4, <1>7 DEF Base, Resumes, Positioned
<1>11. \A j \in Consumers \ E : Settled(y, P, j)
  BY <1>2 DEF Base, Settled
<1> QED
  BY <1>2, <1>4, <1>5, <1>8, <1>9, <1>10, <1>11 DEF Base, y, new

\* A goroutine is started.
LEMMA SpawnBase ==
    ASSUME NEW x, NEW P, NEW E, Base(x, P, E), NEW f,
           x.run # "none" => f \in Fetching /\ f.run = x.run,
           f.kind \in {"subscribe", "refresh"} => f.s \in Consumers,
           f.kind = "refresh" => f.sub # 0,
           f.kind = "connect" => /\ f.conn = 0 /\ f.s = "none" /\ f.id = 0 /\ f.sub = 0
                                 /\ x.connecting
    PROVE  Base(Spawn(x, f), P, E)
<1> DEFINE y == [x EXCEPT !.fetches = @ \cup {f}]
<1>1. CASE x.run = "none"
  BY <1>1 DEF Spawn
<1>2. CASE x.run # "none"
  <2>1. x \in StreamState
    BY DEF Base
  <2>2. /\ y \in StreamState /\ y.fetches = x.fetches \cup {f}
        /\ y.run = x.run /\ y.conn = x.conn /\ y.connecting = x.connecting /\ y.at = x.at
        /\ y.subs = x.subs /\ y.cons = x.cons /\ y.pending = x.pending /\ y.up = x.up
    BY <1>2, <2>1 DEF StreamState
  <2>3. Spawn(x, f) = y
    BY <1>2 DEF Spawn
  <2> HIDE DEF y
  <2>4. Asking(y) = Asking(x) /\ \A j : Current(y, j) <=> Current(x, j)
    BY <2>2 DEF Asking, Current
  <2>5. Linked(y)
    BY <1>2, <2>2, <2>4 DEF Base, Linked
  <2>6. Asked(y) /\ Attached(y)
    BY <2>2, <2>4 DEF Base, Asked, Attached
  <2>7. OneConnect(y)
    BY <2>2 DEF Base, OneConnect
  <2>8. WellFormed(y)
    BY <2>2 DEF Base, WellFormed
  <2>9. Resumes(y, P) /\ Positioned(y)
    BY <2>2, <2>4 DEF Base, Resumes, Positioned
  <2>10. \A j \in Consumers \ E : Settled(y, P, j)
    BY <2>2 DEF Base, Settled
  <2> QED
    BY <2>2, <2>3, <2>5, <2>6, <2>7, <2>8, <2>9, <2>10 DEF Base
<1> QED
  BY <1>1, <1>2

\* A message is sent.
LEMMA SendIs ==
    ASSUME NEW x \in StreamState, NEW m \in Messages
    PROVE  LET y == Send(x, m) IN
           /\ y \in StreamState /\ Elems(y.up) = Elems(x.up) \cup {m} /\ y.up # <<>>
           /\ y.run = x.run /\ y.conn = x.conn /\ y.connecting = x.connecting /\ y.at = x.at
           /\ y.subs = x.subs /\ y.cons = x.cons /\ y.pending = x.pending
           /\ y.fetches = x.fetches /\ y.timer = x.timer
<1>1. x.up \in Seq(Messages)
  BY DEF StreamState
<1>2. Append(x.up, m) \in Seq(Messages) /\ Elems(Append(x.up, m)) = Elems(x.up) \cup {m}
  BY <1>1, AppendElems
<1>3. Append(x.up, m) # <<>>
  BY <1>1
<1> QED
  BY <1>2, <1>3 DEF StreamState, Send

LEMMA SendBase ==
    ASSUME NEW x, NEW P, NEW E, Base(x, P, E), NEW m \in Messages, x.conn # 0,
           m.op = "subscribe" => m.s \in Consumers, m.op = "refresh" => m.sub # 0,
           \A q \in Asking(x) :
             m.op = "subscribe" /\ m.id = q.id => m.cursor = x.subs[q.s].cursor
    PROVE  Base(Send(x, m), P, E)
<1> DEFINE y == Send(x, m)
<1>1. x \in StreamState
  BY DEF Base
<1>2. /\ y \in StreamState /\ Elems(y.up) = Elems(x.up) \cup {m}
      /\ y.run = x.run /\ y.conn = x.conn /\ y.connecting = x.connecting /\ y.at = x.at
      /\ y.subs = x.subs /\ y.cons = x.cons /\ y.pending = x.pending /\ y.fetches = x.fetches
  BY <1>1, SendIs
<1> HIDE DEF y
<1>3. Asking(y) = Asking(x) /\ \A j : Current(y, j) <=> Current(x, j)
  BY <1>2 DEF Asking, Current
<1>4. Linked(y)
  BY <1>2, <1>3 DEF Base, Linked
<1>5. Asked(y) /\ Attached(y)
  BY <1>2, <1>3 DEF Base, Asked, Attached
<1>6. OneConnect(y)
  BY <1>2 DEF Base, OneConnect
<1>7. WellFormed(y)
  BY <1>2 DEF Base, WellFormed
<1>8. Resumes(y, P) /\ Positioned(y)
  BY <1>2, <1>3 DEF Base, Resumes, Positioned
<1>9. \A j \in Consumers \ E : Settled(y, P, j)
  BY <1>2 DEF Base, Settled
<1> QED
  BY <1>2, <1>4, <1>5, <1>6, <1>7, <1>8, <1>9 DEF Base, y

-----------------------------------------------------------------------------
(* The helpers of the handlers.                                            *)

LEMMA FinishedIs ==
    ASSUME NEW con \in Queue
    PROVE  /\ Finished(con) \in Queue
           /\ Finished(con).st = IF con.st = "open" THEN "ended" ELSE con.st
           /\ Finished(con).sub = con.sub /\ Finished(con).run = con.run
<1>1. Untold \in Knowledge
  BY DEF Untold, Knowledge, States, Views, None
<1>2. Many \in 0..Many
  BY DEF Many
<1> QED
  BY <1>1, <1>2 DEF Finished, Queue

LEMMA FinishAllIs ==
    ASSUME NEW cons \in [Consumers -> Queue], NEW ending
    PROVE  /\ FinishAll(cons, ending) \in [Consumers -> Queue]
           /\ \A c \in Consumers :
                FinishAll(cons, ending)[c] = IF c \in ending THEN Finished(cons[c]) ELSE cons[c]
BY FinishedIs DEF FinishAll

LEMMA Names == "none" \notin Consumers /\ 0 \in Ids /\ NewSub \in SubRecord /\ AccountOf \in [Consumers -> Accounts]
BY StreamAssumptions DEF NewSub, SubRecord, Ids, Cursors, None, States

LEMMA DetachedIs ==
    ASSUME NEW s \in SubRecord
    PROVE  /\ Detached(s) \in SubRecord
           /\ Detached(s) = [s EXCEPT !.retryTimer = FALSE, !.ackTimer = 0, !.sub = 0, !.seq = 0,
                                      !.ready = FALSE, !.staging = FALSE]
BY Names DEF Detached, SubRecord

LEMMA DetachIs ==
    ASSUME NEW x \in StreamState
    PROVE  LET y == Detach(x) IN
           /\ y \in StreamState /\ y.conn = 0 /\ y.pending = {} /\ y.up = <<>>
           /\ \A j \in Consumers :
                y.subs[j] = IF Current(x, j) THEN Detached(x.subs[j]) ELSE x.subs[j]
           /\ y.run = x.run /\ y.connecting = x.connecting /\ y.timer = x.timer
           /\ y.at = x.at /\ y.cons = x.cons /\ y.fetches = x.fetches
<1>1. x.subs \in [Consumers -> SubRecord]
  BY DEF StreamState
<1>2. 0 \in 0..MaxConns /\ <<>> \in Seq(Messages)
  BY StreamAssumptions
<1> QED
  BY <1>1, <1>2, DetachedIs DEF StreamState, Detach

-----------------------------------------------------------------------------
(* What a handler leaves of the state it began with.                       *)

\* Server subscription s is used, or its end is asked for.
Owned(x, s) ==
    \/ BySub(x, s) # {}
    \/ \E m \in Elems(x.up) : m.op = "unsubscribe" /\ m.sub = s

Keeps(x, y) ==
    \/ y.conn = 0
    \/ y.conn = x.conn /\ \A s \in Ids \ {0} : Owned(x, s) => Owned(y, s)

\* Only the number of its consumers changed.
Kept(x, y, i) ==
    /\ y.at = x.at /\ y.conn = x.conn /\ y.run = x.run /\ y.pending = x.pending /\ y.up = x.up
    /\ y.subs[i] = [x.subs[i] EXCEPT !.consumers = y.subs[i].consumers]
    /\ y.subs[i].consumers \subseteq x.subs[i].consumers

\* From x to y only record i and its consumers changed.
Spares(x, y, i) ==
    /\ \A j \in Consumers \ {i} : y.subs[j] = x.subs[j]
    /\ \A c \in Consumers :
         /\ y.cons[c].sub = x.cons[c].sub
         /\ y.cons[c].st = "new" <=> x.cons[c].st = "new"
         /\ y.cons[c].st = "open" => x.cons[c].st = "open"
         /\ x.cons[c].sub # i => y.cons[c] = x.cons[c]
    /\ \A a \in Accounts : a # AccountOf[i] => y.at[a] = x.at[a]
    /\ y.fetches = x.fetches /\ y.pending \subseteq x.pending
    /\ IdsInUse(y) \subseteq IdsInUse(x) \cup {0}
    /\ Keeps(x, y)

\* y is x after events for the consumers of i, the last of whom may have left.
Touches(x, y, i) ==
    /\ Spares(x, y, i)
    /\ Kept(x, y, i) \/ (~Current(y, i) /\ y.subs[i] = NewSub)

LEMMA KeepsOn ==
    ASSUME NEW x, NEW y, NEW z, Keeps(x, y), Keeps(y, z)
    PROVE  Keeps(x, z)
BY DEF Keeps

\* What is the same for each user of a server subscription.
LEMMA KeepsSame ==
    ASSUME NEW x, NEW y, y.conn = x.conn, y.at = x.at, Elems(x.up) \subseteq Elems(y.up),
           \A j \in Consumers : y.subs[j].sub = x.subs[j].sub
    PROVE  Keeps(x, y)
<1>1. \A s : BySub(y, s) = BySub(x, s)
  BY DEF BySub
<1> QED
  BY <1>1 DEF Keeps, Owned

\* Consumers leave record i, or their queues change.
Rostered(x, i, C, cs) == [x EXCEPT !.subs[i].consumers = C, !.cons = cs]

LEMMA RostersBase ==
    ASSUME NEW x, NEW P, NEW E, Base(x, P, E), NEW i \in Consumers,
           NEW C \in SUBSET x.subs[i].consumers, NEW cs \in [Consumers -> Queue],
           \A c \in Consumers :
             /\ cs[c].sub = x.cons[c].sub
             /\ cs[c].st = "new" <=> x.cons[c].st = "new"
             /\ x.cons[c].st = "new" => cs[c] = x.cons[c]
             /\ cs[c].st = "open" => x.cons[c].st = "open" /\ (x.cons[c].sub = i => c \in C)
    PROVE  LET y == Rostered(x, i, C, cs) IN
           /\ Base(y, P, E)
           /\ y.cons = cs /\ y.subs = [x.subs EXCEPT ![i].consumers = C]
           /\ y.run = x.run /\ y.conn = x.conn /\ y.connecting = x.connecting /\ y.at = x.at
           /\ y.pending = x.pending /\ y.fetches = x.fetches /\ y.up = x.up
<1> DEFINE y == Rostered(x, i, C, cs)
<1>1. x \in StreamState
  BY DEF Base
<1>2. x.subs \in [Consumers -> SubRecord] /\ x.subs[i].consumers \in SUBSET Consumers
  BY <1>1 DEF StreamState, SubRecord
<1>3. [x.subs EXCEPT ![i].consumers = C] \in [Consumers -> SubRecord]
  BY <1>2 DEF SubRecord
<1>4. /\ y \in StreamState /\ y.cons = cs /\ y.subs = [x.subs EXCEPT ![i].consumers = C]
      /\ y.run = x.run /\ y.conn = x.conn /\ y.connecting = x.connecting /\ y.at = x.at
      /\ y.pending = x.pending /\ y.fetches = x.fetches /\ y.up = x.up
  BY <1>1, <1>2, <1>3 DEF StreamState, Rostered
<1> HIDE DEF y
<1>5. /\ \A j \in Consumers \ {i} : y.subs[j] = x.subs[j]
      /\ y.subs[i] = [x.subs[i] EXCEPT !.consumers = C]
  BY <1>2, <1>4
<1>6. /\ y.subs[i].consumers = C
      /\ \A j \in Consumers : /\ y.subs[j].sub = x.subs[j].sub
                              /\ y.subs[j].seq = x.subs[j].seq
                              /\ y.subs[j].cursor = x.subs[j].cursor
                              /\ y.subs[j].orders = x.subs[j].orders
                              /\ y.subs[j].state = x.subs[j].state
                              /\ y.subs[j].ready = x.subs[j].ready
                              /\ y.subs[j].retryTimer = x.subs[j].retryTimer
  BY <1>2, <1>5 DEF SubRecord
<1>7. Asking(y) = Asking(x) /\ \A j : Current(y, j) <=> Current(x, j)
  BY <1>4 DEF Asking, Current
<1>8. \A q \in Asking(x) : q.s \in Consumers
  BY <1>1 DEF Asking, StreamState, Requests
<1>9. Linked(y)
  <2>1. Linked(x)
    BY DEF Base
  <2>2. \A j \in Consumers : \A c \in y.subs[j].consumers : y.cons[c].sub = j
    <3>1. \A j \in Consumers : y.subs[j].consumers \subseteq x.subs[j].consumers
      BY <1>5, <1>6
    <3>2. \A j \in Consumers : x.subs[j].consumers \subseteq Consumers
      BY <1>2 DEF SubRecord
    <3> QED
      BY <1>4, <2>1, <3>1, <3>2 DEF Linked
  <2>3. ASSUME NEW c \in Consumers, y.cons[c].st = "new"
        PROVE  y.cons[c] = NewCons /\ y.subs[c] = NewSub /\ y.at[AccountOf[c]] # c
    <3>1. x.cons[c].st = "new" /\ y.cons[c] = x.cons[c]
      BY <1>4, <2>3
    <3>2. x.cons[c] = NewCons /\ x.subs[c] = NewSub /\ x.at[AccountOf[c]] # c
      BY <2>1, <3>1 DEF Linked
    <3>3. ASSUME c = i PROVE y.subs[c] = x.subs[c]
      <4>1. x.subs[i].consumers = {} /\ x.subs[i] = NewSub
        BY <3>2, <3>3 DEF NewSub
      <4>2. C = {}
        BY <4>1
      <4>3. [x.subs[i] EXCEPT !.consumers = x.subs[i].consumers] = x.subs[i]
        BY <1>2 DEF SubRecord
      <4> QED
        BY <1>5, <3>3, <4>1, <4>2, <4>3
    <3> QED
      BY <1>4, <1>5, <3>1, <3>2, <3>3
  <2>4. \A c \in Consumers : y.cons[c].st # "new" => y.cons[c].sub \in Consumers
    BY <1>4, <2>1 DEF Linked
  <2>5. \A c \in Consumers : y.cons[c].st = "open" =>
          Current(y, y.cons[c].sub) /\ c \in y.subs[y.cons[c].sub].consumers
    BY <1>4, <1>5, <1>6, <1>7, <2>1 DEF Linked
  <2>6. /\ y.run # "none" => y.run \in Consumers /\ y.cons[y.run].st # "new"
        /\ \A f \in y.fetches : f.run \in Consumers /\ y.cons[f.run].st # "new"
    BY <1>1, <1>4, <2>1 DEF Linked, StreamState, SomeConsumer, Fetching
  <2> QED
    BY <1>4, <2>1, <2>2, <2>3, <2>4, <2>5, <2>6 DEF Linked
<1>10. Asked(y) /\ Attached(y)
  BY <1>4, <1>6, <1>7, <1>8 DEF Base, Asked, Attached
<1>11. OneConnect(y) /\ WellFormed(y)
  BY <1>4 DEF Base, OneConnect, WellFormed
<1>12. Resumes(y, P) /\ Positioned(y)
  BY <1>4, <1>6, <1>7, <1>8 DEF Base, Resumes, Positioned
<1>13. \A j \in Consumers \ E : Settled(y, P, j)
  BY <1>6 DEF Base, Settled
<1> QED
  BY <1>4, <1>9, <1>10, <1>11, <1>12, <1>13 DEF Base, y

-----------------------------------------------------------------------------
(* The end of a subscription.                                              *)

LEMMA UnsubscribeIs ==
    ASSUME NEW x, NEW P, NEW E, Base(x, P, E), NEW i \in Consumers, x.conn # 0
    PROVE  LET y == Unsubscribe(x, i) IN
           /\ Base(y, P, E)
           /\ y.run = x.run /\ y.conn = x.conn /\ y.connecting = x.connecting /\ y.at = x.at
           /\ y.subs = x.subs /\ y.cons = x.cons /\ y.pending = x.pending
           /\ y.fetches = x.fetches
           /\ Elems(x.up) \subseteq Elems(y.up)
           /\ \E m \in Elems(y.up) : m.op = "unsubscribe" /\ m.sub = x.subs[i].sub
           /\ IdsInUse(y) \subseteq IdsInUse(x) \cup {0}
<1> DEFINE m == [op |-> "unsubscribe", id |-> 0, sub |-> x.subs[i].sub, s |-> i, cursor |-> None]
           y == Send(x, m)
<1>1. x \in StreamState /\ x.subs[i] \in SubRecord
  BY DEF Base, StreamState
<1>2. m \in Messages
  BY <1>1, Names DEF Messages, SubRecord, SomeConsumer, Cursors
<1>3. m.op = "unsubscribe" /\ m.sub = x.subs[i].sub /\ m.id = 0
  OBVIOUS
<1> HIDE DEF m
<1>4. /\ y \in StreamState /\ Elems(y.up) = Elems(x.up) \cup {m}
      /\ y.run = x.run /\ y.conn = x.conn /\ y.connecting = x.connecting /\ y.at = x.at
      /\ y.subs = x.subs /\ y.cons = x.cons /\ y.pending = x.pending
      /\ y.fetches = x.fetches
  BY <1>1, <1>2, SendIs
<1>5. Base(y, P, E)
  BY <1>2, <1>3, SendBase
<1> HIDE DEF y
<1>6. IdsInUse(y) \subseteq IdsInUse(x) \cup {0}
  BY <1>3, <1>4 DEF IdsInUse
<1> QED
  BY <1>3, <1>4, <1>5, <1>6 DEF Unsubscribe, m, y

LEMMA ShutdownBase ==
    ASSUME NEW x, NEW P, NEW E, Base(x, P, E), \A a \in Accounts : x.at[a] = "none"
    PROVE  LET y == Shutdown(x) IN
           /\ Base(y, P, E)
           /\ y.conn = 0 /\ y.at = x.at /\ y.subs = x.subs /\ y.cons = x.cons
           /\ y.pending = {} /\ y.fetches = x.fetches /\ y.up = <<>>
<1> DEFINE y == Shutdown(x)
<1>1. x \in StreamState
  BY DEF Base
<1>2. \A j \in Consumers : ~Current(x, j)
  BY Names DEF Current
<1>3. /\ Detach(x) \in StreamState /\ Detach(x).subs = x.subs
      /\ Detach(x).conn = 0 /\ Detach(x).pending = {} /\ Detach(x).up = <<>>
      /\ Detach(x).at = x.at /\ Detach(x).cons = x.cons /\ Detach(x).fetches = x.fetches
  <2>1. x.subs \in [Consumers -> SubRecord] /\ Detach(x).subs \in [Consumers -> SubRecord]
    BY <1>1, DetachIs DEF StreamState
  <2>2. \A j \in Consumers : Detach(x).subs[j] = x.subs[j]
    BY <1>1, <1>2, DetachIs
  <2> QED
    BY <1>1, <2>1, <2>2, DetachIs
<1>4. /\ y \in StreamState /\ y.subs = x.subs
      /\ y.conn = 0 /\ y.pending = {} /\ y.up = <<>> /\ y.run = "none" /\ ~y.connecting
      /\ y.at = x.at /\ y.cons = x.cons /\ y.fetches = x.fetches
  BY <1>3 DEF Shutdown, StreamState, SomeConsumer
<1> HIDE DEF y
<1>5. Asking(y) = {} /\ Elems(y.up) = {} /\ \A j : Current(y, j) <=> Current(x, j)
  BY <1>4 DEF Asking, Elems, Current
<1>6. Linked(y)
  BY <1>4, <1>5 DEF Base, Linked
<1>7. Asked(y) /\ Attached(y)
  BY <1>2, <1>4, <1>5 DEF Base, Asked, Attached
<1>8. OneConnect(y) /\ WellFormed(y)
  <2>1. \A f \in x.fetches : f.run # "none"
    BY <1>1, Names DEF StreamState, Fetching
  <2> QED
    BY <1>4, <1>5, <2>1 DEF Base, OneConnect, WellFormed
<1>9. Resumes(y, P) /\ Positioned(y)
  BY <1>4, <1>5 DEF Base, Resumes, Positioned
<1>10. \A j \in Consumers \ E : Settled(y, P, j)
  BY <1>4 DEF Base, Settled
<1> QED
  BY <1>4, <1>6, <1>7, <1>8, <1>9, <1>10 DEF Base, y

LEMMA TeardownIs ==
    ASSUME NEW x, NEW P, NEW E, Base(x, P, E), NEW i \in Consumers, Current(x, i)
    PROVE  LET y == Teardown(x, i) IN
           /\ Base(y, P, E \ {i}) /\ Touches(x, y, i)
           /\ ~Current(y, i) /\ y.subs[i] = NewSub
<1> DEFINE b == AccountOf[i]
           asks == x.conn # 0 /\ x.subs[i].sub # 0
           u == IF asks THEN Unsubscribe(x, i) ELSE x
           ending == x.subs[i].consumers
           g == [u EXCEPT !.at[b] = "none", !.cons = FinishAll(x.cons, ending),
                          !.subs[i] = NewSub, !.pending = {q \in @ : q.s # i}]
           y == IF \A a \in Accounts : g.at[a] = "none" THEN Shutdown(g) ELSE g
<1>1. Teardown(x, i) = y
  BY DEF Teardown
<1>2. /\ Base(u, P, E)
      /\ u.run = x.run /\ u.conn = x.conn /\ u.connecting = x.connecting /\ u.at = x.at
      /\ u.subs = x.subs /\ u.cons = x.cons /\ u.pending = x.pending
      /\ u.fetches = x.fetches
      /\ Elems(x.up) \subseteq Elems(u.up)
      /\ asks => \E m \in Elems(u.up) : m.op = "unsubscribe" /\ m.sub = x.subs[i].sub
      /\ IdsInUse(u) \subseteq IdsInUse(x) \cup {0}
  BY UnsubscribeIs
<1> HIDE DEF u
<1>3. /\ x \in StreamState /\ u \in StreamState /\ b \in Accounts
      /\ x.subs \in [Consumers -> SubRecord] /\ x.cons \in [Consumers -> Queue]
      /\ x.at \in [Accounts -> SomeConsumer] /\ x.pending \subseteq Requests
  BY <1>2, Names DEF Base, StreamState
<1>4. /\ FinishAll(x.cons, ending) \in [Consumers -> Queue]
      /\ \A c \in Consumers :
           FinishAll(x.cons, ending)[c] = IF c \in ending THEN Finished(x.cons[c]) ELSE x.cons[c]
  BY <1>3, FinishAllIs
<1>5. /\ g \in StreamState
      /\ g.at = [x.at EXCEPT ![b] = "none"] /\ g.cons = FinishAll(x.cons, ending)
      /\ g.subs = [x.subs EXCEPT ![i] = NewSub] /\ g.pending = {q \in x.pending : q.s # i}
      /\ g.run = x.run /\ g.conn = x.conn /\ g.connecting = x.connecting
      /\ g.fetches = x.fetches /\ g.up = u.up
  BY <1>2, <1>3, <1>4, Names DEF StreamState, SomeConsumer
<1> HIDE DEF g
<1>6. /\ g.subs[i] = NewSub /\ \A j \in Consumers \ {i} : g.subs[j] = x.subs[j]
      /\ g.at[b] = "none" /\ \A a \in Accounts \ {b} : g.at[a] = x.at[a]
  BY <1>3, <1>5
<1>7. \A c \in Consumers :
        /\ g.cons[c].sub = x.cons[c].sub
        /\ g.cons[c].st = "new" <=> x.cons[c].st = "new"
        /\ g.cons[c].st = "open" => x.cons[c].st = "open" /\ c \notin ending
        /\ c \notin ending => g.cons[c] = x.cons[c]
  BY <1>3, <1>4, <1>5, FinishedIs
<1>8. \A c \in ending : c \in Consumers /\ x.cons[c].sub = i
  <2>1. Linked(x)
    BY DEF Base
  <2> QED
    BY <1>3, <2>1 DEF Linked, SubRecord
<1>9. ~Current(g, i)
  BY <1>6, Names DEF Current
<1>10. \A j \in Consumers : Current(g, j) <=> Current(x, j) /\ j # i
  BY <1>6, Names DEF Current
<1>11. Linked(g)
  <2>1. Linked(x)
    BY DEF Base
  <2>2. \A a \in Accounts : g.at[a] # "none" => AccountOf[g.at[a]] = a
    BY <1>6, <2>1 DEF Linked
  <2>3. \A j \in Consumers : \A c \in g.subs[j].consumers : g.cons[c].sub = j
    <3>1. g.subs[i].consumers = {}
      BY <1>6 DEF NewSub
    <3>2. \A j \in Consumers : x.subs[j].consumers \subseteq Consumers
      BY <1>3 DEF SubRecord
    <3> QED
      BY <1>6, <1>7, <2>1, <3>1, <3>2 DEF Linked
  <2>4. ASSUME NEW c \in Consumers, g.cons[c].st = "new"
        PROVE  g.cons[c] = NewCons /\ g.subs[c] = NewSub /\ g.at[AccountOf[c]] # c
    <3>1. x.cons[c].st = "new"
      BY <1>7, <2>4
    <3>2. x.cons[c] = NewCons /\ x.subs[c] = NewSub /\ ~Current(x, c)
      BY <2>1, <3>1 DEF Linked, Current
    <3>3. x.cons[c].sub = "none"
      BY <3>2 DEF NewCons
    <3>4. g.cons[c] = NewCons
      BY <1>7, <1>8, <3>2, <3>3, Names
    <3>5. g.subs[c] = NewSub /\ ~Current(g, c)
      BY <1>6, <1>10, <3>2
    <3> QED
      BY <3>4, <3>5 DEF Current
  <2>5. \A c \in Consumers : g.cons[c].st # "new" => g.cons[c].sub \in Consumers
    BY <1>7, <2>1 DEF Linked
  <2>6. ASSUME NEW c \in Consumers, g.cons[c].st = "open"
        PROVE  Current(g, g.cons[c].sub) /\ c \in g.subs[g.cons[c].sub].consumers
    <3>1. x.cons[c].st = "open" /\ c \notin ending /\ g.cons[c].sub = x.cons[c].sub
      BY <1>7, <2>6
    <3>2. x.cons[c].sub \in Consumers
      BY <2>1, <3>1 DEF Linked
    <3>3. Current(x, x.cons[c].sub) /\ c \in x.subs[x.cons[c].sub].consumers
      BY <2>1, <3>1 DEF Linked
    <3>4. x.cons[c].sub # i
      BY <3>1, <3>3
    <3> QED
      BY <1>6, <1>10, <3>1, <3>2, <3>3, <3>4
  <2>7. /\ g.run # "none" => g.run \in Consumers /\ g.cons[g.run].st # "new"
        /\ \A f \in g.fetches : f.run \in Consumers /\ g.cons[f.run].st # "new"
    BY <1>3, <1>5, <1>7, <2>1 DEF Linked, StreamState, SomeConsumer, Fetching
  <2> QED
    BY <2>2, <2>3, <2>4, <2>5, <2>6, <2>7 DEF Linked
<1>12. Asking(g) \subseteq Asking(x) /\ \A q \in g.pending : q \in x.pending /\ q.s # i /\ q.s \in Consumers
  BY <1>3, <1>5 DEF Asking, Requests
<1>13. Asked(g)
  <2>1. Asked(x)
    BY DEF Base
  <2>2. \A q \in g.pending : Current(g, q.s) /\ g.conn # 0
    BY <1>5, <1>10, <1>12, <2>1 DEF Asked
  <2>3. \A q \in Asking(g) : q \in x.pending /\ q \in g.pending
    BY <1>12 DEF Asking
  <2>4. \A q \in Asking(g) : g.subs[q.s].sub = 0 /\ ~g.subs[q.s].retryTimer
    BY <1>6, <1>12, <2>1, <2>3 DEF Asked
  <2> QED
    BY <1>12, <2>1, <2>2, <2>4 DEF Asked
<1>14. Attached(g)
  <2>1. Attached(x)
    BY DEF Base
  <2>2. g.subs[i].sub = 0 /\ ~g.subs[i].retryTimer
    BY <1>6 DEF NewSub
  <2> QED
    BY <1>5, <1>6, <1>10, <2>1, <2>2 DEF Attached
<1>15. OneConnect(g) /\ WellFormed(g)
  BY <1>2, <1>5 DEF Base, OneConnect, WellFormed
<1>16. Resumes(g, P)
  <2>1. Resumes(u, P)
    BY <1>2 DEF Base
  <2>2. \A q \in Asking(g) : q \in Asking(u) /\ g.subs[q.s] = u.subs[q.s]
    BY <1>2, <1>5, <1>6, <1>12 DEF Asking
  <2> QED
    BY <1>5, <2>1, <2>2 DEF Resumes
<1>17. Positioned(g)
  <2>1. Positioned(x)
    BY DEF Base
  <2>2. g.subs[i].cursor = None /\ g.subs[i].sub = 0
    BY <1>6 DEF NewSub
  <2> QED
    BY <1>6, <2>1, <2>2 DEF Positioned
<1>18. \A j \in Consumers \ (E \ {i}) : Settled(g, P, j)
  <2>1. Settled(g, P, i)
    BY <1>6 DEF Settled, NewSub
  <2>2. \A j \in Consumers \ E : Settled(x, P, j)
    BY DEF Base
  <2> QED
    BY <1>6, <2>1, <2>2 DEF Settled
<1>19. Base(g, P, E \ {i})
  BY <1>5, <1>11, <1>13, <1>14, <1>15, <1>16, <1>17, <1>18 DEF Base
<1>20. /\ Base(y, P, E \ {i})
       /\ y.subs = g.subs /\ y.cons = g.cons /\ y.at = g.at /\ y.fetches = x.fetches
       /\ y.pending \subseteq g.pending /\ Elems(y.up) \subseteq Elems(u.up)
       /\ y.conn # 0 => y = g
  <2>1. CASE \A a \in Accounts : g.at[a] = "none"
    <3>1. y = Shutdown(g)
      BY <2>1
    <3>2. Elems(<<>>) = {}
      BY DEF Elems
    <3> QED
      BY <1>5, <1>19, <2>1, <3>1, <3>2, ShutdownBase
  <2>2. CASE ~(\A a \in Accounts : g.at[a] = "none")
    <3>1. y = g
      BY <2>2
    <3> QED
      BY <1>5, <1>19, <3>1
  <2> QED
    BY <2>1, <2>2
<1> HIDE DEF y
<1>21. ~Current(y, i) /\ y.subs[i] = NewSub
  BY <1>6, <1>9, <1>20 DEF Current
<1>22. IdsInUse(y) \subseteq IdsInUse(x) \cup {0}
  <2>1. y.pending \subseteq x.pending
    BY <1>5, <1>20
  <2>2. \A j \in Consumers : y.subs[j].ackTimer \in {x.subs[j].ackTimer, 0}
    BY <1>6, <1>20 DEF NewSub
  <2>3. IdsInUse(y) \subseteq IdsInUse(u) \cup {0}
    BY <1>2, <1>20, <2>1, <2>2 DEF IdsInUse
  <2> QED
    BY <1>2, <2>3
<1>23. Keeps(x, y)
  <2>1. SUFFICES ASSUME y.conn # 0, NEW s \in Ids \ {0}, Owned(x, s)
                 PROVE  Owned(y, s)
    BY <1>5, <1>20 DEF Keeps
  <2>2. y = g /\ x.conn # 0 /\ y.up = u.up
    BY <1>5, <1>20, <2>1
  <2>3. CASE \E m \in Elems(x.up) : m.op = "unsubscribe" /\ m.sub = s
    BY <1>2, <2>2, <2>3 DEF Owned
  <2>4. CASE BySub(x, s) # {}
    <3>1. PICK j \in Consumers : s # 0 /\ x.subs[j].sub = s /\ Current(x, j)
      BY <2>4 DEF BySub, Current
    <3>2. CASE j = i
      BY <1>2, <2>2, <3>1, <3>2 DEF Owned
    <3>3. CASE j # i
      <4>1. y.subs[j].sub = s /\ Current(y, j)
        BY <1>6, <1>10, <2>2, <3>1, <3>3
      <4>2. j \in BySub(y, s)
        BY <3>1, <4>1 DEF BySub, Current
      <4> QED
        BY <4>2 DEF Owned
    <3> QED
      BY <3>2, <3>3
  <2> QED
    BY <2>1, <2>3, <2>4 DEF Owned
<1>24. Touches(x, y, i)
  <2>1. \A c \in Consumers : x.cons[c].sub # i => c \notin ending
    BY <1>8
  <2>2. \A a \in Accounts : a # AccountOf[i] => y.at[a] = x.at[a]
    BY <1>6, <1>20
  <2>3. y.pending \subseteq x.pending
    BY <1>5, <1>20
  <2>4. \A j \in Consumers \ {i} : y.subs[j] = x.subs[j]
    BY <1>6, <1>20
  <2>5. \A c \in Consumers :
          /\ y.cons[c].sub = x.cons[c].sub
          /\ y.cons[c].st = "new" <=> x.cons[c].st = "new"
          /\ y.cons[c].st = "open" => x.cons[c].st = "open"
          /\ x.cons[c].sub # i => y.cons[c] = x.cons[c]
    BY <1>7, <1>20, <2>1
  <2> QED
    BY <1>20, <1>21, <1>22, <1>23, <2>2, <2>3, <2>4, <2>5 DEF Touches, Spares
<1> QED
  BY <1>1, <1>20, <1>21, <1>24

LEMMA SparesOn ==
    ASSUME NEW x, NEW y, NEW z, NEW i \in Consumers, Spares(x, y, i), Spares(y, z, i)
    PROVE  Spares(x, z, i)
<1>1. Keeps(x, z)
  BY KeepsOn DEF Spares
<1>2. z.pending \subseteq x.pending /\ IdsInUse(z) \subseteq IdsInUse(x) \cup {0}
  BY DEF Spares
<1> QED
  BY <1>1, <1>2 DEF Spares

LEMMA TouchesOn ==
    ASSUME NEW x, NEW y, NEW z, NEW i \in Consumers, Touches(x, y, i), Touches(y, z, i),
           x \in StreamState
    PROVE  Touches(x, z, i)
<1>1. Spares(x, z, i)
  BY SparesOn DEF Touches
<1>2. Kept(x, z, i) \/ (~Current(z, i) /\ z.subs[i] = NewSub)
  <2>1. CASE ~Current(z, i) /\ z.subs[i] = NewSub
    BY <2>1
  <2>2. CASE Kept(y, z, i) /\ Kept(x, y, i)
    <3>1. x.subs[i] \in SubRecord
      BY DEF StreamState
    <3>2. z.subs[i] = [x.subs[i] EXCEPT !.consumers = z.subs[i].consumers]
      BY <2>2, <3>1 DEF Kept, SubRecord
    <3> QED
      BY <2>2, <3>2 DEF Kept
  <2>3. CASE Kept(y, z, i) /\ ~Current(y, i) /\ y.subs[i] = NewSub
    <3>1. z.subs[i].consumers = NewSub.consumers
      BY <2>3 DEF Kept, NewSub
    <3>2. [NewSub EXCEPT !.consumers = NewSub.consumers] = NewSub
      <4>1. \A s \in SubRecord : [s EXCEPT !.consumers = s.consumers] = s
        BY DEF SubRecord
      <4> QED
        BY <4>1, Names
    <3> QED
      BY <2>3, <3>1, <3>2 DEF Kept, Current
  <2> QED
    BY <2>1, <2>2, <2>3 DEF Touches
<1> QED
  BY <1>1, <1>2 DEF Touches

LEMMA BaseMore ==
    ASSUME NEW x, NEW P, NEW E, NEW F, Base(x, P, E), E \subseteq F
    PROVE  Base(x, P, F)
BY DEF Base

\* Nobody is told by a subscription that is gone.
LEMMA GoneIs ==
    ASSUME NEW x, NEW P, NEW E, Base(x, P, E), NEW i \in Consumers, ~Current(x, i)
    PROVE  \A c \in Consumers : ~(x.cons[c].st = "open" /\ x.cons[c].sub = i)
BY DEF Base, Linked

LEMMA OfferIs ==
    ASSUME NEW x, NEW P, NEW E, Base(x, P, E), NEW i \in Consumers,
           NEW to \in SUBSET Consumers, \A c \in to : x.cons[c].sub = i,
           NEW ev, \A told \in Knowledge : Tell(told, ev) \in Knowledge
    PROVE  LET y == Offer(x, i, to, ev) IN
           /\ Base(y, P, E) /\ Touches(x, y, i)
           /\ \A c \in Consumers :
                y.cons[c].st = "open" /\ x.cons[c].sub = i =>
                  y.cons[c].told = IF c \in to THEN Tell(x.cons[c].told, ev) ELSE x.cons[c].told
<1> DEFINE full == Full(x, to)
           open == {c \in to : x.cons[c].st = "open"}
           sent == [c \in Consumers |-> IF c \in to \ full /\ x.cons[c].st = "open"
                                        THEN Queued(x.cons[c], ev) ELSE x.cons[c]]
           left == x.subs[i].consumers \ full
           cs == FinishAll(sent, full)
           z == Rostered(x, i, left, cs)
           y == IF full # {} /\ z.subs[i].consumers = {} THEN Teardown(z, i) ELSE z
<1>0. Offered(x, i, to, ev) = z
  BY DEF Offered, Rostered
<1>1. Offer(x, i, to, ev) = y
  BY <1>0 DEF Offer
<1>2. /\ x \in StreamState /\ x.cons \in [Consumers -> Queue]
      /\ x.subs \in [Consumers -> SubRecord] /\ Linked(x)
      /\ full \subseteq open
  BY DEF Base, StreamState, Full
<1>3. /\ sent \in [Consumers -> Queue]
      /\ \A c \in Consumers : /\ sent[c].st = x.cons[c].st /\ sent[c].sub = x.cons[c].sub
                              /\ c \notin open => sent[c] = x.cons[c]
                              /\ c \in open \ full => sent[c].told = Tell(x.cons[c].told, ev)
  <2>1. ASSUME NEW c \in Consumers, c \in open \ full
        PROVE  LET s == Queued(x.cons[c], ev) IN
               /\ s \in Queue /\ s.st = x.cons[c].st /\ s.sub = x.cons[c].sub
               /\ s.told = Tell(x.cons[c].told, ev)
    <3>1. x.cons[c] \in Queue /\ x.cons[c].room # 0
      BY <1>2, <2>1 DEF Full
    <3>2. x.cons[c].room - 1 \in 0..Many /\ Tell(x.cons[c].told, ev) \in Knowledge
      BY <3>1 DEF Queue, Many
    <3> QED
      BY <3>1, <3>2 DEF Queue, Queued
  <2>2. \A c \in Consumers : x.cons[c] \in Queue
    BY <1>2
  <2> QED
    BY <2>1, <2>2
<1> HIDE DEF sent, full
<1>4. /\ cs \in [Consumers -> Queue]
      /\ \A c \in Consumers : cs[c] = IF c \in full THEN Finished(sent[c]) ELSE sent[c]
  BY <1>3, FinishAllIs
<1> HIDE DEF cs
<1>5. \A c \in Consumers :
        /\ cs[c].sub = x.cons[c].sub
        /\ cs[c].st = "new" <=> x.cons[c].st = "new"
        /\ cs[c].st = "open" => x.cons[c].st = "open" /\ c \notin full
        /\ c \notin open => cs[c] = x.cons[c]
        /\ cs[c].st = "open" /\ c \in open => cs[c].told = Tell(x.cons[c].told, ev)
  BY <1>2, <1>3, <1>4, FinishedIs
<1>6. \A c \in Consumers : x.cons[c].st = "open" /\ x.cons[c].sub = i =>
        c \in x.subs[i].consumers /\ Current(x, i)
  BY <1>2 DEF Linked
<1>7. left \in SUBSET x.subs[i].consumers
  OBVIOUS
<1> HIDE DEF left
<1>8. \A c \in Consumers :
        /\ x.cons[c].st = "new" => cs[c] = x.cons[c]
        /\ cs[c].st = "open" => x.cons[c].st = "open" /\ (x.cons[c].sub = i => c \in left)
        /\ cs[c].sub = x.cons[c].sub
        /\ cs[c].st = "new" <=> x.cons[c].st = "new"
  BY <1>5, <1>6 DEF left
<1>9. /\ Base(z, P, E)
      /\ z.cons = cs /\ z.subs = [x.subs EXCEPT ![i].consumers = left]
      /\ z.run = x.run /\ z.conn = x.conn /\ z.connecting = x.connecting /\ z.at = x.at
      /\ z.pending = x.pending /\ z.fetches = x.fetches /\ z.up = x.up
  <2> HIDE DEF y
  <2>1. Base(Rostered(x, i, left, cs), P, E)
    BY <1>4, <1>7, <1>8, RostersBase
  <2>2. LET w == Rostered(x, i, left, cs) IN
        /\ w.cons = cs /\ w.subs = [x.subs EXCEPT ![i].consumers = left]
        /\ w.run = x.run /\ w.conn = x.conn /\ w.connecting = x.connecting /\ w.at = x.at
        /\ w.pending = x.pending /\ w.fetches = x.fetches /\ w.up = x.up
    BY <1>2 DEF StreamState, Rostered
  <2> QED
    BY <2>1, <2>2 DEF z
<1> HIDE DEF z
<1>10. /\ z.subs[i] = [x.subs[i] EXCEPT !.consumers = left]
       /\ \A j \in Consumers \ {i} : z.subs[j] = x.subs[j]
  BY <1>2, <1>9
<1>11. z.subs[i].consumers = left
       /\ \A j \in Consumers : z.subs[j].sub = x.subs[j].sub
                               /\ z.subs[j].ackTimer = x.subs[j].ackTimer
  BY <1>2, <1>10 DEF SubRecord
<1>12. Touches(x, z, i)
  <2>1. Keeps(x, z)
    <3>1. z.conn = x.conn /\ z.at = x.at /\ Elems(x.up) \subseteq Elems(z.up)
      BY <1>9
    <3>2. \A j \in Consumers : z.subs[j].sub = x.subs[j].sub
      BY <1>11
    <3> QED
      BY <3>1, <3>2, KeepsSame
  <2>2. Kept(x, z, i)
    BY <1>7, <1>9, <1>10, <1>11 DEF Kept
  <2>3. IdsInUse(z) \subseteq IdsInUse(x) \cup {0}
    BY <1>9, <1>11 DEF IdsInUse
  <2>4. \A c \in Consumers : x.cons[c].sub # i => z.cons[c] = x.cons[c]
    BY <1>5, <1>9
  <2> QED
    BY <1>5, <1>9, <1>10, <2>1, <2>2, <2>3, <2>4 DEF Touches, Spares
<1>13. CASE full # {} /\ z.subs[i].consumers = {}
  <2>1. Current(z, i)
    <3>1. PICK c \in Consumers : x.cons[c].st = "open" /\ x.cons[c].sub = i
      BY <1>2, <1>13
    <3> QED
      BY <1>6, <1>9, <3>1 DEF Current
  <2>2. y = Teardown(z, i)
    BY <1>13
  <2> HIDE DEF y
  <2>3. Base(y, P, E \ {i}) /\ Touches(z, y, i) /\ ~Current(y, i)
    BY <1>9, <2>1, <2>2, TeardownIs
  <2>4. Base(y, P, E)
    BY <2>3, BaseMore
  <2>5. Touches(x, y, i)
    BY <1>2, <1>12, <2>3, TouchesOn
  <2>6. \A c \in Consumers : ~(y.cons[c].st = "open" /\ x.cons[c].sub = i)
    BY <2>3, <2>4, <2>5, GoneIs DEF Touches, Spares
  <2> QED
    BY <1>1, <2>4, <2>5, <2>6
<1>14. CASE ~(full # {} /\ z.subs[i].consumers = {})
  <2>1. y = z
    BY <1>14
  <2> HIDE DEF y
  <2>2. \A c \in Consumers :
          z.cons[c].st = "open" => (c \in to <=> c \in open)
    BY <1>5, <1>9
  <2> QED
    BY <1>1, <1>5, <1>9, <1>12, <2>1, <2>2
<1> QED
  BY <1>13, <1>14

-----------------------------------------------------------------------------
(* Events.                                                                 *)

LEMMA TellIs ==
    ASSUME NEW told \in Knowledge, NEW ev
    PROVE  /\ ev.type = "connected" => Tell(told, ev) = [told EXCEPT !.state = "connected"]
           /\ ev.type = "disconnected" =>
                Tell(told, ev) = [told EXCEPT !.state = "disconnected", !.ready = FALSE]
           /\ ev.type = "snapshot" => Tell(told, ev) = [told EXCEPT !.view = ev.val]
           /\ ev.type = "unit" => Tell(told, ev) = [told EXCEPT !.view = Applied(told.view, ev.val)]
           /\ ev.type = "ready" => Tell(told, ev) = [told EXCEPT !.ready = TRUE]
           /\ ev.type = "stale" => Tell(told, ev) = [told EXCEPT !.stale = TRUE]
           /\ ev.type = "current" => Tell(told, ev) = [told EXCEPT !.stale = FALSE]
           /\ ev.type = "error" => Tell(told, ev) = told
BY DEF Tell

Events ==
    [type : {"connected", "disconnected", "ready", "stale", "current", "error"}, val : 0..MaxLog]
      \cup [type : {"snapshot"}, val : Cursors] \cup [type : {"unit"}, val : 1..MaxLog]

LEMMA ToldIs ==
    ASSUME NEW told \in Knowledge, NEW ev \in Events
    PROVE  Tell(told, ev) \in Knowledge
<1>1. CASE ev.type = "unit"
  <2>1. ev.val \in 0..MaxLog
    BY <1>1 DEF Events
  <2>2. Applied(told.view, ev.val) \in Views
    BY <2>1 DEF Applied, Views
  <2>3. Tell(told, ev) = [told EXCEPT !.view = Applied(told.view, ev.val)]
    BY <1>1, TellIs
  <2> QED
    BY <2>2, <2>3 DEF Knowledge
<1>2. CASE ev.type = "snapshot"
  <2>1. ev.val \in Views
    BY <1>2 DEF Events, Cursors, Views
  <2>2. Tell(told, ev) = [told EXCEPT !.view = ev.val]
    BY <1>2, TellIs
  <2> QED
    BY <2>1, <2>2 DEF Knowledge
<1>3. CASE ev.type \notin {"unit", "snapshot"}
  <2>1. ev.type \in {"connected", "disconnected", "ready", "stale", "current", "error"}
    BY <1>3 DEF Events
  <2>2. Tell(told, ev) \in {told, [told EXCEPT !.state = "connected"],
                            [told EXCEPT !.state = "disconnected", !.ready = FALSE],
                            [told EXCEPT !.ready = TRUE], [told EXCEPT !.stale = TRUE],
                            [told EXCEPT !.stale = FALSE]}
    BY <2>1, TellIs
  <2> QED
    BY <2>2 DEF Knowledge, States
<1> QED
  BY <1>1, <1>2, <1>3

LEMMA EventIs ==
    ASSUME NEW type \in {"connected", "disconnected", "ready", "stale", "current", "error"}
    PROVE  Event(type) \in Events /\ Event(type).type = type
BY StreamAssumptions DEF Event, Events

LEMMA DeliverSound ==
    ASSUME NEW x, NEW P, NEW E, Base(x, P, E), NEW i \in Consumers, NEW F,
           \A j \in Consumers \ (F \cup {i}) : Agree(x, j), NEW ev \in Events,
           i \in F \/ \A c \in Consumers : x.cons[c].st = "open" /\ x.cons[c].sub = i =>
                        Matches(Tell(x.cons[c].told, ev), x.subs[i])
    PROVE  LET y == Deliver(x, i, ev) IN
           /\ Base(y, P, E) /\ Touches(x, y, i)
           /\ \A j \in Consumers \ F : Agree(y, j)
<1> DEFINE to == x.subs[i].consumers
           y == Offer(x, i, to, ev)
<1>1. x \in StreamState /\ Linked(x) /\ to \in SUBSET Consumers
  BY DEF Base, StreamState, SubRecord
<1>2. \A c \in to : x.cons[c].sub = i
  BY <1>1 DEF Linked
<1>3. \A told \in Knowledge : Tell(told, ev) \in Knowledge
  BY ToldIs
<1> HIDE DEF to
<1>4. /\ Base(y, P, E) /\ Touches(x, y, i)
      /\ \A c \in Consumers :
           y.cons[c].st = "open" /\ x.cons[c].sub = i =>
             y.cons[c].told = IF c \in to THEN Tell(x.cons[c].told, ev) ELSE x.cons[c].told
  BY <1>1, <1>2, <1>3, OfferIs
<1>5. Deliver(x, i, ev) = y
  BY DEF Deliver, to
<1> HIDE DEF y
<1>6. \A j \in Consumers \ F : j # i => Agree(y, j)
  BY <1>4 DEF Touches, Spares, Agree
<1>7. i \notin F => Agree(y, i)
  <2>1. SUFFICES ASSUME i \notin F, NEW c \in Consumers, y.cons[c].st = "open",
                        y.cons[c].sub = i
                 PROVE  Matches(y.cons[c].told, y.subs[i])
    BY DEF Agree
  <2>2. x.cons[c].st = "open" /\ x.cons[c].sub = i
    BY <1>4, <2>1 DEF Touches, Spares
  <2>3. c \in to
    BY <1>1, <2>2 DEF Linked, to
  <2>4. Matches(y.cons[c].told, x.subs[i])
    BY <1>4, <2>1, <2>2, <2>3
  <2>5. Kept(x, y, i)
    BY <1>4, <2>1, GoneIs DEF Touches
  <2>6. /\ y.subs[i].state = x.subs[i].state /\ y.subs[i].ready = x.subs[i].ready
        /\ y.subs[i].stale = x.subs[i].stale /\ y.subs[i].orders = x.subs[i].orders
    <3>1. x.subs[i] \in SubRecord
      BY <1>1 DEF StreamState
    <3> QED
      BY <2>5, <3>1 DEF Kept, SubRecord
  <2> QED
    BY <2>4, <2>6 DEF Matches
<1> QED
  BY <1>4, <1>5, <1>6, <1>7

Sound(x, P, F) == Base(x, P, {}) /\ \A j \in Consumers \ F : Agree(x, j)

LEMMA ReportSound ==
    ASSUME NEW x, NEW P, NEW F, Sound(x, P, F), NEW i \in Consumers
    PROVE  Sound(Report(x, i), P, F) /\ Touches(x, Report(x, i), i)
<1> DEFINE ev == Event("error")
<1>1. ev \in Events /\ ev.type = "error"
  BY EventIs
<1> HIDE DEF ev
<1>2. x.cons \in [Consumers -> Queue]
  BY DEF Sound, Base, StreamState
<1>3. \A c \in Consumers : Tell(x.cons[c].told, ev) = x.cons[c].told
  <2>1. \A c \in Consumers : x.cons[c].told \in Knowledge
    BY <1>2 DEF Queue
  <2> QED
    BY <1>1, <2>1, TellIs
<1>4. i \in F \/ \A c \in Consumers : x.cons[c].st = "open" /\ x.cons[c].sub = i =>
                   Matches(Tell(x.cons[c].told, ev), x.subs[i])
  BY <1>3 DEF Sound, Agree
<1>5. LET y == Deliver(x, i, ev) IN
      /\ Base(y, P, {}) /\ Touches(x, y, i)
      /\ \A j \in Consumers \ F : Agree(y, j)
  BY <1>1, <1>4, DeliverSound DEF Sound
<1> QED
  BY <1>5 DEF Report, Sound, ev

LEMMA ReplacedSpares ==
    ASSUME NEW x \in StreamState, NEW i \in Consumers, NEW t \in SubRecord,
           t.sub = x.subs[i].sub, t.ackTimer \in {x.subs[i].ackTimer, 0}
    PROVE  LET y == Replaced(x, i, t) IN
           /\ Spares(x, y, i)
           /\ y.subs[i] = t /\ y.conn = x.conn /\ y.run = x.run /\ y.pending = x.pending
           /\ y.cons = x.cons /\ y.fetches = x.fetches /\ y.up = x.up /\ y.at = x.at
<1> DEFINE y == Replaced(x, i, t)
<1>1. /\ y.subs = [x.subs EXCEPT ![i] = t]
      /\ y.run = x.run /\ y.conn = x.conn /\ y.at = x.at /\ y.cons = x.cons
      /\ y.pending = x.pending /\ y.fetches = x.fetches /\ y.up = x.up
  BY ReplacedIs
<1> HIDE DEF y
<1>2. x.subs \in [Consumers -> SubRecord]
  BY DEF StreamState
<1>3. y.subs[i] = t /\ \A j \in Consumers \ {i} : y.subs[j] = x.subs[j]
  BY <1>1, <1>2
<1>4. Keeps(x, y)
  <2>1. \A j \in Consumers : y.subs[j].sub = x.subs[j].sub
    BY <1>3
  <2>2. y.conn = x.conn /\ y.at = x.at /\ Elems(x.up) \subseteq Elems(y.up)
    BY <1>1
  <2> QED
    BY <2>1, <2>2, KeepsSame
<1>5. IdsInUse(y) \subseteq IdsInUse(x) \cup {0}
  <2>1. \A j \in Consumers : y.subs[j].ackTimer \in {x.subs[j].ackTimer, 0}
    BY <1>3
  <2> QED
    BY <1>1, <2>1 DEF IdsInUse
<1> QED
  BY <1>1, <1>3, <1>4, <1>5 DEF Spares, y

LEMMA TerminateSound ==
    ASSUME NEW x, NEW P, NEW F, Sound(x, P, F), NEW i \in Consumers
    PROVE  Sound(Terminate(x, i), P, F \ {i}) /\ Spares(x, Terminate(x, i), i)
<1> DEFINE y == Terminate(x, i)
           told == Report(x, i)
           t == [told.subs[i] EXCEPT !.state = "disconnected"]
           v == Replaced(told, i, t)
           last == IF told.subs[i].state = "disconnected" THEN told
                   ELSE Deliver(v, i, Event("disconnected"))
<1>1. x \in StreamState /\ x.subs[i] \in SubRecord
  BY DEF Sound, Base, StreamState
<1>2. CASE ~Current(x, i)
  <2>1. y = x
    BY <1>2 DEF Terminate
  <2>2. Agree(x, i)
    BY <1>2, GoneIs DEF Agree, Sound
  <2>3. Keeps(x, x)
    BY DEF Keeps
  <2>4. Spares(x, x, i)
    BY <2>3 DEF Spares
  <2> QED
    BY <2>1, <2>2, <2>4 DEF Sound
<1>3. CASE Current(x, i)
  <2>1. Sound(told, P, F) /\ Touches(x, told, i)
    BY ReportSound
  <2>2. y = IF ~Current(told, i) THEN told ELSE Teardown(last, i)
    <3>1. v = [told EXCEPT !.subs[i].state = "disconnected"]
      BY DEF Replaced
    <3> QED
      BY <1>3, <3>1 DEF Terminate
  <2> HIDE DEF told, y, last
  <2>3. CASE ~Current(told, i)
    <3>1. Agree(told, i)
      BY <2>1, <2>3, GoneIs DEF Agree, Sound
    <3> QED
      BY <2>1, <2>2, <2>3, <3>1 DEF Sound, Touches, y
  <2>4. CASE Current(told, i)
    <3>1. told \in StreamState /\ told.subs[i] \in SubRecord
      BY <2>1 DEF Sound, Base, StreamState
    <3>2. /\ t \in SubRecord /\ t.sub = told.subs[i].sub /\ t.ackTimer = told.subs[i].ackTimer
          /\ t.consumers = told.subs[i].consumers /\ t.retryTimer = told.subs[i].retryTimer
          /\ t.cursor = told.subs[i].cursor /\ t.orders = told.subs[i].orders
          /\ t.seq = told.subs[i].seq
      BY <3>1 DEF SubRecord, States
    <3> HIDE DEF t
    <3>3. Base(v, P, {i})
      <4>1. told.cons[i].st # "new"
        BY <2>1, <2>4 DEF Sound, Base, Linked, Current
      <4>2. /\ \A q \in Asking(told) : q.s = i => t.sub = 0 /\ ~t.retryTimer
            /\ t.sub # 0 => Current(told, i) /\ told.conn # 0 /\ ~t.retryTimer
            /\ t.retryTimer /\ Current(told, i) => told.conn # 0
            /\ t.cursor # None => t.orders = Position(t.cursor)
            /\ t.sub # 0 => \A d \in srv.subs : t.sub = d.sub => t.seq <= d.seq
        BY <2>1, <3>2 DEF Sound, Base, Asked, Attached, Positioned
      <4> QED
        BY <2>1, <3>2, <4>1, <4>2, ReplacedBase DEF Sound
    <3>4. Spares(told, v, i) /\ v.at = told.at /\ v.cons = told.cons /\ v.subs[i] = t
      BY <3>1, <3>2, ReplacedSpares
    <3> HIDE DEF v
    <3>5. \A j \in Consumers \ (F \cup {i}) : Agree(v, j)
      BY <2>1, <3>4 DEF Sound, Agree, Spares
    <3>6. /\ Base(last, P, {i}) /\ Spares(told, last, i)
          /\ \A j \in Consumers \ (F \cup {i}) : Agree(last, j)
          /\ Current(last, i) \/ last.subs[i] = NewSub
      <4>1. CASE told.subs[i].state = "disconnected"
        <5>1. last = told
          BY <4>1 DEF last
        <5>2. Keeps(told, told)
          BY DEF Keeps
        <5>3. Spares(told, told, i)
          BY <5>2 DEF Spares
        <5> QED
          BY <2>1, <2>4, <5>1, <5>3, BaseMore DEF Sound
      <4>2. CASE told.subs[i].state # "disconnected"
        <5>1. last = Deliver(v, i, Event("disconnected"))
          BY <4>2 DEF last
        <5>2. Base(last, P, {i}) /\ Touches(v, last, i)
              /\ \A j \in Consumers \ (F \cup {i}) : Agree(last, j)
          <6>1. Event("disconnected") \in Events
            BY EventIs
          <6>2. \A j \in Consumers \ ((F \cup {i}) \cup {i}) : Agree(v, j)
            BY <3>5
          <6> QED
            BY <3>3, <5>1, <6>1, <6>2, DeliverSound
        <5>3. Spares(told, last, i)
          BY <3>4, <5>2, SparesOn DEF Touches
        <5>4. Current(last, i) \/ last.subs[i] = NewSub
          BY <2>4, <3>4, <5>2 DEF Touches, Kept, Current
        <5> QED
          BY <5>2, <5>3, <5>4
      <4> QED
        BY <4>1, <4>2
    <3>7. Spares(x, last, i)
      BY <2>1, <3>6, SparesOn DEF Touches
    <3>8. y = Teardown(last, i)
      BY <2>2, <2>4
    <3>9. CASE Current(last, i)
      <4>1. Base(y, P, {i} \ {i}) /\ Touches(last, y, i) /\ ~Current(y, i)
        BY <3>6, <3>8, <3>9, TeardownIs
      <4>2. Base(y, P, {})
        BY <4>1, BaseMore
      <4>3. Agree(y, i)
        BY <4>1, <4>2, GoneIs DEF Agree
      <4>4. \A j \in Consumers \ (F \cup {i}) : Agree(y, j)
        BY <3>6, <4>1 DEF Touches, Spares, Agree
      <4>5. Spares(x, y, i)
        BY <3>7, <4>1, SparesOn DEF Touches
      <4> QED
        BY <4>2, <4>3, <4>4, <4>5 DEF Sound, y
    <3>10. CASE ~Current(last, i)
      <4>1. y = last
        BY <3>8, <3>10 DEF Teardown
      <4>2. Settled(last, P, i)
        BY <3>6, <3>10 DEF Settled, NewSub
      <4>3. Base(last, P, {})
        BY <3>6, <4>2 DEF Base
      <4>4. Agree(last, i)
        BY <3>6, <3>10, GoneIs DEF Agree
      <4> QED
        BY <3>6, <3>7, <4>1, <4>3, <4>4 DEF Sound, y
    <3> QED
      BY <3>9, <3>10
  <2> QED
    BY <2>3, <2>4
<1> QED
  BY <1>2, <1>3

-----------------------------------------------------------------------------
(* Asking for a subscription.                                              *)

LEMMA SubscribeServerIs ==
    ASSUME NEW x, NEW P, NEW E, Base(x, P, E), NEW i \in Consumers, Current(x, i),
           x.conn # 0, x.subs[i].sub = 0, ~x.subs[i].retryTimer,
           \A q \in Asking(x) : q.s # i, Unused(MaxIds, IdsInUse(x)) # {}
    PROVE  LET y == SubscribeServer(x, i) IN
           /\ Base(y, P, E) /\ Keeps(x, y)
           /\ y.subs = x.subs /\ y.cons = x.cons /\ y.at = x.at /\ y.conn = x.conn
           /\ \A q \in Asking(y) : q.s = i \/ q \in Asking(x)
           /\ \E id \in 1..MaxIds : IdsInUse(y) \subseteq IdsInUse(x) \cup {id}
<1> DEFINE id == Fresh(MaxIds, IdsInUse(x))
           asked == AskedFor(x, i, id)
           f == Fetch("subscribe", x, i, id)
           y == Spawn(asked, f)
<1>1. SubscribeServer(x, i) = y
  BY DEF SubscribeServer, AskedFor
<1>2. id \in 1..MaxIds /\ id \notin IdsInUse(x)
  BY StreamAssumptions, FreshIs
<1> HIDE DEF id
<1>3. x \in StreamState
  BY DEF Base
<1>4. /\ Base(asked, P, E)
      /\ Asking(asked) = Asking(x) \cup {[kind |-> "subscribe", id |-> id, s |-> i]}
  BY <1>2, AskedForBase
<1>5. /\ asked.pending = x.pending \cup {[kind |-> "subscribe", id |-> id, s |-> i]}
      /\ asked.run = x.run /\ asked.conn = x.conn /\ asked.at = x.at /\ asked.up = x.up
      /\ asked.subs = x.subs /\ asked.cons = x.cons /\ asked.fetches = x.fetches
  BY <1>3 DEF StreamState, AskedFor
<1> HIDE DEF asked
<1>6. /\ f.kind = "subscribe" /\ f.s = i /\ f.id = id
      /\ x.run # "none" => f \in Fetching /\ f.run = x.run
  <2>1. x.run \in SomeConsumer /\ x.conn \in 0..MaxConns
    BY <1>3 DEF StreamState
  <2>2. id \in Ids /\ 0 \in Ids
    BY <1>2, StreamAssumptions DEF Ids
  <2> QED
    BY <2>1, <2>2 DEF Fetch, Fetching, SomeConsumer
<1> HIDE DEF f
<1>7. Base(y, P, E)
  BY <1>4, <1>5, <1>6, SpawnBase
<1>8. /\ y.pending = asked.pending /\ y.conn = x.conn /\ y.at = x.at /\ y.up = x.up
      /\ y.subs = x.subs /\ y.cons = x.cons /\ y.fetches \subseteq x.fetches \cup {f}
  <2>1. asked \in StreamState
    BY <1>4 DEF Base
  <2> QED
    BY <1>5, <2>1 DEF Spawn, StreamState
<1> HIDE DEF y
<1>9. Keeps(x, y)
  <2>1. y.conn = x.conn /\ y.at = x.at /\ Elems(x.up) \subseteq Elems(y.up)
        /\ \A j \in Consumers : y.subs[j].sub = x.subs[j].sub
    BY <1>8
  <2> QED
    BY <2>1, KeepsSame
<1>10. \A q \in Asking(y) : q.s = i \/ q \in Asking(x)
  <2>1. Asking(y) = Asking(asked)
    BY <1>8 DEF Asking
  <2> QED
    BY <1>4, <2>1
<1>11. IdsInUse(y) \subseteq IdsInUse(x) \cup {id}
  <2>1. \A q \in y.pending \cup y.fetches : q \in x.pending \cup x.fetches \/ q.id = id
    BY <1>5, <1>6, <1>8
  <2> QED
    BY <1>8, <2>1 DEF IdsInUse
<1> QED
  BY <1>1, <1>2, <1>7, <1>8, <1>9, <1>10, <1>11

LEMMA RetrySubscribeIs ==
    ASSUME NEW x, NEW P, NEW E, Base(x, P, E), NEW i \in Consumers,
           Current(x, i) => x.conn # 0, x.subs[i].sub = 0, \A q \in Asking(x) : q.s # i,
           x.cons[i].st # "new"
    PROVE  LET y == RetrySubscribe(x, i) IN
           /\ Base(y, P, E) /\ Spares(x, y, i) /\ y.cons = x.cons /\ y.at = x.at
           /\ y.subs[i].state = x.subs[i].state /\ y.subs[i].ready = x.subs[i].ready
           /\ y.subs[i].stale = x.subs[i].stale /\ y.subs[i].orders = x.subs[i].orders
           /\ y.subs[i].sub = x.subs[i].sub
<1> DEFINE t == [x.subs[i] EXCEPT !.retries = TRUE, !.retryTimer = x.run # "none"]
           y == Replaced(x, i, t)
<1>1. RetrySubscribe(x, i) = y
  BY DEF RetrySubscribe, Replaced
<1>2. x \in StreamState /\ x.subs[i] \in SubRecord
  BY DEF Base, StreamState
<1>3. /\ t \in SubRecord /\ t.sub = x.subs[i].sub /\ t.ackTimer = x.subs[i].ackTimer
      /\ t.consumers = x.subs[i].consumers /\ t.cursor = x.subs[i].cursor
      /\ t.orders = x.subs[i].orders /\ t.seq = x.subs[i].seq /\ t.ready = x.subs[i].ready
      /\ t.state = x.subs[i].state /\ t.stale = x.subs[i].stale
  BY <1>2 DEF SubRecord
<1> HIDE DEF t
<1>4. y.subs[i] = t /\ Spares(x, y, i) /\ y.cons = x.cons /\ y.at = x.at /\ y.run = x.run
  BY <1>2, <1>3, ReplacedSpares
<1>5. Base(y, P, E)
  <2>1. t.cursor # None => t.orders = Position(t.cursor)
    BY <1>3 DEF Base, Positioned
  <2>2. i \in E \/ (t.ready => t.sub # 0)
    BY <1>3 DEF Base, Settled
  <2> QED
    BY <1>3, <2>1, <2>2, ReplacedBase
<1> QED
  BY <1>1, <1>3, <1>4, <1>5

\* A record whose subscription and position stay.
LEMMA SameSubBase ==
    ASSUME NEW x, NEW P, NEW E, NEW F, Base(x, P, E), NEW i \in Consumers, NEW t \in SubRecord,
           t.consumers = x.subs[i].consumers, t.sub = x.subs[i].sub, t.seq = x.subs[i].seq,
           t.retryTimer = x.subs[i].retryTimer, t.cursor = x.subs[i].cursor,
           t.orders = x.subs[i].orders, x.cons[i].st # "new", E \subseteq F \cup {i},
           i \in F \/ (/\ t.ready => t.sub # 0
                       /\ t.sub # 0 => t.state = "connected" /\ t.cursor = P[t.sub][t.seq])
    PROVE  Base(Replaced(x, i, t), P, F)
<1>1. /\ \A q \in Asking(x) : q.s = i => t.sub = 0 /\ ~t.retryTimer
      /\ t.sub # 0 => Current(x, i) /\ x.conn # 0 /\ ~t.retryTimer
      /\ t.retryTimer /\ Current(x, i) => x.conn # 0
      /\ t.cursor # None => t.orders = Position(t.cursor)
      /\ t.sub # 0 => \A d \in srv.subs : t.sub = d.sub => t.seq <= d.seq
  BY DEF Base, Asked, Attached, Positioned
<1> QED
  BY <1>1, ReplacedBase

\* What the consumers of i were told, but for its readiness, which a record that
\* is not connected does not have.
Nearly(x, i) ==
    \A c \in Consumers :
      x.cons[c].st = "open" /\ x.cons[c].sub = i =>
        LET told == x.cons[c].told
            s == x.subs[i]
        IN /\ (told.state = "connected") <=> (s.state = "connected")
           /\ told.stale = s.stale
           /\ told.view = s.orders
           /\ told.ready => s.state = "connected"

\* A connected record that is not ready becomes disconnected.
LEMMA DisconnectSound ==
    ASSUME NEW x, NEW P, NEW F, Base(x, P, {}), NEW i \in Consumers, Current(x, i),
           \A j \in Consumers \ (F \cup {i}) : Agree(x, j), Nearly(x, i),
           ~x.subs[i].ready, x.subs[i].sub = 0
    PROVE  LET y == Disconnect(x, i) IN
           Sound(y, P, F \ {i}) /\ Spares(x, y, i)
<1> DEFINE t == [x.subs[i] EXCEPT !.state = "disconnected"]
           v == Replaced(x, i, t)
           ev == Event("disconnected")
           y == Disconnect(x, i)
<1>1. x \in StreamState /\ x.subs[i] \in SubRecord /\ x.cons \in [Consumers -> Queue]
  BY DEF Base, StreamState
<1>2. CASE x.subs[i].state # "connected"
  <2>1. y = x
    BY <1>2 DEF Disconnect
  <2>2. Agree(x, i)
    <3>1. \A c \in Consumers : x.cons[c].told.ready \in BOOLEAN
      BY <1>1 DEF Queue, Knowledge
    <3>2. x.subs[i].ready \in BOOLEAN
      BY <1>1 DEF SubRecord
    <3> QED
      BY <1>2, <3>1, <3>2 DEF Agree, Matches, Nearly
  <2>3. Keeps(x, x)
    BY DEF Keeps
  <2> QED
    BY <2>1, <2>2, <2>3 DEF Sound, Spares
<1>3. CASE x.subs[i].state = "connected"
  <2>1. /\ t \in SubRecord /\ t.sub = 0 /\ t.ackTimer = x.subs[i].ackTimer
        /\ t.consumers = x.subs[i].consumers /\ t.retryTimer = x.subs[i].retryTimer
        /\ t.cursor = x.subs[i].cursor /\ t.orders = x.subs[i].orders
        /\ t.seq = x.subs[i].seq /\ t.ready = x.subs[i].ready /\ t.stale = x.subs[i].stale
        /\ t.state = "disconnected"
    BY <1>1 DEF SubRecord, States
  <2>2. y = Deliver(v, i, ev)
    <3>1. v = [x EXCEPT !.subs[i].state = "disconnected"]
      BY DEF Replaced
    <3> QED
      BY <1>3, <3>1 DEF Disconnect
  <2> HIDE DEF t, y
  <2>3. Base(v, P, {})
    <3>1. x.cons[i].st # "new"
      BY DEF Base, Linked, Current
    <3> QED
      BY <2>1, <3>1, SameSubBase
  <2>4. Spares(x, v, i) /\ v.at = x.at /\ v.cons = x.cons /\ v.subs[i] = t
    BY <1>1, <2>1, ReplacedSpares
  <2> HIDE DEF v
  <2>5. ev \in Events /\ ev.type = "disconnected"
    BY EventIs
  <2> HIDE DEF ev
  <2>6. \A j \in Consumers \ ((F \ {i}) \cup {i}) : Agree(v, j)
    BY <2>4 DEF Agree, Spares
  <2>7. \A c \in Consumers : v.cons[c].st = "open" /\ v.cons[c].sub = i =>
          Matches(Tell(v.cons[c].told, ev), v.subs[i])
    <3> TAKE c \in Consumers
    <3> HAVE v.cons[c].st = "open" /\ v.cons[c].sub = i
    <3>1. x.cons[c].told \in Knowledge
      BY <1>1 DEF Queue
    <3>2. Tell(x.cons[c].told, ev) =
            [x.cons[c].told EXCEPT !.state = "disconnected", !.ready = FALSE]
      BY <2>5, <3>1, TellIs
    <3>3. x.cons[c].told.stale = x.subs[i].stale /\ x.cons[c].told.view = x.subs[i].orders
      BY <2>4 DEF Nearly
    <3>4. t.ready = FALSE
      BY <1>1, <2>1 DEF SubRecord
    <3>5. LET w == Tell(x.cons[c].told, ev) IN
          /\ w.state = "disconnected" /\ w.ready = FALSE
          /\ w.stale = x.cons[c].told.stale /\ w.view = x.cons[c].told.view
      BY <3>1, <3>2 DEF Knowledge
    <3> QED
      BY <2>1, <2>4, <3>3, <3>4, <3>5 DEF Matches
  <2>8. /\ Base(y, P, {}) /\ Touches(v, y, i)
        /\ \A j \in Consumers \ (F \ {i}) : Agree(y, j)
    BY <2>2, <2>3, <2>5, <2>6, <2>7, DeliverSound
  <2>9. Spares(x, y, i)
    BY <2>4, <2>8, SparesOn DEF Touches
  <2> QED
    BY <2>8, <2>9 DEF Sound, y
<1> QED
  BY <1>2, <1>3

\* The subscription is dropped and asked for again.
LEMMA ResubscribeSound ==
    ASSUME NEW x, NEW P, NEW i \in Consumers, Base(x, P, {i}), Current(x, i), x.conn # 0,
           \A j \in Consumers \ {i} : Agree(x, j), Nearly(x, i), ~x.subs[i].retryTimer,
           \A q \in Asking(x) : q.s # i, Unused(MaxIds, IdsInUse(x)) # {}
    PROVE  LET y == Resubscribe(x, i) IN Sound(y, P, {}) /\ Keeps(x, y)
<1> DEFINE dropped == IF x.subs[i].sub # 0 THEN Unsubscribe(x, i) ELSE x
           t == [x.subs[i] EXCEPT !.sub = 0, !.seq = 0, !.ready = FALSE, !.staging = FALSE]
           cleared == Replaced(dropped, i, t)
           t1 == [t EXCEPT !.retries = TRUE]
           marked == Replaced(cleared, i, t1)
           again == IF x.subs[i].retries THEN RetrySubscribe(cleared, i)
                    ELSE SubscribeServer(marked, i)
           y == Disconnect(again, i)
<1>1. x \in StreamState /\ x.subs[i] \in SubRecord /\ x.cons \in [Consumers -> Queue]
      /\ x.cons[i].st # "new"
  BY DEF Base, StreamState, Linked, Current
<1>2. /\ Base(dropped, P, {i})
      /\ dropped.run = x.run /\ dropped.conn = x.conn /\ dropped.at = x.at
      /\ dropped.subs = x.subs /\ dropped.cons = x.cons /\ dropped.pending = x.pending
      /\ dropped.fetches = x.fetches /\ Elems(x.up) \subseteq Elems(dropped.up)
      /\ x.subs[i].sub # 0 =>
           \E m \in Elems(dropped.up) : m.op = "unsubscribe" /\ m.sub = x.subs[i].sub
      /\ IdsInUse(dropped) \subseteq IdsInUse(x) \cup {0}
  BY UnsubscribeIs
<1> HIDE DEF dropped
<1>3. /\ t \in SubRecord /\ t.sub = 0 /\ t.seq = 0 /\ t.ready = FALSE
      /\ t.consumers = x.subs[i].consumers /\ t.cursor = x.subs[i].cursor
      /\ t.orders = x.subs[i].orders /\ t.state = x.subs[i].state
      /\ t.stale = x.subs[i].stale /\ t.retryTimer = FALSE
      /\ t.ackTimer = x.subs[i].ackTimer
      /\ t1 \in SubRecord /\ t1.sub = 0 /\ t1.seq = 0 /\ t1.ready = FALSE
      /\ t1.consumers = x.subs[i].consumers /\ t1.cursor = x.subs[i].cursor
      /\ t1.orders = x.subs[i].orders /\ t1.state = x.subs[i].state
      /\ t1.stale = x.subs[i].stale /\ t1.retryTimer = FALSE
      /\ t1.ackTimer = x.subs[i].ackTimer
  BY <1>1, Names DEF SubRecord
<1>4. [dropped EXCEPT !.subs[i] = Unheld(x.subs[i])] = cleared
  BY DEF Replaced, Unheld
<1>5. [cleared EXCEPT !.subs[i].retries = TRUE] = marked
  <2> HIDE DEF t
  <2>1. dropped \in StreamState /\ t \in SubRecord
    BY <1>2, <1>3 DEF Base
  <2>2. cleared.subs = [dropped.subs EXCEPT ![i] = t] /\ dropped.subs \in [Consumers -> SubRecord]
    BY <2>1, ReplacedIs DEF StreamState
  <2>3. cleared.subs[i] = t
    BY <2>2
  <2> HIDE DEF cleared
  <2> QED
    BY <2>3 DEF Replaced
<1>6. Resubscribe(x, i) = y
  <2> DEFINE c == [dropped EXCEPT !.subs[i] = Unheld(x.subs[i])]
             a == IF x.subs[i].retries THEN RetrySubscribe(c, i)
                  ELSE SubscribeServer([c EXCEPT !.subs[i].retries = TRUE], i)
  <2>1. Resubscribe(x, i) = Disconnect(a, i)
    BY DEF Resubscribe, dropped
  <2> HIDE DEF cleared, marked
  <2>2. c = cleared
    BY <1>4
  <2> HIDE DEF c
  <2>3. a = again
    BY <1>5, <2>2
  <2> HIDE DEF a, again
  <2> QED
    BY <2>1, <2>3
<1> HIDE DEF t, t1, y, again, marked, cleared
<1>7. /\ Base(cleared, P, {}) /\ Keeps(x, cleared)
      /\ cleared.subs[i] = t /\ \A j \in Consumers \ {i} : cleared.subs[j] = x.subs[j]
      /\ cleared.conn = x.conn /\ cleared.at = x.at /\ cleared.cons = x.cons
      /\ cleared.pending = x.pending
      /\ IdsInUse(cleared) \subseteq IdsInUse(x) \cup {0}
  <2>1. dropped \in StreamState /\ x.subs \in [Consumers -> SubRecord]
    BY <1>1, <1>2 DEF Base, StreamState
  <2>2. /\ cleared.subs = [x.subs EXCEPT ![i] = t]
        /\ cleared.run = x.run /\ cleared.conn = x.conn /\ cleared.at = x.at
        /\ cleared.cons = x.cons /\ cleared.pending = x.pending
        /\ cleared.fetches = x.fetches /\ cleared.up = dropped.up
    BY <1>2, <1>3, <2>1, ReplacedIs DEF cleared
  <2>3. cleared.subs[i] = t /\ \A j \in Consumers \ {i} : cleared.subs[j] = x.subs[j]
    BY <2>1, <2>2
  <2>4. Asking(dropped) = Asking(x) /\ (Current(dropped, i) <=> Current(x, i))
    BY <1>2 DEF Asking, Current
  <2>5. Base(cleared, P, {})
    <3>1. \A q \in Asking(dropped) : q.s # i
      BY <2>4
    <3>2. t.cursor # None => t.orders = Position(t.cursor)
      BY <1>3 DEF Base, Positioned
    <3>3. t.consumers = dropped.subs[i].consumers /\ dropped.cons[i].st # "new"
      BY <1>1, <1>2, <1>3
    <3>4. t.retryTimer = FALSE /\ t.sub = 0 /\ t.ready = FALSE /\ t \in SubRecord
      BY <1>3
    <3> QED
      BY <1>2, <3>1, <3>2, <3>3, <3>4, ReplacedBase DEF cleared
  <2>6. Keeps(x, cleared)
    <3>1. SUFFICES ASSUME NEW s \in Ids \ {0}, Owned(x, s)
                   PROVE  Owned(cleared, s)
      BY <2>2 DEF Keeps
    <3>2. CASE \E m \in Elems(x.up) : m.op = "unsubscribe" /\ m.sub = s
      BY <1>2, <2>2, <3>2 DEF Owned
    <3>3. CASE BySub(x, s) # {}
      <4>1. PICK j \in Consumers : s # 0 /\ x.subs[j].sub = s /\ x.at[AccountOf[j]] = j
        BY <3>3 DEF BySub
      <4>2. CASE j = i
        BY <1>2, <2>2, <4>1, <4>2 DEF Owned
      <4>3. CASE j # i
        <5>1. j \in BySub(cleared, s)
          BY <2>2, <2>3, <4>1, <4>3 DEF BySub
        <5> QED
          BY <5>1 DEF Owned
      <4> QED
        BY <4>2, <4>3
    <3> QED
      BY <3>1, <3>2, <3>3 DEF Owned
  <2>7. IdsInUse(cleared) \subseteq IdsInUse(x) \cup {0}
    <3>1. \A j \in Consumers : cleared.subs[j].ackTimer = x.subs[j].ackTimer
      BY <1>3, <2>3
    <3>2. IdsInUse(cleared) \subseteq IdsInUse(dropped)
      BY <1>2, <2>2, <3>1 DEF IdsInUse
    <3> QED
      BY <1>2, <3>2
  <2> QED
    BY <2>2, <2>3, <2>5, <2>6, <2>7
<1>8. /\ Base(marked, P, {}) /\ Keeps(x, marked)
      /\ marked.subs[i] = t1 /\ \A j \in Consumers \ {i} : marked.subs[j] = x.subs[j]
      /\ marked.conn = x.conn /\ marked.at = x.at /\ marked.cons = x.cons
      /\ marked.pending = x.pending
      /\ IdsInUse(marked) \subseteq IdsInUse(x) \cup {0}
  <2>1. cleared \in StreamState
    BY <1>7 DEF Base
  <2>2. Base(marked, P, {})
    <3>1. cleared.cons[i].st # "new"
      BY <1>1, <1>7
    <3>2. LET s == cleared.subs[i] IN
          /\ t1.consumers = s.consumers /\ t1.sub = s.sub /\ t1.seq = s.seq
          /\ t1.retryTimer = s.retryTimer /\ t1.cursor = s.cursor /\ t1.orders = s.orders
          /\ t1 \in SubRecord /\ (t1.ready => t1.sub # 0)
          /\ t1.sub # 0 => t1.state = "connected" /\ t1.cursor = P[t1.sub][t1.seq]
      BY <1>3, <1>7
    <3>3. Base(cleared, P, {}) /\ {} \subseteq {} \cup {i}
      BY <1>7
    <3> QED
      BY <3>1, <3>2, <3>3, SameSubBase DEF marked
  <2>3. /\ Spares(cleared, marked, i) /\ marked.subs[i] = t1
        /\ marked.conn = cleared.conn /\ marked.pending = cleared.pending
        /\ marked.cons = cleared.cons /\ marked.at = cleared.at
    BY <1>3, <1>7, <2>1, ReplacedSpares DEF marked
  <2>4. Keeps(x, marked)
    BY <1>7, <2>3, KeepsOn DEF Spares
  <2> QED
    BY <1>7, <2>2, <2>3, <2>4 DEF Spares
<1>9. /\ Base(again, P, {}) /\ Keeps(x, again) /\ again.at = x.at /\ again.cons = x.cons
      /\ \A j \in Consumers \ {i} : again.subs[j] = x.subs[j]
      /\ again.subs[i].state = x.subs[i].state /\ again.subs[i].stale = x.subs[i].stale
      /\ again.subs[i].orders = x.subs[i].orders
      /\ again.subs[i].ready = FALSE /\ again.subs[i].sub = 0
  <2>1. CASE x.subs[i].retries
    <3>1. again = RetrySubscribe(cleared, i)
      BY <2>1 DEF again
    <3>2. \A q \in Asking(cleared) : q.s # i
      BY <1>7 DEF Asking
    <3>6. /\ Current(cleared, i) => cleared.conn # 0
          /\ cleared.subs[i].sub = 0 /\ cleared.cons[i].st # "new" /\ Base(cleared, P, {})
      BY <1>1, <1>3, <1>7
    <3>3. /\ Base(again, P, {}) /\ Spares(cleared, again, i)
          /\ again.cons = cleared.cons /\ again.at = cleared.at
          /\ again.subs[i].state = cleared.subs[i].state
          /\ again.subs[i].ready = cleared.subs[i].ready
          /\ again.subs[i].stale = cleared.subs[i].stale
          /\ again.subs[i].orders = cleared.subs[i].orders
          /\ again.subs[i].sub = cleared.subs[i].sub
      BY <3>1, <3>2, <3>6, RetrySubscribeIs
    <3>4. Keeps(x, again)
      BY <1>7, <3>3, KeepsOn DEF Spares
    <3> QED
      BY <1>3, <1>7, <3>3, <3>4 DEF Spares
  <2>2. CASE ~x.subs[i].retries
    <3>1. again = SubscribeServer(marked, i)
      BY <2>2 DEF again
    <3>2. \A q \in Asking(marked) : q.s # i
      BY <1>8 DEF Asking
    <3>3. Unused(MaxIds, IdsInUse(marked)) # {}
      BY <1>8 DEF Unused
    <3>4. Current(marked, i) /\ marked.conn # 0 /\ marked.subs[i].sub = 0
          /\ ~marked.subs[i].retryTimer
      BY <1>3, <1>8 DEF Current
    <3>5. /\ Base(again, P, {}) /\ Keeps(marked, again)
          /\ again.subs = marked.subs /\ again.cons = marked.cons /\ again.at = marked.at
      BY <1>8, <3>1, <3>2, <3>3, <3>4, SubscribeServerIs
    <3>6. Keeps(x, again)
      BY <1>8, <3>5, KeepsOn
    <3> QED
      BY <1>3, <1>8, <3>5, <3>6
  <2> QED
    BY <2>1, <2>2
<1>10. \A j \in Consumers \ ({} \cup {i}) : Agree(again, j)
  BY <1>9 DEF Agree
<1>11. Nearly(again, i)
  BY <1>9 DEF Nearly
<1>12. Sound(y, P, {} \ {i}) /\ Spares(again, y, i)
  <2>1. Current(again, i)
    BY <1>9 DEF Current
  <2> QED
    BY <1>9, <1>10, <1>11, <2>1, DisconnectSound DEF y
<1> QED
  BY <1>6, <1>9, <1>12, KeepsOn DEF Sound, Spares

-----------------------------------------------------------------------------
(* The same for the subscription of every account: ForAll is a fold over   *)
(* the accounts, of one of four handlers.                                  *)

Do(what, x, i) ==
    CASE what = "report"     -> Report(x, i)
      [] what = "terminate"  -> Terminate(x, i)
      [] what = "disconnect" -> Disconnect(x, i)
      [] what = "subscribe"  -> SubscribeServer(x, i)

Pick(A) == CHOOSE a \in A : TRUE
One(what, y, a) == IF y.at[a] = "none" THEN y ELSE Do(what, y, y.at[a])
After(what, x, g, A) == IF A = {} THEN x ELSE One(what, g[A \ {Pick(A)}], Pick(A))

LEMMA PickIs ==
    ASSUME NEW A \in SUBSET Accounts, A # {}
    PROVE  /\ Pick(A) \in A /\ A \ {Pick(A)} \in SUBSET Accounts
           /\ Cardinality(A) \in Nat /\ Cardinality(A \ {Pick(A)}) \in Nat
           /\ Cardinality(A \ {Pick(A)}) = Cardinality(A) - 1
<1>1. Pick(A) \in A
  BY DEF Pick
<1>2. IsFiniteSet(A)
  BY StreamAssumptions, FS_Subset
<1>3. /\ IsFiniteSet(A \ {Pick(A)})
      /\ Cardinality(A \ {Pick(A)}) = Cardinality(A) - 1
  BY <1>1, <1>2, FS_RemoveElement
<1> QED
  BY <1>1, <1>2, <1>3, FS_CardinalityType

LEMMA FoldExists ==
    ASSUME NEW what, NEW x
    PROVE  \E g : g = [A \in SUBSET Accounts |-> After(what, x, g, A)]
<1> DEFINE S == SUBSET Accounts
           Upto(n, h) == \A A \in S : Cardinality(A) <= n => h[A] = After(what, x, h, A)
           T == {n \in Nat : ~ \E h : Upto(n, h)}
<1>1. \A A \in S : Cardinality(A) \in Nat /\ (A # {} => Pick(A) \in A)
  <2>1. \A A \in S : IsFiniteSet(A)
    BY StreamAssumptions, FS_Subset
  <2> QED
    BY <2>1, FS_CardinalityType DEF Pick
<1>2. T = {}
  <2>1. SUFFICES ASSUME T # {} PROVE FALSE
    OBVIOUS
  <2>2. PICK n \in T : \A m \in T : n <= m
    BY <2>1, LeastOf
  <2>3. n # 0
    <3>1. SUFFICES \E h : Upto(0, h)
      BY <2>2
    <3> DEFINE h0 == [A \in S |-> x]
    <3>2. ASSUME NEW A \in S, Cardinality(A) <= 0 PROVE h0[A] = After(what, x, h0, A)
      <4>1. Cardinality(A) = 0 /\ IsFiniteSet(A)
        BY <1>1, <3>2, StreamAssumptions, FS_Subset
      <4>2. A = {}
        BY <4>1, FS_EmptySet
      <4> QED
        BY <4>2 DEF After
    <3> HIDE DEF h0
    <3>3. Upto(0, h0)
      BY <3>2
    <3> QED
      BY <3>3
  <2>4. n - 1 \in Nat /\ n - 1 \notin T
    BY <2>2, <2>3
  <2>5. PICK h : Upto(n - 1, h)
    BY <2>4
  <2> DEFINE h1 == [A \in S |-> IF Cardinality(A) <= n - 1 THEN h[A] ELSE After(what, x, h, A)]
  <2>6. ASSUME NEW A \in S, Cardinality(A) <= n PROVE h1[A] = After(what, x, h1, A)
    <3>1. A # {} => h1[A \ {Pick(A)}] = h[A \ {Pick(A)}]
      <4>1. A # {} => A \ {Pick(A)} \in S /\ Cardinality(A \ {Pick(A)}) <= n - 1
        BY <2>6, PickIs
      <4> QED
        BY <4>1
    <3>2. After(what, x, h1, A) = After(what, x, h, A)
      <4> HIDE DEF h1
      <4> QED
        BY <3>1 DEF After
    <3>3. h1[A] = After(what, x, h, A)
      BY <2>5
    <3> QED
      BY <3>2, <3>3
  <2> HIDE DEF h1
  <2>7. Upto(n, h1)
    BY <2>6
  <2> QED
    BY <2>2, <2>7
<1>3. PICK h : Upto(Cardinality(Accounts), h)
  <2>1. Cardinality(Accounts) \in Nat
    BY <1>1
  <2> QED
    BY <1>2, <2>1
<1> DEFINE g == [A \in S |-> h[A]]
<1>4. \A A \in S : Cardinality(A) <= Cardinality(Accounts)
  BY StreamAssumptions, FS_Subset
<1>5. ASSUME NEW A \in S PROVE h[A] = After(what, x, g, A)
  <2>1. h[A] = After(what, x, h, A)
    BY <1>3, <1>4
  <2>2. A # {} => g[A \ {Pick(A)}] = h[A \ {Pick(A)}]
    BY <1>1
  <2> HIDE DEF g
  <2> QED
    BY <2>1, <2>2 DEF After
<1>6. g = [A \in SUBSET Accounts |-> After(what, x, g, A)]
  <2>1. g = [A \in S |-> h[A]]
    OBVIOUS
  <2> HIDE DEF g
  <2> QED
    BY <1>5, <2>1
<1> QED
  BY <1>6

\* Each of the four folds is After's function.
Folded(what, x, y) ==
    \E g : /\ g = [A \in SUBSET Accounts |-> After(what, x, g, A)]
           /\ y = g[Accounts]

LEMMA ReportFolds == ASSUME NEW x PROVE Folded("report", x, ReportAll(x))
<1> DEFINE Is(g) == g = [A \in SUBSET Accounts |->
                           IF A = {} THEN x
                           ELSE LET a == CHOOSE a \in A : TRUE
                                    y == g[A \ {a}]
                                IN IF y.at[a] = "none" THEN y ELSE Report(y, y.at[a])]
           G == CHOOSE g : Is(g)
<1>1. \E g : Is(g)
  <2>1. PICK g : g = [A \in SUBSET Accounts |-> After("report", x, g, A)]
    BY FoldExists
  <2> QED
    BY <2>1 DEF After, One, Do, Pick
<1>2. Is(G)
  BY <1>1
<1>3. ReportAll(x) = G[Accounts]
  BY DEF ReportAll, ForAll, FoldSet, MapThenFoldSet
<1> HIDE DEF G
<1>4. G = [A \in SUBSET Accounts |-> After("report", x, G, A)]
  BY <1>2 DEF After, One, Do, Pick
<1> QED
  BY <1>3, <1>4 DEF Folded

LEMMA TerminateFolds == ASSUME NEW x PROVE Folded("terminate", x, TerminateAll(x))
<1> DEFINE Is(g) == g = [A \in SUBSET Accounts |->
                           IF A = {} THEN x
                           ELSE LET a == CHOOSE a \in A : TRUE
                                    y == g[A \ {a}]
                                IN IF y.at[a] = "none" THEN y ELSE Terminate(y, y.at[a])]
           G == CHOOSE g : Is(g)
<1>1. \E g : Is(g)
  <2>1. PICK g : g = [A \in SUBSET Accounts |-> After("terminate", x, g, A)]
    BY FoldExists
  <2> QED
    BY <2>1 DEF After, One, Do, Pick
<1>2. Is(G)
  BY <1>1
<1>3. TerminateAll(x) = G[Accounts]
  BY DEF TerminateAll, ForAll, FoldSet, MapThenFoldSet
<1> HIDE DEF G
<1>4. G = [A \in SUBSET Accounts |-> After("terminate", x, G, A)]
  BY <1>2 DEF After, One, Do, Pick
<1> QED
  BY <1>3, <1>4 DEF Folded

LEMMA DisconnectFolds == ASSUME NEW x PROVE Folded("disconnect", x, ForAll(Disconnect, x))
<1> DEFINE Is(g) == g = [A \in SUBSET Accounts |->
                           IF A = {} THEN x
                           ELSE LET a == CHOOSE a \in A : TRUE
                                    y == g[A \ {a}]
                                IN IF y.at[a] = "none" THEN y ELSE Disconnect(y, y.at[a])]
           G == CHOOSE g : Is(g)
<1>1. \E g : Is(g)
  <2>1. PICK g : g = [A \in SUBSET Accounts |-> After("disconnect", x, g, A)]
    BY FoldExists
  <2> QED
    BY <2>1 DEF After, One, Do, Pick
<1>2. Is(G)
  BY <1>1
<1>3. ForAll(Disconnect, x) = G[Accounts]
  BY DEF ForAll, FoldSet, MapThenFoldSet
<1> HIDE DEF G
<1>4. G = [A \in SUBSET Accounts |-> After("disconnect", x, G, A)]
  BY <1>2 DEF After, One, Do, Pick
<1> QED
  BY <1>3, <1>4 DEF Folded

LEMMA SubscribeFolds == ASSUME NEW x PROVE Folded("subscribe", x, ForAll(SubscribeServer, x))
<1> DEFINE Is(g) == g = [A \in SUBSET Accounts |->
                           IF A = {} THEN x
                           ELSE LET a == CHOOSE a \in A : TRUE
                                    y == g[A \ {a}]
                                IN IF y.at[a] = "none" THEN y ELSE SubscribeServer(y, y.at[a])]
           G == CHOOSE g : Is(g)
<1>1. \E g : Is(g)
  <2>1. PICK g : g = [A \in SUBSET Accounts |-> After("subscribe", x, g, A)]
    BY FoldExists
  <2> QED
    BY <2>1 DEF After, One, Do, Pick
<1>2. Is(G)
  BY <1>1
<1>3. ForAll(SubscribeServer, x) = G[Accounts]
  BY DEF ForAll, FoldSet, MapThenFoldSet
<1> HIDE DEF G
<1>4. G = [A \in SUBSET Accounts |-> After("subscribe", x, G, A)]
  BY <1>2 DEF After, One, Do, Pick
<1> QED
  BY <1>3, <1>4 DEF Folded


\* Where the fold is when it has been through the accounts A.
Going(what, x, P, A, y) ==
    /\ Base(y, P, {}) /\ Keeps(x, y)
    /\ \A j \in Consumers :
         \/ Agree(y, j)
         \/ what \in {"terminate", "disconnect"} /\ AccountOf[j] \notin A /\ Nearly(y, j)
    /\ what = "disconnect" => y.conn = 0
    /\ what = "subscribe" =>
         /\ y.conn = x.conn /\ y.conn # 0
         /\ \A j \in Consumers : Current(y, j) /\ AccountOf[j] \notin A =>
              /\ y.subs[j].sub = 0 /\ ~y.subs[j].retryTimer
              /\ \A q \in Asking(y) : q.s # j
         /\ Cardinality(Unused(MaxIds, IdsInUse(y))) > Cardinality(Accounts) - Cardinality(A)

LEMMA AgreesNearly ==
    ASSUME NEW x, NEW P, Base(x, P, {}), NEW i \in Consumers, Agree(x, i)
    PROVE  Nearly(x, i)
<1>1. x.subs[i].ready => x.subs[i].state = "connected"
  BY DEF Base, Settled
<1> QED
  BY <1>1 DEF Agree, Matches, Nearly

LEMMA UnusedIs ==
    ASSUME NEW used
    PROVE  IsFiniteSet(Unused(MaxIds, used)) /\ Cardinality(Unused(MaxIds, used)) \in Nat
<1>1. IsFiniteSet(1..MaxIds)
  BY StreamAssumptions, FS_Interval
<1> QED
  BY <1>1, FS_Subset, FS_CardinalityType DEF Unused

LEMMA GoesOn ==
    ASSUME NEW what \in {"report", "terminate", "disconnect", "subscribe"}, NEW x, NEW P,
           NEW A \in SUBSET Accounts, A # {}, NEW y, Going(what, x, P, A \ {Pick(A)}, y)
    PROVE  Going(what, x, P, A, One(what, y, Pick(A)))
<1> DEFINE a == Pick(A)
           B == A \ {Pick(A)}
           i == y.at[a]
           z == One(what, y, a)
           F == {j \in Consumers : ~Agree(y, j)}
<1>1. a \in A /\ a \in Accounts /\ A = B \cup {a} /\ Cardinality(A) \in Nat
      /\ Cardinality(B) = Cardinality(A) - 1
  BY PickIs
<1> HIDE DEF a, B, z
<1>2. Base(y, P, {}) /\ y \in StreamState /\ Linked(y)
  BY DEF Going, Base
<1>3. \A j \in F : j \in Consumers /\ what \in {"terminate", "disconnect"}
                   /\ AccountOf[j] \notin B /\ Nearly(y, j) /\ Current(y, j)
  <2>1. \A j \in Consumers : ~Agree(y, j) => Current(y, j)
    BY <1>2, GoneIs DEF Agree
  <2> QED
    BY <2>1 DEF Going, B
<1>4. Sound(y, P, F)
  BY <1>2 DEF Sound
<1>5. \A j \in Consumers : Nearly(y, j) \/ what \notin {"terminate", "disconnect"}
  BY <1>2, AgreesNearly DEF Going
<1>6. \A n \in Nat : n > Cardinality(Accounts) - Cardinality(B) =>
        n - 1 > Cardinality(Accounts) - Cardinality(A) /\ n > Cardinality(Accounts) - Cardinality(A)
  <2>1. Cardinality(Accounts) \in Nat
    BY StreamAssumptions, FS_CardinalityType
  <2> QED
    BY <1>1, <2>1
<1>7. CASE i = "none"
  <2>1. z = y
    BY <1>7 DEF One, z
  <2>2. \A j \in F : AccountOf[j] \notin A
    BY <1>1, <1>3, <1>7, Names DEF Current
  <2>3. what = "subscribe" =>
          Cardinality(Unused(MaxIds, IdsInUse(y))) > Cardinality(Accounts) - Cardinality(A)
    BY <1>6, UnusedIs DEF Going, B
  <2>4. \A j \in Consumers :
          \/ Agree(y, j)
          \/ what \in {"terminate", "disconnect"} /\ AccountOf[j] \notin A /\ Nearly(y, j)
    BY <1>3, <2>2
  <2> QED
    BY <1>1, <2>1, <2>3, <2>4 DEF Going, z, a, B
<1>8. CASE i # "none"
  <2>1. i \in Consumers /\ AccountOf[i] = a /\ Current(y, i)
    BY <1>1, <1>2, <1>8 DEF StreamState, SomeConsumer, Linked, Current
  <2>2. z = Do(what, y, i)
    BY <1>8 DEF One, z
  <2> HIDE DEF i
  <2>3. \A j \in F \ {i} : AccountOf[j] \notin A
    BY <1>1, <1>3, <2>1 DEF Current
  <2>4. ASSUME what \in {"terminate", "disconnect"}, Sound(z, P, F \ {i}), Spares(y, z, i)
        PROVE  Going(what, x, P, A, z)
    <3>1. Keeps(x, z)
      BY <2>4, KeepsOn DEF Going, Spares
    <3>2. \A j \in Consumers \ {i} : Nearly(z, j)
      BY <1>5, <2>4 DEF Spares, Nearly
    <3>3. what = "disconnect" => z.conn = 0
      BY <2>4 DEF Going, Spares, Keeps
    <3> QED
      BY <2>3, <2>4, <3>1, <3>2, <3>3 DEF Going, Sound
  <2>5. CASE what = "report"
    <3>1. z = Report(y, i)
      BY <2>2, <2>5 DEF Do
    <3>2. Sound(z, P, F) /\ Spares(y, z, i)
      BY <1>4, <2>1, <3>1, ReportSound DEF Touches
    <3>3. F = {}
      BY <1>3, <2>5
    <3>4. Keeps(x, z)
      BY <3>2, KeepsOn DEF Going, Spares
    <3> QED
      BY <2>5, <3>2, <3>3, <3>4 DEF Going, Sound, z, a
  <2>6. CASE what = "terminate"
    <3>1. z = Terminate(y, i)
      BY <2>2, <2>6 DEF Do
    <3>2. Sound(z, P, F \ {i}) /\ Spares(y, z, i)
      BY <1>4, <2>1, <3>1, TerminateSound
    <3> QED
      BY <2>4, <2>6, <3>2 DEF z, a
  <2>7. CASE what = "disconnect"
    <3>1. z = Disconnect(y, i)
      BY <2>2, <2>7 DEF Do
    <3>2. y.subs[i].sub = 0 /\ ~y.subs[i].ready
      <4>1. y.conn = 0
        BY <2>7 DEF Going
      <4> QED
        BY <1>2, <2>1, <4>1 DEF Base, Attached, Settled
    <3>3. Nearly(y, i)
      BY <1>5, <2>1, <2>7
    <3>4. \A j \in Consumers \ (F \cup {i}) : Agree(y, j)
      OBVIOUS
    <3>5. Sound(z, P, F \ {i}) /\ Spares(y, z, i)
      BY <1>2, <2>1, <3>1, <3>2, <3>3, <3>4, DisconnectSound
    <3> QED
      BY <2>4, <2>7, <3>5 DEF z, a
  <2>8. CASE what = "subscribe"
    <3>1. z = SubscribeServer(y, i)
      BY <2>2, <2>8 DEF Do
    <3>2. /\ y.conn = x.conn /\ y.conn # 0
          /\ \A j \in Consumers : Current(y, j) /\ AccountOf[j] \notin B =>
               /\ y.subs[j].sub = 0 /\ ~y.subs[j].retryTimer
               /\ \A q \in Asking(y) : q.s # j
          /\ Cardinality(Unused(MaxIds, IdsInUse(y))) > Cardinality(Accounts) - Cardinality(B)
      BY <2>8 DEF Going, B
    <3>3. AccountOf[i] \notin B
      BY <2>1 DEF B, a
    <3>4. Cardinality(Unused(MaxIds, IdsInUse(y))) > 0
      <4>1. Cardinality(B) <= Cardinality(Accounts) /\ Cardinality(B) \in Nat
            /\ Cardinality(Accounts) \in Nat
        BY <1>1, PickIs, StreamAssumptions, FS_Subset, FS_CardinalityType DEF B
      <4> QED
        BY <3>2, <4>1, UnusedIs
    <3>5. Unused(MaxIds, IdsInUse(y)) # {}
      BY <3>4, FS_EmptySet
    <3>6. /\ Base(z, P, {}) /\ Keeps(y, z)
          /\ z.subs = y.subs /\ z.cons = y.cons /\ z.at = y.at /\ z.conn = y.conn
          /\ \A q \in Asking(z) : q.s = i \/ q \in Asking(y)
          /\ \E id \in 1..MaxIds : IdsInUse(z) \subseteq IdsInUse(y) \cup {id}
      BY <1>2, <2>1, <3>1, <3>2, <3>3, <3>5, SubscribeServerIs
    <3>7. Keeps(x, z)
      BY <3>6, KeepsOn DEF Going
    <3>8. \A j \in Consumers : Agree(z, j)
      <4>1. F = {}
        BY <1>3, <2>8
      <4> QED
        BY <3>6, <4>1 DEF Agree
    <3>9. \A j \in Consumers : Current(z, j) /\ AccountOf[j] \notin A =>
            /\ z.subs[j].sub = 0 /\ ~z.subs[j].retryTimer
            /\ \A q \in Asking(z) : q.s # j
      <4>1. \A j \in Consumers : Current(z, j) => Current(y, j)
        BY <3>6 DEF Current
      <4> QED
        BY <1>1, <2>1, <3>2, <3>6, <4>1
    <3>10. Cardinality(Unused(MaxIds, IdsInUse(z))) > Cardinality(Accounts) - Cardinality(A)
      <4>1. PICK id \in 1..MaxIds : IdsInUse(z) \subseteq IdsInUse(y) \cup {id}
        BY <3>6
      <4> DEFINE U == Unused(MaxIds, IdsInUse(y))
                 V == Unused(MaxIds, IdsInUse(z))
      <4>2. U \ {id} \subseteq V
        BY <4>1 DEF Unused
      <4>3. IsFiniteSet(U) /\ IsFiniteSet(V) /\ Cardinality(U) \in Nat /\ Cardinality(V) \in Nat
        BY UnusedIs
      <4>4. Cardinality(U) > Cardinality(Accounts) - Cardinality(B)
        BY <3>2
      <4> HIDE DEF U, V
      <4>5. Cardinality(U \ {id}) <= Cardinality(V)
        BY <4>2, <4>3, FS_Subset
      <4>6. Cardinality(U \ {id}) \in {Cardinality(U), Cardinality(U) - 1}
        BY <4>3, FS_RemoveElement
      <4>7. Cardinality(U) - 1 > Cardinality(Accounts) - Cardinality(A)
        BY <1>6, <4>3, <4>4
      <4>8. Cardinality(Accounts) - Cardinality(A) \in Int
        BY <1>1, StreamAssumptions, FS_CardinalityType
      <4> QED
        BY <4>3, <4>5, <4>6, <4>7, <4>8 DEF V
    <3> QED
      BY <2>8, <3>2, <3>6, <3>7, <3>8, <3>9, <3>10 DEF Going, z, a
  <2> QED
    BY <2>5, <2>6, <2>7, <2>8
<1> QED
  BY <1>7, <1>8

LEMMA FoldSound ==
    ASSUME NEW what \in {"report", "terminate", "disconnect", "subscribe"}, NEW x, NEW P,
           NEW y, Folded(what, x, y), Going(what, x, P, {}, x)
    PROVE  Sound(y, P, {}) /\ Keeps(x, y)
<1>1. PICK g : /\ g = [A \in SUBSET Accounts |-> After(what, x, g, A)]
               /\ y = g[Accounts]
  BY DEF Folded
<1> DEFINE T == {Cardinality(A) : A \in {A \in SUBSET Accounts : ~Going(what, x, P, A, g[A])}}
<1>2. T = {}
  <2>1. SUFFICES ASSUME T # {} PROVE FALSE
    OBVIOUS
  <2>2. T \in SUBSET Nat
    <3>1. \A A \in SUBSET Accounts : IsFiniteSet(A)
      BY StreamAssumptions, FS_Subset
    <3> QED
      BY <3>1, FS_CardinalityType
  <2>3. PICK n \in T : \A m \in T : n <= m
    BY <2>1, <2>2, LeastOf
  <2>4. PICK A \in SUBSET Accounts : ~Going(what, x, P, A, g[A]) /\ n = Cardinality(A)
    BY <2>3
  <2>5. g[A] = After(what, x, g, A)
    BY <1>1
  <2>6. CASE A = {}
    BY <2>4, <2>5, <2>6 DEF After
  <2>7. CASE A # {}
    <3>1. g[A] = One(what, g[A \ {Pick(A)}], Pick(A))
      BY <2>5, <2>7 DEF After
    <3>2. A \ {Pick(A)} \in SUBSET Accounts /\ Cardinality(A \ {Pick(A)}) \in Nat
          /\ Cardinality(A \ {Pick(A)}) < n /\ n \in Nat
      BY <2>4, <2>7, PickIs
    <3>3. Cardinality(A \ {Pick(A)}) \notin T
      BY <2>3, <3>2
    <3>4. Going(what, x, P, A \ {Pick(A)}, g[A \ {Pick(A)}])
      BY <3>2, <3>3
    <3> QED
      BY <2>4, <2>7, <3>1, <3>4, GoesOn
  <2> QED
    BY <2>6, <2>7
<1>3. Going(what, x, P, Accounts, y)
  <2>1. Accounts \in {A \in SUBSET Accounts : ~Going(what, x, P, A, g[A])}
        => Cardinality(Accounts) \in T
    OBVIOUS
  <2>2. Accounts \notin {A \in SUBSET Accounts : ~Going(what, x, P, A, g[A])}
    BY <1>2, <2>1
  <2>3. Going(what, x, P, Accounts, g[Accounts])
    BY <2>2
  <2> QED
    BY <1>1, <2>3
<1>4. \A j \in Consumers : AccountOf[j] \in Accounts
  BY Names
<1> QED
  BY <1>3, <1>4 DEF Going, Sound

LEMMA KeepsSelf == ASSUME NEW x PROVE Keeps(x, x)
BY DEF Keeps

LEMMA ReportAllSound ==
    ASSUME NEW x, NEW P, Sound(x, P, {})
    PROVE  Sound(ReportAll(x), P, {}) /\ Keeps(x, ReportAll(x))
<1>1. Going("report", x, P, {}, x)
  BY KeepsSelf DEF Going, Sound
<1> QED
  BY <1>1, ReportFolds, FoldSound

LEMMA TerminateAllSound ==
    ASSUME NEW x, NEW P, Base(x, P, {}), \A j \in Consumers : Agree(x, j) \/ Nearly(x, j)
    PROVE  Sound(TerminateAll(x), P, {}) /\ Keeps(x, TerminateAll(x))
<1>1. Going("terminate", x, P, {}, x)
  BY KeepsSelf DEF Going
<1> QED
  BY <1>1, TerminateFolds, FoldSound

LEMMA DisconnectAllSound ==
    ASSUME NEW x, NEW P, Base(x, P, {}), \A j \in Consumers : Nearly(x, j), x.conn = 0
    PROVE  Sound(ForAll(Disconnect, x), P, {}) /\ Keeps(x, ForAll(Disconnect, x))
<1>1. Going("disconnect", x, P, {}, x)
  BY KeepsSelf DEF Going
<1>2. Folded("disconnect", x, ForAll(Disconnect, x))
  BY DisconnectFolds
<1> QED
  BY <1>1, <1>2, FoldSound

LEMMA SubscribeAllSound ==
    ASSUME NEW x, NEW P, Sound(x, P, {}), x.conn # 0, x.pending = {},
           \A j \in Consumers : Current(x, j) => x.subs[j].sub = 0 /\ ~x.subs[j].retryTimer,
           Cardinality(Unused(MaxIds, IdsInUse(x))) > Cardinality(Accounts)
    PROVE  /\ Sound(ForAll(SubscribeServer, x), P, {})
           /\ Keeps(x, ForAll(SubscribeServer, x))
<1>1. Going("subscribe", x, P, {}, x)
  <2>1. Asking(x) = {}
    BY DEF Asking
  <2>2. Cardinality({}) = 0 /\ Cardinality(Accounts) \in Nat
    BY FS_EmptySet, StreamAssumptions, FS_CardinalityType
  <2>3. Cardinality(Unused(MaxIds, IdsInUse(x))) > Cardinality(Accounts) - Cardinality({})
    BY <2>2
  <2> QED
    BY <2>1, <2>3, KeepsSelf DEF Going, Sound
<1>2. Folded("subscribe", x, ForAll(SubscribeServer, x))
  BY SubscribeFolds
<1> QED
  BY <1>1, <1>2, FoldSound

-----------------------------------------------------------------------------
(* The server: P gives the position of each of its subscriptions after     *)
(* each frame, which a client that has taken that frame is at.             *)

Positions == [Ids -> [Nat -> Cursors]]

FrameFits(f, P) ==
    /\ f.type \in DataTypes => f.seq # 0 /\ f.sub # 0
    /\ f.type \in ReplyTypes => f.seq = 0
    /\ f.type \in {"unit", "covered"} =>
         /\ f.val # 0 /\ P[f.sub][f.seq - 1] = f.val - 1 /\ P[f.sub][f.seq] = f.val
         /\ f.type = "unit" <=> f.val \notin Unseen
    /\ f.type = "end" => P[f.sub][f.seq] = f.val
    /\ f.type \in {"resync", "begin", "ready", "unavailable", "available"} =>
         P[f.sub][f.seq] = P[f.sub][f.seq - 1]
    /\ f.type \in {"unknown", "ended"} => f.sub # 0 /\ \A d \in srv.subs : d.sub # f.sub
    /\ f.type = "subscribed" => f.sub # 0
    /\ \A d \in srv.subs : f.sub = d.sub => f.seq <= d.seq

\* A server subscription is used, or about to be, or about to end.
Held(d) ==
    \/ Owned(k, d.sub)
    \/ \E f \in Elems(srv.down) : f.type = "subscribed" /\ f.sub = d.sub

ServerFits(P) ==
    /\ srv \in [subs : SUBSET ServerSubs, down : Seq(Frames)] /\ Len(srv.down) <= MaxWire + 1
    /\ k.conn = 0 => srv = NoServer
    /\ \A f \in Elems(srv.down) : FrameFits(f, P)
    /\ \A d, e \in srv.subs : d.sub = e.sub => d = e
    /\ \A d \in srv.subs :
         /\ d.phase = "live" => d.pos # None /\ P[d.sub][d.seq] = d.pos
         /\ Held(d)

Counts ==
    log \in [Accounts -> 0..MaxLog] /\ losses \in 0..MaxLosses /\ faults \in 0..MaxFaults

StreamInv == Counts /\ \E P \in Positions : Sound(k, P, {}) /\ ServerFits(P)

LEMMA SoundLater ==
    ASSUME NEW P, NEW x, Sound(x, P, {}), k' = x, srv'.subs \subseteq srv.subs,
           Elems(srv'.down) \subseteq Elems(srv.down)
    PROVE  Sound(k, P, {})'
<1>1. (Linked(k) /\ Asked(k) /\ Attached(k) /\ OneConnect(k) /\ WellFormed(k))'
  BY DEF Sound, Base, Linked, Asked, Asking, Attached, OneConnect, WellFormed, Current, Elems
<1>2. Resumes(k, P)' /\ Positioned(k)'
  <2>1. Resumes(x, P) /\ Positioned(x)
    BY DEF Sound, Base
  <2>2. Resumes(k, P)'
    BY <2>1 DEF Resumes, Asking, Elems
  <2>3. Positioned(k)'
    BY <2>1 DEF Positioned
  <2> QED
    BY <2>2, <2>3
<1>3. \A i \in Consumers : Settled(k, P, i)' /\ Agree(k, i)'
  BY DEF Sound, Base, Settled, Agree, Matches
<1> QED
  BY <1>1, <1>2, <1>3 DEF Sound, Base, StreamState

-----------------------------------------------------------------------------
(* Steps: what a handler keeps, the invariant keeps.                       *)

LEMMA EndInv ==
    ASSUME NEW P \in Positions, NEW x, Sound(x, P, {}), k' = x, srv' = NoServer, Counts'
    PROVE  StreamInv'
<1>1. srv'.subs = {} /\ srv'.down = <<>>
  BY DEF NoServer
<1>2. Elems(srv'.down) = {}
  BY <1>1 DEF Elems
<1>3. Sound(k, P, {})'
  BY <1>1, <1>2, SoundLater
<1>4. ServerFits(P)'
  <2>1. srv' \in [subs : SUBSET ServerSubs, down : Seq(Frames)]
    BY DEF NoServer
  <2>2. Len(srv'.down) = 0 /\ MaxWire \in Nat
    BY <1>1, StreamAssumptions
  <2>3. Elems(srv.down)' = {}
    BY <1>2 DEF Elems
  <2> QED
    BY <1>1, <2>1, <2>2, <2>3 DEF ServerFits
<1> QED
  BY <1>3, <1>4 DEF StreamInv

LEMMA LaterInv ==
    ASSUME NEW P \in Positions, ServerFits(P), NEW x, Sound(x, P, {}), k' = x, Counts',
           srv' \in [subs : SUBSET ServerSubs, down : Seq(Frames)], srv'.subs = srv.subs,
           Elems(srv'.down) \subseteq Elems(srv.down), Len(srv'.down) <= MaxWire + 1,
           x.conn = 0 => srv' = NoServer, \A d \in srv.subs : Held(d)'
    PROVE  StreamInv'
<1>1. Sound(k, P, {})'
  BY SoundLater
<1>2. \A f \in Elems(srv.down)' : FrameFits(f, P)'
  <2>1. \A f \in Elems(srv'.down) : FrameFits(f, P)
    BY DEF ServerFits
  <2>2. Elems(srv.down)' = Elems(srv'.down)
    BY DEF Elems
  <2> QED
    BY <2>1, <2>2 DEF FrameFits
<1>3. ServerFits(P)'
  BY <1>2 DEF ServerFits
<1> QED
  BY <1>1, <1>3 DEF StreamInv

LEMMA StepInv ==
    ASSUME NEW P \in Positions, ServerFits(P), NEW x, Sound(x, P, {}), Step(x), Counts',
           Keeps(k, x) \/ k.conn = 0
    PROVE  StreamInv'
<1>1. k' = x /\ (srv' = NoServer \/ (x.conn = k.conn /\ srv' = srv))
  BY DEF Step
<1>2. CASE srv' = NoServer
  BY <1>1, <1>2, EndInv
<1>3. CASE x.conn = k.conn /\ srv' = srv /\ srv' # NoServer
  <2>1. k.conn # 0
    BY <1>3 DEF ServerFits
  <2>2. \A s \in Ids \ {0} : Owned(k, s) => Owned(x, s)
    BY <1>3, <2>1 DEF Keeps
  <2>3. \A d \in srv.subs : d.sub \in Ids \ {0}
    BY StreamAssumptions DEF ServerFits, ServerSubs, Ids
  <2>4. \A d \in srv.subs : Held(d)'
    <3> TAKE d \in srv.subs
    <3>1. Held(d)
      BY DEF ServerFits
    <3>2. CASE Owned(k, d.sub)
      BY <1>1, <2>2, <2>3, <3>2 DEF Held, Owned, BySub, Elems
    <3>3. CASE \E f \in Elems(srv.down) : f.type = "subscribed" /\ f.sub = d.sub
      BY <1>3, <3>3 DEF Held, Elems
    <3> QED
      BY <3>1, <3>2, <3>3 DEF Held
  <2>5. /\ srv' \in [subs : SUBSET ServerSubs, down : Seq(Frames)] /\ srv'.subs = srv.subs
        /\ Elems(srv'.down) \subseteq Elems(srv.down) /\ Len(srv'.down) <= MaxWire + 1
    BY <1>3 DEF ServerFits
  <2> QED
    BY <1>1, <1>3, <2>1, <2>4, <2>5, LaterInv
<1> QED
  BY <1>1, <1>2, <1>3

\* What the records do not depend on: the run, the connection while there was
\* none, the timer and the goroutines.
LEMMA LinesBase ==
    ASSUME NEW x, NEW P, NEW E, Base(x, P, E), NEW y \in StreamState,
           y.at = x.at, y.subs = x.subs, y.cons = x.cons, y.pending = x.pending, y.up = x.up,
           y.fetches \subseteq x.fetches, y.conn = x.conn \/ x.conn = 0,
           y.run # "none" => x.cons[y.run].st # "new", y.connecting => y.conn = 0,
           \A f \in y.fetches : f.kind = "connect" /\ f.run = y.run => y.connecting
    PROVE  /\ Base(y, P, E) /\ \A j : Agree(x, j) => Agree(y, j)
           /\ y.conn = x.conn => Keeps(x, y)
<1>1. \A j : Current(y, j) <=> Current(x, j)
  BY DEF Current
<1>2. Linked(y)
  BY <1>1 DEF Base, Linked
<1>3. Asked(y) /\ Attached(y)
  BY <1>1 DEF Base, Asked, Asking, Attached
<1>4. OneConnect(y) /\ WellFormed(y)
  BY DEF Base, OneConnect, WellFormed
<1>5. Resumes(y, P) /\ Positioned(y)
  BY DEF Base, Resumes, Asking, Positioned
<1>6. \A j \in Consumers \ E : Settled(y, P, j)
  BY DEF Base, Settled
<1>7. \A j : Agree(x, j) => Agree(y, j)
  BY DEF Agree
<1>8. y.conn = x.conn => Keeps(x, y)
  BY KeepsSame
<1> QED
  BY <1>2, <1>3, <1>4, <1>5, <1>6, <1>7, <1>8 DEF Base

\* A goroutine ends.
LEMMA FewerFetches ==
    ASSUME NEW x, NEW P, Sound(x, P, {}), NEW f
    PROVE  LET y == [x EXCEPT !.fetches = @ \ {f}] IN
           /\ Sound(y, P, {}) /\ Keeps(x, y) /\ y.fetches = x.fetches \ {f}
           /\ y.run = x.run /\ y.conn = x.conn /\ y.connecting = x.connecting
           /\ y.at = x.at /\ y.subs = x.subs /\ y.cons = x.cons
           /\ y.pending = x.pending /\ y.up = x.up
           /\ IdsInUse(y) \subseteq IdsInUse(x)
<1> DEFINE y == [x EXCEPT !.fetches = @ \ {f}]
<1>1. Base(x, P, {}) /\ x \in StreamState /\ Linked(x) /\ OneConnect(x)
  BY DEF Sound, Base
<1>2. /\ y \in StreamState /\ y.fetches = x.fetches \ {f}
      /\ y.run = x.run /\ y.conn = x.conn /\ y.connecting = x.connecting
      /\ y.at = x.at /\ y.subs = x.subs /\ y.cons = x.cons
      /\ y.pending = x.pending /\ y.up = x.up
  BY <1>1 DEF StreamState
<1> HIDE DEF y
<1>3. /\ y.run # "none" => x.cons[y.run].st # "new"
      /\ y.connecting => y.conn = 0
      /\ \A g \in y.fetches : g.kind = "connect" /\ g.run = y.run => y.connecting
  BY <1>1, <1>2 DEF Linked, OneConnect
<1>4. Base(y, P, {}) /\ (\A j : Agree(x, j) => Agree(y, j)) /\ Keeps(x, y)
  BY <1>1, <1>2, <1>3, LinesBase
<1>5. IdsInUse(y) \subseteq IdsInUse(x)
  BY <1>2 DEF IdsInUse
<1> QED
  BY <1>2, <1>4, <1>5 DEF Sound, y

\* The reconnect timer is armed or stopped.
LEMMA TimerSound ==
    ASSUME NEW x, NEW P, NEW E, Base(x, P, E), NEW t \in BOOLEAN
    PROVE  LET y == [x EXCEPT !.timer = t] IN
           /\ Base(y, P, E) /\ Keeps(x, y) /\ \A j : Agree(x, j) => Agree(y, j)
           /\ y.run = x.run /\ y.conn = x.conn /\ y.connecting = x.connecting
           /\ y.at = x.at /\ y.subs = x.subs /\ y.cons = x.cons
           /\ y.pending = x.pending /\ y.up = x.up /\ y.fetches = x.fetches
<1> DEFINE y == [x EXCEPT !.timer = t]
<1>1. x \in StreamState /\ Linked(x) /\ OneConnect(x)
  BY DEF Base
<1>2. /\ y \in StreamState /\ y.fetches = x.fetches
      /\ y.run = x.run /\ y.conn = x.conn /\ y.connecting = x.connecting
      /\ y.at = x.at /\ y.subs = x.subs /\ y.cons = x.cons
      /\ y.pending = x.pending /\ y.up = x.up
  BY <1>1 DEF StreamState
<1> HIDE DEF y
<1>3. /\ y.run # "none" => x.cons[y.run].st # "new"
      /\ y.connecting => y.conn = 0
      /\ \A g \in y.fetches : g.kind = "connect" /\ g.run = y.run => y.connecting
  BY <1>1, <1>2 DEF Linked, OneConnect
<1>4. Base(y, P, E) /\ (\A j : Agree(x, j) => Agree(y, j)) /\ Keeps(x, y)
  BY <1>1, <1>2, <1>3, LinesBase
<1> QED
  BY <1>2, <1>4 DEF y

LEMMA ReconnectSound ==
    ASSUME NEW x, NEW P, Sound(x, P, {})
    PROVE  Sound(ScheduleReconnect(x), P, {}) /\ Keeps(x, ScheduleReconnect(x))
<1>1. Base(x, P, {})
  BY DEF Sound
<1> QED
  BY <1>1, TimerSound DEF Sound, ScheduleReconnect

\* A goroutine that opens a connection is started.
LEMMA OpenSound ==
    ASSUME NEW x, NEW P, Sound(x, P, {}), x.conn = 0
    PROVE  Sound(Open(x), P, {}) /\ Open(x).conn = 0
<1> DEFINE y == [x EXCEPT !.connecting = TRUE]
           f == [Fetch("connect", x, "none", 0) EXCEPT !.conn = 0]
           z == Spawn(y, f)
<1>1. Base(x, P, {}) /\ x \in StreamState /\ Linked(x) /\ OneConnect(x)
  BY DEF Sound, Base
<1>2. /\ y \in StreamState /\ y.fetches = x.fetches
      /\ y.run = x.run /\ y.conn = x.conn /\ y.connecting = TRUE
      /\ y.at = x.at /\ y.subs = x.subs /\ y.cons = x.cons
      /\ y.pending = x.pending /\ y.up = x.up
  BY <1>1 DEF StreamState
<1>3. Open(x) = z
  BY DEF Open
<1> HIDE DEF y
<1>4. y.run # "none" => x.cons[y.run].st # "new"
  BY <1>1, <1>2 DEF Linked
<1>5. Base(y, P, {}) /\ (\A j : Agree(x, j) => Agree(y, j))
  BY <1>1, <1>2, <1>4, LinesBase
<1>6. /\ f = [kind |-> "connect", run |-> x.run, conn |-> 0, s |-> "none", id |-> 0, sub |-> 0]
      /\ f.kind = "connect" /\ f.run = x.run /\ f.conn = 0 /\ f.s = "none" /\ f.id = 0 /\ f.sub = 0
  BY DEF Fetch
<1>7. x.run # "none" => f \in Fetching
  <2>1. x.run \in SomeConsumer /\ 0 \in 0..MaxConns /\ 0 \in Ids
    BY <1>1, Names, StreamAssumptions DEF StreamState
  <2>2. x.run # "none" => x.run \in Consumers
    BY <2>1 DEF SomeConsumer
  <2> QED
    BY <1>6, <2>1, <2>2 DEF Fetching, SomeConsumer
<1> HIDE DEF f
<1>8. Base(z, P, {})
  BY <1>2, <1>5, <1>6, <1>7, SpawnBase
<1>9. z.cons = y.cons /\ z.subs = y.subs /\ z.conn = y.conn
  BY <1>2 DEF Spawn, StreamState
<1>10. \A j \in Consumers : Agree(z, j)
  BY <1>5, <1>9 DEF Agree, Sound
<1> QED
  BY <1>2, <1>3, <1>8, <1>9, <1>10 DEF Sound

\* The connection ends under the records.
LEMMA DetachSound ==
    ASSUME NEW x, NEW P, Sound(x, P, {})
    PROVE  LET y == Detach(x) IN
           Base(y, P, {}) /\ Keeps(x, y) /\ y.conn = 0 /\ \A j \in Consumers : Nearly(y, j)
<1> DEFINE y == Detach(x)
<1>1. Base(x, P, {}) /\ x \in StreamState /\ Linked(x) /\ OneConnect(x)
  BY DEF Sound, Base
<1>2. /\ y \in StreamState /\ y.conn = 0 /\ y.pending = {} /\ y.up = <<>>
      /\ \A j \in Consumers :
           y.subs[j] = IF Current(x, j) THEN Detached(x.subs[j]) ELSE x.subs[j]
      /\ y.run = x.run /\ y.connecting = x.connecting /\ y.timer = x.timer
      /\ y.at = x.at /\ y.cons = x.cons /\ y.fetches = x.fetches
  BY <1>1, DetachIs
<1> HIDE DEF y
<1>3. x.subs \in [Consumers -> SubRecord]
  BY <1>1 DEF StreamState
<1>4. \A j \in Consumers :
        /\ y.subs[j].consumers = x.subs[j].consumers /\ y.subs[j].state = x.subs[j].state
        /\ y.subs[j].stale = x.subs[j].stale /\ y.subs[j].orders = x.subs[j].orders
        /\ y.subs[j].cursor = x.subs[j].cursor
        /\ y.subs[j].sub = 0 /\ ~y.subs[j].ready
        /\ Current(x, j) => ~y.subs[j].retryTimer
        /\ ~Current(x, j) => y.subs[j] = x.subs[j]
  <2> TAKE j \in Consumers
  <2>1. CASE Current(x, j)
    <3>1. y.subs[j] = [x.subs[j] EXCEPT !.retryTimer = FALSE, !.ackTimer = 0, !.sub = 0,
                                        !.seq = 0, !.ready = FALSE, !.staging = FALSE]
      BY <1>2, <1>3, <2>1, DetachedIs
    <3>2. x.subs[j] \in SubRecord
      BY <1>3
    <3> QED
      BY <2>1, <3>1, <3>2 DEF SubRecord
  <2>2. CASE ~Current(x, j)
    <3>1. x.subs[j].sub = 0 /\ (x.subs[j].ready => x.subs[j].sub # 0)
      BY <1>1, <2>2 DEF Base, Attached, Settled
    <3> QED
      BY <1>2, <2>2, <3>1
  <2> QED
    BY <2>1, <2>2
<1>5. \A j : Current(y, j) <=> Current(x, j)
  BY <1>2 DEF Current
<1>6. Linked(y)
  <2>1. \A c \in Consumers : x.cons[c].st = "new" => y.subs[c] = x.subs[c]
    BY <1>1, <1>4 DEF Linked, Current
  <2> QED
    BY <1>1, <1>2, <1>4, <1>5, <2>1 DEF Linked
<1>7. Asked(y) /\ Attached(y)
  BY <1>2, <1>4, <1>5 DEF Asked, Asking, Attached
<1>8. OneConnect(y) /\ WellFormed(y)
  BY <1>1, <1>2 DEF Base, OneConnect, WellFormed, Elems
<1>9. Resumes(y, P) /\ Positioned(y)
  BY <1>1, <1>2, <1>4 DEF Base, Resumes, Asking, Positioned
<1>10. \A j \in Consumers : Settled(y, P, j)
  BY <1>4 DEF Settled
<1>11. \A j \in Consumers : Nearly(y, j)
  <2>1. \A j \in Consumers : Nearly(x, j)
    BY <1>1, AgreesNearly DEF Sound
  <2> QED
    BY <1>2, <1>4, <2>1 DEF Nearly
<1> QED
  BY <1>2, <1>6, <1>7, <1>8, <1>9, <1>10, <1>11 DEF Base, Keeps, y

-----------------------------------------------------------------------------
(* The connection and the token fetches.                                   *)

LEMMA CountsIs ==
    ASSUME Counts, log' = log, NoFault \/ Loss \/ \E f : Fault(f) \/ Costs(f)
    PROVE  Counts'
BY StreamAssumptions DEF Counts, NoFault, Loss, Fault, Costs

LEMMA ClosedInv ==
    ASSUME StreamInv, OnClosed
    PROVE  StreamInv'
<1>1. PICK P \in Positions : Sound(k, P, {}) /\ ServerFits(P)
  BY DEF StreamInv
<1> DEFINE x == Detach(k)
           y == ScheduleReconnect(x)
<1>2. Base(x, P, {}) /\ Keeps(k, x) /\ x.conn = 0 /\ \A j \in Consumers : Nearly(x, j)
  BY <1>1, DetachSound
<1>3. Counts'
  BY CountsIs DEF OnClosed, StreamInv, Step
<1> HIDE DEF x
<1>4. CASE Step(ForAll(Disconnect, y))
  <2>1. /\ Base(y, P, {}) /\ Keeps(x, y) /\ y.conn = 0
        /\ y.subs = x.subs /\ y.cons = x.cons
    BY <1>2, TimerSound DEF ScheduleReconnect
  <2> HIDE DEF y
  <2>2. \A j \in Consumers : Nearly(y, j)
    BY <1>2, <2>1 DEF Nearly
  <2>3. Sound(ForAll(Disconnect, y), P, {}) /\ Keeps(y, ForAll(Disconnect, y))
    BY <2>1, <2>2, DisconnectAllSound
  <2>4. Keeps(k, ForAll(Disconnect, y))
    BY <1>2, <2>1, <2>3, KeepsOn
  <2> QED
    BY <1>1, <1>3, <1>4, <2>3, <2>4, StepInv
<1>5. CASE Step(TerminateAll(x))
  <2>1. Sound(TerminateAll(x), P, {}) /\ Keeps(x, TerminateAll(x))
    BY <1>2, TerminateAllSound
  <2>2. Keeps(k, TerminateAll(x))
    BY <1>2, <2>1, KeepsOn
  <2> QED
    BY <1>1, <1>3, <1>5, <2>1, <2>2, StepInv
<1> QED
  BY <1>4, <1>5 DEF OnClosed, x

LEMMA ReconnectInv ==
    ASSUME StreamInv, ReconnectTimer
    PROVE  StreamInv'
<1>1. PICK P \in Positions : Sound(k, P, {}) /\ ServerFits(P)
  BY DEF StreamInv
<1> DEFINE x == [k EXCEPT !.timer = FALSE]
<1>2. /\ Base(x, P, {}) /\ Keeps(k, x) /\ (\A j : Agree(k, j) => Agree(x, j))
      /\ x.conn = k.conn
  BY <1>1, TimerSound DEF Sound
<1>3. Counts'
  BY CountsIs DEF ReconnectTimer, StreamInv, Step
<1>4. Step(x) \/ (x.conn = 0 /\ Step(Open(x)))
  BY DEF ReconnectTimer
<1> HIDE DEF x
<1>5. Sound(x, P, {})
  BY <1>1, <1>2 DEF Sound
<1>6. CASE Step(x)
  BY <1>1, <1>2, <1>3, <1>5, <1>6, StepInv
<1>7. CASE x.conn = 0 /\ Step(Open(x))
  <2>1. Sound(Open(x), P, {}) /\ k.conn = 0
    BY <1>2, <1>5, <1>7, OpenSound
  <2> QED
    BY <1>1, <1>3, <1>7, <2>1, StepInv
<1> QED
  BY <1>4, <1>6, <1>7

\* There is room for an id of each account and one more.
LEMMA RoomFor ==
    ASSUME Room, NEW x, IdsInUse(x) \subseteq IdsInUse(k) \cup {0}
    PROVE  /\ Cardinality(Unused(MaxIds, IdsInUse(x))) > Cardinality(Accounts)
           /\ Unused(MaxIds, IdsInUse(x)) # {}
<1> DEFINE U == Unused(MaxIds, IdsInUse(k))
           V == Unused(MaxIds, IdsInUse(x))
<1>1. U \subseteq V
  BY StreamAssumptions DEF Unused
<1>2. /\ IsFiniteSet(V) /\ Cardinality(U) \in Nat /\ Cardinality(V) \in Nat
      /\ Cardinality(Accounts) \in Nat /\ Cardinality({}) = 0
  BY UnusedIs, StreamAssumptions, FS_CardinalityType, FS_EmptySet
<1>3. Cardinality(U) <= Cardinality(V)
  BY <1>1, <1>2, FS_Subset
<1>4. Cardinality(U) > Cardinality(Accounts)
  BY DEF Room
<1> HIDE DEF U, V
<1>5. Cardinality(V) > Cardinality(Accounts) /\ Cardinality(V) > 0
  BY <1>2, <1>3, <1>4
<1> QED
  BY <1>2, <1>5 DEF V

LEMMA ConnectSound ==
    ASSUME NEW P, Sound(k, P, {}), Room, NEW f \in k.fetches, f.kind = "connect", NEW how,
           how \in {"none", "error", "refused"}
    PROVE  LET y == ConnectDone([k EXCEPT !.fetches = @ \ {f}], f, how) IN
           Sound(y, P, {}) /\ (Keeps(k, y) \/ k.conn = 0)
<1> DEFINE x == [k EXCEPT !.fetches = @ \ {f}]
           y == [x EXCEPT !.connecting = FALSE]
<1>1. /\ Sound(x, P, {}) /\ Keeps(k, x) /\ x.fetches = k.fetches \ {f}
      /\ x.run = k.run /\ x.conn = k.conn /\ x.connecting = k.connecting
      /\ x.at = k.at /\ x.subs = k.subs /\ x.cons = k.cons
      /\ x.pending = k.pending /\ x.up = k.up
      /\ IdsInUse(x) \subseteq IdsInUse(k)
  BY FewerFetches
<1> HIDE DEF x
<1>2. CASE x.run # f.run
  BY <1>1, <1>2 DEF ConnectDone, x
<1>3. CASE x.run = f.run
  <2>1. /\ k \in StreamState /\ Linked(k) /\ OneConnect(k) /\ WellFormed(k) /\ Asked(k)
        /\ Attached(k) /\ f \in Fetching
    BY DEF Sound, Base, StreamState
  <2>2. k.conn = 0 /\ k.pending = {}
    BY <1>1, <1>3, <2>1 DEF OneConnect, Asked
  <2>3. \A g \in x.fetches : ~(g.kind = "connect" /\ g.run = x.run)
    <3> SUFFICES ASSUME NEW g \in x.fetches, g.kind = "connect", g.run = x.run PROVE FALSE
      OBVIOUS
    <3>1. g \in k.fetches /\ g \in Fetching /\ g # f
      BY <1>1, <2>1 DEF StreamState
    <3>2. /\ g.conn = 0 /\ g.s = "none" /\ g.id = 0 /\ g.sub = 0
          /\ f.conn = 0 /\ f.s = "none" /\ f.id = 0 /\ f.sub = 0
      BY <2>1, <3>1 DEF WellFormed
    <3>3. /\ g = [kind |-> g.kind, run |-> g.run, conn |-> g.conn, s |-> g.s, id |-> g.id,
                  sub |-> g.sub]
          /\ f = [kind |-> f.kind, run |-> f.run, conn |-> f.conn, s |-> f.s, id |-> f.id,
                  sub |-> f.sub]
      BY <2>1, <3>1 DEF Fetching
    <3> QED
      BY <1>3, <3>1, <3>2, <3>3
  <2>4. x \in StreamState
    BY <1>1 DEF Sound, Base
  <2>5. /\ y \in StreamState /\ y.fetches = x.fetches
        /\ y.run = x.run /\ y.conn = x.conn /\ y.connecting = FALSE
        /\ y.at = x.at /\ y.subs = x.subs /\ y.cons = x.cons
        /\ y.pending = x.pending /\ y.up = x.up
    BY <2>4 DEF StreamState
  <2>6. ConnectDone(x, f, how) =
          CASE how = "refused" -> TerminateAll(y)
            [] how = "error"   -> ScheduleReconnect(ReportAll(y))
            [] how = "none"    ->
                 ForAll(SubscribeServer, [y EXCEPT !.conn = Fresh(MaxConns, ConnsInUse)])
    BY <1>3 DEF ConnectDone
  <2> HIDE DEF y
  <2>7. y.run # "none" => x.cons[y.run].st # "new"
    BY <1>1, <2>1, <2>5 DEF Linked
  <2>8. Sound(y, P, {})
    <3>1. Base(x, P, {})
      BY <1>1 DEF Sound
    <3>2. Base(y, P, {}) /\ \A j : Agree(x, j) => Agree(y, j)
      BY <2>3, <2>5, <2>7, <3>1, LinesBase
    <3> QED
      BY <1>1, <3>2 DEF Sound
  <2>9. CASE how = "refused"
    <3>1. Base(y, P, {}) /\ \A j \in Consumers : Agree(y, j)
      BY <2>8 DEF Sound
    <3> QED
      BY <2>2, <2>6, <2>9, <3>1, TerminateAllSound DEF x
  <2>10. CASE how = "error"
    BY <2>2, <2>6, <2>8, <2>10, ReportAllSound, ReconnectSound DEF x
  <2>11. CASE how = "none"
    <3> DEFINE n == Fresh(MaxConns, ConnsInUse)
               z == [y EXCEPT !.conn = n]
    <3>1. n \in 1..MaxConns
      BY StreamAssumptions, FreshIs DEF Room
    <3> HIDE DEF n
    <3>2. /\ z \in StreamState /\ z.fetches = y.fetches /\ z.run = y.run /\ z.conn = n
          /\ z.connecting = FALSE /\ z.at = y.at /\ z.subs = y.subs /\ z.cons = y.cons
          /\ z.pending = {} /\ z.up = y.up
      BY <1>1, <2>2, <2>5, <3>1, StreamAssumptions DEF StreamState
    <3>3. ConnectDone(x, f, how) = ForAll(SubscribeServer, z)
      BY <2>6, <2>11 DEF n
    <3> HIDE DEF z
    <3>4. Sound(z, P, {})
      <4>1. Base(y, P, {}) /\ y.conn = 0 /\ y.pending = {}
        BY <1>1, <2>2, <2>5, <2>8 DEF Sound
      <4>2. Base(z, P, {}) /\ \A j : Agree(y, j) => Agree(z, j)
        BY <2>3, <2>5, <2>7, <3>2, <4>1, LinesBase
      <4> QED
        BY <2>8, <4>2 DEF Sound
    <3>5. \A j \in Consumers : Current(z, j) => z.subs[j].sub = 0 /\ ~z.subs[j].retryTimer
      BY <1>1, <2>1, <2>2, <2>5, <3>2 DEF Attached, Current
    <3>6. IdsInUse(z) \subseteq IdsInUse(k)
      BY <1>1, <2>2, <2>5, <3>2 DEF IdsInUse
    <3>7. Cardinality(Unused(MaxIds, IdsInUse(z))) > Cardinality(Accounts)
      BY <3>6, RoomFor
    <3>8. z.conn # 0
      BY <3>1, <3>2, StreamAssumptions
    <3>9. Sound(ForAll(SubscribeServer, z), P, {})
      BY <3>2, <3>4, <3>5, <3>7, <3>8, SubscribeAllSound
    <3> QED
      BY <2>2, <3>3, <3>9 DEF x
  <2> QED
    BY <2>9, <2>10, <2>11
<1> QED
  BY <1>2, <1>3

LEMMA ReauthSound ==
    ASSUME NEW x, NEW P, Sound(x, P, {}), NEW f, NEW how \in {"none", "error", "refused"}
    PROVE  LET y == ReauthDone(x, f, how) IN Sound(y, P, {}) /\ Keeps(x, y)
<1>1. Base(x, P, {}) /\ \A j \in Consumers : Agree(x, j)
  BY DEF Sound
<1>2. Sound(TerminateAll(x), P, {}) /\ Keeps(x, TerminateAll(x))
  BY <1>1, TerminateAllSound
<1>3. Sound(ReportAll(x), P, {}) /\ Keeps(x, ReportAll(x)) /\ Keeps(x, x)
  BY ReportAllSound, KeepsSelf
<1>4. ReauthDone(x, f, how) \in {x, TerminateAll(x), ReportAll(x)}
  BY DEF ReauthDone
<1> QED
  BY <1>2, <1>3, <1>4

LEMMA RetrySound ==
    ASSUME NEW x, NEW P, Sound(x, P, {}), NEW i \in Consumers, Current(x, i) => x.conn # 0,
           x.subs[i].sub = 0, \A q \in Asking(x) : q.s # i, x.cons[i].st # "new"
    PROVE  Sound(RetrySubscribe(x, i), P, {}) /\ Keeps(x, RetrySubscribe(x, i))
<1> DEFINE y == RetrySubscribe(x, i)
<1>1. Base(x, P, {}) /\ \A j \in Consumers : Agree(x, j)
  BY DEF Sound
<1>2. /\ Base(y, P, {}) /\ Spares(x, y, i) /\ y.cons = x.cons
      /\ y.subs[i].state = x.subs[i].state /\ y.subs[i].ready = x.subs[i].ready
      /\ y.subs[i].stale = x.subs[i].stale /\ y.subs[i].orders = x.subs[i].orders
  BY <1>1, RetrySubscribeIs
<1> HIDE DEF y
<1>3. \A j \in Consumers \ {i} : y.subs[j] = x.subs[j]
  BY <1>2 DEF Spares
<1>4. \A j \in Consumers : Agree(y, j)
  BY <1>1, <1>2, <1>3 DEF Agree, Matches
<1> QED
  BY <1>2, <1>4 DEF Sound, Spares, y

\* A subscribe fails: its request is gone, and its consumers are told.
LEMMA FailedSound ==
    ASSUME NEW x, NEW P, Sound(x, P, {}), NEW i, NEW id,
           [kind |-> "subscribe", id |-> id, s |-> i] \in x.pending,
           NEW gone, gone = [x EXCEPT !.pending = x.pending \ {[kind |-> "subscribe",
                                                               id |-> id, s |-> i]}]
    PROVE  LET y == Report(gone, i)
           IN /\ Sound(gone, P, {}) /\ Keeps(x, gone) /\ i \in Consumers /\ Current(gone, i)
              /\ Sound(y, P, {}) /\ Keeps(x, y) /\ y.subs[i].sub = 0
              /\ Current(y, i) => y.conn # 0
              /\ \A q \in Asking(y) : q.s # i
              /\ y.cons[i].st # "new"
<1> DEFINE r == [kind |-> "subscribe", id |-> id, s |-> i]
           y == Report(gone, i)
<1>1. Base(x, P, {}) /\ x \in StreamState /\ Asked(x) /\ Linked(x)
  BY DEF Sound, Base
<1>2. r.kind = "subscribe" /\ r.s = i
  OBVIOUS
<1>3. gone = [x EXCEPT !.pending = x.pending \ {r}]
  OBVIOUS
<1> HIDE DEF r
<1>4. /\ i \in Consumers /\ Current(x, i) /\ x.conn # 0 /\ r \in Asking(x)
      /\ x.subs[i].sub = 0 /\ x.cons[i].st # "new"
  <2>1. r \in Requests /\ r \in x.pending
    BY <1>1 DEF StreamState, r
  <2>2. r \in Asking(x)
    BY <1>2, <2>1 DEF Asking
  <2> QED
    BY <1>1, <1>2, <2>1, <2>2 DEF Asked, Linked, Current, Requests
<1>5. Base(gone, P, {})
  BY <1>1, <1>3, AnsweredBase
<1>6. /\ gone.pending = x.pending \ {r} /\ gone.subs = x.subs /\ gone.cons = x.cons
      /\ gone.at = x.at /\ gone.conn = x.conn /\ gone.up = x.up
  BY <1>1, <1>3 DEF StreamState
<1>7. Sound(gone, P, {}) /\ Keeps(x, gone)
  <2>1. \A j \in Consumers : Agree(gone, j)
    BY <1>6 DEF Sound, Agree
  <2> QED
    BY <1>5, <1>6, <2>1, KeepsSame DEF Sound
<1>8. \A q \in Asking(gone) : q.s # i
  BY <1>1, <1>2, <1>4, <1>6 DEF Asking, Asked
<1>9. Sound(y, P, {}) /\ Touches(gone, y, i)
  BY <1>4, <1>7, ReportSound
<1> HIDE DEF y
<1>10. Keeps(x, y) /\ y.cons[i].st # "new" /\ \A q \in Asking(y) : q.s # i
  BY <1>4, <1>6, <1>7, <1>8, <1>9, KeepsOn DEF Touches, Spares, Asking
<1>11. y.subs[i].sub = 0 /\ (Current(y, i) => y.conn # 0)
  <2>1. CASE Kept(gone, y, i)
    <3>1. gone.subs[i] \in SubRecord
      BY <1>4, <1>5 DEF Base, StreamState
    <3>2. y.subs[i].sub = gone.subs[i].sub
      BY <2>1, <3>1 DEF Kept, SubRecord
    <3> QED
      BY <1>4, <1>6, <2>1, <3>2 DEF Kept
  <2>2. CASE ~Current(y, i) /\ y.subs[i] = NewSub
    BY <2>2 DEF NewSub
  <2> QED
    BY <1>9, <2>1, <2>2 DEF Touches
<1>12. Current(gone, i)
  BY <1>4, <1>6 DEF Current
<1> QED
  BY <1>4, <1>7, <1>9, <1>10, <1>11, <1>12 DEF y

LEMMA SubscribeDoneSound ==
    ASSUME NEW x, NEW P, Sound(x, P, {}), NEW f \in Fetching, NEW how,
           how \in {"none", "error", "refused"}
    PROVE  LET y == SubscribeDone(x, f, how) IN Sound(y, P, {}) /\ Keeps(x, y)
<1> DEFINE i == f.s
           id == f.id
           r == [kind |-> "subscribe", id |-> id, s |-> i]
           gone == [x EXCEPT !.pending = @ \ {r}]
           y == SubscribeDone(x, f, how)
<1>0. gone = [x EXCEPT !.pending = x.pending \ {[kind |-> "subscribe", id |-> id, s |-> i]}]
  OBVIOUS
<1>1. CASE r \notin x.pending \/ (how = "none" /\ x.conn # f.conn)
  <2>1. y = x
    BY <1>1 DEF SubscribeDone
  <2> QED
    BY <2>1, KeepsSelf
<1>2. CASE r \in x.pending /\ how = "refused"
  <2>1. y = Terminate(gone, i)
    BY <1>2 DEF SubscribeDone
  <2>2. Sound(gone, P, {}) /\ Keeps(x, gone) /\ i \in Consumers
    <3> HIDE DEF gone
    <3> QED
      BY <1>0, <1>2, FailedSound
  <2> HIDE DEF gone, i, y
  <2>3. Sound(y, P, {}) /\ Spares(gone, y, i)
    BY <2>1, <2>2, TerminateSound
  <2> QED
    BY <2>2, <2>3, KeepsOn DEF Spares, y
<1>3. CASE r \in x.pending /\ how = "error"
  <2> DEFINE told == Report(gone, i)
  <2>1. y = RetrySubscribe(told, i)
    BY <1>3 DEF SubscribeDone
  <2>2. /\ i \in Consumers /\ Sound(told, P, {}) /\ Keeps(x, told) /\ told.subs[i].sub = 0
        /\ Current(told, i) => told.conn # 0
        /\ \A q \in Asking(told) : q.s # i
        /\ told.cons[i].st # "new"
    <3>1. [kind |-> "subscribe", id |-> id, s |-> i] \in x.pending
      BY <1>3
    <3> HIDE DEF id, i, y, gone
    <3> QED
      BY <1>0, <3>1, FailedSound
  <2> HIDE DEF told, i, y
  <2>3. Sound(y, P, {}) /\ Keeps(told, y)
    BY <2>1, <2>2, RetrySound
  <2> QED
    BY <2>2, <2>3, KeepsOn DEF y
<1>4. CASE r \in x.pending /\ how = "none" /\ x.conn = f.conn
  <2> DEFINE t == [x.subs[i] EXCEPT !.ackTimer = id]
             v == Replaced(x, i, t)
             m == [op |-> "subscribe", id |-> id, sub |-> 0, s |-> i, cursor |-> x.subs[i].cursor]
  <2>1. y = Send(v, m)
    BY <1>4 DEF SubscribeDone, SendSubscribe, Replaced
  <2>2. /\ Base(x, P, {}) /\ x \in StreamState /\ Asked(x) /\ Linked(x) /\ i \in Consumers
        /\ x.subs[i] \in SubRecord /\ id \in Ids /\ r \in Asking(x)
        /\ x.conn # 0 /\ x.cons[i].st # "new"
    <3>1. Base(x, P, {}) /\ x \in StreamState /\ Asked(x) /\ Linked(x) /\ r \in x.pending
      BY <1>4 DEF Sound, Base
    <3>2. r \in Requests /\ r \in Asking(x) /\ r.s = i
      BY <3>1 DEF StreamState, Asking
    <3>3. i \in Consumers /\ Current(x, i) /\ x.conn # 0
      BY <3>1, <3>2 DEF Asked, Requests
    <3>4. x.subs[i] \in SubRecord /\ id \in Ids
      BY <3>1, <3>3 DEF StreamState, Fetching
    <3> QED
      BY <3>1, <3>2, <3>3, <3>4 DEF Linked, Current
  <2>3. r.s = i /\ r.id = id
    OBVIOUS
  <2> HIDE DEF i, id, y, r
  <2>4. /\ t \in SubRecord /\ t.consumers = x.subs[i].consumers /\ t.sub = x.subs[i].sub
        /\ t.seq = x.subs[i].seq /\ t.retryTimer = x.subs[i].retryTimer
        /\ t.cursor = x.subs[i].cursor /\ t.orders = x.subs[i].orders
        /\ t.ready = x.subs[i].ready /\ t.state = x.subs[i].state /\ t.stale = x.subs[i].stale
    BY <2>2 DEF SubRecord
  <2> HIDE DEF t
  <2>5. /\ (t.ready => t.sub # 0)
        /\ (t.sub # 0 => t.state = "connected" /\ t.cursor = P[t.sub][t.seq])
    BY <2>2, <2>4 DEF Base, Settled
  <2>6. Base(v, P, {})
    BY <2>2, <2>4, <2>5, SameSubBase
  <2>7. /\ v.subs = [x.subs EXCEPT ![i] = t] /\ v.conn = x.conn /\ v.at = x.at
        /\ v.cons = x.cons /\ v.pending = x.pending /\ v.up = x.up
    BY <2>2, <2>4, ReplacedIs
  <2>8. v.subs[i] = t /\ \A j \in Consumers \ {i} : v.subs[j] = x.subs[j]
    BY <2>2, <2>7 DEF StreamState
  <2> HIDE DEF v
  <2>9. /\ m \in Messages /\ m.op = "subscribe" /\ m.id = id /\ m.s = i
        /\ m.cursor = x.subs[i].cursor
    BY <2>2, Names DEF Messages, SubRecord, SomeConsumer
  <2> HIDE DEF m
  <2>10. \A q \in Asking(v) : m.id = q.id => m.cursor = v.subs[q.s].cursor
    <3>1. Asking(v) = Asking(x)
      BY <2>7 DEF Asking
    <3>2. \A q \in Asking(x) : q.id = id => q.s = i
      BY <2>2, <2>3 DEF Asked
    <3> QED
      BY <2>4, <2>8, <2>9, <3>1, <3>2
  <2>11. Base(y, P, {})
    <3>1. v.conn # 0
      BY <2>2, <2>7
    <3>2. \A q \in Asking(v) :
            m.op = "subscribe" /\ m.id = q.id => m.cursor = v.subs[q.s].cursor
      BY <2>10
    <3>3. (m.op = "subscribe" => m.s \in Consumers) /\ (m.op = "refresh" => m.sub # 0)
      BY <2>2, <2>9
    <3> QED
      BY <2>1, <2>6, <2>9, <3>1, <3>2, <3>3, SendBase
  <2>12. /\ Elems(y.up) = Elems(v.up) \cup {m} /\ y.conn = v.conn /\ y.at = v.at
         /\ y.subs = v.subs /\ y.cons = v.cons
    BY <2>1, <2>6, <2>9, SendIs DEF Base
  <2>13. \A j \in Consumers : Agree(y, j)
    BY <2>4, <2>7, <2>8, <2>12 DEF Sound, Agree, Matches
  <2>14. Keeps(x, y)
    <3>1. y.conn = x.conn /\ y.at = x.at /\ Elems(x.up) \subseteq Elems(y.up)
          /\ \A j \in Consumers : y.subs[j].sub = x.subs[j].sub
      BY <2>4, <2>7, <2>8, <2>12
    <3> QED
      BY <3>1, KeepsSame
  <2> QED
    BY <2>11, <2>13, <2>14 DEF Sound, y
<1> QED
  BY <1>1, <1>2, <1>3, <1>4

\* A lease is asked to be renewed.
LEMMA RefreshDoneSound ==
    ASSUME NEW x, NEW P, Sound(x, P, {}), NEW f \in Fetching, f.s \in Consumers, f.sub # 0,
           NEW how, Unused(MaxIds, IdsInUse(x)) # {}
    PROVE  LET y == RefreshDone(x, f, how) IN Sound(y, P, {}) /\ Keeps(x, y)
<1> DEFINE i == f.s
           id == Fresh(MaxIds, IdsInUse(x))
           r == [kind |-> "refresh", id |-> id, s |-> i]
           v == [x EXCEPT !.pending = @ \cup {r}]
           m == [op |-> "refresh", id |-> id, sub |-> f.sub, s |-> i, cursor |-> None]
           y == RefreshDone(x, f, how)
<1>1. CASE x.conn # f.conn \/ x.subs[i].sub # f.sub \/ ~Current(x, i)
  <2>1. y = x
    BY <1>1 DEF RefreshDone
  <2> QED
    BY <2>1, KeepsSelf
<1>2. CASE ~(x.conn # f.conn \/ x.subs[i].sub # f.sub \/ ~Current(x, i)) /\ how # "none"
  <2>1. y = Report(x, i)
    BY <1>2 DEF RefreshDone
  <2> HIDE DEF y
  <2>2. Sound(y, P, {}) /\ Touches(x, y, i)
    BY <2>1, ReportSound
  <2> QED
    BY <2>2 DEF Touches, Spares, y
<1>3. CASE ~(x.conn # f.conn \/ x.subs[i].sub # f.sub \/ ~Current(x, i)) /\ how = "none"
  <2>1. y = Send(v, m)
    BY <1>3 DEF RefreshDone
  <2>2. id \in 1..MaxIds
    BY StreamAssumptions, FreshIs
  <2>3. /\ Base(x, P, {}) /\ x \in StreamState /\ Current(x, i) /\ x.conn # 0
    BY <1>3 DEF Sound, Base, Attached
  <2> HIDE DEF id, y, i
  <2>4. r \in Requests /\ r.s = i /\ r.kind = "refresh"
    BY <2>2 DEF Requests, i
  <2> HIDE DEF r
  <2>5. /\ v \in StreamState /\ v.pending = x.pending \cup {r} /\ v.run = x.run
        /\ v.conn = x.conn /\ v.connecting = x.connecting /\ v.at = x.at
        /\ v.subs = x.subs /\ v.cons = x.cons /\ v.fetches = x.fetches /\ v.up = x.up
    BY <2>3, <2>4 DEF StreamState
  <2> HIDE DEF v
  <2>6. Asking(v) = Asking(x) /\ \A j : Current(v, j) <=> Current(x, j)
    BY <2>4, <2>5 DEF Asking, Current
  <2>7. Base(v, P, {})
    <3>1. Linked(v)
      BY <2>3, <2>5, <2>6 DEF Base, Linked
    <3>2. Asked(v)
      BY <2>3, <2>4, <2>5, <2>6 DEF Base, Asked
    <3>3. Attached(v) /\ OneConnect(v) /\ WellFormed(v)
      BY <2>3, <2>5, <2>6 DEF Base, Attached, OneConnect, WellFormed
    <3>4. Resumes(v, P) /\ Positioned(v)
      BY <2>3, <2>5, <2>6 DEF Base, Resumes, Positioned
    <3>5. \A j \in Consumers : Settled(v, P, j)
      BY <2>3, <2>5 DEF Base, Settled
    <3> QED
      BY <2>5, <3>1, <3>2, <3>3, <3>4, <3>5 DEF Base
  <2>8. m \in Messages /\ m.op = "refresh" /\ m.sub # 0
    <3>1. id \in Ids /\ f.sub \in Ids
      BY <2>2, StreamAssumptions DEF Ids, Fetching
    <3> QED
      BY <3>1 DEF Messages, SomeConsumer, Cursors, i
  <2> HIDE DEF m
  <2>9. Base(y, P, {})
    BY <2>1, <2>3, <2>5, <2>7, <2>8, SendBase
  <2>10. /\ Elems(y.up) = Elems(v.up) \cup {m} /\ y.conn = v.conn /\ y.at = v.at
         /\ y.subs = v.subs /\ y.cons = v.cons
    BY <2>1, <2>5, <2>8, SendIs
  <2>11. \A j \in Consumers : Agree(y, j)
    BY <2>5, <2>10 DEF Sound, Agree
  <2>12. Keeps(x, y)
    <3>1. y.conn = x.conn /\ y.at = x.at /\ Elems(x.up) \subseteq Elems(y.up)
          /\ \A j \in Consumers : y.subs[j].sub = x.subs[j].sub
      BY <2>5, <2>10
    <3> QED
      BY <3>1, KeepsSame
  <2> QED
    BY <2>9, <2>11, <2>12 DEF Sound, y
<1> QED
  BY <1>1, <1>2, <1>3

LEMMA FetchInv ==
    ASSUME StreamInv, NEW f \in k.fetches, FetchDone(f)
    PROVE  StreamInv'
<1>1. PICK P \in Positions : Sound(k, P, {}) /\ ServerFits(P)
  BY DEF StreamInv
<1> DEFINE x == [k EXCEPT !.fetches = @ \ {f}]
<1>2. PICK how \in {"none", "error", "refused"} :
        /\ Costs(how)
        /\ Step(CASE f.kind = "connect"   -> ConnectDone(x, f, how)
                  [] f.kind = "reauth"    -> ReauthDone(x, f, how)
                  [] f.kind = "subscribe" -> SubscribeDone(x, f, how)
                  [] f.kind = "refresh"   -> RefreshDone(x, f, how))
  BY DEF FetchDone
<1>3. Room /\ f \in Fetching /\ WellFormed(k)
  BY <1>1 DEF FetchDone, Sound, Base, StreamState
<1>4. Sound(x, P, {}) /\ Keeps(k, x) /\ IdsInUse(x) \subseteq IdsInUse(k)
  BY <1>1, FewerFetches
<1>5. Counts'
  BY <1>2, CountsIs DEF StreamInv, Step
<1>6. Unused(MaxIds, IdsInUse(x)) # {}
  BY <1>3, <1>4, RoomFor
<1>7. ASSUME NEW y, Step(y), Sound(y, P, {}), Keeps(x, y)
      PROVE  StreamInv'
  <2> HIDE DEF x
  <2>1. Keeps(k, y)
    BY <1>4, <1>7, KeepsOn
  <2> QED
    BY <1>1, <1>5, <1>7, <2>1, StepInv
<1>8. f.kind \in {"connect", "reauth", "subscribe", "refresh"}
  BY <1>3 DEF Fetching
<1>9. CASE f.kind = "connect"
  <2> DEFINE y == ConnectDone(x, f, how)
  <2>1. Step(y)
    BY <1>2, <1>9
  <2>2. Sound(y, P, {}) /\ (Keeps(k, y) \/ k.conn = 0)
    BY <1>1, <1>3, <1>9, ConnectSound
  <2> HIDE DEF y
  <2> QED
    BY <1>1, <1>5, <2>1, <2>2, StepInv
<1> HIDE DEF x
<1>10. CASE f.kind = "reauth"
  <2>1. Step(ReauthDone(x, f, how))
    BY <1>2, <1>10
  <2> QED
    BY <1>4, <1>7, <2>1, ReauthSound
<1>11. CASE f.kind = "subscribe"
  <2>1. Step(SubscribeDone(x, f, how))
    BY <1>2, <1>11
  <2> QED
    BY <1>3, <1>4, <1>7, <2>1, SubscribeDoneSound
<1>12. CASE f.kind = "refresh"
  <2>1. Step(RefreshDone(x, f, how))
    BY <1>2, <1>12
  <2>2. f.s \in Consumers /\ f.sub # 0
    BY <1>3, <1>12 DEF WellFormed
  <2> QED
    BY <1>3, <1>4, <1>6, <1>7, <2>1, <2>2, RefreshDoneSound
<1> QED
  BY <1>8, <1>9, <1>10, <1>11, <1>12

-----------------------------------------------------------------------------
(* The timers of a subscription.                                           *)

\* A timer of record i is stopped.
LEMMA StoppedSound ==
    ASSUME NEW x, NEW P, Sound(x, P, {}), NEW i \in Consumers, NEW t \in SubRecord,
           t \in {[x.subs[i] EXCEPT !.ackTimer = 0], [x.subs[i] EXCEPT !.retryTimer = FALSE]},
           x.cons[i].st # "new"
    PROVE  LET y == Replaced(x, i, t) IN
           /\ Sound(y, P, {}) /\ Keeps(x, y) /\ y.subs[i] = t
           /\ y.pending = x.pending /\ y.conn = x.conn /\ y.run = x.run /\ y.at = x.at
           /\ IdsInUse(y) \subseteq IdsInUse(x) \cup {0}
<1> DEFINE y == Replaced(x, i, t)
<1>1. Base(x, P, {}) /\ x \in StreamState /\ x.subs[i] \in SubRecord
  BY DEF Sound, Base, StreamState
<1>2. /\ t.consumers = x.subs[i].consumers /\ t.sub = x.subs[i].sub /\ t.seq = x.subs[i].seq
      /\ t.cursor = x.subs[i].cursor /\ t.orders = x.subs[i].orders
      /\ t.ready = x.subs[i].ready /\ t.state = x.subs[i].state /\ t.stale = x.subs[i].stale
      /\ t.ackTimer \in {x.subs[i].ackTimer, 0}
      /\ (t.retryTimer => x.subs[i].retryTimer)
  BY <1>1 DEF SubRecord
<1>3. /\ Spares(x, y, i) /\ y.subs[i] = t /\ y.conn = x.conn /\ y.run = x.run
      /\ y.pending = x.pending /\ y.cons = x.cons /\ y.at = x.at
  BY <1>1, <1>2, ReplacedSpares
<1>4. Base(y, P, {})
  <2>1. /\ \A q \in Asking(x) : q.s = i => t.sub = 0 /\ ~t.retryTimer /\ t.cursor = x.subs[i].cursor
        /\ t.sub # 0 => Current(x, i) /\ x.conn # 0 /\ ~t.retryTimer
        /\ t.retryTimer /\ Current(x, i) => x.conn # 0
        /\ t.cursor # None => t.orders = Position(t.cursor)
        /\ t.sub # 0 => \A d \in srv.subs : t.sub = d.sub => t.seq <= d.seq
        /\ (t.ready => t.sub # 0)
        /\ (t.sub # 0 => t.state = "connected" /\ t.cursor = P[t.sub][t.seq])
    BY <1>1, <1>2 DEF Base, Asked, Attached, Positioned, Settled
  <2>2. t.consumers = x.subs[i].consumers
    BY <1>2
  <2> HIDE DEF y
  <2> QED
    BY <1>1, <2>1, <2>2, ReplacedBase DEF y
<1> HIDE DEF y
<1>5. \A j \in Consumers : Agree(y, j)
  BY <1>2, <1>3 DEF Sound, Agree, Matches, Spares
<1> QED
  BY <1>3, <1>4, <1>5 DEF Sound, Spares, y

LEMMA ExpireSound ==
    ASSUME NEW x, NEW P, Sound(x, P, {}), NEW i \in Consumers, NEW id
    PROVE  LET y == ExpireSubscribe(x, i, id) IN Sound(y, P, {}) /\ Keeps(x, y)
<1> DEFINE r == [kind |-> "subscribe", id |-> id, s |-> i]
           gone == [x EXCEPT !.pending = @ \ {r}]
           told == Report(gone, i)
           y == ExpireSubscribe(x, i, id)
<1>0. gone = [x EXCEPT !.pending = x.pending \ {[kind |-> "subscribe", id |-> id, s |-> i]}]
  OBVIOUS
<1>1. CASE r \notin x.pending
  <2>1. y = x
    BY <1>1 DEF ExpireSubscribe
  <2> QED
    BY <2>1, KeepsSelf
<1>2. CASE r \in x.pending
  <2>1. /\ Sound(told, P, {}) /\ Keeps(x, told) /\ told.subs[i].sub = 0
        /\ Current(told, i) => told.conn # 0
        /\ \A q \in Asking(told) : q.s # i
        /\ told.cons[i].st # "new"
    <3>1. [kind |-> "subscribe", id |-> id, s |-> i] \in x.pending
      BY <1>2
    <3> HIDE DEF y, gone
    <3> QED
      BY <1>0, <3>1, FailedSound
  <2>2. y \in {Terminate(x, i), RetrySubscribe(told, i), told}
    BY <1>2 DEF ExpireSubscribe
  <2> HIDE DEF told, y
  <2>3. Sound(Terminate(x, i), P, {}) /\ Keeps(x, Terminate(x, i))
    BY TerminateSound DEF Spares
  <2>4. Sound(RetrySubscribe(told, i), P, {}) /\ Keeps(told, RetrySubscribe(told, i))
    BY <2>1, RetrySound
  <2>5. Keeps(x, RetrySubscribe(told, i))
    BY <2>1, <2>4, KeepsOn
  <2> QED
    BY <2>1, <2>2, <2>3, <2>4, <2>5 DEF y
<1> QED
  BY <1>1, <1>2

LEMMA AckInv ==
    ASSUME StreamInv, NEW i \in Consumers, AckTimer(i)
    PROVE  StreamInv'
<1>1. PICK P \in Positions : Sound(k, P, {}) /\ ServerFits(P)
  BY DEF StreamInv
<1> DEFINE id == k.subs[i].ackTimer
           t == [k.subs[i] EXCEPT !.ackTimer = 0]
           x == Replaced(k, i, t)
           y == ExpireSubscribe(x, i, id)
<1>2. id # 0 /\ Step(y) /\ Counts'
  <2>1. [k EXCEPT !.subs[i].ackTimer = 0] = x
    BY DEF Replaced
  <2>2. Step(y)
    BY <2>1 DEF AckTimer
  <2>3. Counts'
    BY CountsIs DEF AckTimer, StreamInv, Step
  <2> QED
    BY <2>2, <2>3 DEF AckTimer
<1>3. t \in SubRecord /\ k.cons[i].st # "new"
  <2>1. k \in StreamState /\ Linked(k) /\ NewSub.ackTimer = 0
    BY <1>1 DEF Sound, Base, NewSub
  <2>2. k.subs[i] \in SubRecord
    BY <2>1 DEF StreamState
  <2>3. t \in SubRecord
    BY <2>2, Names DEF SubRecord
  <2> QED
    BY <1>2, <2>1, <2>3 DEF Linked
<1>4. Sound(x, P, {}) /\ Keeps(k, x)
  BY <1>1, <1>3, StoppedSound
<1> HIDE DEF x, id
<1>5. Sound(y, P, {}) /\ Keeps(x, y)
  BY <1>4, ExpireSound
<1> HIDE DEF y
<1>6. Keeps(k, y)
  BY <1>4, <1>5, KeepsOn
<1> QED
  BY <1>1, <1>2, <1>5, <1>6, StepInv

LEMMA RetryInv ==
    ASSUME StreamInv, NEW i \in Consumers, RetryTimer(i)
    PROVE  StreamInv'
<1>1. PICK P \in Positions : Sound(k, P, {}) /\ ServerFits(P)
  BY DEF StreamInv
<1> DEFINE t == [k.subs[i] EXCEPT !.retryTimer = FALSE]
           x == Replaced(k, i, t)
           y == SubscribeServer(x, i)
<1>2. /\ k.subs[i].retryTimer /\ Room /\ Counts'
      /\ Step(x) \/ (x.conn # 0 /\ Current(x, i) /\ x.subs[i].sub = 0 /\ Step(y))
  <2>1. [k EXCEPT !.subs[i].retryTimer = FALSE] = x
    BY DEF Replaced
  <2>2. Counts'
    BY CountsIs DEF RetryTimer, StreamInv, Step
  <2>3. Step(IF x.conn # 0 /\ Current(x, i) /\ x.subs[i].sub = 0 THEN y ELSE x)
    BY <2>1 DEF RetryTimer
  <2> HIDE DEF x, y
  <2> QED
    BY <2>2, <2>3 DEF RetryTimer
<1>3. /\ k \in StreamState /\ Linked(k) /\ Asked(k)
      /\ t \in SubRecord /\ ~t.retryTimer /\ k.cons[i].st # "new"
  <2>1. k \in StreamState /\ Linked(k) /\ Asked(k) /\ NewSub.retryTimer = FALSE
    BY <1>1 DEF Sound, Base, NewSub
  <2>2. k.subs[i] \in SubRecord
    BY <2>1 DEF StreamState
  <2>3. t \in SubRecord /\ ~t.retryTimer
    BY <2>2 DEF SubRecord
  <2> QED
    BY <1>2, <2>1, <2>3 DEF Linked
<1>4. /\ Sound(x, P, {}) /\ Keeps(k, x) /\ x.subs[i] = t /\ x.pending = k.pending
      /\ IdsInUse(x) \subseteq IdsInUse(k) \cup {0}
  <2>1. t \in {[k.subs[i] EXCEPT !.ackTimer = 0], [k.subs[i] EXCEPT !.retryTimer = FALSE]}
    OBVIOUS
  <2> HIDE DEF t
  <2> QED
    BY <1>1, <1>3, <2>1, StoppedSound
<1> HIDE DEF x, t
<1>5. CASE Step(x)
  BY <1>1, <1>2, <1>4, <1>5, StepInv
<1>6. CASE x.conn # 0 /\ Current(x, i) /\ x.subs[i].sub = 0 /\ Step(y)
  <2>1. \A q \in Asking(x) : q.s # i
    BY <1>2, <1>3, <1>4 DEF Asked, Asking
  <2>2. Base(x, P, {}) /\ Unused(MaxIds, IdsInUse(x)) # {}
    BY <1>2, <1>4, RoomFor DEF Sound
  <2>3. Base(y, P, {}) /\ Keeps(x, y) /\ y.subs = x.subs /\ y.cons = x.cons
    BY <1>3, <1>4, <1>6, <2>1, <2>2, SubscribeServerIs
  <2> HIDE DEF y
  <2>4. Sound(y, P, {})
    BY <1>4, <2>3 DEF Sound, Agree
  <2>5. Keeps(k, y)
    BY <1>4, <2>3, KeepsOn
  <2> QED
    BY <1>1, <1>2, <1>6, <2>4, <2>5, StepInv
<1> QED
  BY <1>2, <1>5, <1>6

-----------------------------------------------------------------------------
(* The user closes and reads.                                              *)

\* The queue of a consumer changes, not what an open one was told.
LEMMA QueueSound ==
    ASSUME NEW x, NEW P, Sound(x, P, {}), NEW c \in Consumers, NEW con \in Queue,
           con.sub = x.cons[c].sub, x.cons[c].st # "new", con.st # "new",
           con.st = "open" => x.cons[c].st = "open" /\ con.told = x.cons[c].told
    PROVE  LET y == [x EXCEPT !.cons[c] = con] IN Sound(y, P, {}) /\ Keeps(x, y)
<1> DEFINE y == [x EXCEPT !.cons[c] = con]
<1>1. /\ Base(x, P, {}) /\ x \in StreamState /\ x.cons \in [Consumers -> Queue] /\ Linked(x)
      /\ \A f \in x.fetches : f.run \in Consumers
      /\ x.run \in SomeConsumer
  BY DEF Sound, Base, StreamState, Fetching
<1>2. /\ y \in StreamState /\ y.cons = [x.cons EXCEPT ![c] = con]
      /\ y.run = x.run /\ y.conn = x.conn /\ y.connecting = x.connecting
      /\ y.at = x.at /\ y.subs = x.subs /\ y.fetches = x.fetches
      /\ y.pending = x.pending /\ y.up = x.up
  BY <1>1 DEF StreamState
<1> HIDE DEF y
<1>3. y.cons[c] = con /\ \A d \in Consumers \ {c} : y.cons[d] = x.cons[d]
  BY <1>1, <1>2
<1>4. \A j : Current(y, j) <=> Current(x, j)
  BY <1>2 DEF Current
<1>5. Linked(y)
  <2>1. \A d \in Consumers :
          /\ y.cons[d].sub = x.cons[d].sub
          /\ y.cons[d].st = "new" <=> x.cons[d].st = "new"
          /\ y.cons[d].st = "new" => y.cons[d] = x.cons[d]
          /\ y.cons[d].st = "open" => x.cons[d].st = "open"
    BY <1>3
  <2>2. \A i \in Consumers : x.subs[i].consumers \subseteq Consumers
    BY <1>1 DEF StreamState, SubRecord
  <2> QED
    BY <1>1, <1>2, <1>4, <2>1, <2>2 DEF Linked, SomeConsumer
<1>6. Asked(y) /\ Attached(y) /\ OneConnect(y) /\ WellFormed(y)
  BY <1>1, <1>2, <1>4 DEF Base, Asked, Asking, Attached, OneConnect, WellFormed
<1>7. Resumes(y, P) /\ Positioned(y) /\ \A j \in Consumers : Settled(y, P, j)
  BY <1>1, <1>2 DEF Base, Resumes, Asking, Positioned, Settled
<1>8. \A j \in Consumers : Agree(y, j)
  BY <1>2, <1>3 DEF Sound, Agree
<1>9. Keeps(x, y)
  BY <1>2, KeepsSame
<1> QED
  BY <1>2, <1>5, <1>6, <1>7, <1>8, <1>9 DEF Sound, Base, y

LEMMA TeardownSound ==
    ASSUME NEW x, NEW P, Sound(x, P, {}), NEW i \in Consumers
    PROVE  Sound(Teardown(x, i), P, {}) /\ Keeps(x, Teardown(x, i))
<1> DEFINE y == Teardown(x, i)
<1>1. CASE ~Current(x, i)
  BY <1>1, KeepsSelf DEF Teardown
<1>2. CASE Current(x, i)
  <2>1. Base(x, P, {}) /\ \A j \in Consumers : Agree(x, j)
    BY DEF Sound
  <2>2. Base(y, P, {}) /\ Touches(x, y, i) /\ ~Current(y, i)
    BY <1>2, <2>1, TeardownIs
  <2> HIDE DEF y
  <2>3. Agree(y, i)
    BY <2>2, GoneIs DEF Agree
  <2>4. \A j \in Consumers \ {i} : Agree(y, j)
    BY <2>1, <2>2 DEF Agree, Touches, Spares
  <2> QED
    BY <2>2, <2>3, <2>4 DEF Sound, Touches, Spares, y
<1> QED
  BY <1>1, <1>2

LEMMA SameState ==
    ASSUME NEW x \in StreamState, NEW y \in StreamState,
           y.run = x.run, y.conn = x.conn, y.connecting = x.connecting, y.timer = x.timer,
           y.at = x.at, y.subs = x.subs, y.cons = x.cons, y.pending = x.pending,
           y.fetches = x.fetches, y.up = x.up
    PROVE  y = x
<1>1. \A z \in StreamState :
        z = [run |-> z.run, conn |-> z.conn, connecting |-> z.connecting, timer |-> z.timer,
             at |-> z.at, subs |-> z.subs, cons |-> z.cons, pending |-> z.pending,
             fetches |-> z.fetches, up |-> z.up]
  BY DEF StreamState
<1> QED
  BY <1>1

LEMMA RemoveInv ==
    ASSUME StreamInv, NEW c \in Consumers, Remove(c)
    PROVE  StreamInv'
<1>1. PICK P \in Positions : Sound(k, P, {}) /\ ServerFits(P)
  BY DEF StreamInv
<1> DEFINE i == k.cons[c].sub
           x == [k EXCEPT !.cons[c].st = "waiting", !.subs[i].consumers = @ \ {c}]
           con == [k.cons[c] EXCEPT !.st = "waiting"]
           cs == [k.cons EXCEPT ![c] = con]
           C == k.subs[i].consumers \ {c}
           y == Rostered(k, i, C, cs)
<1>2. /\ k.cons[c].st = "closing" /\ Counts'
      /\ Step(Teardown(x, i)) \/ Step(x)
  BY CountsIs DEF Remove, StreamInv, Step
<1>3. /\ Base(k, P, {}) /\ k \in StreamState /\ k.cons \in [Consumers -> Queue] /\ Linked(k)
      /\ k.subs \in [Consumers -> SubRecord]
  BY <1>1 DEF Sound, Base, StreamState
<1>4. i \in Consumers
  BY <1>2, <1>3 DEF Linked
<1>5. con \in Queue /\ con.st = "waiting" /\ con.sub = i /\ con.told = k.cons[c].told
  BY <1>3 DEF Queue
<1>6. k.subs[i].consumers \subseteq Consumers /\ k.subs[i] \in SubRecord
  BY <1>3, <1>4 DEF SubRecord
<1>7. /\ x \in StreamState /\ x.cons = cs /\ x.subs = [k.subs EXCEPT ![i].consumers = C]
      /\ x.run = k.run /\ x.conn = k.conn /\ x.connecting = k.connecting /\ x.at = k.at
      /\ x.pending = k.pending /\ x.fetches = k.fetches /\ x.up = k.up /\ x.timer = k.timer
  <2>1. [k.subs EXCEPT ![i].consumers = C] \in [Consumers -> SubRecord]
    BY <1>3, <1>6 DEF SubRecord
  <2>2. cs \in [Consumers -> Queue]
    BY <1>3, <1>5
  <2>3. x = [k EXCEPT !.cons = cs, !.subs = [k.subs EXCEPT ![i].consumers = C]]
    OBVIOUS
  <2> HIDE DEF x, C, cs
  <2> QED
    BY <1>3, <2>1, <2>2, <2>3 DEF StreamState
<1> HIDE DEF x, con
<1>8. cs \in [Consumers -> Queue] /\ cs[c] = con /\ \A d \in Consumers \ {c} : cs[d] = k.cons[d]
  BY <1>3, <1>5
<1> HIDE DEF cs
<1>9. \A d \in Consumers :
        /\ cs[d].sub = k.cons[d].sub
        /\ cs[d].st = "new" <=> k.cons[d].st = "new"
        /\ k.cons[d].st = "new" => cs[d] = k.cons[d]
        /\ cs[d].st = "open" => k.cons[d].st = "open" /\ (k.cons[d].sub = i => d \in C)
  BY <1>2, <1>3, <1>5, <1>8 DEF Linked
<1> HIDE DEF i
<1>10. C \in SUBSET k.subs[i].consumers
  OBVIOUS
<1> HIDE DEF C
<1>11. /\ Base(y, P, {}) /\ y.cons = cs /\ y.subs = [k.subs EXCEPT ![i].consumers = C]
       /\ y.run = k.run /\ y.conn = k.conn /\ y.connecting = k.connecting /\ y.at = k.at
       /\ y.pending = k.pending /\ y.fetches = k.fetches /\ y.up = k.up
  BY <1>3, <1>4, <1>8, <1>9, <1>10, RostersBase
<1>12. y.timer = k.timer
  BY <1>3 DEF StreamState, Rostered
<1> HIDE DEF y
<1>13. x = y
  <2>1. y \in StreamState
    BY <1>11 DEF Base
  <2> QED
    BY <1>7, <1>11, <1>12, <2>1, SameState
<1>14. \A j \in Consumers :
         x.subs[j].sub = k.subs[j].sub /\ x.subs[j].state = k.subs[j].state
         /\ x.subs[j].ready = k.subs[j].ready /\ x.subs[j].stale = k.subs[j].stale
         /\ x.subs[j].orders = k.subs[j].orders
  BY <1>3, <1>7 DEF SubRecord
<1>15. Sound(x, P, {}) /\ Keeps(k, x)
  <2>1. \A j \in Consumers : Agree(x, j)
    BY <1>1, <1>5, <1>7, <1>8, <1>14 DEF Sound, Agree, Matches
  <2>2. Base(x, P, {})
    BY <1>11, <1>13
  <2>3. x.conn = k.conn /\ x.at = k.at /\ Elems(k.up) \subseteq Elems(x.up)
        /\ \A j \in Consumers : x.subs[j].sub = k.subs[j].sub
    BY <1>7, <1>14
  <2>4. Keeps(k, x)
    BY <2>3, KeepsSame
  <2> QED
    BY <2>1, <2>2, <2>4 DEF Sound
<1>16. Sound(Teardown(x, i), P, {}) /\ Keeps(x, Teardown(x, i))
  BY <1>4, <1>15, TeardownSound
<1>17. Keeps(k, Teardown(x, i))
  BY <1>15, <1>16, KeepsOn
<1> QED
  BY <1>1, <1>2, <1>15, <1>16, <1>17, StepInv

LEMMA QueueInv ==
    ASSUME StreamInv, NEW c \in Consumers,
           BeginClose(c) \/ CloseEnds(c) \/ SlowDown(c) \/ CatchesBreath(c)
    PROVE  StreamInv'
<1>1. PICK P \in Positions : Sound(k, P, {}) /\ ServerFits(P)
  BY DEF StreamInv
<1>2. Counts'
  BY CountsIs DEF StreamInv, BeginClose, CloseEnds, SlowDown, CatchesBreath, Step
<1>3. k.cons[c] \in Queue /\ Untold \in Knowledge /\ 0..(Many - 1) \subseteq 0..Many
      /\ Many \in 0..Many
  <2>1. k.cons[c] \in Queue
    BY <1>1 DEF Sound, Base, StreamState
  <2> QED
    BY <2>1 DEF Untold, Knowledge, States, Views, Many
<1>4. ASSUME NEW con \in Queue, Step([k EXCEPT !.cons[c] = con]), con.sub = k.cons[c].sub,
             k.cons[c].st # "new", con.st # "new",
             con.st = "open" => k.cons[c].st = "open" /\ con.told = k.cons[c].told
      PROVE  StreamInv'
  <2> DEFINE x == [k EXCEPT !.cons[c] = con]
  <2>1. Sound(x, P, {}) /\ Keeps(k, x) /\ Step(x)
    BY <1>1, <1>4, QueueSound
  <2> HIDE DEF x
  <2> QED
    BY <1>1, <1>2, <2>1, StepInv
<1>5. CASE BeginClose(c)
  <2> DEFINE con == [k.cons[c] EXCEPT !.st = "closing", !.told = Untold, !.room = Many]
  <2>1. Step([k EXCEPT !.cons[c] = con]) /\ k.cons[c].st # "new"
    BY <1>5 DEF BeginClose
  <2>2. con \in Queue /\ con.sub = k.cons[c].sub /\ con.st = "closing"
    BY <1>3 DEF Queue
  <2> HIDE DEF con
  <2> QED
    BY <1>4, <2>1, <2>2
<1>6. CASE CloseEnds(c)
  <2> DEFINE con == [k.cons[c] EXCEPT !.st = "closed"]
  <2>1. Step([k EXCEPT !.cons[c] = con]) /\ k.cons[c].st # "new"
    BY <1>6 DEF CloseEnds
  <2>2. con \in Queue /\ con.sub = k.cons[c].sub /\ con.st = "closed"
    BY <1>3 DEF Queue
  <2> HIDE DEF con
  <2> QED
    BY <1>4, <2>1, <2>2
<1>7. CASE SlowDown(c) \/ CatchesBreath(c)
  <2>1. PICK n \in 0..Many : Step([k EXCEPT !.cons[c].room = n]) /\ k.cons[c].st = "open"
    BY <1>3, <1>7 DEF SlowDown, CatchesBreath
  <2> DEFINE con == [k.cons[c] EXCEPT !.room = n]
  <2>2. Step([k EXCEPT !.cons[c] = con])
    BY <2>1
  <2>3. con \in Queue /\ con.sub = k.cons[c].sub /\ con.st = "open" /\ con.told = k.cons[c].told
    BY <1>3, <2>1 DEF Queue
  <2> HIDE DEF con
  <2> QED
    BY <1>4, <2>1, <2>2, <2>3
<1> QED
  BY <1>5, <1>6, <1>7

-----------------------------------------------------------------------------
(* A consumer joins.                                                       *)

\* The consumers of i were told what the record s says, but c only T.
Telling(x, i, c, s, T) ==
    \A d \in Consumers :
      x.cons[d].st = "open" /\ x.cons[d].sub = i =>
        /\ x.subs[i].state = s.state /\ x.subs[i].ready = s.ready
        /\ x.subs[i].stale = s.stale /\ x.subs[i].orders = s.orders
        /\ IF d = c THEN x.cons[d].told = T ELSE Matches(x.cons[d].told, s)

LEMMA TellingOn ==
    ASSUME NEW x, NEW P, Base(x, P, {}), NEW i \in Consumers, NEW c \in Consumers,
           x.cons[c].sub = i, NEW s, NEW T, Telling(x, i, c, s, T), NEW ev \in Events
    PROVE  LET y == Offer(x, i, {c}, ev) IN
           /\ Base(y, P, {}) /\ Spares(x, y, i) /\ y.cons[c].sub = i
           /\ Telling(y, i, c, s, Tell(T, ev))
<1> DEFINE y == Offer(x, i, {c}, ev)
           to == {c}
<1>1. to \in SUBSET Consumers /\ \A d \in to : x.cons[d].sub = i
  OBVIOUS
<1>2. \A told \in Knowledge : Tell(told, ev) \in Knowledge
  BY ToldIs
<1>3. y = Offer(x, i, to, ev)
  OBVIOUS
<1>4. \A d : d \in to <=> d = c
  OBVIOUS
<1> HIDE DEF y, to
<1>5. /\ Base(y, P, {}) /\ Touches(x, y, i)
      /\ \A d \in Consumers :
           y.cons[d].st = "open" /\ x.cons[d].sub = i =>
             y.cons[d].told = IF d \in to THEN Tell(x.cons[d].told, ev) ELSE x.cons[d].told
  BY <1>1, <1>2, <1>3, OfferIs, SMTT(30)
<1>6. Spares(x, y, i) /\ y.cons[c].sub = i
  BY <1>5 DEF Touches, Spares
<1>7. Telling(y, i, c, s, Tell(T, ev))
  <2> SUFFICES ASSUME NEW d \in Consumers, y.cons[d].st = "open", y.cons[d].sub = i
               PROVE  /\ y.subs[i].state = s.state /\ y.subs[i].ready = s.ready
                      /\ y.subs[i].stale = s.stale /\ y.subs[i].orders = s.orders
                      /\ IF d = c THEN y.cons[d].told = Tell(T, ev)
                         ELSE Matches(y.cons[d].told, s)
    BY DEF Telling
  <2>1. x.cons[d].st = "open" /\ x.cons[d].sub = i
    BY <1>6 DEF Spares
  <2>2. Current(y, i)
    BY <1>5, GoneIs
  <2>3. Kept(x, y, i)
    BY <1>5, <2>2 DEF Touches
  <2>4. x.subs[i] \in SubRecord
    BY DEF Base, StreamState
  <2>5. /\ y.subs[i].state = x.subs[i].state /\ y.subs[i].ready = x.subs[i].ready
        /\ y.subs[i].stale = x.subs[i].stale /\ y.subs[i].orders = x.subs[i].orders
    BY <2>3, <2>4 DEF Kept, SubRecord
  <2>6. y.cons[d].told = IF d = c THEN Tell(x.cons[d].told, ev) ELSE x.cons[d].told
    BY <1>4, <1>5, <2>1
  <2> QED
    BY <2>1, <2>5, <2>6 DEF Telling
<1> QED
  BY <1>5, <1>6, <1>7 DEF y

LEMMA CatchUpSound ==
    ASSUME NEW x, NEW P, Base(x, P, {}), NEW i \in Consumers, NEW c \in Consumers,
           x.cons[c].sub = i, Telling(x, i, c, x.subs[i], Untold),
           \A j \in Consumers \ {i} : Agree(x, j)
    PROVE  Sound(CatchUp(x, i, c), P, {}) /\ Keeps(x, CatchUp(x, i, c))
<1> DEFINE s  == x.subs[i]
           e1 == Event("connected")
           e2 == [type |-> "snapshot", val |-> s.orders]
           e3 == Event("ready")
           e4 == Event("stale")
           x1 == IF s.state = "connected" THEN Offer(x, i, {c}, e1) ELSE x
           x2 == IF s.orders # None THEN Offer(x1, i, {c}, e2) ELSE x1
           x3 == IF s.ready THEN Offer(x2, i, {c}, e3) ELSE x2
           x4 == IF s.stale THEN Offer(x3, i, {c}, e4) ELSE x3
           T1 == IF s.state = "connected" THEN Tell(Untold, e1) ELSE Untold
           T2 == IF s.orders # None THEN Tell(T1, e2) ELSE T1
           T3 == IF s.ready THEN Tell(T2, e3) ELSE T2
           T4 == IF s.stale THEN Tell(T3, e4) ELSE T3
           Been(y, T) == /\ Base(y, P, {}) /\ Spares(x, y, i) /\ y.cons[c].sub = i
                         /\ Telling(y, i, c, s, T)
<1>1. CatchUp(x, i, c) = x4
  BY DEF CatchUp
<1>2. s \in SubRecord
  BY DEF Base, StreamState
<1>3. /\ e1 \in Events /\ e1.type = "connected" /\ e3 \in Events /\ e3.type = "ready"
      /\ e4 \in Events /\ e4.type = "stale"
  BY EventIs
<1>4. e2 \in Events /\ e2.type = "snapshot" /\ e2.val = s.orders
  BY <1>2 DEF Events, SubRecord
<1> HIDE DEF e1, e2, e3, e4
<1>5. ASSUME NEW y, NEW T, Been(y, T), NEW ev \in Events, NEW b \in BOOLEAN
      PROVE  Been(IF b THEN Offer(y, i, {c}, ev) ELSE y, IF b THEN Tell(T, ev) ELSE T)
  <2> DEFINE z == Offer(y, i, {c}, ev)
  <2> HIDE DEF s
  <2>1. Base(z, P, {}) /\ Spares(y, z, i) /\ z.cons[c].sub = i /\ Telling(z, i, c, s, Tell(T, ev))
    BY <1>5, TellingOn
  <2> HIDE DEF z
  <2>2. Spares(x, z, i)
    BY <1>5, <2>1, SparesOn
  <2>3. Been(z, Tell(T, ev))
    BY <2>1, <2>2
  <2> QED
    BY <1>5, <2>3 DEF z
<1>6. Been(x, Untold)
  BY KeepsSelf DEF Spares
<1> HIDE DEF Been
<1>7. Been(x1, T1)
  <2> DEFINE b == s.state = "connected"
  <2>1. b \in BOOLEAN
    OBVIOUS
  <2> HIDE DEF b
  <2>2. Been(IF b THEN Offer(x, i, {c}, e1) ELSE x, IF b THEN Tell(Untold, e1) ELSE Untold)
    BY <1>3, <1>5, <1>6, <2>1
  <2> QED
    BY <2>2 DEF b
<1> HIDE DEF x1
<1>8. Been(x2, T2)
  <2> DEFINE b == s.orders # None
  <2>1. b \in BOOLEAN
    OBVIOUS
  <2> HIDE DEF b, T1
  <2>2. Been(IF b THEN Offer(x1, i, {c}, e2) ELSE x1, IF b THEN Tell(T1, e2) ELSE T1)
    BY <1>4, <1>5, <1>7, <2>1
  <2> QED
    BY <2>2 DEF b
<1> HIDE DEF x2
<1>9. Been(x3, T3)
  <2> HIDE DEF T2
  <2>1. s.ready \in BOOLEAN
    BY <1>2 DEF SubRecord
  <2> QED
    BY <1>3, <1>5, <1>8, <2>1
<1> HIDE DEF x3
<1>10. Been(x4, T4)
  <2> HIDE DEF T3
  <2>1. s.stale \in BOOLEAN
    BY <1>2 DEF SubRecord
  <2> QED
    BY <1>3, <1>5, <1>9, <2>1
<1> HIDE DEF x4
<1>11. Matches(T4, s)
  <2>1. /\ Untold \in Knowledge /\ Untold.state = "pending" /\ Untold.ready = FALSE
        /\ Untold.stale = FALSE /\ Untold.view = None
    BY DEF Untold, Knowledge, States, Views
  <2> HIDE DEF s
  <2>2. /\ T1 \in Knowledge /\ T1.ready = FALSE /\ T1.stale = FALSE /\ T1.view = None
        /\ T1.state = "connected" <=> s.state = "connected"
    <3>1. Tell(Untold, e1) = [Untold EXCEPT !.state = "connected"]
          /\ Tell(Untold, e1) \in Knowledge
      BY <1>3, <2>1, TellIs, ToldIs
    <3> QED
      BY <2>1, <3>1 DEF Knowledge
  <2> HIDE DEF T1
  <2>3. /\ T2 \in Knowledge /\ T2.ready = FALSE /\ T2.stale = FALSE /\ T2.view = s.orders
        /\ T2.state = "connected" <=> s.state = "connected"
    <3>1. Tell(T1, e2) = [T1 EXCEPT !.view = s.orders]
      <4>1. T1 \in Knowledge
        BY <2>2
      <4>2. Tell(T1, e2) = [T1 EXCEPT !.view = e2.val]
        BY <1>4, <4>1, TellIs
      <4> QED
        BY <1>4, <4>2
    <3>2. Tell(T1, e2) \in Knowledge
      BY <1>4, <2>2, ToldIs
    <3> QED
      BY <2>2, <3>1, <3>2 DEF Knowledge
  <2> HIDE DEF T2
  <2>4. /\ T3 \in Knowledge /\ T3.ready = s.ready /\ T3.stale = FALSE /\ T3.view = s.orders
        /\ T3.state = "connected" <=> s.state = "connected"
    <3>1. Tell(T2, e3) = [T2 EXCEPT !.ready = TRUE] /\ Tell(T2, e3) \in Knowledge
      BY <1>3, <2>3, TellIs, ToldIs
    <3>2. s.ready \in BOOLEAN
      BY <1>2 DEF SubRecord
    <3> QED
      BY <2>3, <3>1, <3>2 DEF Knowledge
  <2> HIDE DEF T3
  <2>5. /\ T4.ready = s.ready /\ T4.stale = s.stale /\ T4.view = s.orders
        /\ T4.state = "connected" <=> s.state = "connected"
    <3>1. Tell(T3, e4) = [T3 EXCEPT !.stale = TRUE]
      BY <1>3, <2>4, TellIs
    <3>2. s.stale \in BOOLEAN
      BY <1>2 DEF SubRecord
    <3> QED
      BY <2>4, <3>1, <3>2 DEF Knowledge
  <2> QED
    BY <2>5 DEF Matches
<1> HIDE DEF T4
<1>12. Agree(x4, i)
  BY <1>10, <1>11 DEF Been, Telling, Agree, Matches
<1>13. \A j \in Consumers \ {i} : Agree(x4, j)
  BY <1>10 DEF Been, Spares, Agree
<1> QED
  BY <1>1, <1>10, <1>12, <1>13 DEF Been, Spares, Sound

\* The state in which c has joined the record of its account, or begun one.
LEMMA JoinedIs ==
    ASSUME NEW x, NEW P, Sound(x, P, {}), NEW c \in Consumers, x.cons[c].st = "new",
           NEW y \in StreamState, NEW run \in Consumers, NEW i \in Consumers,
           i = IF x.at[AccountOf[c]] = "none" THEN c ELSE x.at[AccountOf[c]],
           y.run = run, run = IF x.run = "none" THEN c ELSE x.run,
           y.conn = x.conn, y.connecting = x.connecting, y.pending = x.pending,
           y.fetches = x.fetches, y.up = x.up,
           y.at[AccountOf[c]] = i,
           \A b \in Accounts \ {AccountOf[c]} : y.at[b] = x.at[b],
           y.subs[i].consumers = x.subs[i].consumers \cup {c},
           \A j \in Consumers \ {i} : y.subs[j] = x.subs[j],
           \A j \in Consumers :
             /\ y.subs[j].sub = x.subs[j].sub /\ y.subs[j].seq = x.subs[j].seq
             /\ y.subs[j].cursor = x.subs[j].cursor /\ y.subs[j].orders = x.subs[j].orders
             /\ y.subs[j].state = x.subs[j].state /\ y.subs[j].stale = x.subs[j].stale
             /\ y.subs[j].ready = x.subs[j].ready /\ y.subs[j].retryTimer = x.subs[j].retryTimer
             /\ y.subs[j].ackTimer = x.subs[j].ackTimer,
           y.cons[c].st = "open", y.cons[c].sub = i, y.cons[c].told = x.cons[c].told,
           \A d \in Consumers \ {c} : y.cons[d] = x.cons[d]
    PROVE  /\ Base(y, P, {}) /\ Keeps(x, y) /\ Current(y, i) /\ y.cons[c].sub = i
           /\ Telling(y, i, c, y.subs[i], Untold)
           /\ \A j \in Consumers \ {i} : Agree(y, j)
           /\ IdsInUse(y) \subseteq IdsInUse(x)
           /\ i = c => /\ Agree(y, c) /\ y.subs[c].sub = 0 /\ ~y.subs[c].retryTimer
                       /\ \A q \in Asking(y) : q.s # c
<1> DEFINE a == AccountOf[c]
<1>1. /\ Base(x, P, {}) /\ x \in StreamState /\ Linked(x) /\ Asked(x) /\ Attached(x)
      /\ x.at \in [Accounts -> SomeConsumer] /\ x.subs \in [Consumers -> SubRecord]
      /\ x.cons \in [Consumers -> Queue]
  BY DEF Sound, Base, StreamState
<1>2. a \in Accounts /\ AccountOf[i] = a
  BY <1>1, Names DEF Linked
<1>3. /\ x.cons[c] = NewCons /\ x.subs[c] = NewSub /\ x.at[a] # c
  BY <1>1 DEF Linked
<1>4. /\ NewCons.sub = "none" /\ NewCons.told = Untold /\ NewSub.sub = 0
      /\ NewSub.retryTimer = FALSE /\ NewSub.ready = FALSE /\ NewSub.orders = None
      /\ NewSub.state = "pending" /\ NewSub.stale = FALSE
  BY DEF NewCons, NewSub
<1>5. /\ y.at[a] = i /\ \A b \in Accounts \ {a} : y.at[b] = x.at[b]
      /\ x.at[a] # "none" => x.at[a] = i
  BY <1>1, <1>2
<1>6. \A j \in Consumers : y.subs[j].sub = x.subs[j].sub
  OBVIOUS
<1>7. y.cons[c].told = Untold
  BY <1>3, <1>4
<1>8. Current(y, i) /\ \A j \in Consumers : Current(x, j) => Current(y, j)
  <2>1. \A j \in Consumers : AccountOf[j] \in Accounts
    BY Names
  <2>2. y.at[a] = i /\ \A b \in Accounts \ {a} : y.at[b] = x.at[b]
    BY <1>5
  <2>3. ASSUME NEW j \in Consumers, x.at[AccountOf[j]] = j
        PROVE  y.at[AccountOf[j]] = j
    <3>1. AccountOf[j] = a => j = i
      BY <1>5, <2>3, Names
    <3> QED
      BY <2>1, <2>2, <2>3, <3>1
  <2> QED
    BY <1>2, <2>2, <2>3 DEF Current
<1>9. \A j \in Consumers : Current(y, j) => Current(x, j) \/ j = c
  <2>1. \A j \in Consumers : AccountOf[j] \in Accounts
    BY Names
  <2> QED
    BY <1>2, <1>5, <2>1 DEF Current
<1>10. \A j \in Consumers : \A d \in x.subs[j].consumers : d # c
  BY <1>1, <1>3, <1>4, Names DEF Linked
<1>11. Linked(y)
  <2>1. \A b \in Accounts : y.at[b] # "none" => AccountOf[y.at[b]] = b
    <3>1. \A b \in Accounts : x.at[b] # "none" => AccountOf[x.at[b]] = b
      BY <1>1 DEF Linked
    <3>2. AccountOf[i] = a /\ y.at[a] = i
      BY <1>2, <1>5
    <3> TAKE b \in Accounts
    <3>3. CASE b = a
      BY <3>2, <3>3
    <3>4. CASE b # a
      <4>1. y.at[b] = x.at[b]
        BY <1>5, <3>4
      <4> QED
        BY <3>1, <4>1
    <3> QED
      BY <3>3, <3>4
  <2>2. \A j \in Consumers : \A d \in y.subs[j].consumers : y.cons[d].sub = j
    <3>1. \A j \in Consumers : x.subs[j].consumers \subseteq Consumers
      BY <1>1 DEF SubRecord
    <3> QED
      BY <1>1, <1>6, <1>7, <1>10, <3>1 DEF Linked
  <2>3. ASSUME NEW d \in Consumers
        PROVE  /\ y.cons[d].st = "new" =>
                    y.cons[d] = NewCons /\ y.subs[d] = NewSub /\ y.at[AccountOf[d]] # d
               /\ y.cons[d].st # "new" => y.cons[d].sub \in Consumers
               /\ y.cons[d].st = "open" =>
                    Current(y, y.cons[d].sub) /\ d \in y.subs[y.cons[d].sub].consumers
    <3>1. CASE d = c
      BY <1>6, <1>7, <1>8, <3>1
    <3>2. CASE d # c
      <4>1. y.cons[d] = x.cons[d]
        BY <1>7, <3>2
      <4>2. x.cons[d].st = "new" => d # i /\ y.at[AccountOf[d]] # d
        <5>1. x.cons[d].st = "new" => x.at[AccountOf[d]] # d /\ AccountOf[d] \in Accounts
          BY <1>1, Names DEF Linked
        <5>2. x.cons[d].st = "new" => d # i
          BY <1>2, <3>2, <5>1
        <5>3. y.at[AccountOf[d]] = d => AccountOf[d] # a \/ d = i
          BY <1>5
        <5> QED
          BY <1>5, <5>1, <5>2, <5>3
      <4>3. x.cons[d].st = "open" =>
              /\ x.cons[d].sub \in Consumers /\ Current(x, x.cons[d].sub)
              /\ d \in x.subs[x.cons[d].sub].consumers
        BY <1>1 DEF Linked
      <4>4. x.cons[d].st = "new" => y.cons[d] = NewCons /\ y.subs[d] = NewSub
        <5>1. x.cons[d].st = "new" => x.cons[d] = NewCons /\ x.subs[d] = NewSub
          BY <1>1 DEF Linked
        <5>2. d # i => y.subs[d] = x.subs[d]
          OBVIOUS
        <5> QED
          BY <4>1, <4>2, <5>1, <5>2
      <4>5. x.cons[d].st # "new" => x.cons[d].sub \in Consumers
        BY <1>1 DEF Linked
      <4>6. \A j \in Consumers : x.subs[j].consumers \subseteq y.subs[j].consumers
        OBVIOUS
      <4> QED
        BY <1>8, <4>1, <4>2, <4>3, <4>4, <4>5, <4>6
    <3> QED
      BY <3>1, <3>2
  <2>4. y.cons[run].st # "new"
    BY <1>1, <1>7 DEF Linked
  <2>5. \A f \in y.fetches : y.cons[f.run].st # "new"
    <3>1. \A f \in x.fetches : f.run \in Consumers /\ f.run # c
      BY <1>1 DEF Linked, StreamState, Fetching
    <3> QED
      BY <1>1, <1>7, <3>1 DEF Linked
  <2> QED
    BY <2>1, <2>2, <2>3, <2>4, <2>5 DEF Linked
<1>12. \A q \in x.pending : q.s \in Consumers
  BY <1>1 DEF StreamState, Requests
<1>13. Asked(y)
  <2>1. Asking(y) = Asking(x) /\ Asking(x) \subseteq x.pending
    BY DEF Asking
  <2>2. \A q \in y.pending : Current(y, q.s) /\ y.conn # 0
    BY <1>1, <1>8, <1>12 DEF Asked
  <2>3. \A q \in Asking(y) : y.subs[q.s].sub = 0 /\ ~y.subs[q.s].retryTimer
    BY <1>1, <1>6, <1>12, <2>1 DEF Asked
  <2> QED
    BY <1>1, <2>1, <2>2, <2>3 DEF Asked
<1>14. Attached(y)
  BY <1>1, <1>3, <1>4, <1>6, <1>8, <1>9 DEF Attached
<1>15. OneConnect(y) /\ WellFormed(y)
  <2>1. OneConnect(x) /\ WellFormed(x)
    BY <1>1 DEF Base
  <2>2. \A f \in x.fetches : f.run \in Consumers /\ f.run # c
    BY <1>1 DEF Linked, StreamState, Fetching
  <2>3. \A f \in x.fetches : f.run = run => f.run = x.run
    BY <2>2
  <2> QED
    BY <2>1, <2>3 DEF OneConnect, WellFormed
<1>16. Resumes(y, P)
  <2>1. Asking(y) = Asking(x) /\ Asking(x) \subseteq x.pending
    BY DEF Asking
  <2>2. \A q \in Asking(x) : y.subs[q.s].cursor = x.subs[q.s].cursor
    BY <1>6, <1>12, <2>1
  <2> QED
    BY <1>1, <2>1, <2>2 DEF Base, Resumes
<1>17. Positioned(y) /\ \A j \in Consumers : Settled(y, P, j)
  <2>1. Positioned(x) /\ \A j \in Consumers : Settled(x, P, j)
    BY <1>1 DEF Base
  <2>2. \A j \in Consumers : y.subs[j].seq = x.subs[j].seq
    OBVIOUS
  <2>3. Positioned(y)
    BY <1>6, <2>1, <2>2 DEF Positioned
  <2>4. \A j \in Consumers : Settled(y, P, j)
    BY <1>6, <2>1, <2>2 DEF Settled
  <2> QED
    BY <2>3, <2>4
<1>18. Base(y, P, {})
  BY <1>11, <1>13, <1>14, <1>15, <1>16, <1>17 DEF Base
<1>19. \A j \in Consumers \ {i} : Agree(y, j)
  BY <1>6, <1>7 DEF Sound, Agree
<1>20. Telling(y, i, c, y.subs[i], Untold)
  <2> SUFFICES ASSUME NEW d \in Consumers, y.cons[d].st = "open", y.cons[d].sub = i, d # c
               PROVE  Matches(y.cons[d].told, y.subs[i])
    BY <1>7 DEF Telling
  <2>1. y.cons[d] = x.cons[d]
    OBVIOUS
  <2>2. Matches(x.cons[d].told, x.subs[i])
    BY <2>1 DEF Sound, Agree
  <2> QED
    BY <2>1, <2>2 DEF Matches
<1>21. i = c => Agree(y, c)
  <2>1. i = c => Matches(Untold, y.subs[c])
    BY <1>3, <1>4, <1>6 DEF Matches, Untold
  <2> QED
    BY <1>7, <1>20, <2>1 DEF Telling, Agree
<1>22. Keeps(x, y)
  <2> SUFFICES ASSUME NEW s \in Ids \ {0}, Owned(x, s) PROVE Owned(y, s)
    BY DEF Keeps
  <2>1. BySub(x, s) \subseteq BySub(y, s)
    BY <1>6, <1>8 DEF BySub, Current
  <2> QED
    BY <2>1 DEF Owned
<1>23. IdsInUse(y) \subseteq IdsInUse(x)
  BY <1>6 DEF IdsInUse
<1>24. i = c => /\ y.subs[c].sub = 0 /\ ~y.subs[c].retryTimer
                /\ \A q \in Asking(y) : q.s # c
  <2>1. \A q \in x.pending : q.s # c
    BY <1>1, <1>3 DEF Asked, Current
  <2> QED
    BY <1>3, <1>4, <1>6, <2>1 DEF Asking
<1> QED
  BY <1>7, <1>8, <1>18, <1>19, <1>20, <1>21, <1>22, <1>23, <1>24

LEMMA SubscribeInv ==
    ASSUME StreamInv, NEW c \in Consumers, Subscribe(c)
    PROVE  StreamInv'
<1>1. PICK P \in Positions : Sound(k, P, {}) /\ ServerFits(P)
  BY DEF StreamInv
<1> DEFINE a      == AccountOf[c]
           begun  == IF k.run = "none" THEN [k EXCEPT !.run = c] ELSE k
           i      == IF k.at[a] = "none" THEN c ELSE k.at[a]
           y      == [begun EXCEPT !.at[a] = i, !.subs[i].consumers = @ \cup {c},
                            !.cons[c] = [@ EXCEPT !.st = "open", !.run = begun.run, !.sub = i]]
           run    == IF k.run = "none" THEN c ELSE k.run
           con    == [k.cons[c] EXCEPT !.st = "open", !.run = run, !.sub = i]
           rec    == [k.subs[i] EXCEPT !.consumers = k.subs[i].consumers \cup {c}]
<1>2. /\ k.cons[c].st = "new" /\ Room /\ Counts'
      /\ Step(IF k.at[a] # "none" THEN CatchUp(y, i, c)
              ELSE IF k.conn # 0 THEN SubscribeServer(y, i)
              ELSE IF ~k.connecting /\ ~k.timer THEN Open(y)
              ELSE y)
  BY CountsIs DEF Subscribe, StreamInv, Step
<1>3. /\ k \in StreamState /\ k.at \in [Accounts -> SomeConsumer] /\ Linked(k)
      /\ k.subs \in [Consumers -> SubRecord] /\ k.cons \in [Consumers -> Queue]
      /\ k.run \in SomeConsumer /\ a \in Accounts
  BY <1>1, Names DEF Sound, Base, StreamState
<1>4. i \in Consumers /\ run \in Consumers
  BY <1>3 DEF SomeConsumer
<1>5. /\ begun \in StreamState /\ begun.run = run /\ begun.conn = k.conn
      /\ begun.connecting = k.connecting /\ begun.timer = k.timer /\ begun.at = k.at
      /\ begun.subs = k.subs /\ begun.cons = k.cons /\ begun.pending = k.pending
      /\ begun.fetches = k.fetches /\ begun.up = k.up
  BY <1>3 DEF StreamState, SomeConsumer
<1>6. con \in Queue /\ con.st = "open" /\ con.sub = i /\ con.told = k.cons[c].told
  <2>1. k.cons[c] \in Queue
    BY <1>3
  <2> HIDE DEF run, i
  <2> QED
    BY <1>4, <2>1 DEF Queue, SomeConsumer
<1>7. /\ rec \in SubRecord /\ rec.consumers = k.subs[i].consumers \cup {c}
      /\ rec.sub = k.subs[i].sub /\ rec.seq = k.subs[i].seq
      /\ rec.cursor = k.subs[i].cursor /\ rec.orders = k.subs[i].orders
      /\ rec.state = k.subs[i].state /\ rec.stale = k.subs[i].stale
      /\ rec.ready = k.subs[i].ready /\ rec.retryTimer = k.subs[i].retryTimer
      /\ rec.ackTimer = k.subs[i].ackTimer
  <2>1. k.subs[i] \in SubRecord
    BY <1>3, <1>4
  <2> HIDE DEF i
  <2> QED
    BY <2>1 DEF SubRecord
<1>8. y = [begun EXCEPT !.at = [k.at EXCEPT ![a] = i], !.subs = [k.subs EXCEPT ![i] = rec],
                        !.cons = [k.cons EXCEPT ![c] = con]]
  <2> HIDE DEF begun, run, i, a
  <2> QED
    BY <1>5
<1> HIDE DEF y, begun, i, run, con, rec
<1>9. /\ y \in StreamState /\ y.run = run /\ y.conn = k.conn /\ y.connecting = k.connecting
      /\ y.pending = k.pending /\ y.fetches = k.fetches /\ y.up = k.up
      /\ y.at = [k.at EXCEPT ![a] = i] /\ y.subs = [k.subs EXCEPT ![i] = rec]
      /\ y.cons = [k.cons EXCEPT ![c] = con]
  <2> DEFINE at2 == [k.at EXCEPT ![a] = i]
             subs2 == [k.subs EXCEPT ![i] = rec]
             cons2 == [k.cons EXCEPT ![c] = con]
  <2>1. /\ at2 \in [Accounts -> SomeConsumer] /\ subs2 \in [Consumers -> SubRecord]
        /\ cons2 \in [Consumers -> Queue]
    BY <1>3, <1>4, <1>6, <1>7 DEF SomeConsumer
  <2>2. y = [begun EXCEPT !.at = at2, !.subs = subs2, !.cons = cons2]
    BY <1>8
  <2> HIDE DEF at2, subs2, cons2
  <2>3. /\ y \in StreamState /\ y.run = run /\ y.conn = k.conn /\ y.connecting = k.connecting
        /\ y.pending = k.pending /\ y.fetches = k.fetches /\ y.up = k.up
        /\ y.at = at2 /\ y.subs = subs2 /\ y.cons = cons2
    BY <1>5, <2>1, <2>2 DEF StreamState
  <2> QED
    BY <2>3 DEF at2, subs2, cons2
<1>10. y.at[a] = i /\ \A b \in Accounts \ {a} : y.at[b] = k.at[b]
  BY <1>3, <1>9
<1>11. y.subs[i] = rec /\ \A j \in Consumers \ {i} : y.subs[j] = k.subs[j]
  BY <1>3, <1>4, <1>9
<1>12. y.cons[c] = con /\ \A d \in Consumers \ {c} : y.cons[d] = k.cons[d]
  BY <1>3, <1>9
<1>13. \A j \in Consumers :
         /\ y.subs[j].sub = k.subs[j].sub /\ y.subs[j].seq = k.subs[j].seq
         /\ y.subs[j].cursor = k.subs[j].cursor /\ y.subs[j].orders = k.subs[j].orders
         /\ y.subs[j].state = k.subs[j].state /\ y.subs[j].stale = k.subs[j].stale
         /\ y.subs[j].ready = k.subs[j].ready /\ y.subs[j].retryTimer = k.subs[j].retryTimer
         /\ y.subs[j].ackTimer = k.subs[j].ackTimer
  BY <1>7, <1>11
<1>14. i = (IF k.at[AccountOf[c]] = "none" THEN c ELSE k.at[AccountOf[c]])
       /\ run = (IF k.run = "none" THEN c ELSE k.run)
  BY DEF i, run
<1>15. /\ Base(y, P, {}) /\ Keeps(k, y) /\ Current(y, i) /\ y.cons[c].sub = i
       /\ Telling(y, i, c, y.subs[i], Untold)
       /\ \A j \in Consumers \ {i} : Agree(y, j)
       /\ IdsInUse(y) \subseteq IdsInUse(k)
       /\ i = c => /\ Agree(y, c) /\ y.subs[c].sub = 0 /\ ~y.subs[c].retryTimer
                   /\ \A q \in Asking(y) : q.s # c
  <2>1. /\ y.subs[i].consumers = k.subs[i].consumers \cup {c}
        /\ y.cons[c].st = "open" /\ y.cons[c].sub = i /\ y.cons[c].told = k.cons[c].told
    BY <1>6, <1>7, <1>11, <1>12
  <2>2. /\ y \in StreamState /\ y.run = run /\ y.conn = k.conn /\ y.connecting = k.connecting
        /\ y.pending = k.pending /\ y.fetches = k.fetches /\ y.up = k.up
    BY <1>9
  <2>3. y.at[AccountOf[c]] = i /\ \A b \in Accounts \ {AccountOf[c]} : y.at[b] = k.at[b]
    BY <1>10
  <2>4. k.cons[c].st = "new"
    BY <1>2
  <2> HIDE DEF a
  <2> QED
    BY <1>1, <1>4, <1>11, <1>12, <1>13, <1>14, <2>1, <2>2, <2>3, <2>4, JoinedIs
<1>16. CASE k.at[a] # "none"
  <2> DEFINE z == CatchUp(y, i, c)
  <2>1. Step(z)
    BY <1>2, <1>16
  <2>2. Sound(z, P, {}) /\ Keeps(y, z)
    BY <1>4, <1>15, CatchUpSound
  <2> HIDE DEF z
  <2>3. Keeps(k, z)
    BY <1>15, <2>2, KeepsOn
  <2> QED
    BY <1>1, <1>2, <2>1, <2>2, <2>3, StepInv
<1>17. CASE k.at[a] = "none"
  <2>1. i = c
    BY <1>14, <1>17
  <2>2. Sound(y, P, {})
    BY <1>15, <2>1 DEF Sound
  <2>3. CASE k.conn # 0
    <3> DEFINE z == SubscribeServer(y, c)
    <3>1. Step(z)
      BY <1>2, <1>17, <2>1, <2>3
    <3>2. Unused(MaxIds, IdsInUse(y)) # {}
      BY <1>2, <1>15, RoomFor
    <3>3. Base(z, P, {}) /\ Keeps(y, z) /\ z.subs = y.subs /\ z.cons = y.cons
      <4>1. y.conn # 0
        BY <1>9, <2>3
      <4>2. /\ Base(y, P, {}) /\ Current(y, c) /\ y.subs[c].sub = 0 /\ ~y.subs[c].retryTimer
            /\ \A q \in Asking(y) : q.s # c
        BY <1>15, <2>1
      <4> QED
        BY <3>2, <4>1, <4>2, SubscribeServerIs
    <3> HIDE DEF z
    <3>4. Sound(z, P, {})
      BY <2>2, <3>3 DEF Sound, Agree
    <3>5. Keeps(k, z)
      BY <1>15, <3>3, KeepsOn
    <3> QED
      BY <1>1, <1>2, <3>1, <3>4, <3>5, StepInv
  <2>4. CASE k.conn = 0
    <3>1. Step(Open(y)) \/ Step(y)
      BY <1>2, <1>17, <2>4
    <3>2. Sound(Open(y), P, {})
      BY <1>9, <2>2, <2>4, OpenSound
    <3> QED
      BY <1>1, <1>2, <2>2, <2>4, <3>1, <3>2, StepInv
  <2> QED
    BY <2>3, <2>4
<1> QED
  BY <1>16, <1>17

-----------------------------------------------------------------------------
(* A frame arrives.                                                        *)

\* What is used stays used, but for the server subscription gone.
KeepsBut(x, y, gone) ==
    \/ y.conn = 0
    \/ y.conn = x.conn /\ \A s \in Ids \ {0, gone} : Owned(x, s) => Owned(y, s)

LEMMA FrameInv ==
    ASSUME NEW P \in Positions, ServerFits(P), srv.down # <<>>, k.conn # 0, Counts',
           NEW x, Sound(x, P, {}), k' = x,
           srv' = IF x.conn = k.conn THEN [srv EXCEPT !.down = Tail(@)] ELSE NoServer,
           NEW gone, \A d \in srv.subs : d.sub # gone, KeepsBut(k, x, gone),
           Head(srv.down).type = "subscribed" =>
             x.conn = 0 \/ Owned(x, Head(srv.down).sub)
    PROVE  StreamInv'
<1>1. CASE x.conn = 0
  <2>1. srv' = NoServer
    BY <1>1
  <2> QED
    BY <2>1, EndInv
<1>2. CASE x.conn # 0
  <2>1. x.conn = k.conn /\ srv' = [srv EXCEPT !.down = Tail(srv.down)]
    BY <1>2 DEF KeepsBut
  <2>2. srv \in [subs : SUBSET ServerSubs, down : Seq(Frames)] /\ srv.down \in Seq(Frames)
        /\ Len(srv.down) <= MaxWire + 1
    BY DEF ServerFits
  <2>3. /\ Tail(srv.down) \in Seq(Frames) /\ Head(srv.down) \in Elems(srv.down)
        /\ Elems(srv.down) = Elems(Tail(srv.down)) \cup {Head(srv.down)}
        /\ Len(Tail(srv.down)) = Len(srv.down) - 1 /\ Len(srv.down) \in Nat
    <3>1. Len(Tail(srv.down)) = Len(srv.down) - 1 /\ Len(srv.down) \in Nat
      BY <2>2
    <3> QED
      BY <2>2, <3>1, TailElems
  <2>4. /\ srv' \in [subs : SUBSET ServerSubs, down : Seq(Frames)] /\ srv'.subs = srv.subs
        /\ srv'.down = Tail(srv.down)
    BY <2>1, <2>2, <2>3
  <2>5. Elems(srv'.down) \subseteq Elems(srv.down) /\ Len(srv'.down) <= MaxWire + 1
    <3>1. Elems(Tail(srv.down)) \subseteq Elems(srv.down)
      BY <2>3
    <3>2. Len(Tail(srv.down)) <= MaxWire + 1
      BY <2>2, <2>3, StreamAssumptions
    <3> QED
      BY <2>4, <3>1, <3>2
  <2>6. \A d \in srv.subs : Held(d)'
    <3> TAKE d \in srv.subs
    <3>1. Held(d) /\ d.sub \in Ids \ {0, gone}
      BY <2>2, StreamAssumptions DEF ServerFits, ServerSubs, Ids
    <3>2. CASE Owned(k, d.sub)
      <4>1. Owned(x, d.sub)
        BY <1>2, <3>1, <3>2 DEF KeepsBut
      <4> QED
        BY <4>1 DEF Held, Owned, BySub, Elems
    <3>3. CASE \E f \in Elems(srv.down) : f.type = "subscribed" /\ f.sub = d.sub
      <4>1. PICK f \in Elems(srv.down) : f.type = "subscribed" /\ f.sub = d.sub
        BY <3>3
      <4>2. CASE f = Head(srv.down)
        <5>1. Owned(x, d.sub)
          BY <1>2, <4>1, <4>2
        <5> QED
          BY <5>1 DEF Held, Owned, BySub, Elems
      <4>3. CASE f \in Elems(Tail(srv.down))
        <5>1. f \in Elems(srv'.down)
          BY <2>4, <4>3
        <5> QED
          BY <4>1, <5>1 DEF Held, Elems
      <4> QED
        BY <2>3, <4>1, <4>2, <4>3
    <3> QED
      BY <3>1, <3>2, <3>3 DEF Held
  <2> QED
    BY <1>2, <2>4, <2>5, <2>6, LaterInv
<1> QED
  BY <1>1, <1>2

LEMMA KeepsAll ==
    ASSUME NEW x, NEW y, NEW gone, Keeps(x, y)
    PROVE  KeepsBut(x, y, gone)
BY DEF Keeps, KeepsBut

\* A record changes and its consumers are told.
LEMMA NewsSound ==
    ASSUME NEW x, NEW P, x \in StreamState, NEW i \in Consumers, NEW t \in SubRecord,
           t.sub = x.subs[i].sub, t.ackTimer = x.subs[i].ackTimer,
           Base(Replaced(x, i, t), P, {}), \A j \in Consumers : Agree(x, j), NEW ev \in Events,
           \A told \in Knowledge : Matches(told, x.subs[i]) => Matches(Tell(told, ev), t)
    PROVE  LET y == Deliver(Replaced(x, i, t), i, ev) IN
           Sound(y, P, {}) /\ Spares(x, y, i)
<1> DEFINE v == Replaced(x, i, t)
           y == Deliver(v, i, ev)
<1>1. Spares(x, v, i) /\ v.subs[i] = t /\ v.cons = x.cons
  BY ReplacedSpares
<1>2. Base(v, P, {})
  OBVIOUS
<1> HIDE DEF v
<1>3. \A j \in Consumers \ {i} : Agree(v, j)
  BY <1>1 DEF Agree, Spares
<1>4. \A c \in Consumers : v.cons[c].st = "open" /\ v.cons[c].sub = i =>
        Matches(Tell(v.cons[c].told, ev), v.subs[i])
  <2>1. \A c \in Consumers : x.cons[c].told \in Knowledge
    BY DEF StreamState, Queue
  <2> QED
    BY <1>1, <2>1 DEF Agree
<1>5. Base(y, P, {}) /\ Touches(v, y, i) /\ \A j \in Consumers : Agree(y, j)
  <2>1. \A j \in Consumers \ ({} \cup {i}) : Agree(v, j)
    BY <1>3
  <2>2. /\ Base(y, P, {}) /\ Touches(v, y, i)
        /\ \A j \in Consumers \ {} : Agree(y, j)
    BY <1>2, <1>4, <2>1, DeliverSound
  <2> QED
    BY <2>2
<1> HIDE DEF y
<1>6. Spares(x, y, i)
  BY <1>1, <1>5, SparesOn DEF Touches
<1> QED
  BY <1>5, <1>6 DEF Sound, y, v

\* A record changes and its consumers need not know.
LEMMA QuietSound ==
    ASSUME NEW x, NEW P, x \in StreamState, NEW i \in Consumers, NEW t \in SubRecord,
           t.sub = x.subs[i].sub, t.ackTimer = x.subs[i].ackTimer,
           Base(Replaced(x, i, t), P, {}), \A j \in Consumers : Agree(x, j),
           t.state = x.subs[i].state, t.ready = x.subs[i].ready, t.stale = x.subs[i].stale,
           t.orders = x.subs[i].orders
    PROVE  Sound(Replaced(x, i, t), P, {}) /\ Spares(x, Replaced(x, i, t), i)
<1> DEFINE v == Replaced(x, i, t)
<1>1. Spares(x, v, i) /\ v.subs[i] = t /\ v.cons = x.cons
  BY ReplacedSpares
<1>2. Base(v, P, {})
  OBVIOUS
<1> HIDE DEF v
<1>3. \A j \in Consumers : Agree(v, j)
  BY <1>1 DEF Agree, Spares, Matches
<1> QED
  BY <1>1, <1>2, <1>3 DEF Sound, v

LEMMA AnsweredSound ==
    ASSUME NEW x, NEW P, Sound(x, P, {}), NEW id
    PROVE  LET y == Answered(x, id) IN
           /\ Sound(y, P, {}) /\ Keeps(x, y)
           /\ y.pending = {q \in x.pending : q.id # id} /\ y.subs = x.subs /\ y.cons = x.cons
           /\ y.at = x.at /\ y.conn = x.conn /\ y.up = x.up /\ y.fetches = x.fetches
           /\ y.run = x.run /\ IdsInUse(y) \subseteq IdsInUse(x)
<1> DEFINE ps == {q \in x.pending : q.id # id}
           y == [x EXCEPT !.pending = ps]
<1>1. Answered(x, id) = y
  BY DEF Answered
<1>2. Base(x, P, {}) /\ x \in StreamState /\ ps \in SUBSET x.pending
  BY DEF Sound, Base
<1> HIDE DEF ps
<1>3. Base(y, P, {})
  BY <1>2, AnsweredBase
<1>4. /\ y.pending = ps /\ y.subs = x.subs /\ y.cons = x.cons /\ y.at = x.at /\ y.conn = x.conn
      /\ y.up = x.up /\ y.fetches = x.fetches /\ y.run = x.run
  BY <1>2 DEF StreamState
<1> HIDE DEF y
<1>5. \A j \in Consumers : Agree(y, j)
  BY <1>4 DEF Sound, Agree
<1>6. Keeps(x, y)
  BY <1>4, KeepsSame
<1>7. IdsInUse(y) \subseteq IdsInUse(x)
  BY <1>2, <1>4 DEF IdsInUse
<1> QED
  BY <1>1, <1>3, <1>4, <1>5, <1>6, <1>7 DEF Sound, ps

\* The server has ended i's subscription: it is asked for again.
LEMMA DropSound ==
    ASSUME NEW x, NEW P, Sound(x, P, {}), NEW i \in Consumers, x.subs[i].sub # 0,
           Unused(MaxIds, IdsInUse(x)) # {}
    PROVE  LET z == Replaced(x, i, [x.subs[i] EXCEPT !.sub = 0])
               y == Resubscribe(z, i)
           IN Sound(y, P, {}) /\ KeepsBut(x, y, x.subs[i].sub)
<1> DEFINE t == [x.subs[i] EXCEPT !.sub = 0]
           z == Replaced(x, i, t)
           y == Resubscribe(z, i)
<1>1. /\ Base(x, P, {}) /\ x \in StreamState /\ Asked(x) /\ Attached(x) /\ Linked(x)
      /\ x.subs[i] \in SubRecord /\ x.subs \in [Consumers -> SubRecord]
  BY DEF Sound, Base, StreamState
<1>2. /\ Current(x, i) /\ x.conn # 0 /\ ~x.subs[i].retryTimer
      /\ (\A q \in Asking(x) : q.s # i) /\ x.cons[i].st # "new"
  BY <1>1 DEF Attached, Asked, Linked, Current
<1>3. /\ t \in SubRecord /\ t.sub = 0 /\ t.consumers = x.subs[i].consumers
      /\ t.cursor = x.subs[i].cursor /\ t.orders = x.subs[i].orders
      /\ t.state = x.subs[i].state /\ t.stale = x.subs[i].stale
      /\ t.retryTimer = x.subs[i].retryTimer /\ t.ackTimer = x.subs[i].ackTimer
  BY <1>1, Names DEF SubRecord
<1> HIDE DEF t
<1>4. Base(z, P, {i})
  <2>1. t.cursor # None => t.orders = Position(t.cursor)
    BY <1>1, <1>3 DEF Base, Positioned
  <2>2. t.retryTimer = FALSE
    BY <1>1, <1>2, <1>3 DEF SubRecord
  <2> QED
    BY <1>1, <1>2, <1>3, <2>1, <2>2, ReplacedBase
<1>5. /\ z.subs = [x.subs EXCEPT ![i] = t] /\ z.conn = x.conn /\ z.at = x.at
      /\ z.cons = x.cons /\ z.pending = x.pending /\ z.up = x.up /\ z.fetches = x.fetches
  BY <1>1, <1>3, ReplacedIs
<1>6. z.subs[i] = t /\ \A j \in Consumers \ {i} : z.subs[j] = x.subs[j]
  BY <1>1, <1>5
<1> HIDE DEF z
<1>7. /\ Current(z, i) /\ ~z.subs[i].retryTimer /\ \A q \in Asking(z) : q.s # i
  BY <1>2, <1>3, <1>5, <1>6 DEF Current, Asking
<1>8. \A j \in Consumers \ {i} : Agree(z, j)
  BY <1>5, <1>6 DEF Sound, Agree
<1>9. Nearly(z, i)
  <2>1. Nearly(x, i)
    BY <1>1, AgreesNearly DEF Sound
  <2> QED
    BY <1>3, <1>5, <1>6, <2>1 DEF Nearly
<1>10. Unused(MaxIds, IdsInUse(z)) # {}
  <2>1. \A j \in Consumers : z.subs[j].ackTimer = x.subs[j].ackTimer
    BY <1>3, <1>6
  <2>2. IdsInUse(z) = IdsInUse(x)
    BY <1>5, <2>1 DEF IdsInUse
  <2> QED
    BY <2>2
<1>11. Sound(y, P, {}) /\ Keeps(z, y)
  <2>1. z.conn # 0
    BY <1>2, <1>5
  <2> QED
    BY <1>4, <1>7, <1>8, <1>9, <1>10, <2>1, ResubscribeSound
<1> HIDE DEF y
<1>12. KeepsBut(x, y, x.subs[i].sub)
  <2>1. ASSUME NEW s \in Ids \ {0, x.subs[i].sub}, Owned(x, s) PROVE Owned(z, s)
    <3>1. BySub(x, s) \subseteq BySub(z, s)
      BY <1>5, <1>6 DEF BySub
    <3> QED
      BY <1>5, <2>1, <3>1 DEF Owned
  <2> QED
    BY <1>5, <1>11, <2>1 DEF Keeps, KeepsBut
<1> QED
  BY <1>11, <1>12 DEF y, z, t

LEMMA StraySound ==
    ASSUME NEW x, NEW P, Sound(x, P, {}), x.conn # 0, NEW m \in Frames
    PROVE  LET y == Stray(x, m) IN Sound(y, P, {}) /\ Keeps(x, y) /\ Owned(y, m.sub)
<1> DEFINE u == [op |-> "unsubscribe", id |-> 0, sub |-> m.sub, s |-> "none", cursor |-> None]
           y == Stray(x, m)
<1>1. y = Send(x, u)
  BY DEF Stray
<1>2. u \in Messages /\ u.op = "unsubscribe" /\ u.sub = m.sub
  BY Names DEF Messages, Frames, SomeConsumer, Cursors
<1>3. Base(x, P, {}) /\ x \in StreamState
  BY DEF Sound, Base
<1> HIDE DEF u, y
<1>4. Base(y, P, {})
  BY <1>1, <1>2, <1>3, SendBase
<1>5. /\ Elems(y.up) = Elems(x.up) \cup {u} /\ y.conn = x.conn /\ y.at = x.at
      /\ y.subs = x.subs /\ y.cons = x.cons
  BY <1>1, <1>2, <1>3, SendIs
<1>6. \A j \in Consumers : Agree(y, j)
  BY <1>5 DEF Sound, Agree
<1>7. Keeps(x, y)
  BY <1>5, KeepsSame
<1>8. Owned(y, m.sub)
  BY <1>2, <1>5 DEF Owned
<1> QED
  BY <1>4, <1>6, <1>7, <1>8 DEF Sound, y

LEMMA SubscribedSound ==
    ASSUME NEW P, Sound(k, P, {}), k.conn # 0, NEW m \in Frames, m \in Elems(srv.down),
           m.type = "subscribed", m.sub # 0, \A d \in srv.subs : d.seq \in Nat
    PROVE  LET y == OnSubscribed(k, m) IN
           Sound(y, P, {}) /\ Keeps(k, y) /\ (y.conn = 0 \/ Owned(y, m.sub))
<1> DEFINE R == Of("subscribe", m.id)
           q == CHOOSE q \in R : TRUE
           i == q.s
           s == k.subs[i]
           x == Answered(k, m.id)
           t == [k.subs[i] EXCEPT !.ackTimer = 0, !.confirmed = TRUE, !.sub = m.sub, !.seq = 0,
                                  !.ready = FALSE]
           v == Replaced(x, i, t)
           t1 == [v.subs[i] EXCEPT !.state = "connected"]
           e1 == Event("connected")
           v1 == IF s.state = "connected" THEN v ELSE Deliver(Replaced(v, i, t1), i, e1)
           t2 == [v1.subs[i] EXCEPT !.stale = FALSE]
           e2 == Event("current")
           y == IF ~s.stale THEN v1 ELSE Deliver(Replaced(v1, i, t2), i, e2)
<1>1. CASE R = {}
  <2>1. OnSubscribed(k, m) = Stray(k, m)
    BY <1>1 DEF OnSubscribed
  <2> QED
    BY <2>1, StraySound
<1>2. CASE R # {}
  <2>1. /\ Base(k, P, {}) /\ k \in StreamState /\ Linked(k) /\ Asked(k) /\ Resumes(k, P)
        /\ k.subs \in [Consumers -> SubRecord] /\ k.pending \subseteq Requests
    BY DEF Sound, Base, StreamState
  <2>2. q \in R
    BY <1>2
  <2>3. q \in Asking(k) /\ q.id = m.id
    BY <2>2 DEF Of, Asking
  <2> HIDE DEF q, R
  <2>4. /\ i \in Consumers /\ Current(k, i) /\ s.sub = 0 /\ ~s.retryTimer
        /\ k.cons[i].st # "new" /\ s \in SubRecord
    BY <2>1, <2>3 DEF Asking, Asked, Requests, Linked, Current
  <2>5. /\ Sound(x, P, {}) /\ Keeps(k, x)
        /\ x.pending = {r \in k.pending : r.id # m.id} /\ x.subs = k.subs /\ x.cons = k.cons
        /\ x.at = k.at /\ x.conn = k.conn /\ x.up = k.up /\ x.fetches = k.fetches
    BY AnsweredSound
  <2>6. OnSubscribed(k, m) = y
    <3>1. [Answered(k, m.id) EXCEPT
             !.subs[i] = [@ EXCEPT !.ackTimer = 0, !.confirmed = TRUE, !.sub = m.sub,
                                   !.seq = 0, !.ready = FALSE]] = v
      <4>1. [Answered(k, m.id) EXCEPT
             !.subs[i] = [@ EXCEPT !.ackTimer = 0, !.confirmed = TRUE, !.sub = m.sub,
                                   !.seq = 0, !.ready = FALSE]]
            = [x EXCEPT !.subs[i] = [x.subs[i] EXCEPT !.ackTimer = 0, !.confirmed = TRUE,
                                       !.sub = m.sub, !.seq = 0, !.ready = FALSE]]
        OBVIOUS
      <4> HIDE DEF x
      <4> QED
        BY <2>5, <4>1 DEF Replaced
    <3>2. \A z : [z EXCEPT !.subs[i].state = "connected"]
                   = Replaced(z, i, [z.subs[i] EXCEPT !.state = "connected"])
      BY DEF Replaced
    <3>3. \A z : [z EXCEPT !.subs[i].stale = FALSE]
                   = Replaced(z, i, [z.subs[i] EXCEPT !.stale = FALSE])
      BY DEF Replaced
    <3> DEFINE con == [Answered(k, m.id) EXCEPT
                         !.subs[i] = [@ EXCEPT !.ackTimer = 0, !.confirmed = TRUE, !.sub = m.sub,
                                               !.seq = 0, !.ready = FALSE]]
               con1 == IF s.state = "connected" THEN con
                       ELSE Deliver([con EXCEPT !.subs[i].state = "connected"], i, e1)
    <3>4. OnSubscribed(k, m) =
            IF ~s.stale THEN con1
            ELSE Deliver([con1 EXCEPT !.subs[i].stale = FALSE], i, e2)
      BY <1>2 DEF OnSubscribed, R, q
    <3> HIDE DEF con
    <3>5. con = v
      BY <3>1 DEF con
    <3> HIDE DEF v, s, e1, e2
    <3>6. con1 = v1
      BY <3>2, <3>5
    <3> HIDE DEF con1, v1
    <3> QED
      BY <3>3, <3>4, <3>6
  <2>7. /\ t \in SubRecord /\ t.sub = m.sub /\ t.seq = 0 /\ t.ready = FALSE /\ t.ackTimer = 0
        /\ t.consumers = s.consumers /\ t.retryTimer = s.retryTimer /\ t.cursor = s.cursor
        /\ t.orders = s.orders /\ t.state = s.state /\ t.stale = s.stale
    BY <2>4, Names DEF SubRecord, Frames
  <2> HIDE DEF t, s, x
  <2>8. /\ x \in StreamState /\ Current(x, i) /\ \A r \in Asking(x) : r.s # i
    <3>1. x \in StreamState
      BY <2>5 DEF Sound, Base
    <3>2. \A r \in Asking(x) : r \in Asking(k) /\ r.id # q.id
      BY <2>3, <2>5 DEF Asking
    <3>3. \A r \in Asking(x) : r.s # q.s
      BY <2>1, <2>3, <3>2 DEF Asked
    <3> QED
      BY <2>4, <2>5, <3>1, <3>3 DEF Current
  <2>9. t.cursor = P[t.sub][t.seq] /\ (t.cursor # None => t.orders = Position(t.cursor))
    BY <2>1, <2>3, <2>4, <2>7 DEF Resumes, Base, Positioned, s
  <2>10. Base(v, P, {i}) /\ (t.state = "connected" => Base(v, P, {}))
    <3>1. t.sub # 0 => \A d \in srv.subs : t.sub = d.sub => t.seq <= d.seq
      BY <2>7
    <3>2. t.sub # 0 => Current(x, i) /\ x.conn # 0 /\ ~t.retryTimer
      BY <2>4, <2>5, <2>7, <2>8
    <3>3. (t.retryTimer /\ Current(x, i) => x.conn # 0) /\ (t.ready => t.sub # 0)
          /\ t.consumers = x.subs[i].consumers /\ x.cons[i].st # "new"
      BY <2>4, <2>5, <2>7 DEF s
    <3>4. Base(x, P, {})
      BY <2>5 DEF Sound
    <3>5. Base(v, P, {i})
      BY <2>4, <2>7, <2>8, <2>9, <3>1, <3>2, <3>3, <3>4, ReplacedBase
    <3>6. ASSUME t.state = "connected" PROVE Base(v, P, {})
      <4>1. t.sub # 0 => t.state = "connected" /\ t.cursor = P[t.sub][t.seq]
        BY <2>9, <3>6
      <4> QED
        BY <2>4, <2>7, <2>8, <2>9, <3>1, <3>2, <3>3, <3>4, <4>1, ReplacedBase
    <3> QED
      BY <3>5, <3>6
  <2>11. /\ v.subs = [x.subs EXCEPT ![i] = t] /\ v.conn = x.conn /\ v.at = x.at
         /\ v.cons = x.cons /\ v.up = x.up /\ v.pending = x.pending
    BY <2>4, <2>7, <2>8, ReplacedIs
  <2>12. v.subs[i] = t /\ (\A j \in Consumers \ {i} : v.subs[j] = k.subs[j]) /\ v \in StreamState
    BY <2>1, <2>4, <2>5, <2>10, <2>11 DEF Base
  <2> HIDE DEF v
  <2>13. \A j \in Consumers : Agree(v, j)
    <3>1. s.ready = FALSE
      BY <2>1, <2>4 DEF Base, Settled, SubRecord, s
    <3>2. /\ v.subs[i].state = k.subs[i].state /\ v.subs[i].ready = k.subs[i].ready
          /\ v.subs[i].stale = k.subs[i].stale /\ v.subs[i].orders = k.subs[i].orders
      BY <2>7, <2>12, <3>1 DEF s
    <3> QED
      BY <2>5, <2>11, <2>12, <3>2 DEF Sound, Agree, Matches
  <2>14. Keeps(k, v) /\ Owned(v, m.sub)
    <3>1. i \in BySub(v, m.sub)
      BY <2>4, <2>5, <2>7, <2>11, <2>12 DEF BySub, Current
    <3>2. ASSUME NEW n \in Ids \ {0}, Owned(k, n) PROVE Owned(v, n)
      <4>1. BySub(k, n) \subseteq BySub(v, n)
        BY <2>4, <2>5, <2>11, <2>12 DEF BySub, s
      <4> QED
        BY <2>5, <2>11, <3>2, <4>1 DEF Owned
    <3> QED
      BY <2>5, <2>11, <3>1, <3>2 DEF Keeps, Owned
  <2>15. m.sub \in Ids \ {0}
    BY DEF Frames
  <2>16. Sound(v1, P, {}) /\ Keeps(v, v1) /\ v1.cons[i].st # "new"
    <3>0. v.cons[i].st # "new"
      BY <2>4, <2>5, <2>11
    <3>1. CASE s.state = "connected"
      <4>1. v1 = v
        BY <3>1 DEF v1
      <4> QED
        BY <2>7, <2>10, <2>13, <3>0, <3>1, <4>1, KeepsSelf DEF Sound
    <3>2. CASE s.state # "connected"
      <4>1. v1 = Deliver(Replaced(v, i, t1), i, e1)
        BY <3>2 DEF v1
      <4>2. /\ t1 \in SubRecord /\ t1.state = "connected" /\ t1.sub = t.sub /\ t1.seq = t.seq
            /\ t1.ready = t.ready /\ t1.ackTimer = t.ackTimer /\ t1.consumers = t.consumers
            /\ t1.retryTimer = t.retryTimer /\ t1.cursor = t.cursor /\ t1.orders = t.orders
            /\ t1.stale = t.stale
        BY <2>7, <2>12 DEF SubRecord, States
      <4> HIDE DEF t1, v1
      <4>3. Base(Replaced(v, i, t1), P, {})
        <5>1. /\ t1.consumers = v.subs[i].consumers /\ t1.sub = v.subs[i].sub
              /\ t1.seq = v.subs[i].seq /\ t1.retryTimer = v.subs[i].retryTimer
              /\ t1.cursor = v.subs[i].cursor /\ t1.orders = v.subs[i].orders
          BY <2>12, <4>2
        <5>2. (t1.ready => t1.sub # 0)
              /\ (t1.sub # 0 => t1.state = "connected" /\ t1.cursor = P[t1.sub][t1.seq])
          BY <2>7, <2>9, <4>2
        <5> QED
          BY <2>4, <2>10, <3>0, <4>2, <5>1, <5>2, SameSubBase
      <4>4. e1 \in Events /\ e1.type = "connected"
        BY EventIs
      <4> HIDE DEF e1
      <4>5. \A told \in Knowledge : Matches(told, v.subs[i]) => Matches(Tell(told, e1), t1)
        <5> TAKE told \in Knowledge
        <5>1. Tell(told, e1) = [told EXCEPT !.state = "connected"]
          BY <4>4, TellIs
        <5>2. LET w == Tell(told, e1) IN
              /\ w.state = "connected" /\ w.ready = told.ready
              /\ w.stale = told.stale /\ w.view = told.view
          BY <5>1 DEF Knowledge
        <5> QED
          BY <2>12, <4>2, <5>2 DEF Matches
      <4>6. t1.sub = v.subs[i].sub /\ t1.ackTimer = v.subs[i].ackTimer
        BY <2>12, <4>2
      <4>7. Sound(v1, P, {}) /\ Spares(v, v1, i)
        BY <2>4, <2>12, <2>13, <4>1, <4>2, <4>3, <4>4, <4>5, <4>6, NewsSound
      <4> QED
        BY <2>4, <3>0, <4>7 DEF Spares
    <3> QED
      BY <3>1, <3>2
  <2>17. Sound(y, P, {}) /\ Keeps(v1, y)
    <3>1. CASE ~s.stale
      <4>1. y = v1
        BY <3>1
      <4> HIDE DEF y, v1
      <4> QED
        BY <2>16, <4>1, KeepsSelf
    <3>2. CASE s.stale
      <4>1. y = Deliver(Replaced(v1, i, t2), i, e2)
        BY <3>2
      <4> HIDE DEF y, v1
      <4>2. v1 \in StreamState /\ v1.subs[i] \in SubRecord /\ Base(v1, P, {})
            /\ \A j \in Consumers : Agree(v1, j)
        BY <2>4, <2>16 DEF Sound, Base, StreamState
      <4>3. LET u == v1.subs[i] IN
            /\ t2 \in SubRecord /\ t2.state = u.state /\ t2.sub = u.sub /\ t2.seq = u.seq
            /\ t2.ready = u.ready /\ t2.ackTimer = u.ackTimer /\ t2.consumers = u.consumers
            /\ t2.retryTimer = u.retryTimer /\ t2.cursor = u.cursor /\ t2.orders = u.orders
            /\ t2.stale = FALSE
        BY <4>2 DEF SubRecord
      <4> HIDE DEF t2
      <4>4. Base(Replaced(v1, i, t2), P, {})
        <5>1. (t2.ready => t2.sub # 0)
              /\ (t2.sub # 0 => t2.state = "connected" /\ t2.cursor = P[t2.sub][t2.seq])
          BY <2>4, <4>2, <4>3 DEF Base, Settled
        <5> QED
          BY <2>4, <2>16, <4>2, <4>3, <5>1, SameSubBase
      <4>5. e2 \in Events /\ e2.type = "current"
        BY EventIs
      <4> HIDE DEF e2
      <4>6. \A told \in Knowledge : Matches(told, v1.subs[i]) => Matches(Tell(told, e2), t2)
        <5> TAKE told \in Knowledge
        <5>1. Tell(told, e2) = [told EXCEPT !.stale = FALSE]
          BY <4>5, TellIs
        <5>2. LET w == Tell(told, e2) IN
              /\ w.state = told.state /\ w.ready = told.ready
              /\ w.stale = FALSE /\ w.view = told.view
          BY <5>1 DEF Knowledge
        <5> QED
          BY <4>3, <5>2 DEF Matches
      <4>7. Sound(y, P, {}) /\ Spares(v1, y, i)
        BY <2>4, <4>1, <4>2, <4>3, <4>4, <4>5, <4>6, NewsSound
      <4> QED
        BY <4>7 DEF Spares
    <3> QED
      BY <3>1, <3>2
  <2> HIDE DEF v1, y
  <2>18. Keeps(v, y) /\ Keeps(k, y)
    BY <2>14, <2>16, <2>17, KeepsOn
  <2>19. y.conn = 0 \/ Owned(y, m.sub)
    BY <2>14, <2>15, <2>18 DEF Keeps
  <2> QED
    BY <2>6, <2>17, <2>18, <2>19
<1> QED
  BY <1>1, <1>2

\* A resume that is refused starts over, without its cursor.
LEMMA CursorRefusedSound ==
    ASSUME NEW x, NEW P, Sound(x, P, {}), NEW i \in Consumers, Current(x, i), x.conn # 0,
           x.subs[i].sub = 0, ~x.subs[i].retryTimer, \A q \in Asking(x) : q.s # i,
           Unused(MaxIds, IdsInUse(x)) # {}
    PROVE  LET z == Replaced(x, i, [x.subs[i] EXCEPT !.cursor = None])
               y == SubscribeServer(z, i)
           IN Sound(y, P, {}) /\ Keeps(x, y)
<1> DEFINE t == [x.subs[i] EXCEPT !.cursor = None]
           z == Replaced(x, i, t)
           y == SubscribeServer(z, i)
<1>1. /\ Base(x, P, {}) /\ x \in StreamState /\ Linked(x) /\ x.subs[i] \in SubRecord
      /\ x.subs \in [Consumers -> SubRecord] /\ x.cons[i].st # "new"
  BY DEF Sound, Base, StreamState, Linked, Current
<1>2. /\ t \in SubRecord /\ t.sub = 0 /\ t.cursor = None /\ t.consumers = x.subs[i].consumers
      /\ t.retryTimer = x.subs[i].retryTimer /\ t.ready = x.subs[i].ready
      /\ t.state = x.subs[i].state /\ t.stale = x.subs[i].stale
      /\ t.orders = x.subs[i].orders /\ t.ackTimer = x.subs[i].ackTimer
  BY <1>1 DEF SubRecord, Cursors
<1> HIDE DEF t
<1>3. Base(z, P, {})
  <2>1. t.ready => t.sub # 0
    BY <1>1, <1>2 DEF Base, Settled
  <2>2. t.retryTimer = FALSE
    BY <1>1, <1>2 DEF SubRecord
  <2> QED
    BY <1>1, <1>2, <2>1, <2>2, ReplacedBase
<1>4. Sound(z, P, {}) /\ Spares(x, z, i)
  <2>1. t.sub = x.subs[i].sub /\ \A j \in Consumers : Agree(x, j)
    BY <1>2 DEF Sound
  <2> QED
    BY <1>1, <1>2, <1>3, <2>1, QuietSound
<1>5. /\ z.subs = [x.subs EXCEPT ![i] = t] /\ z.conn = x.conn /\ z.at = x.at
      /\ z.cons = x.cons /\ z.pending = x.pending /\ z.up = x.up /\ z.fetches = x.fetches
  BY <1>1, <1>2, ReplacedIs
<1>6. z.subs[i] = t /\ \A j \in Consumers \ {i} : z.subs[j] = x.subs[j]
  BY <1>1, <1>5
<1> HIDE DEF z
<1>7. /\ Current(z, i) /\ z.subs[i].sub = 0 /\ ~z.subs[i].retryTimer /\ z.conn # 0
      /\ \A q \in Asking(z) : q.s # i
  BY <1>2, <1>5, <1>6 DEF Current, Asking
<1>8. Unused(MaxIds, IdsInUse(z)) # {}
  <2>1. \A j \in Consumers : z.subs[j].ackTimer = x.subs[j].ackTimer
    BY <1>2, <1>6
  <2>2. IdsInUse(z) = IdsInUse(x)
    BY <1>5, <2>1 DEF IdsInUse
  <2> QED
    BY <2>2
<1>9. Base(y, P, {}) /\ Keeps(z, y) /\ y.subs = z.subs /\ y.cons = z.cons
  BY <1>3, <1>7, <1>8, SubscribeServerIs
<1> HIDE DEF y
<1>10. Sound(y, P, {})
  BY <1>4, <1>9 DEF Sound, Agree
<1>11. Keeps(x, y)
  BY <1>4, <1>9, KeepsOn DEF Spares
<1> QED
  BY <1>10, <1>11 DEF y, z, t

LEMMA RequestErrorSound ==
    ASSUME NEW P, Sound(k, P, {}), Room, NEW m \in Frames,
           m.type = "unknown" => m.sub # 0
    PROVE  LET y == OnRequestError(k, m) IN
           /\ Sound(y, P, {})
           /\ Keeps(k, y) \/ (m.type = "unknown" /\ KeepsBut(k, y, m.sub))
<1> DEFINE asked == {q \in k.pending : q.id = m.id}
           request == CHOOSE q \in asked : TRUE
           x == Answered(k, m.id)
           owners == IF m.id = 0 THEN BySub(k, m.sub) ELSE {request.s}
           i == CHOOSE i \in owners : TRUE
           y == OnRequestError(k, m)
<1>1. /\ Sound(x, P, {}) /\ Keeps(k, x)
      /\ x.pending = {q \in k.pending : q.id # m.id} /\ x.subs = k.subs /\ x.cons = k.cons
      /\ x.at = k.at /\ x.conn = k.conn /\ x.up = k.up /\ x.fetches = k.fetches
      /\ IdsInUse(x) \subseteq IdsInUse(k)
  BY AnsweredSound
<1>2. /\ k \in StreamState /\ Asked(k) /\ Attached(k) /\ k.pending \subseteq Requests
  BY DEF Sound, Base, StreamState
<1>3. CASE m.id # 0 /\ asked = {}
  <2>1. y = k
    BY <1>3 DEF OnRequestError
  <2> HIDE DEF y
  <2> QED
    BY <2>1, KeepsSelf DEF y
<1>4. CASE ~(m.id # 0 /\ asked = {}) /\ owners = {}
  <2>1. y = ReportAll(k)
    BY <1>4 DEF OnRequestError
  <2> HIDE DEF y
  <2> QED
    BY <2>1, ReportAllSound DEF y
<1>5. CASE ~(m.id # 0 /\ asked = {}) /\ owners # {}
  <2>1. i \in owners
    BY <1>5
  <2>2. m.id # 0 => request \in asked /\ request \in k.pending /\ request \in Requests
                    /\ request.id = m.id
    BY <1>2, <1>5
  <2>3. i \in Consumers /\ (m.id # 0 => i = request.s)
    BY <2>1, <2>2 DEF BySub, Requests
  <2>4. y = IF m.id # 0 /\ request.kind = "subscribe"
            THEN IF m.type = "cursorInvalid"
                 THEN SubscribeServer([x EXCEPT !.subs[i].cursor = None], i)
                 ELSE Terminate(x, i)
            ELSE IF m.type = "unknown" /\ k.subs[i].sub = m.sub
            THEN Resubscribe([x EXCEPT !.subs[i].sub = 0], i)
            ELSE Report(x, i)
    BY <1>5 DEF OnRequestError
  <2> HIDE DEF x, i, y, request, asked, owners
  <2>5. Unused(MaxIds, IdsInUse(x)) # {}
    BY <1>1, RoomFor
  <2>6. CASE m.id # 0 /\ request.kind = "subscribe" /\ m.type = "cursorInvalid"
    <3>1. [x EXCEPT !.subs[i].cursor = None] = Replaced(x, i, [x.subs[i] EXCEPT !.cursor = None])
      BY DEF Replaced
    <3>2. request \in Asking(k)
      BY <2>2, <2>6 DEF Asking
    <3>3. /\ Current(x, i) /\ x.conn # 0 /\ x.subs[i].sub = 0 /\ ~x.subs[i].retryTimer
      BY <1>1, <1>2, <2>2, <2>3, <2>6, <3>2 DEF Asked, Current
    <3>4. \A q \in Asking(x) : q.s # i
      <4>1. \A q \in Asking(x) : q \in Asking(k) /\ q.id # m.id
        BY <1>1 DEF Asking
      <4> QED
        BY <1>2, <2>2, <2>3, <2>6, <3>2, <4>1 DEF Asked
    <3>5. y = SubscribeServer(Replaced(x, i, [x.subs[i] EXCEPT !.cursor = None]), i)
      BY <2>4, <2>6, <3>1
    <3>6. Sound(y, P, {}) /\ Keeps(x, y)
      BY <1>1, <2>3, <2>5, <3>3, <3>4, <3>5, CursorRefusedSound
    <3>7. Keeps(k, y)
      BY <1>1, <3>6, KeepsOn
    <3> QED
      BY <3>6, <3>7 DEF y
  <2>7. CASE m.id # 0 /\ request.kind = "subscribe" /\ m.type # "cursorInvalid"
    <3>1. y = Terminate(x, i)
      BY <2>4, <2>7
    <3>2. Sound(y, P, {}) /\ Keeps(x, y)
      BY <1>1, <2>3, <3>1, TerminateSound DEF Spares
    <3>3. Keeps(k, y)
      BY <1>1, <3>2, KeepsOn
    <3> QED
      BY <3>2, <3>3 DEF y
  <2>8. CASE ~(m.id # 0 /\ request.kind = "subscribe") /\ m.type = "unknown"
             /\ k.subs[i].sub = m.sub
    <3>1. [x EXCEPT !.subs[i].sub = 0] = Replaced(x, i, [x.subs[i] EXCEPT !.sub = 0])
      BY DEF Replaced
    <3>2. y = Resubscribe(Replaced(x, i, [x.subs[i] EXCEPT !.sub = 0]), i)
      BY <2>4, <2>8, <3>1
    <3>3. x.subs[i].sub # 0 /\ x.subs[i].sub = m.sub
      BY <1>1, <2>8
    <3>4. Sound(y, P, {}) /\ KeepsBut(x, y, m.sub)
      BY <1>1, <2>3, <2>5, <3>2, <3>3, DropSound
    <3>5. KeepsBut(k, y, m.sub)
      <4>1. \A s : Owned(k, s) => Owned(x, s)
        BY <1>1 DEF Owned, BySub
      <4> QED
        BY <1>1, <3>4, <4>1 DEF KeepsBut
    <3> QED
      BY <2>8, <3>4, <3>5 DEF y
  <2>9. CASE ~(m.id # 0 /\ request.kind = "subscribe")
             /\ ~(m.type = "unknown" /\ k.subs[i].sub = m.sub)
    <3>1. y = Report(x, i)
      BY <2>4, <2>9
    <3>2. Sound(y, P, {}) /\ Keeps(x, y)
      BY <1>1, <2>3, <3>1, ReportSound DEF Touches, Spares
    <3>3. Keeps(k, y)
      BY <1>1, <3>2, KeepsOn
    <3> QED
      BY <3>2, <3>3 DEF y
  <2> QED
    BY <2>6, <2>7, <2>8, <2>9
<1> QED
  BY <1>3, <1>4, <1>5

\* The next frame of i's stream has been counted: what it carries is applied.
LEMMA DataSound ==
    ASSUME NEW P, NEW x, NEW i \in Consumers, NEW m \in Frames, Base(x, P, {i}),
           \A j \in Consumers : Agree(x, j), m.type \in DataTypes, FrameFits(m, P),
           x.subs[i].sub = m.sub, x.subs[i].seq = m.seq, m.sub # 0,
           x.subs[i].cursor = P[m.sub][m.seq - 1], x.subs[i].state = "connected",
           Unused(MaxIds, IdsInUse(x)) # {}
    PROVE  LET y == OnData(x, i, m) IN Sound(y, P, {}) /\ Keeps(x, y)
<1> DEFINE s == x.subs[i]
           y == OnData(x, i, m)
<1>1. /\ x \in StreamState /\ Linked(x) /\ Asked(x) /\ Attached(x) /\ Positioned(x)
      /\ s \in SubRecord
  BY DEF Base, StreamState
<1>2. /\ Current(x, i) /\ x.conn # 0 /\ ~s.retryTimer /\ (\A q \in Asking(x) : q.s # i)
      /\ x.cons[i].st # "new"
  BY <1>1 DEF Attached, Asked, Linked, Current
<1>3. /\ s.sub = m.sub /\ s.seq = m.seq /\ s.cursor = P[m.sub][m.seq - 1]
      /\ s.state = "connected" /\ s.sub # 0
      /\ s.cursor # None => s.orders = Position(s.cursor)
      /\ \A d \in srv.subs : s.sub = d.sub => s.seq <= d.seq
  BY <1>1 DEF Positioned
<1>4. m.val \in 0..MaxLog /\ m.val \in Nat /\ m.val \in Cursors /\ MaxLog \in Nat
  BY StreamAssumptions DEF Frames, Cursors
<1>5. Position(m.val) \in 0..MaxLog /\ Position(m.val) \in Cursors
  <2>1. Position(m.val) \in 0..m.val
    BY <1>4, PositionIs
  <2> QED
    BY <1>4, <2>1 DEF Cursors
<1>6. \A z, t : [z EXCEPT !.subs[i] = t] = Replaced(z, i, t)
  BY DEF Replaced
<1> DEFINE Same(t) == /\ t \in SubRecord /\ t.consumers = s.consumers /\ t.sub = s.sub
                      /\ t.seq = s.seq /\ t.retryTimer = s.retryTimer
                      /\ t.ackTimer = s.ackTimer /\ t.state = s.state
<1>7. ASSUME NEW t, Same(t), t.cursor # None => t.orders = Position(t.cursor), NEW F,
             i \in F \/ t.cursor = P[m.sub][m.seq]
      PROVE  Base(Replaced(x, i, t), P, F)
  <2> HIDE DEF s
  <2>1. t \in SubRecord /\ t.consumers = x.subs[i].consumers
    BY <1>7 DEF s
  <2>2. t.retryTimer = FALSE /\ t.sub # 0 /\ t.state = "connected"
    BY <1>1, <1>2, <1>3, <1>7 DEF SubRecord
  <2>3. \A q \in Asking(x) :
          q.s = i => t.sub = 0 /\ ~t.retryTimer /\ t.cursor = x.subs[i].cursor
    BY <1>2
  <2>4. t.sub # 0 => Current(x, i) /\ x.conn # 0 /\ ~t.retryTimer
    BY <1>2, <2>2
  <2>5. t.retryTimer /\ Current(x, i) => x.conn # 0
    BY <1>2
  <2>6. t.sub # 0 => \A d \in srv.subs : t.sub = d.sub => t.seq <= d.seq
    BY <1>3, <1>7
  <2>7. i \in F \/ (/\ t.ready => t.sub # 0
                    /\ t.sub # 0 => t.state = "connected" /\ t.cursor = P[t.sub][t.seq])
    BY <1>3, <1>7, <2>2
  <2>8. {i} \subseteq F \cup {i}
    OBVIOUS
  <2> QED
    BY <1>2, <1>7, <2>1, <2>3, <2>4, <2>5, <2>6, <2>7, <2>8, ReplacedBase
<1>8. ASSUME NEW t, Same(t), t.cursor # None => t.orders = Position(t.cursor),
             t.cursor = P[m.sub][m.seq], t.ready = s.ready, t.stale = s.stale,
             t.orders = s.orders, y = Replaced(x, i, t)
      PROVE  Sound(y, P, {}) /\ Keeps(x, y)
  <2>1. Base(Replaced(x, i, t), P, {})
    BY <1>7, <1>8
  <2> HIDE DEF y
  <2>2. Sound(y, P, {}) /\ Spares(x, y, i)
    BY <1>1, <1>8, <2>1, QuietSound
  <2> QED
    BY <2>2 DEF Spares
<1>9. ASSUME NEW t, Same(t), t.cursor # None => t.orders = Position(t.cursor),
             t.cursor = P[m.sub][m.seq], NEW ev \in Events,
             \A told \in Knowledge : Matches(told, s) => Matches(Tell(told, ev), t),
             y = Deliver(Replaced(x, i, t), i, ev)
      PROVE  Sound(y, P, {}) /\ Keeps(x, y)
  <2>1. Base(Replaced(x, i, t), P, {})
    BY <1>7, <1>9
  <2> HIDE DEF y
  <2>2. Sound(y, P, {}) /\ Spares(x, y, i)
    BY <1>1, <1>9, <2>1, NewsSound
  <2> QED
    BY <2>2 DEF Spares
<1>10. ASSUME NEW t, Same(t), t.cursor # None => t.orders = Position(t.cursor),
              t.stale = s.stale, t.orders = s.orders, y = Resubscribe(Replaced(x, i, t), i)
       PROVE  Sound(y, P, {}) /\ Keeps(x, y)
  <2> DEFINE z == Replaced(x, i, t)
  <2>1. Base(z, P, {i})
    BY <1>7, <1>10
  <2>2. /\ z.subs = [x.subs EXCEPT ![i] = t] /\ z.conn = x.conn /\ z.at = x.at
        /\ z.cons = x.cons /\ z.pending = x.pending /\ z.up = x.up /\ z.fetches = x.fetches
    BY <1>1, <1>10, ReplacedIs
  <2>3. z.subs[i] = t /\ \A j \in Consumers \ {i} : z.subs[j] = x.subs[j]
    BY <1>1, <2>2 DEF StreamState
  <2> HIDE DEF z, y
  <2>4. /\ Current(z, i) /\ ~z.subs[i].retryTimer /\ z.conn # 0
        /\ \A q \in Asking(z) : q.s # i
    BY <1>2, <1>10, <2>2, <2>3 DEF Current, Asking
  <2>5. \A j \in Consumers \ {i} : Agree(z, j)
    BY <2>2, <2>3 DEF Agree
  <2>6. Nearly(z, i)
    BY <1>3, <1>10, <2>2, <2>3 DEF Nearly, Agree, Matches
  <2>7. Unused(MaxIds, IdsInUse(z)) # {}
    <3>1. \A j \in Consumers : z.subs[j].ackTimer = x.subs[j].ackTimer
      BY <1>10, <2>3
    <3>2. IdsInUse(z) = IdsInUse(x)
      BY <2>2, <3>1 DEF IdsInUse
    <3> QED
      BY <3>2
  <2>8. y = Resubscribe(z, i)
    BY <1>10 DEF z
  <2>9. Sound(y, P, {}) /\ Keeps(z, y)
    BY <2>1, <2>4, <2>5, <2>6, <2>7, <2>8, ResubscribeSound
  <2>10. Keeps(x, z)
    <3>1. \A j \in Consumers : z.subs[j].sub = x.subs[j].sub
      BY <1>10, <2>3
    <3>2. z.conn = x.conn /\ z.at = x.at /\ Elems(x.up) \subseteq Elems(z.up)
      BY <2>2
    <3> HIDE DEF s, Same
    <3> QED
      BY <3>1, <3>2, KeepsSame
  <2> QED
    BY <2>9, <2>10, KeepsOn
<1>11. CASE m.type \in {"begin", "resync"}
  <2> DEFINE b == m.type = "begin"
             t == [s EXCEPT !.staging = b]
  <2>1. b \in BOOLEAN
    OBVIOUS
  <2>2. y = Replaced(x, i, t)
    <3>1. CASE m.type = "begin"
      BY <1>6, <3>1 DEF OnData
    <3>2. CASE m.type = "resync"
      BY <1>6, <3>2 DEF OnData
    <3> QED
      BY <1>11, <3>1, <3>2
  <2> HIDE DEF b
  <2>3. Same(t) /\ t.cursor = s.cursor /\ t.ready = s.ready /\ t.stale = s.stale
        /\ t.orders = s.orders
    BY <1>1, <2>1 DEF SubRecord
  <2> HIDE DEF t, y, s, Same
  <2>4. t.cursor = P[m.sub][m.seq]
    BY <1>3, <1>11, <2>3 DEF FrameFits
  <2> QED
    BY <1>3, <1>8, <2>2, <2>3, <2>4 DEF y
<1>12. CASE m.type = "covered"
  <2> DEFINE t == Resumed(s, m.val)
  <2>1. y = Replaced(x, i, t)
    BY <1>6, <1>12 DEF OnData
  <2>2. Same(t) /\ t.cursor = m.val /\ t.ready = s.ready /\ t.stale = s.stale
        /\ t.orders = s.orders
    BY <1>1, <1>4 DEF SubRecord, Resumed
  <2>3. /\ m.val # 0 /\ s.cursor = m.val - 1 /\ m.val = P[m.sub][m.seq] /\ m.val \in Unseen
    BY <1>3, <1>12 DEF FrameFits
  <2> HIDE DEF t, y, s, Same
  <2>4. t.orders = Position(t.cursor)
    <3>1. Position(m.val) = Position(m.val - 1)
      BY <1>4, <2>3, PositionIs
    <3>2. s.cursor # None
      BY <1>4, <2>3 DEF None
    <3> QED
      BY <1>3, <2>2, <2>3, <3>1, <3>2
  <2> QED
    BY <1>8, <2>1, <2>2, <2>3, <2>4 DEF y
<1>13. CASE m.type = "unit"
  <2> DEFINE r == Resumed(s, m.val)
             t == [r EXCEPT !.orders = IF r.orders = None THEN None ELSE Applied(r.orders, m.val)]
             ev == [type |-> "unit", val |-> m.val]
  <2>1. y = Deliver(Replaced(x, i, t), i, ev)
    BY <1>6, <1>13 DEF OnData
  <2>2. /\ m.val # 0 /\ s.cursor = m.val - 1 /\ m.val = P[m.sub][m.seq] /\ m.val \notin Unseen
    BY <1>3, <1>13 DEF FrameFits
  <2>3. r \in SubRecord /\ Same(r) /\ r.cursor = m.val /\ r.ready = s.ready
        /\ r.stale = s.stale /\ r.orders = s.orders
    BY <1>1, <1>4 DEF SubRecord, Resumed
  <2>4. ev \in Events /\ ev.type = "unit" /\ ev.val = m.val
    BY <1>4, <2>2 DEF Events
  <2>5. s.orders = Position(m.val - 1) /\ s.orders # None /\ Position(m.val) = m.val
    <3>1. s.cursor # None
      BY <1>4, <2>2 DEF None
    <3>2. Position(m.val - 1) \in 0..(m.val - 1)
      BY <1>4, <2>2, PositionIs
    <3>3. Position(m.val) = m.val
      BY <1>4, <2>2, PositionIs
    <3> QED
      BY <1>3, <1>4, <2>2, <3>1, <3>2, <3>3 DEF None
  <2>6. Applied(s.orders, m.val) = m.val
    BY <2>5 DEF Applied
  <2>7. t = [r EXCEPT !.orders = m.val]
    BY <2>3, <2>5, <2>6
  <2> HIDE DEF t, r, ev, y
  <2>8. Same(t) /\ t.cursor = m.val /\ t.ready = s.ready /\ t.stale = s.stale
        /\ t.orders = m.val
    BY <1>4, <2>3, <2>7 DEF SubRecord
  <2> HIDE DEF s, Same
  <2>9. \A told \in Knowledge : Matches(told, s) => Matches(Tell(told, ev), t)
    <3> TAKE told \in Knowledge
    <3> HAVE Matches(told, s)
    <3>1. Tell(told, ev) = [told EXCEPT !.view = Applied(told.view, m.val)]
      <4>1. Tell(told, ev) = [told EXCEPT !.view = Applied(told.view, ev.val)]
        BY <2>4, TellIs
      <4> QED
        BY <2>4, <4>1
    <3>2. told.view = s.orders
      BY DEF Matches
    <3>3. LET w == Tell(told, ev) IN
          /\ w.state = told.state /\ w.ready = told.ready
          /\ w.stale = told.stale /\ w.view = m.val
      BY <2>6, <3>1, <3>2 DEF Knowledge
    <3>4. t.state = s.state
      BY <2>8 DEF Same
    <3> QED
      BY <2>8, <3>3, <3>4 DEF Matches
  <2>10. t.cursor # None => t.orders = Position(t.cursor)
    BY <2>5, <2>8
  <2>11. t.cursor = P[m.sub][m.seq]
    BY <2>2, <2>8
  <2> QED
    BY <1>9, <2>1, <2>4, <2>8, <2>9, <2>10, <2>11 DEF y
<1>14. CASE m.type = "end" /\ s.staging
  <2> DEFINE r == Resumed(s, m.val)
             t == [r EXCEPT !.staging = FALSE, !.orders = Position(m.val)]
             ev == [type |-> "snapshot", val |-> Position(m.val)]
  <2>1. y = Deliver(Replaced(x, i, t), i, ev)
    BY <1>6, <1>14 DEF OnData
  <2>2. m.val = P[m.sub][m.seq]
    BY <1>14 DEF FrameFits
  <2>3. r \in SubRecord /\ Same(r) /\ r.cursor = m.val /\ r.ready = s.ready
        /\ r.stale = s.stale
    BY <1>1, <1>4 DEF SubRecord, Resumed
  <2>4. ev \in Events /\ ev.type = "snapshot" /\ ev.val = Position(m.val)
    BY <1>5 DEF Events
  <2> HIDE DEF r, ev, y
  <2>5. Same(t) /\ t.cursor = m.val /\ t.ready = s.ready /\ t.stale = s.stale
        /\ t.orders = Position(m.val)
    BY <1>5, <2>3 DEF SubRecord
  <2> HIDE DEF s, Same, t
  <2>6. \A told \in Knowledge : Matches(told, s) => Matches(Tell(told, ev), t)
    <3> TAKE told \in Knowledge
    <3> HAVE Matches(told, s)
    <3>1. Tell(told, ev) = [told EXCEPT !.view = Position(m.val)]
      <4>1. Tell(told, ev) = [told EXCEPT !.view = ev.val]
        BY <2>4, TellIs
      <4> QED
        BY <2>4, <4>1
    <3>2. LET w == Tell(told, ev) IN
          /\ w.state = told.state /\ w.ready = told.ready
          /\ w.stale = told.stale /\ w.view = Position(m.val)
      BY <3>1 DEF Knowledge
    <3>3. t.state = s.state
      BY <2>5 DEF Same
    <3> QED
      BY <2>5, <3>2, <3>3 DEF Matches
  <2> QED
    BY <1>9, <2>1, <2>2, <2>4, <2>5, <2>6 DEF y
<1>15. CASE m.type = "short" \/ (m.type = "end" /\ ~s.staging)
  <2> DEFINE t == [s EXCEPT !.staging = FALSE, !.cursor = None]
  <2>1. y = Resubscribe(Replaced(x, i, t), i)
    BY <1>6, <1>15 DEF OnData
  <2>2. Same(t) /\ t.cursor = None /\ t.stale = s.stale /\ t.orders = s.orders
    BY <1>1 DEF SubRecord, Cursors
  <2> HIDE DEF s, Same, t, y
  <2> QED
    BY <1>10, <2>1, <2>2 DEF y
<1>16. CASE m.type = "ready"
  <2>1. m.seq \in Nat /\ s.cursor = P[m.sub][m.seq]
    BY <1>3, <1>16 DEF FrameFits, Frames
  <2>2. CASE s.ready
    <3> DEFINE t == [s EXCEPT !.retries = FALSE]
    <3>1. y = Replaced(x, i, t)
      BY <1>6, <1>16, <2>2 DEF OnData
    <3>2. Same(t) /\ t.cursor = s.cursor /\ t.ready = s.ready /\ t.stale = s.stale
          /\ t.orders = s.orders
      BY <1>1 DEF SubRecord
    <3> HIDE DEF s, Same, t, y
    <3> QED
      BY <1>3, <1>8, <2>1, <3>1, <3>2 DEF y
  <2>3. CASE ~s.ready
    <3> DEFINE t == [s EXCEPT !.retries = FALSE, !.ready = TRUE]
               ev == [type |-> "ready", val |-> m.val]
    <3>1. y = Deliver(Replaced(x, i, t), i, ev)
      BY <1>6, <1>16, <2>3 DEF OnData
    <3>2. Same(t) /\ t.cursor = s.cursor /\ t.ready = TRUE /\ t.stale = s.stale
          /\ t.orders = s.orders
      BY <1>1 DEF SubRecord
    <3>3. ev \in Events /\ ev.type = "ready"
      BY <1>4 DEF Events
    <3> HIDE DEF s, Same, t, y, ev
    <3>4. \A told \in Knowledge : Matches(told, s) => Matches(Tell(told, ev), t)
      <4> TAKE told \in Knowledge
      <4>1. Tell(told, ev) = [told EXCEPT !.ready = TRUE]
        BY <3>3, TellIs
      <4>2. LET w == Tell(told, ev) IN
            /\ w.state = told.state /\ w.ready = TRUE
            /\ w.stale = told.stale /\ w.view = told.view
        BY <4>1 DEF Knowledge
      <4>3. t.state = s.state
        BY <3>2 DEF Same
      <4> QED
        BY <3>2, <4>2, <4>3 DEF Matches
    <3> QED
      BY <1>3, <1>9, <2>1, <3>1, <3>2, <3>3, <3>4 DEF y
  <2> QED
    BY <2>2, <2>3
<1>17. CASE m.type \in {"unavailable", "available"}
  <2> DEFINE b == m.type = "unavailable"
             t == [s EXCEPT !.stale = b]
             ev == [type |-> IF b THEN "stale" ELSE "current", val |-> m.val]
  <2>1. b \in BOOLEAN
    OBVIOUS
  <2>2. y = Deliver(Replaced(x, i, t), i, ev)
    <3>1. CASE m.type = "unavailable"
      BY <1>6, <3>1 DEF OnData
    <3>2. CASE m.type = "available"
      BY <1>6, <3>2 DEF OnData
    <3> QED
      BY <1>17, <3>1, <3>2
  <2> HIDE DEF b
  <2>3. Same(t) /\ t.cursor = s.cursor /\ t.ready = s.ready /\ t.stale = b
        /\ t.orders = s.orders
    BY <1>1, <2>1 DEF SubRecord
  <2>4. ev \in Events /\ ev.type = IF b THEN "stale" ELSE "current"
    BY <1>4, <2>1 DEF Events
  <2> HIDE DEF t, y, s, Same, ev
  <2>5. s.cursor = P[m.sub][m.seq]
    BY <1>3, <1>17 DEF FrameFits
  <2>6. \A told \in Knowledge : Matches(told, s) => Matches(Tell(told, ev), t)
    <3> TAKE told \in Knowledge
    <3>1. Tell(told, ev) = [told EXCEPT !.stale = b]
      <4>1. CASE b
        <5>1. ev.type = "stale" /\ b = TRUE
          BY <2>1, <2>4, <4>1
        <5>2. Tell(told, ev) = [told EXCEPT !.stale = TRUE]
          BY <5>1, TellIs
        <5> QED
          BY <5>1, <5>2
      <4>2. CASE ~b
        <5>1. ev.type = "current" /\ b = FALSE
          BY <2>1, <2>4, <4>2
        <5>2. Tell(told, ev) = [told EXCEPT !.stale = FALSE]
          BY <5>1, TellIs
        <5> QED
          BY <5>1, <5>2
      <4> QED
        BY <4>1, <4>2
    <3>2. LET w == Tell(told, ev) IN
          /\ w.state = told.state /\ w.ready = told.ready
          /\ w.stale = b /\ w.view = told.view
      BY <3>1 DEF Knowledge
    <3>3. t.state = s.state
      BY <2>3 DEF Same
    <3> QED
      BY <2>3, <3>2, <3>3 DEF Matches
  <2> QED
    BY <1>3, <1>9, <2>2, <2>3, <2>4, <2>5, <2>6 DEF y
<1> QED
  BY <1>11, <1>12, <1>13, <1>14, <1>15, <1>16, <1>17 DEF DataTypes

\* The next frame of i's stream is counted.
LEMMA AdvancedIs ==
    ASSUME NEW x, NEW P, Sound(x, P, {}), NEW i \in Consumers, x.subs[i].sub # 0, NEW n \in Nat,
           \A d \in srv.subs : x.subs[i].sub = d.sub => n <= d.seq
    PROVE  LET y == [x EXCEPT !.subs[i].seq = n] IN
           /\ Base(y, P, {i}) /\ (\A j \in Consumers : Agree(y, j)) /\ Keeps(x, y)
           /\ IdsInUse(y) = IdsInUse(x) /\ y.subs[i].seq = n /\ y.subs[i].sub = x.subs[i].sub
           /\ y.subs[i].cursor = x.subs[i].cursor /\ y.subs[i].state = x.subs[i].state
<1> DEFINE s == x.subs[i]
           t == [s EXCEPT !.seq = n]
           y == [x EXCEPT !.subs[i].seq = n]
<1>1. /\ Base(x, P, {}) /\ x \in StreamState /\ Linked(x) /\ Asked(x) /\ Attached(x)
      /\ Positioned(x) /\ s \in SubRecord /\ \A j \in Consumers : Agree(x, j)
  BY DEF Sound, Base, StreamState
<1>2. /\ Current(x, i) /\ x.conn # 0 /\ ~s.retryTimer /\ (\A q \in Asking(x) : q.s # i)
      /\ x.cons[i].st # "new"
  BY <1>1 DEF Attached, Asked, Linked, Current
<1>3. s.cursor # None => s.orders = Position(s.cursor)
  BY <1>1 DEF Positioned
<1>4. y = Replaced(x, i, t)
  BY DEF Replaced
<1>5. /\ t \in SubRecord /\ t.seq = n /\ t.consumers = s.consumers /\ t.sub = s.sub
      /\ t.cursor = s.cursor /\ t.orders = s.orders /\ t.state = s.state /\ t.stale = s.stale
      /\ t.ready = s.ready /\ t.retryTimer = s.retryTimer /\ t.ackTimer = s.ackTimer
  BY <1>1 DEF SubRecord
<1> HIDE DEF t, y
<1>6. /\ y.subs = [x.subs EXCEPT ![i] = t] /\ y.conn = x.conn /\ y.at = x.at
      /\ y.cons = x.cons /\ y.pending = x.pending /\ y.up = x.up /\ y.fetches = x.fetches
  BY <1>1, <1>4, <1>5, ReplacedIs
<1>7. y.subs[i] = t /\ \A j \in Consumers \ {i} : y.subs[j] = x.subs[j]
  BY <1>1, <1>6 DEF StreamState
<1>8. Base(y, P, {i})
  <2>1. \A q \in Asking(x) :
          q.s = i => t.sub = 0 /\ ~t.retryTimer /\ t.cursor = x.subs[i].cursor
    BY <1>2
  <2>2. t.sub # 0 => Current(x, i) /\ x.conn # 0 /\ ~t.retryTimer
    BY <1>2, <1>5
  <2>3. t.retryTimer /\ Current(x, i) => x.conn # 0
    BY <1>2
  <2>4. t.sub # 0 => \A d \in srv.subs : t.sub = d.sub => t.seq <= d.seq
    BY <1>5
  <2>5. t.cursor # None => t.orders = Position(t.cursor)
    BY <1>3, <1>5
  <2>6. {} \subseteq {i} \cup {i} /\ i \in {i} /\ t.consumers = x.subs[i].consumers
    BY <1>5
  <2>7. Base(Replaced(x, i, t), P, {i})
    BY <1>1, <1>2, <1>5, <2>1, <2>2, <2>3, <2>4, <2>5, <2>6, ReplacedBase
  <2> QED
    BY <1>4, <2>7
<1>9. \A j \in Consumers : Agree(y, j)
  BY <1>1, <1>5, <1>6, <1>7 DEF Agree, Matches
<1>10. Keeps(x, y)
  <2>1. \A j \in Consumers : y.subs[j].sub = x.subs[j].sub
    BY <1>5, <1>7
  <2>2. y.conn = x.conn /\ y.at = x.at /\ Elems(x.up) \subseteq Elems(y.up)
    BY <1>6
  <2> QED
    BY <2>1, <2>2, KeepsSame
<1>11. IdsInUse(y) = IdsInUse(x)
  <2>1. \A j \in Consumers : y.subs[j].ackTimer = x.subs[j].ackTimer
    BY <1>5, <1>7
  <2> QED
    BY <1>6, <2>1 DEF IdsInUse
<1> QED
  BY <1>5, <1>7, <1>8, <1>9, <1>10, <1>11 DEF y

\* onFrame for a server subscription: its stream, and what is said about it.
LEMMA StreamSound ==
    ASSUME NEW P, Sound(k, P, {}), Room, k.conn # 0, NEW m \in Frames, FrameFits(m, P),
           m.type \in DataTypes \cup {"expiring", "ended"}
    PROVE  LET y == OnStream(k, m) IN
           /\ Sound(y, P, {})
           /\ Keeps(k, y) \/ (m.type = "ended" /\ KeepsBut(k, y, m.sub))
<1> DEFINE i == CHOOSE i \in BySub(k, m.sub) : TRUE
           s == k.subs[i]
           y == OnStream(k, m)
<1>1. /\ Base(k, P, {}) /\ k \in StreamState /\ Asked(k) /\ Attached(k)
      /\ \A j \in Consumers : Agree(k, j)
  BY DEF Sound, Base
<1>2. Unused(MaxIds, IdsInUse(k)) # {}
  BY RoomFor
<1>3. CASE BySub(k, m.sub) = {}
  <2>1. y = k
    BY <1>3 DEF OnStream
  <2> HIDE DEF y
  <2> QED
    BY <2>1, KeepsSelf DEF y
<1>4. CASE BySub(k, m.sub) # {}
  <2>1. i \in BySub(k, m.sub)
    BY <1>4
  <2>2. i \in Consumers /\ m.sub # 0 /\ s.sub = m.sub /\ Current(k, i)
    BY <2>1 DEF BySub, Current
  <2>3. /\ s.sub # 0 /\ s \in SubRecord /\ ~s.retryTimer /\ (\A q \in Asking(k) : q.s # i)
        /\ s.state = "connected" /\ s.cursor = P[s.sub][s.seq] /\ s.seq \in Nat
    <3>1. s \in SubRecord
      BY <1>1, <2>2 DEF StreamState
    <3>2. Settled(k, P, i)
      BY <1>1, <2>2 DEF Base
    <3>3. ~s.retryTimer /\ \A q \in Asking(k) : q.s # i
      BY <1>1, <2>2 DEF Asked, Attached
    <3> QED
      BY <2>2, <3>1, <3>2, <3>3 DEF Settled, SubRecord
  <2>4. y = IF ~InOrder(s, m) THEN Resubscribe(k, i)
            ELSE OnData(IF m.seq > 0 THEN [k EXCEPT !.subs[i].seq = m.seq] ELSE k, i, m)
    BY <1>4 DEF OnStream
  <2> HIDE DEF i, s, y
  <2>5. CASE ~InOrder(s, m)
    <3>1. y = Resubscribe(k, i)
      BY <2>4, <2>5
    <3>2. Base(k, P, {i}) /\ Nearly(k, i)
      BY <1>1, <2>2, BaseMore, AgreesNearly
    <3>3. \A j \in Consumers \ {i} : Agree(k, j)
      BY <1>1
    <3>4. ~k.subs[i].retryTimer
      BY <2>3 DEF s
    <3>5. Sound(y, P, {}) /\ Keeps(k, y)
      BY <1>2, <2>2, <2>3, <3>1, <3>2, <3>3, <3>4, ResubscribeSound
    <3> QED
      BY <3>5 DEF y
  <2>6. CASE InOrder(s, m) /\ m.type \in DataTypes
    <3> DEFINE x == [k EXCEPT !.subs[i].seq = m.seq]
    <3>1. m.seq # 0 /\ m.seq \in Nat /\ m.seq = s.seq + 1
      BY <2>6 DEF FrameFits, Frames, InOrder
    <3>2. y = OnData(x, i, m)
      BY <2>4, <2>6, <3>1
    <3>3. k.subs[i].sub # 0 /\ \A d \in srv.subs : k.subs[i].sub = d.sub => m.seq <= d.seq
      BY <2>2 DEF s, FrameFits
    <3>4. /\ Base(x, P, {i}) /\ (\A j \in Consumers : Agree(x, j)) /\ Keeps(k, x)
          /\ IdsInUse(x) = IdsInUse(k) /\ x.subs[i].seq = m.seq /\ x.subs[i].sub = s.sub
          /\ x.subs[i].cursor = s.cursor /\ x.subs[i].state = s.state
      BY <2>2, <3>1, <3>3, AdvancedIs DEF s
    <3> HIDE DEF x
    <3>5. x.subs[i].cursor = P[m.sub][m.seq - 1]
      BY <2>2, <2>3, <3>1, <3>4
    <3>6. /\ x.subs[i].sub = m.sub /\ x.subs[i].state = "connected"
          /\ Unused(MaxIds, IdsInUse(x)) # {} /\ m.type \in DataTypes
      BY <1>2, <2>2, <2>3, <2>6, <3>4
    <3>7. Sound(y, P, {}) /\ Keeps(x, y)
      BY <2>2, <3>2, <3>4, <3>5, <3>6, DataSound
    <3>8. Keeps(k, y)
      BY <3>4, <3>7, KeepsOn
    <3> QED
      BY <3>7, <3>8 DEF y
  <2>7. CASE InOrder(s, m) /\ m.type \notin DataTypes
    <3>1. m.seq = 0 /\ m.type \in {"expiring", "ended"}
      BY <2>7 DEF FrameFits, ReplyTypes
    <3>2. y = OnData(k, i, m)
      BY <2>4, <2>7, <3>1
    <3>3. CASE m.type = "expiring"
      <4> DEFINE f == [Fetch("refresh", k, i, 0) EXCEPT !.sub = s.sub]
      <4>1. y = Spawn(k, f)
        BY <3>2, <3>3 DEF OnData, s
      <4>2. /\ f = [kind |-> "refresh", run |-> k.run, conn |-> k.conn, s |-> i, id |-> 0,
                    sub |-> s.sub]
        BY DEF Fetch
      <4>3. k.run # "none" => f \in Fetching /\ f.run = k.run
        BY <1>1, <2>2, <2>3, <4>2, Names DEF Fetching, StreamState, SomeConsumer, SubRecord
      <4>4. f.kind = "refresh" /\ f.s = i /\ f.sub # 0
        BY <2>3, <4>2
      <4> HIDE DEF f
      <4>5. Base(y, P, {})
        BY <1>1, <2>2, <4>1, <4>3, <4>4, SpawnBase
      <4>6. /\ y.subs = k.subs /\ y.cons = k.cons /\ y.conn = k.conn /\ y.at = k.at
            /\ y.up = k.up
        BY <1>1, <4>1 DEF Spawn, StreamState
      <4>7. (\A j \in Consumers : Agree(y, j)) /\ Keeps(k, y)
        BY <1>1, <4>6, KeepsSame DEF Agree
      <4> QED
        BY <4>5, <4>7 DEF y, Sound
    <3>4. CASE m.type = "ended"
      <4>1. y = Resubscribe(Replaced(k, i, [k.subs[i] EXCEPT !.sub = 0]), i)
        BY <3>2, <3>4 DEF OnData, Replaced
      <4>2. k.subs[i].sub # 0 /\ k.subs[i].sub = m.sub
        BY <2>2, <2>3 DEF s
      <4>3. Sound(y, P, {}) /\ KeepsBut(k, y, m.sub)
        BY <1>2, <2>2, <4>1, <4>2, DropSound
      <4> QED
        BY <3>4, <4>3 DEF y
    <3> QED
      BY <3>1, <3>3, <3>4
  <2> QED
    BY <2>5, <2>6, <2>7
<1> QED
  BY <1>3, <1>4

LEMMA OnFrameInv ==
    ASSUME StreamInv, OnFrame
    PROVE  StreamInv'
<1>1. PICK P \in Positions : Sound(k, P, {}) /\ ServerFits(P)
  BY DEF StreamInv
<1> DEFINE m == Head(srv.down)
           x == CASE m.type = "subscribed" -> OnSubscribed(k, m)
                  [] m.type = "refreshed"  -> Answered(k, m.id)
                  [] m.type \in {"cursorInvalid", "refused", "unknown"} -> OnRequestError(k, m)
                  [] m.type = "token"      -> Spawn(k, Fetch("reauth", k, "none", 0))
                  [] m.type = "garbage"    -> ReportAll(k)
                  [] OTHER                 -> OnStream(k, m)
<1>2. /\ k.conn # 0 /\ srv.down # <<>> /\ Room /\ k' = x
      /\ srv' = IF x.conn = k.conn THEN [srv EXCEPT !.down = Tail(@)] ELSE NoServer
      /\ UNCHANGED <<log, losses, faults>>
  BY DEF OnFrame
<1>3. Counts'
  BY <1>2 DEF Counts, StreamInv
<1>4. m \in Frames /\ m \in Elems(srv.down)
  <2>1. srv.down \in Seq(Frames)
    BY <1>1 DEF ServerFits
  <2>2. m \in Elems(srv.down)
    BY <1>2, <2>1, TailElems
  <2>3. Elems(srv.down) \subseteq Frames
    BY <2>1 DEF Elems
  <2> QED
    BY <2>2, <2>3
<1>5. FrameFits(m, P)
  BY <1>1, <1>4 DEF ServerFits
<1>6. \A d \in srv.subs : d.seq \in Nat /\ d.sub # 0
  BY <1>1 DEF ServerFits, ServerSubs
<1>7. m.type \in {"subscribed", "refreshed", "cursorInvalid", "refused", "unknown", "token",
                  "garbage"} \cup DataTypes \cup {"expiring", "ended"}
  BY <1>4 DEF Frames, ReplyTypes
<1> HIDE DEF m
<1>8. ASSUME Sound(x, P, {}), NEW gone, \A d \in srv.subs : d.sub # gone, KeepsBut(k, x, gone),
             m.type = "subscribed" => x.conn = 0 \/ Owned(x, m.sub)
      PROVE  StreamInv'
  <2> HIDE DEF x
  <2> QED
    BY <1>1, <1>2, <1>3, <1>8, FrameInv DEF m
<1>9. ASSUME Sound(x, P, {}), Keeps(k, x), m.type # "subscribed"
      PROVE  StreamInv'
  <2> HIDE DEF x
  <2>1. KeepsBut(k, x, 0)
    BY <1>9, KeepsAll
  <2> QED
    BY <1>6, <1>8, <1>9, <2>1
<1>10. CASE m.type = "subscribed"
  <2>1. x = OnSubscribed(k, m)
    BY <1>10
  <2>2. m.sub # 0
    BY <1>5, <1>10 DEF FrameFits
  <2> HIDE DEF x
  <2>3. Sound(x, P, {}) /\ Keeps(k, x) /\ (x.conn = 0 \/ Owned(x, m.sub))
    BY <1>1, <1>2, <1>4, <1>6, <1>10, <2>1, <2>2, SubscribedSound
  <2>4. KeepsBut(k, x, 0)
    BY <2>3, KeepsAll
  <2> QED
    BY <1>6, <1>8, <2>3, <2>4
<1>11. CASE m.type = "refreshed"
  <2>1. x = Answered(k, m.id)
    BY <1>11
  <2> HIDE DEF x
  <2>2. Sound(x, P, {}) /\ Keeps(k, x)
    BY <1>1, <2>1, AnsweredSound
  <2> QED
    BY <1>9, <1>11, <2>2
<1>12. CASE m.type \in {"cursorInvalid", "refused", "unknown"}
  <2>1. x = OnRequestError(k, m)
    BY <1>12
  <2>2. m.type = "unknown" => m.sub # 0 /\ \A d \in srv.subs : d.sub # m.sub
    BY <1>5 DEF FrameFits
  <2> HIDE DEF x
  <2>3. Sound(x, P, {}) /\ (Keeps(k, x) \/ (m.type = "unknown" /\ KeepsBut(k, x, m.sub)))
    BY <1>1, <1>2, <1>4, <2>1, <2>2, RequestErrorSound
  <2>4. CASE Keeps(k, x)
    BY <1>9, <1>12, <2>3, <2>4
  <2>5. CASE m.type = "unknown" /\ KeepsBut(k, x, m.sub)
    BY <1>8, <2>2, <2>3, <2>5
  <2> QED
    BY <2>3, <2>4, <2>5
<1>13. CASE m.type = "token"
  <2> DEFINE f == Fetch("reauth", k, "none", 0)
  <2>1. x = Spawn(k, f)
    BY <1>13
  <2>2. Base(k, P, {}) /\ k \in StreamState /\ \A j \in Consumers : Agree(k, j)
    BY <1>1 DEF Sound, Base
  <2>3. f = [kind |-> "reauth", run |-> k.run, conn |-> k.conn, s |-> "none", id |-> 0, sub |-> 0]
    BY DEF Fetch
  <2>4. (k.run # "none" => f \in Fetching /\ f.run = k.run) /\ f.kind = "reauth"
    BY <2>2, <2>3, Names DEF Fetching, StreamState, SomeConsumer
  <2> HIDE DEF x, f
  <2>5. Base(x, P, {})
    BY <2>1, <2>2, <2>4, SpawnBase
  <2>6. x.subs = k.subs /\ x.cons = k.cons /\ x.conn = k.conn /\ x.at = k.at /\ x.up = k.up
    BY <2>1, <2>2 DEF Spawn, StreamState
  <2>7. (\A j \in Consumers : Agree(x, j)) /\ Keeps(k, x)
    BY <2>2, <2>6, KeepsSame DEF Agree
  <2> QED
    BY <1>9, <1>13, <2>5, <2>7 DEF Sound
<1>14. CASE m.type = "garbage"
  <2>1. x = ReportAll(k)
    BY <1>14
  <2> HIDE DEF x
  <2>2. Sound(x, P, {}) /\ Keeps(k, x)
    BY <1>1, <2>1, ReportAllSound
  <2> QED
    BY <1>9, <1>14, <2>2
<1>15. CASE m.type \in DataTypes \cup {"expiring", "ended"}
  <2>1. x = OnStream(k, m)
    BY <1>15 DEF DataTypes
  <2>2. m.type # "subscribed"
    BY <1>15 DEF DataTypes
  <2>3. m.type = "ended" => \A d \in srv.subs : d.sub # m.sub
    BY <1>5 DEF FrameFits
  <2> HIDE DEF x
  <2>4. Sound(x, P, {}) /\ (Keeps(k, x) \/ (m.type = "ended" /\ KeepsBut(k, x, m.sub)))
    BY <1>1, <1>2, <1>4, <1>5, <1>15, <2>1, StreamSound
  <2>5. CASE Keeps(k, x)
    BY <1>9, <2>2, <2>4, <2>5
  <2>6. CASE m.type = "ended" /\ KeepsBut(k, x, m.sub)
    BY <1>8, <2>2, <2>3, <2>4, <2>6
  <2> QED
    BY <2>4, <2>5, <2>6
<1> QED
  BY <1>7, <1>10, <1>11, <1>12, <1>13, <1>14, <1>15

-----------------------------------------------------------------------------
(* The server's steps.                                                     *)

LEMMA JoinedElems ==
    ASSUME NEW S, NEW s \in Seq(S), NEW t \in Seq(S)
    PROVE  /\ s \o t \in Seq(S) /\ Elems(s \o t) = Elems(s) \cup Elems(t)
           /\ Len(s \o t) = Len(s) + Len(t) /\ Len(s) \in Nat /\ Len(t) \in Nat
<1> DEFINE u == s \o t
<1>1. /\ u \in Seq(S) /\ Len(u) = Len(s) + Len(t)
      /\ \A j \in 1..Len(u) : u[j] = IF j <= Len(s) THEN s[j] ELSE t[j - Len(s)]
  OBVIOUS
<1>2. /\ DOMAIN u = 1..(Len(s) + Len(t)) /\ DOMAIN s = 1..Len(s) /\ DOMAIN t = 1..Len(t)
      /\ Len(s) \in Nat /\ Len(t) \in Nat
  BY <1>1
<1> HIDE DEF u
<1>3. \A j \in DOMAIN u : u[j] \in Elems(s) \cup Elems(t)
  <2> TAKE j \in DOMAIN u
  <2>1. CASE j <= Len(s)
    BY <1>1, <1>2, <2>1 DEF Elems
  <2>2. CASE ~(j <= Len(s))
    <3>1. j - Len(s) \in DOMAIN t /\ u[j] = t[j - Len(s)]
      BY <1>1, <1>2, <2>2
    <3> QED
      BY <3>1 DEF Elems
  <2> QED
    BY <2>1, <2>2
<1>4. \A j \in DOMAIN s : s[j] \in Elems(u)
  BY <1>1, <1>2 DEF Elems
<1>5. \A j \in DOMAIN t : t[j] \in Elems(u)
  <2> TAKE j \in DOMAIN t
  <2>1. Len(s) + j \in DOMAIN u /\ u[Len(s) + j] = t[j]
    BY <1>1, <1>2
  <2> QED
    BY <2>1 DEF Elems
<1> QED
  BY <1>1, <1>2, <1>3, <1>4, <1>5 DEF Elems, u

\* The client's messages become fewer, and the server is any that fits them.
LEMMA ServerInv ==
    ASSUME NEW P \in Positions, Sound(k, P, {}), NEW Q \in Positions, k.conn # 0, Counts',
           NEW up \in Seq(Messages), Elems(up) \subseteq Elems(k.up), k' = [k EXCEPT !.up = up],
           \A i \in Consumers : k.subs[i].sub # 0 =>
             /\ Q[k.subs[i].sub][k.subs[i].seq] = P[k.subs[i].sub][k.subs[i].seq]
             /\ \A d \in srv'.subs : k.subs[i].sub = d.sub => k.subs[i].seq <= d.seq,
           \A q \in Asking(k) : \A f \in Elems(srv'.down) :
             f.type = "subscribed" /\ f.id = q.id => Q[f.sub][0] = k.subs[q.s].cursor,
           ServerFits(Q)'
    PROVE  StreamInv'
<1>1. /\ k \in StreamState /\ Linked(k) /\ Asked(k) /\ Attached(k) /\ OneConnect(k)
      /\ WellFormed(k) /\ Resumes(k, P) /\ Positioned(k)
      /\ (\A i \in Consumers : Settled(k, P, i)) /\ \A j \in Consumers : Agree(k, j)
  BY DEF Sound, Base
<1>2. /\ k' \in StreamState /\ k'.up = up
      /\ k'.run = k.run /\ k'.conn = k.conn /\ k'.connecting = k.connecting /\ k'.at = k.at
      /\ k'.subs = k.subs /\ k'.cons = k.cons /\ k'.pending = k.pending
      /\ k'.fetches = k.fetches
  BY <1>1 DEF StreamState
<1>3. Asking(k)' = Asking(k) /\ (\A j : Current(k, j)' <=> Current(k, j)) /\ Elems(k.up)' = Elems(up)
  BY <1>2 DEF Asking, Current, Elems
<1>4. Linked(k)'
  BY <1>1, <1>2, <1>3 DEF Linked
<1>5. Asked(k)' /\ Attached(k)'
  BY <1>1, <1>2, <1>3 DEF Asked, Attached
<1>6. OneConnect(k)'
  BY <1>1, <1>2 DEF OneConnect
<1>7. WellFormed(k)'
  BY <1>1, <1>2, <1>3 DEF WellFormed
<1>8. Resumes(k, Q)'
  <2>1. Elems(srv.down)' = Elems(srv'.down)
    BY DEF Elems
  <2>2. \A q \in Asking(k) : \A m \in Elems(up) :
          m.op = "subscribe" /\ m.id = q.id => m.cursor = k.subs[q.s].cursor
    BY <1>1 DEF Resumes
  <2> QED
    BY <1>2, <1>3, <2>1, <2>2 DEF Resumes
<1>9. Positioned(k)'
  BY <1>1, <1>2 DEF Positioned
<1>10. \A i \in Consumers : Settled(k, Q, i)'
  <2> TAKE i \in Consumers
  <2>1. Settled(k, P, i) /\ k'.subs[i] = k.subs[i]
    BY <1>1, <1>2
  <2> QED
    BY <2>1 DEF Settled
<1>11. \A j \in Consumers : Agree(k, j)'
  BY <1>1, <1>2 DEF Agree
<1>12. Sound(k, Q, {})'
  BY <1>2, <1>4, <1>5, <1>6, <1>7, <1>8, <1>9, <1>10, <1>11 DEF Sound, Base
<1> QED
  BY <1>12 DEF StreamInv

\* The server's subscriptions become fewer, and its new frames begin none.
LEMMA FewerInv ==
    ASSUME NEW P \in Positions, Sound(k, P, {}), ServerFits(P), k.conn # 0, Counts',
           NEW up \in Seq(Messages), Elems(up) \subseteq Elems(k.up), k' = [k EXCEPT !.up = up],
           srv' \in [subs : SUBSET ServerSubs, down : Seq(Frames)], srv'.subs \subseteq srv.subs,
           Len(srv'.down) <= MaxWire + 1, Elems(srv.down) \subseteq Elems(srv'.down),
           \A f \in Elems(srv'.down) :
             f \in Elems(srv.down) \/ (f.type # "subscribed" /\ FrameFits(f, P)'),
           \A d \in srv'.subs : \A m \in Elems(k.up) :
             m.op = "unsubscribe" /\ m.sub = d.sub => m \in Elems(up)
    PROVE  StreamInv'
<1>1. \A i \in Consumers : k.subs[i].sub # 0 =>
        /\ P[k.subs[i].sub][k.subs[i].seq] = P[k.subs[i].sub][k.subs[i].seq]
        /\ \A d \in srv'.subs : k.subs[i].sub = d.sub => k.subs[i].seq <= d.seq
  BY DEF Sound, Base, Positioned
<1>2. \A q \in Asking(k) : \A f \in Elems(srv'.down) :
        f.type = "subscribed" /\ f.id = q.id => P[f.sub][0] = k.subs[q.s].cursor
  BY DEF Sound, Base, Resumes
<1>3. Elems(srv.down)' = Elems(srv'.down)
  BY DEF Elems
<1>4. k'.up = up /\ k'.conn = k.conn /\ k'.at = k.at /\ k'.subs = k.subs
  BY DEF Sound, Base, StreamState
<1>5. \A f \in Elems(srv'.down) : FrameFits(f, P)'
  <2> TAKE f \in Elems(srv'.down)
  <2>1. CASE f \in Elems(srv.down)
    <3>1. FrameFits(f, P)
      BY <2>1 DEF ServerFits
    <3> QED
      BY <3>1 DEF FrameFits
  <2> QED
    BY <2>1
<1>6. \A d \in srv'.subs : Held(d)'
  <2> TAKE d \in srv'.subs
  <2>1. Held(d)
    BY DEF ServerFits
  <2>2. CASE BySub(k, d.sub) # {}
    <3>1. BySub(k, d.sub)' = BySub(k, d.sub)
      BY <1>4 DEF BySub
    <3> QED
      BY <2>2, <3>1 DEF Held, Owned
  <2>3. CASE \E m \in Elems(k.up) : m.op = "unsubscribe" /\ m.sub = d.sub
    <3>1. \E m \in Elems(k.up)' : m.op = "unsubscribe" /\ m.sub = d.sub
      <4>1. Elems(k.up)' = Elems(up)
        BY <1>4 DEF Elems
      <4> QED
        BY <2>3, <4>1
    <3> QED
      BY <3>1 DEF Held, Owned
  <2>4. CASE \E f \in Elems(srv.down) : f.type = "subscribed" /\ f.sub = d.sub
    BY <1>3, <2>4 DEF Held
  <2> QED
    BY <2>1, <2>2, <2>3, <2>4 DEF Held, Owned
<1>7. ServerFits(P)'
  <2>1. \A d, e \in srv'.subs : d.sub = e.sub => d = e
    BY DEF ServerFits
  <2>2. \A d \in srv'.subs : d.phase = "live" => d.pos # None /\ P[d.sub][d.seq] = d.pos
    BY DEF ServerFits
  <2> QED
    BY <1>3, <1>4, <1>5, <1>6, <2>1, <2>2 DEF ServerFits
<1> QED
  BY <1>1, <1>2, <1>7, ServerInv

LEMMA ChangesInv ==
    ASSUME StreamInv, NEW a \in Accounts, Changes(a)
    PROVE  StreamInv'
<1>1. PICK P \in Positions : Sound(k, P, {}) /\ ServerFits(P)
  BY DEF StreamInv
<1>2. Counts'
  BY StreamAssumptions DEF StreamInv, Counts, Changes
<1>3. k' = k /\ srv' = srv
  BY DEF Changes
<1>4. \A d \in srv.subs : Held(d)'
  <2> TAKE d \in srv.subs
  <2>1. Held(d)
    BY <1>1 DEF ServerFits
  <2> QED
    BY <1>3, <2>1 DEF Held, Owned, BySub, Elems
<1>5. /\ srv' \in [subs : SUBSET ServerSubs, down : Seq(Frames)] /\ srv'.subs = srv.subs
      /\ Elems(srv'.down) \subseteq Elems(srv.down) /\ Len(srv'.down) <= MaxWire + 1
      /\ k.conn = 0 => srv' = NoServer
  BY <1>1, <1>3 DEF ServerFits
<1> QED
  BY <1>1, <1>2, <1>3, <1>4, <1>5, LaterInv

\* A frame outside a stream is added; with "ended" its subscription goes.
LEMMA NoticesInv ==
    ASSUME StreamInv, ServerNotices
    PROVE  StreamInv'
<1>1. PICK P \in Positions : Sound(k, P, {}) /\ ServerFits(P)
  BY DEF StreamInv
<1>2. Counts'
  BY CountsIs DEF StreamInv, ServerNotices
<1>3. k.conn # 0 /\ k' = k /\ Len(srv.down) < MaxWire
  BY DEF ServerNotices, Wire
<1>4. /\ srv \in [subs : SUBSET ServerSubs, down : Seq(Frames)] /\ srv.down \in Seq(Frames)
      /\ srv.subs \subseteq ServerSubs /\ k \in StreamState
  BY <1>1 DEF ServerFits, Sound, Base
<1>5. ASSUME NEW f \in Frames, NEW D \in SUBSET srv.subs, f.type # "subscribed",
             srv' = [subs |-> D, down |-> Append(srv.down, f)], FrameFits(f, P)'
      PROVE  StreamInv'
  <2>1. /\ Append(srv.down, f) \in Seq(Frames)
        /\ Elems(Append(srv.down, f)) = Elems(srv.down) \cup {f}
    BY <1>4, AppendElems
  <2>2. Len(Append(srv.down, f)) <= MaxWire + 1
    BY <1>3, <1>4, StreamAssumptions
  <2>3. srv'.subs = D /\ srv'.down = Append(srv.down, f)
    BY <1>5
  <2>4. srv' \in [subs : SUBSET ServerSubs, down : Seq(Frames)]
    BY <1>4, <1>5, <2>1
  <2>5. \A g \in Elems(srv'.down) :
          g \in Elems(srv.down) \/ (g.type # "subscribed" /\ FrameFits(g, P)')
    BY <1>5, <2>1, <2>3
  <2>6. k.up \in Seq(Messages) /\ k' = [k EXCEPT !.up = k.up]
    BY <1>3, <1>4 DEF StreamState
  <2>7. Elems(srv.down) \subseteq Elems(srv'.down) /\ srv'.subs \subseteq srv.subs
        /\ Len(srv'.down) <= MaxWire + 1
    BY <2>1, <2>2, <2>3
  <2> QED
    BY <1>1, <1>2, <1>3, <2>4, <2>5, <2>6, <2>7, FewerInv
<1>6. ASSUME NEW type \in {"token", "garbage"},
             srv' = [srv EXCEPT !.down = Append(@, Reply(type, 0, 0))]
      PROVE  StreamInv'
  <2> DEFINE f == Reply(type, 0, 0)
  <2>1. f \in Frames /\ f.type = type /\ f.seq = 0 /\ f.sub = 0
    BY StreamAssumptions DEF Reply, Frame, Frames, ReplyTypes, Ids
  <2>2. srv' = [subs |-> srv.subs, down |-> Append(srv.down, f)]
    BY <1>4, <1>6
  <2> HIDE DEF f
  <2>3. FrameFits(f, P)'
    <3>1. \A d \in srv'.subs : 0 <= d.seq
      BY <1>4, <2>2 DEF ServerSubs
    <3>2. f.type \notin DataTypes
      BY <2>1 DEF DataTypes
    <3> QED
      BY <2>1, <3>1, <3>2 DEF FrameFits, DataTypes
  <2> QED
    BY <1>5, <2>1, <2>2, <2>3
<1>7. ASSUME NEW d \in srv.subs, srv' = [srv EXCEPT !.down = Append(@, Reply("expiring", 0, d.sub))]
      PROVE  StreamInv'
  <2> DEFINE f == Reply("expiring", 0, d.sub)
  <2>1. f \in Frames /\ f.type = "expiring" /\ f.seq = 0
    BY <1>4, StreamAssumptions DEF Reply, Frame, Frames, ReplyTypes, Ids, ServerSubs
  <2>2. srv' = [subs |-> srv.subs, down |-> Append(srv.down, f)]
    BY <1>4, <1>7
  <2> HIDE DEF f
  <2>3. FrameFits(f, P)'
    <3>1. \A e \in srv'.subs : 0 <= e.seq
      BY <1>4, <2>2 DEF ServerSubs
    <3> QED
      BY <2>1, <3>1 DEF FrameFits, DataTypes
  <2> QED
    BY <1>5, <2>1, <2>2, <2>3
<1>8. ASSUME NEW d \in srv.subs,
             srv' = [subs |-> srv.subs \ {d}, down |-> Append(srv.down, Reply("ended", 0, d.sub))]
      PROVE  StreamInv'
  <2> DEFINE f == Reply("ended", 0, d.sub)
  <2>1. f \in Frames /\ f.type = "ended" /\ f.seq = 0 /\ f.sub = d.sub /\ f.sub # 0
    BY <1>4, StreamAssumptions DEF Reply, Frame, Frames, ReplyTypes, Ids, ServerSubs
  <2>2. srv' = [subs |-> srv.subs \ {d}, down |-> Append(srv.down, f)]
    BY <1>8
  <2> HIDE DEF f
  <2>3. FrameFits(f, P)'
    <3>1. srv'.subs = srv.subs \ {d}
      BY <2>2
    <3>2. \A e \in srv'.subs : 0 <= e.seq /\ e.sub # d.sub
      BY <1>1, <1>4, <3>1 DEF ServerSubs, ServerFits
    <3> QED
      BY <2>1, <3>2 DEF FrameFits, DataTypes
  <2> QED
    BY <1>5, <2>1, <2>2, <2>3
<1> QED
  BY <1>6, <1>7, <1>8 DEF ServerNotices

LEMMA StreamIs ==
    ASSUME NEW d \in ServerSubs, NEW phase \in {"resync", "begin", "end", "live"},
           NEW type \in DataTypes, NEW val \in 0..MaxLog
    PROVE  LET out == Stream(d, phase, type, val) IN
           /\ out[1] \in ServerSubs /\ out[1].sub = d.sub /\ out[1].seq = d.seq + 1
           /\ out[1].phase = phase /\ out[1].pos = d.pos
           /\ out[2] \in Frames /\ out[2].type = type /\ out[2].sub = d.sub
           /\ out[2].seq = d.seq + 1 /\ out[2].val = val
<1> DEFINE e == [d EXCEPT !.seq = d.seq + 1, !.phase = phase]
           f == Frame(type, 0, d.sub, d.seq + 1, val)
<1>1. /\ e \in ServerSubs /\ e.sub = d.sub /\ e.seq = d.seq + 1 /\ e.phase = phase
      /\ e.pos = d.pos
  <2>1. d.seq + 1 \in Nat
    BY DEF ServerSubs
  <2>2. e \in ServerSubs
    BY <2>1 DEF ServerSubs
  <2> QED
    BY <2>2 DEF ServerSubs
<1>2. d.sub \in Ids /\ d.seq + 1 \in Nat /\ 0 \in Ids
  BY StreamAssumptions DEF ServerSubs, Ids
<1>3. /\ f \in Frames /\ f.type = type /\ f.sub = d.sub /\ f.seq = d.seq + 1 /\ f.val = val
  BY <1>2 DEF Frame, Frames
<1>4. Stream(d, phase, type, val) = <<e, f>>
  BY DEF Stream
<1> HIDE DEF e, f
<1> QED
  BY <1>1, <1>3, <1>4

\* The frames of a stream: where they begin and where they leave it.
LEMMA StreamsAre ==
    ASSUME log \in [Accounts -> 0..MaxLog], NEW d \in ServerSubs,
           d.phase = "live" => d.pos # None, NEW out \in Streams(d)
    PROVE  LET e == out[1]
               f == out[2]
           IN /\ e \in ServerSubs /\ e.sub = d.sub /\ e.seq = d.seq + 1
              /\ f \in Frames /\ f.type \in DataTypes /\ f.sub = d.sub /\ f.seq = d.seq + 1
              /\ f.type \in {"unit", "covered"} =>
                   /\ d.phase = "live" /\ f.val # 0 /\ d.pos = f.val - 1
                   /\ f.type = "unit" <=> f.val \notin Unseen
              /\ e.phase = "live" =>
                   /\ e.pos # None
                   /\ \/ e.pos = f.val /\ f.type \in {"end", "short", "unit", "covered"}
                      \/ /\ d.phase = "live" /\ e.pos = d.pos
                         /\ f.type \in {"available", "unavailable", "ready"}
              /\ e.phase # "live" => f.type \in {"resync", "begin"}
<1> DEFINE e == out[1]
           f == out[2]
           n == log[d.a]
<1>1. n \in 0..MaxLog /\ 0 \in 0..MaxLog /\ MaxLog \in Nat /\ d.pos \in Cursors
      /\ d.phase \in {"resync", "begin", "end", "live"} /\ d.ready \in BOOLEAN /\ d.behind \in BOOLEAN
  BY StreamAssumptions DEF ServerSubs
<1>2. CASE d.phase = "resync"
  <2>1. out = Stream(d, "begin", "resync", 0)
    BY <1>2 DEF Streams
  <2>2. "resync" \in DataTypes
    BY DEF DataTypes
  <2> QED
    BY <1>1, <2>1, <2>2, StreamIs
<1>3. CASE d.phase = "begin"
  <2>1. out = Stream(d, "end", "begin", 0)
    BY <1>3 DEF Streams
  <2>2. "begin" \in DataTypes
    BY DEF DataTypes
  <2> QED
    BY <1>1, <2>1, <2>2, StreamIs
<1>4. CASE d.phase = "end"
  <2> DEFINE d1 == [d EXCEPT !.pos = n]
  <2>1. PICK type \in {"end", "short"} : out = Stream(d1, "live", type, n)
    BY <1>4 DEF Streams
  <2>2. d1 \in ServerSubs /\ d1.sub = d.sub /\ d1.seq = d.seq /\ d1.pos = n
    BY <1>1 DEF ServerSubs, Cursors
  <2>3. type \in DataTypes
    BY DEF DataTypes
  <2> HIDE DEF d1, n
  <2>4. /\ e \in ServerSubs /\ e.sub = d.sub /\ e.seq = d.seq + 1 /\ e.phase = "live"
        /\ e.pos = n /\ f \in Frames /\ f.type = type /\ f.sub = d.sub
        /\ f.seq = d.seq + 1 /\ f.val = n
    BY <1>1, <2>1, <2>2, <2>3, StreamIs, SMTT(30)
  <2> HIDE DEF e, f
  <2>5. n # None
    BY <1>1 DEF None
  <2> QED
    BY <2>3, <2>4, <2>5 DEF e, f
<1>5. CASE d.phase = "live" /\ d.behind
  <2> DEFINE d1 == [d EXCEPT !.behind = FALSE]
  <2>1. out = Stream(d1, "live", "available", 0)
    BY <1>5 DEF Streams
  <2>2. d1 \in ServerSubs /\ d1.sub = d.sub /\ d1.seq = d.seq /\ d1.pos = d.pos
    BY DEF ServerSubs
  <2>3. "available" \in DataTypes
    BY DEF DataTypes
  <2> HIDE DEF d1
  <2>4. /\ e \in ServerSubs /\ e.sub = d.sub /\ e.seq = d.seq + 1 /\ e.phase = "live"
        /\ e.pos = d.pos /\ f \in Frames /\ f.type = "available" /\ f.sub = d.sub
        /\ f.seq = d.seq + 1
    BY <1>1, <2>1, <2>2, <2>3, StreamIs
  <2> HIDE DEF e, f
  <2> QED
    BY <1>5, <2>3, <2>4 DEF e, f
<1>6. CASE d.phase = "live" /\ ~d.behind /\ d.pos < n
  <2> DEFINE d1 == [d EXCEPT !.pos = d.pos + 1]
             type == IF d.pos + 1 \in Unseen THEN "covered" ELSE "unit"
  <2>1. out = Stream(d1, "live", type, d.pos + 1)
    BY <1>6 DEF Streams
  <2>2. d.pos \in Nat /\ d.pos + 1 \in 0..MaxLog /\ d.pos + 1 # 0 /\ d.pos + 1 # None
        /\ d.pos = (d.pos + 1) - 1
    BY <1>1, <1>6 DEF Cursors, None
  <2>3. d1 \in ServerSubs /\ d1.sub = d.sub /\ d1.seq = d.seq /\ d1.pos = d.pos + 1
    BY <2>2 DEF ServerSubs, Cursors
  <2>4. type \in DataTypes /\ type \in {"unit", "covered"}
        /\ (type = "unit" <=> d.pos + 1 \notin Unseen)
    BY DEF DataTypes
  <2> HIDE DEF d1, type
  <2>5. /\ e \in ServerSubs /\ e.sub = d.sub /\ e.seq = d.seq + 1 /\ e.phase = "live"
        /\ e.pos = d.pos + 1 /\ f \in Frames /\ f.type = type /\ f.sub = d.sub
        /\ f.seq = d.seq + 1 /\ f.val = d.pos + 1
    BY <1>1, <2>1, <2>2, <2>3, <2>4, StreamIs
  <2> HIDE DEF e, f
  <2> QED
    BY <1>6, <2>2, <2>4, <2>5 DEF e, f
<1>7. CASE d.phase = "live" /\ ~d.behind /\ ~(d.pos < n)
  <2>1. PICK d1 \in {[d EXCEPT !.ready = TRUE], [d EXCEPT !.behind = TRUE]},
             type \in {"ready", "unavailable"} : out = Stream(d1, "live", type, 0)
    BY <1>7 DEF Streams
  <2>2. d1 \in ServerSubs /\ d1.sub = d.sub /\ d1.seq = d.seq /\ d1.pos = d.pos
    BY DEF ServerSubs
  <2>3. type \in DataTypes
    BY DEF DataTypes
  <2>4. /\ e \in ServerSubs /\ e.sub = d.sub /\ e.seq = d.seq + 1 /\ e.phase = "live"
        /\ e.pos = d.pos /\ f \in Frames /\ f.type = type /\ f.sub = d.sub
        /\ f.seq = d.seq + 1
    BY <1>1, <2>1, <2>2, <2>3, StreamIs
  <2> HIDE DEF e, f
  <2> QED
    BY <1>7, <2>3, <2>4 DEF e, f
<1> QED
  BY <1>1, <1>2, <1>3, <1>4, <1>5, <1>6, <1>7

\* A server subscription goes on: the frame is sent, once or twice, or lost.
LEMMA ServerStreamsInv ==
    ASSUME StreamInv, NEW d \in srv.subs, ServerStreams(d)
    PROVE  StreamInv'
<1>1. PICK P \in Positions : Sound(k, P, {}) /\ ServerFits(P)
  BY DEF StreamInv
<1>2. Counts'
  BY CountsIs DEF StreamInv, ServerStreams
<1>3. k' = k /\ Len(srv.down) < MaxWire
  BY DEF ServerStreams, Wire
<1>4. /\ srv \in [subs : SUBSET ServerSubs, down : Seq(Frames)] /\ srv.down \in Seq(Frames)
      /\ srv.subs \subseteq ServerSubs /\ d \in ServerSubs /\ k \in StreamState
      /\ k.conn # 0
  BY <1>1 DEF ServerFits, Sound, Base, NoServer
<1>5. PICK out, e, f, n :
        /\ out \in Streams(d) /\ e = out[1] /\ f = out[2]
        /\ n \in {<<>>, <<f>>, <<f, f>>}
        /\ srv' = [subs |-> (srv.subs \ {d}) \cup {e}, down |-> srv.down \o n]
  <2>1. PICK out \in Streams(d) :
          \/ srv' = [subs |-> (srv.subs \ {d}) \cup {out[1]}, down |-> Append(srv.down, out[2])]
          \/ srv' = [srv EXCEPT !.subs = (srv.subs \ {d}) \cup {out[1]}]
          \/ srv' = [subs |-> (srv.subs \ {d}) \cup {out[1]},
                     down |-> srv.down \o <<out[2], out[2]>>]
    BY DEF ServerStreams
  <2>2. srv.down \o <<>> = srv.down /\ Append(srv.down, out[2]) = srv.down \o <<out[2]>>
    BY <1>4
  <2>3. \A D : [srv EXCEPT !.subs = D] = [subs |-> D, down |-> srv.down]
    BY <1>4
  <2>4. \E n : /\ n \in {<<>>, <<out[2]>>, <<out[2], out[2]>>}
              /\ srv' = [subs |-> (srv.subs \ {d}) \cup {out[1]}, down |-> srv.down \o n]
    BY <2>1, <2>2, <2>3
  <2> QED
    BY <2>4
<1>6. d.phase = "live" => d.pos # None /\ P[d.sub][d.seq] = d.pos
  BY <1>1 DEF ServerFits
<1>7. /\ e \in ServerSubs /\ e.sub = d.sub /\ e.seq = d.seq + 1
      /\ f \in Frames /\ f.type \in DataTypes /\ f.sub = d.sub /\ f.seq = d.seq + 1
      /\ f.type \in {"unit", "covered"} =>
           /\ d.phase = "live" /\ f.val # 0 /\ d.pos = f.val - 1
           /\ f.type = "unit" <=> f.val \notin Unseen
      /\ e.phase = "live" =>
           /\ e.pos # None
           /\ \/ e.pos = f.val /\ f.type \in {"end", "short", "unit", "covered"}
              \/ /\ d.phase = "live" /\ e.pos = d.pos
                 /\ f.type \in {"available", "unavailable", "ready"}
      /\ e.phase # "live" => f.type \in {"resync", "begin"}
  <2>1. log \in [Accounts -> 0..MaxLog]
    BY DEF StreamInv, Counts
  <2> QED
    BY <1>4, <1>5, <1>6, <2>1, StreamsAre
<1>8. d.sub \in Ids \ {0} /\ d.seq \in Nat /\ d.seq + 1 # 0
  BY <1>4, StreamAssumptions DEF ServerSubs, Ids
<1>9. PICK v : v = IF f.type \in {"end", "short", "unit", "covered"} THEN f.val
                   ELSE P[d.sub][d.seq]
  OBVIOUS
<1>10. PICK Q \in Positions :
         /\ Q[d.sub][d.seq + 1] = v
         /\ \A s \in Ids, j \in Nat : s # d.sub \/ j # d.seq + 1 => Q[s][j] = P[s][j]
  <2> DEFINE Q == [P EXCEPT ![d.sub][d.seq + 1] = v]
  <2>1. v \in Cursors
    BY <1>7, <1>8, <1>9 DEF Positions, Frames, Cursors
  <2>2. /\ Q \in Positions /\ Q[d.sub][d.seq + 1] = v
        /\ \A s \in Ids, j \in Nat : s # d.sub \/ j # d.seq + 1 => Q[s][j] = P[s][j]
    BY <1>8, <2>1 DEF Positions
  <2> QED
    BY <2>2
<1>11. /\ srv'.subs = (srv.subs \ {d}) \cup {e} /\ srv'.down = srv.down \o n
       /\ n \in Seq(Frames) /\ Elems(n) \subseteq {f} /\ Len(n) <= 2 /\ Len(n) \in Nat
  <2>1. /\ srv'.subs = (srv.subs \ {d}) \cup {e} /\ srv'.down = srv.down \o n
        /\ n \in {<<>>, <<f>>, <<f, f>>}
    BY <1>5
  <2>2. n \in Seq(Frames) /\ Len(n) <= 2 /\ Len(n) \in Nat /\ \A j \in DOMAIN n : n[j] = f
    <3>1. f \in Frames
      BY <1>7
    <3>2. CASE n = <<>>
      BY <3>2
    <3>3. CASE n = <<f>>
      BY <3>1, <3>3
    <3>4. CASE n = <<f, f>>
      BY <3>1, <3>4
    <3> QED
      BY <2>1, <3>2, <3>3, <3>4
  <2> QED
    BY <2>1, <2>2 DEF Elems
<1>12. /\ srv.down \o n \in Seq(Frames) /\ Elems(srv.down \o n) = Elems(srv.down) \cup Elems(n)
       /\ Len(srv.down \o n) <= MaxWire + 1
  <2>1. Len(srv.down \o n) = Len(srv.down) + Len(n) /\ Len(srv.down) \in Nat
    BY <1>4, <1>11
  <2>2. Len(srv.down \o n) <= MaxWire + 1
    BY <1>3, <1>11, <2>1, StreamAssumptions
  <2> QED
    BY <1>4, <1>11, <2>2, JoinedElems
<1>13. \A i \in Consumers : k.subs[i].sub # 0 =>
         /\ Q[k.subs[i].sub][k.subs[i].seq] = P[k.subs[i].sub][k.subs[i].seq]
         /\ \A g \in srv'.subs : k.subs[i].sub = g.sub => k.subs[i].seq <= g.seq
  <2> TAKE i \in Consumers
  <2> HAVE k.subs[i].sub # 0
  <2>1. k.subs[i].sub \in Ids /\ k.subs[i].seq \in Nat
    BY <1>4 DEF StreamState, SubRecord
  <2>2. \A g \in srv.subs : k.subs[i].sub = g.sub => k.subs[i].seq <= g.seq
    BY <1>1 DEF Sound, Base, Positioned
  <2>3. k.subs[i].sub = d.sub => k.subs[i].seq # d.seq + 1 /\ k.subs[i].seq <= d.seq + 1
    BY <1>8, <2>1, <2>2
  <2> QED
    BY <1>7, <1>10, <1>11, <2>1, <2>2, <2>3
<1>14. \A q \in Asking(k) : \A g \in Elems(srv'.down) :
         g.type = "subscribed" /\ g.id = q.id => Q[g.sub][0] = k.subs[q.s].cursor
  <2>1. \A g \in Elems(srv'.down) : g.type = "subscribed" =>
          g \in Elems(srv.down) /\ Q[g.sub][0] = P[g.sub][0]
    <3> TAKE g \in Elems(srv'.down)
    <3> HAVE g.type = "subscribed"
    <3>1. g # f
      BY <1>7 DEF DataTypes
    <3>2. g \in Elems(srv.down)
      BY <1>11, <1>12, <3>1
    <3>3. Elems(srv.down) \subseteq Frames
      BY <1>4 DEF Elems
    <3>4. g.sub \in Ids /\ 0 \in Nat
      BY <3>2, <3>3 DEF Frames
    <3> QED
      BY <1>8, <1>10, <3>2, <3>4
  <2>2. Resumes(k, P)
    BY <1>1 DEF Sound, Base
  <2> QED
    BY <2>1, <2>2 DEF Resumes
<1>15. \A g \in Elems(srv.down) : FrameFits(g, Q)'
  <2> TAKE g \in Elems(srv.down)
  <2>1. FrameFits(g, P) /\ g \in Frames
    BY <1>1, <1>4 DEF ServerFits, Elems
  <2>2. g.sub \in Ids /\ g.seq \in Nat
    BY <2>1 DEF Frames
  <2>3. g.sub = d.sub => g.seq <= d.seq
    BY <2>1 DEF FrameFits
  <2>4. Q[g.sub][g.seq] = P[g.sub][g.seq]
    BY <1>8, <1>10, <2>2, <2>3
  <2>5. g.seq # 0 => Q[g.sub][g.seq - 1] = P[g.sub][g.seq - 1]
    BY <1>8, <1>10, <2>2, <2>3
  <2>6. \A h \in srv'.subs : g.sub = h.sub => g.seq <= h.seq
    <3>1. \A h \in srv.subs : g.sub = h.sub => g.seq <= h.seq
      BY <2>1 DEF FrameFits
    <3>2. g.sub = e.sub => g.seq <= e.seq
      BY <1>7, <1>8, <2>2, <2>3
    <3> QED
      BY <1>11, <3>1, <3>2
  <2>7. (\A h \in srv.subs : h.sub # g.sub) => \A h \in srv'.subs : h.sub # g.sub
    BY <1>7, <1>11
  <2>8. g.type \in DataTypes => g.seq # 0
    BY <2>1 DEF FrameFits
  <2> QED
    BY <2>1, <2>4, <2>5, <2>6, <2>7, <2>8 DEF FrameFits, DataTypes
<1>16. FrameFits(f, Q)'
  <2>1. f.seq - 1 = d.seq /\ Q[d.sub][d.seq] = P[d.sub][d.seq] /\ Q[f.sub][f.seq] = v
    BY <1>7, <1>8, <1>10
  <2>2. Q[f.sub][f.seq - 1] = P[d.sub][d.seq]
    BY <1>7, <2>1
  <2>3. f.type \in {"end", "unit", "covered"} => v = f.val
    BY <1>9
  <2>4. f.type \in {"resync", "begin", "ready", "unavailable", "available"} =>
          v = P[d.sub][d.seq]
    BY <1>9
  <2>5. \A h \in srv'.subs : f.sub = h.sub => f.seq <= h.seq
    <3>1. \A h \in srv'.subs : h = e \/ h.sub # d.sub
      BY <1>1, <1>11 DEF ServerFits
    <3> QED
      BY <1>7, <1>8, <3>1
  <2>6. f.type \notin ReplyTypes
    BY <1>7 DEF DataTypes, ReplyTypes
  <2>7. f.seq # 0 /\ f.sub # 0
    BY <1>7, <1>8
  <2>8. f.type \in {"unit", "covered"} => P[d.sub][d.seq] = f.val - 1
    BY <1>6, <1>7
  <2> QED
    BY <1>7, <2>1, <2>2, <2>3, <2>4, <2>5, <2>6, <2>7, <2>8 DEF FrameFits, ReplyTypes
<1>17. \A h \in srv'.subs :
         /\ h.phase = "live" => h.pos # None /\ Q[h.sub][h.seq] = h.pos
         /\ Held(h)'
  <2> TAKE h \in srv'.subs
  <2>1. \A g \in srv.subs : Held(g) => \A b : b.sub = g.sub => Held(b)'
    <3> TAKE g \in srv.subs
    <3> HAVE Held(g)
    <3> TAKE b
    <3> HAVE b.sub = g.sub
    <3>1. (\A s : BySub(k, s)' = BySub(k, s)) /\ Elems(k.up)' = Elems(k.up)
      BY <1>3 DEF BySub, Elems
    <3>2. Elems(srv.down) \subseteq Elems(srv.down)'
      <4>1. Elems(srv.down)' = Elems(srv'.down)
        BY DEF Elems
      <4>2. srv'.down = srv.down \o n
        BY <1>11
      <4> QED
        BY <1>12, <4>1, <4>2
    <3> QED
      BY <3>1, <3>2 DEF Held, Owned
  <2>2. CASE h = e
    <3>1. Held(h)'
      <4>1. Held(d)
        BY <1>1 DEF ServerFits
      <4> QED
        BY <1>7, <2>1, <2>2, <4>1
    <3>2. ASSUME h.phase = "live" PROVE h.pos # None /\ Q[h.sub][h.seq] = h.pos
      <4>1. Q[h.sub][h.seq] = v
        BY <1>7, <1>10, <2>2
      <4>2. CASE e.pos = f.val /\ f.type \in {"end", "short", "unit", "covered"}
        BY <1>7, <1>9, <2>2, <3>2, <4>1, <4>2
      <4>3. CASE /\ d.phase = "live" /\ e.pos = d.pos
                 /\ f.type \in {"available", "unavailable", "ready"}
        <5>1. v = P[d.sub][d.seq]
          BY <1>9, <4>3
        <5> QED
          BY <1>6, <1>7, <2>2, <3>2, <4>1, <4>3, <5>1
      <4> QED
        BY <1>7, <2>2, <3>2, <4>2, <4>3
    <3> QED
      BY <3>1, <3>2
  <2>3. CASE h # e
    <3>1. h \in srv.subs /\ h # d
      BY <1>11, <2>3
    <3>2. h.sub # d.sub /\ h.sub \in Ids /\ h.seq \in Nat /\ Held(h)
          /\ (h.phase = "live" => h.pos # None /\ P[h.sub][h.seq] = h.pos)
      BY <1>1, <1>4, <3>1 DEF ServerFits, ServerSubs, Ids
    <3> QED
      BY <1>10, <2>1, <3>1, <3>2
  <2> QED
    BY <2>2, <2>3
<1>18. \A g, h \in srv'.subs : g.sub = h.sub => g = h
  <2>1. \A g, h \in srv.subs : g.sub = h.sub => g = h
    BY <1>1 DEF ServerFits
  <2> QED
    BY <1>7, <1>11, <2>1
<1>19. ServerFits(Q)'
  <2>1. srv' \in [subs : SUBSET ServerSubs, down : Seq(Frames)] /\ Len(srv'.down) <= MaxWire + 1
    <3>1. (srv.subs \ {d}) \cup {e} \in SUBSET ServerSubs
      BY <1>4, <1>7
    <3> QED
      BY <1>5, <1>11, <1>12, <3>1
  <2>2. Elems(srv.down)' = Elems(srv'.down) /\ k'.conn # 0
    BY <1>3, <1>4 DEF Elems
  <2>3. \A g \in Elems(srv'.down) : FrameFits(g, Q)'
    BY <1>11, <1>12, <1>15, <1>16
  <2> QED
    BY <1>17, <1>18, <2>1, <2>2, <2>3 DEF ServerFits
<1>20. k.up \in Seq(Messages) /\ k' = [k EXCEPT !.up = k.up]
  BY <1>3, <1>4 DEF StreamState
<1> QED
  BY <1>1, <1>2, <1>4, <1>10, <1>13, <1>14, <1>19, <1>20, ServerInv

\* The server takes a message and begins a subscription.
LEMMA BegunInv ==
    ASSUME NEW P \in Positions, Sound(k, P, {}), ServerFits(P), Room, Counts',
           NEW m \in Messages, m \in Elems(k.up), m.op = "subscribe", NEW up \in Seq(Messages),
           Elems(k.up) = Elems(up) \cup {m}, k' = [k EXCEPT !.up = up], k.conn # 0,
           NEW b \in ServerSubs, b.sub = Fresh(MaxIds, SubsInUse), b.seq = 0,
           b.phase = "live" => b.pos # None /\ b.pos = m.cursor, Len(srv.down) < MaxWire,
           srv' = [subs |-> srv.subs \cup {b},
                   down |-> srv.down \o <<Reply("subscribed", m.id, b.sub)>>]
    PROVE  StreamInv'
<1>1. PICK f : f = Reply("subscribed", m.id, b.sub)
  OBVIOUS
<1>2. PICK Q : Q = [P EXCEPT ![b.sub] = [n \in Nat |-> m.cursor]]
  OBVIOUS
<1>3. b.sub \in 1..MaxIds /\ b.sub \notin SubsInUse /\ b.sub \in Ids /\ b.sub # 0
  <2>1. Unused(MaxIds, SubsInUse) # {} /\ MaxIds \in Nat
    BY StreamAssumptions DEF Room
  <2>2. b.sub \in 1..MaxIds /\ b.sub \notin SubsInUse
    BY <2>1, FreshIs
  <2> QED
    BY <2>1, <2>2 DEF Ids
<1>4. m.cursor \in Cursors /\ m.id \in Ids
  BY DEF Messages
<1>5. /\ f \in Frames /\ f.type = "subscribed" /\ f.id = m.id /\ f.sub = b.sub /\ f.seq = 0
  BY <1>1, <1>3, <1>4, StreamAssumptions DEF Reply, Frame, Frames, ReplyTypes
<1>6. /\ Q \in Positions /\ Q[b.sub][0] = m.cursor
      /\ \A s \in Ids : s # b.sub => Q[s] = P[s]
  BY <1>2, <1>3, <1>4 DEF Positions
<1>7. /\ srv \in [subs : SUBSET ServerSubs, down : Seq(Frames)] /\ srv.down \in Seq(Frames)
      /\ srv.subs \subseteq ServerSubs /\ k \in StreamState /\ Elems(srv.down) \subseteq Frames
  BY DEF ServerFits, Sound, Base, Elems
<1>8. /\ srv' \in [subs : SUBSET ServerSubs, down : Seq(Frames)]
      /\ srv'.subs = srv.subs \cup {b} /\ Elems(srv'.down) = Elems(srv.down) \cup {f}
      /\ Len(srv'.down) <= MaxWire + 1
  <2>1. PICK n : n = <<f>>
    OBVIOUS
  <2>2. n \in Seq(Frames) /\ Elems(n) = {f} /\ Len(n) = 1
    BY <1>5, <2>1 DEF Elems
  <2>3. srv' = [subs |-> srv.subs \cup {b}, down |-> srv.down \o n]
    BY <1>1, <2>1
  <2>4. srv.down \in Seq(Frames)
    BY <1>7
  <2>5. /\ srv.down \o n \in Seq(Frames)
        /\ Elems(srv.down \o n) = Elems(srv.down) \cup Elems(n)
        /\ Len(srv.down \o n) = Len(srv.down) + Len(n) /\ Len(srv.down) \in Nat
    <3>1. n \in Seq(Frames)
      BY <2>2
    <3> QED
      BY <2>4, <3>1, JoinedElems
  <2>6. Len(srv.down \o n) <= MaxWire + 1
    BY <2>2, <2>5, StreamAssumptions
  <2>7. srv' \in [subs : SUBSET ServerSubs, down : Seq(Frames)]
    BY <1>7, <2>3, <2>5
  <2> QED
    BY <2>2, <2>3, <2>5, <2>6, <2>7
<1>9. /\ \A i \in Consumers : k.subs[i].sub # b.sub
      /\ \A g \in Elems(srv.down) : g.sub # b.sub
      /\ \A d \in srv.subs : d.sub # b.sub
      /\ \A u \in Elems(k.up) : u.sub # b.sub
  BY <1>3 DEF SubsInUse
<1>10. \A i \in Consumers : k.subs[i].sub # 0 =>
         /\ Q[k.subs[i].sub][k.subs[i].seq] = P[k.subs[i].sub][k.subs[i].seq]
         /\ \A d \in srv'.subs : k.subs[i].sub = d.sub => k.subs[i].seq <= d.seq
  <2> TAKE i \in Consumers
  <2> HAVE k.subs[i].sub # 0
  <2>1. k.subs[i].sub \in Ids
    BY <1>7 DEF StreamState, SubRecord
  <2>2. \A d \in srv.subs : k.subs[i].sub = d.sub => k.subs[i].seq <= d.seq
    BY DEF Sound, Base, Positioned
  <2> QED
    BY <1>6, <1>8, <1>9, <2>1, <2>2
<1>11. \A q \in Asking(k) : \A g \in Elems(srv'.down) :
         g.type = "subscribed" /\ g.id = q.id => Q[g.sub][0] = k.subs[q.s].cursor
  <2>1. \A q \in Asking(k) :
          /\ m.id = q.id => m.cursor = k.subs[q.s].cursor
          /\ \A g \in Elems(srv.down) :
               g.type = "subscribed" /\ g.id = q.id => P[g.sub][0] = k.subs[q.s].cursor
    BY DEF Sound, Base, Resumes
  <2>2. \A g \in Elems(srv.down) : Q[g.sub] = P[g.sub]
    BY <1>6, <1>7, <1>9 DEF Frames
  <2> QED
    BY <1>5, <1>6, <1>8, <2>1, <2>2
<1>12. \A g \in Elems(srv'.down) : FrameFits(g, Q)'
  <2>1. FrameFits(f, Q)'
    <3>1. \A d \in srv'.subs : f.seq <= d.seq
      BY <1>5, <1>7, <1>8 DEF ServerSubs
    <3> QED
      BY <1>3, <1>5, <3>1 DEF FrameFits, DataTypes
  <2>2. \A g \in Elems(srv.down) : FrameFits(g, Q)'
    <3> TAKE g \in Elems(srv.down)
    <3>1. FrameFits(g, P) /\ g \in Frames
      BY <1>7 DEF ServerFits
    <3>2. Q[g.sub] = P[g.sub]
      BY <1>6, <1>9, <3>1 DEF Frames
    <3>3. \A d \in srv'.subs : d \in srv.subs \/ d.sub # g.sub
      BY <1>8, <1>9
    <3> QED
      BY <3>1, <3>2, <3>3 DEF FrameFits
  <2> QED
    BY <1>8, <2>1, <2>2
<1>13. \A d \in srv'.subs :
         /\ d.phase = "live" => d.pos # None /\ Q[d.sub][d.seq] = d.pos
         /\ Held(d)'
  <2>1. k'.up = up /\ k'.at = k.at /\ k'.subs = k.subs
    BY <1>7 DEF StreamState
  <2>2. /\ \A s : BySub(k, s)' = BySub(k, s)
        /\ Elems(k.up)' = Elems(up) /\ Elems(srv.down)' = Elems(srv'.down)
    BY <2>1 DEF BySub, Elems
  <2> TAKE d \in srv'.subs
  <2>3. CASE d = b
    <3>1. f \in Elems(srv.down)' /\ f.type = "subscribed" /\ f.sub = d.sub
      BY <1>5, <1>8, <2>2, <2>3
    <3>2. Held(d)'
      BY <3>1 DEF Held
    <3> QED
      BY <1>6, <2>3, <3>2
  <2>4. CASE d \in srv.subs
    <3>1. Held(d) /\ d \in ServerSubs
      BY <1>7, <2>4 DEF ServerFits
    <3>2. Held(d)'
      <4>1. Elems(srv.down) \subseteq Elems(srv.down)'
        BY <1>8, <2>2
      <4>2. \A u \in Elems(k.up) : u.op = "unsubscribe" => u \in Elems(k.up)'
        BY <2>2
      <4> QED
        BY <2>2, <3>1, <4>1, <4>2 DEF Held, Owned
    <3>3. Q[d.sub] = P[d.sub]
      BY <1>6, <1>9, <2>4, <3>1, StreamAssumptions DEF ServerSubs, Ids
    <3> QED
      BY <2>4, <3>2, <3>3 DEF ServerFits
  <2> QED
    BY <1>8, <2>3, <2>4
<1>14. ServerFits(Q)'
  <2>1. \A d, e \in srv'.subs : d.sub = e.sub => d = e
    <3>1. \A d, e \in srv.subs : d.sub = e.sub => d = e
      BY DEF ServerFits
    <3> QED
      BY <1>8, <1>9, <3>1
  <2>2. srv' \in [subs : SUBSET ServerSubs, down : Seq(Frames)] /\ Len(srv'.down) <= MaxWire + 1
    BY <1>8
  <2>3. Elems(srv.down)' = Elems(srv'.down) /\ k'.conn # 0
    BY <1>7 DEF Elems, StreamState
  <2> QED
    BY <1>12, <1>13, <2>1, <2>2, <2>3 DEF ServerFits
<1>15. Elems(up) \subseteq Elems(k.up)
  OBVIOUS
<1> QED
  BY <1>6, <1>10, <1>11, <1>14, <1>15, ServerInv

LEMMA ServerAnswersInv ==
    ASSUME StreamInv, ServerAnswers
    PROVE  StreamInv'
<1>1. PICK P \in Positions : Sound(k, P, {}) /\ ServerFits(P)
  BY DEF StreamInv
<1>2. PICK m : m = Head(k.up)
  OBVIOUS
<1> DEFINE sub == Fresh(MaxIds, SubsInUse)
           new == NewServerSub(m, sub)
           OfSub(s) == {d \in srv.subs : d.sub = s}
           Begins(b) == Takes(srv.subs \cup {b}, <<Reply("subscribed", m.id, sub)>>)
           Says(type, s) == Takes(srv.subs, <<Reply(type, m.id, s)>>)
<1>3. /\ k.up # <<>> /\ Len(srv.down) < MaxWire /\ Room
      /\ \/ /\ m.op = "subscribe"
            /\ \/ Begins(new)
               \/ m.cursor # None /\ Begins([new EXCEPT !.phase = "resync", !.pos = None])
               \/ Says("cursorInvalid", 0)
               \/ Says("refused", 0)
               \/ Takes(srv.subs, <<>>)
         \/ m.op = "unsubscribe" /\ Takes(srv.subs \ OfSub(m.sub), <<>>)
         \/ /\ m.op = "refresh"
            /\ \/ Says("refreshed", m.sub)
               \/ OfSub(m.sub) = {} /\ Says("unknown", m.sub)
               \/ Says("refused", m.sub)
  BY <1>2 DEF ServerAnswers, Wire
<1>4. Counts'
  <2>1. NoFault \/ \E f : Fault(f)
    BY DEF ServerAnswers
  <2>2. log' = log
    BY <1>3 DEF Takes
  <2> QED
    BY <2>1, <2>2, CountsIs DEF StreamInv
<1>5. /\ k \in StreamState /\ k.up \in Seq(Messages) /\ OneConnect(k) /\ WellFormed(k)
      /\ srv \in [subs : SUBSET ServerSubs, down : Seq(Frames)] /\ srv.down \in Seq(Frames)
      /\ srv.subs \subseteq ServerSubs /\ MaxWire \in Nat
  BY <1>1, StreamAssumptions DEF Sound, Base, StreamState, ServerFits
<1>6. PICK up : up = Tail(k.up)
  OBVIOUS
<1>7. /\ k.conn # 0 /\ up \in Seq(Messages) /\ m \in Elems(k.up)
      /\ Elems(k.up) = Elems(up) \cup {m}
  BY <1>2, <1>3, <1>5, <1>6, TailElems DEF OneConnect
<1>8. m \in Messages
  <2>1. Elems(k.up) \subseteq Messages
    BY <1>5 DEF Elems
  <2> QED
    BY <1>7, <2>1
<1>9. ASSUME NEW ds \in SUBSET srv.subs, NEW n \in Seq(Frames), Takes(ds, n), Len(n) <= 1,
             \A f \in Elems(n) : f.type # "subscribed" /\ FrameFits(f, P)',
             m.op = "unsubscribe" => \A d \in ds : d.sub # m.sub
      PROVE  StreamInv'
  <2>1. k' = [k EXCEPT !.up = up] /\ srv' = [subs |-> ds, down |-> srv.down \o n]
    BY <1>6, <1>9 DEF Takes
  <2>2. srv.down \o n \in Seq(Frames) /\ Elems(srv.down \o n) = Elems(srv.down) \cup Elems(n)
    BY <1>5, <1>9, JoinedElems
  <2>3. Len(srv.down \o n) <= MaxWire + 1
    <3>1. Len(srv.down \o n) = Len(srv.down) + Len(n) /\ Len(srv.down) \in Nat /\ Len(n) \in Nat
      BY <1>5, <1>9
    <3> QED
      BY <1>3, <1>5, <1>9, <3>1
  <2>4. srv' \in [subs : SUBSET ServerSubs, down : Seq(Frames)] /\ srv'.subs = ds
        /\ srv'.down = srv.down \o n
    BY <1>5, <2>1, <2>2
  <2>5. /\ srv'.subs \subseteq srv.subs /\ Len(srv'.down) <= MaxWire + 1
        /\ Elems(srv.down) \subseteq Elems(srv'.down)
        /\ \A f \in Elems(srv'.down) :
             f \in Elems(srv.down) \/ (f.type # "subscribed" /\ FrameFits(f, P)')
    BY <1>9, <2>2, <2>3, <2>4
  <2>6. \A d \in srv'.subs : \A u \in Elems(k.up) :
          u.op = "unsubscribe" /\ u.sub = d.sub => u \in Elems(up)
    BY <1>7, <1>9, <2>4
  <2>7. Elems(up) \subseteq Elems(k.up)
    BY <1>7
  <2> QED
    BY <1>1, <1>4, <1>7, <2>1, <2>4, <2>5, <2>6, <2>7, FewerInv
<1>10. ASSUME NEW b \in ServerSubs, b.sub = sub, b.seq = 0, m.op = "subscribe", Begins(b),
              b.phase = "live" => b.pos # None /\ b.pos = m.cursor
       PROVE  StreamInv'
  <2>1. /\ k' = [k EXCEPT !.up = up]
        /\ srv' = [subs |-> srv.subs \cup {b},
                   down |-> srv.down \o <<Reply("subscribed", m.id, b.sub)>>]
    BY <1>6, <1>10 DEF Takes
  <2> QED
    BY <1>1, <1>3, <1>4, <1>7, <1>8, <1>10, <2>1, BegunInv
<1>11. ASSUME NEW type \in {"cursorInvalid", "refused", "refreshed", "unknown"}, NEW s \in Ids,
              m.op # "unsubscribe", Says(type, s),
              type = "unknown" => s # 0 /\ \A d \in srv.subs : d.sub # s
       PROVE  StreamInv'
  <2>1. PICK f : f = Reply(type, m.id, s)
    OBVIOUS
  <2>2. f \in Frames /\ f.type = type /\ f.seq = 0 /\ f.sub = s
    BY <1>8, <2>1, StreamAssumptions DEF Reply, Frame, Frames, ReplyTypes, Messages
  <2>3. PICK n : n = <<f>>
    OBVIOUS
  <2>4. n \in Seq(Frames) /\ Elems(n) = {f} /\ Len(n) <= 1 /\ Takes(srv.subs, n)
    BY <1>11, <2>1, <2>2, <2>3 DEF Elems
  <2>5. FrameFits(f, P)'
    <3>1. srv'.subs = srv.subs
      BY <2>4 DEF Takes
    <3>2. \A d \in srv'.subs : 0 <= d.seq
      BY <1>5, <3>1 DEF ServerSubs
    <3> QED
      BY <1>11, <2>2, <3>1, <3>2 DEF FrameFits, DataTypes
  <2>6. \A g \in Elems(n) : g.type # "subscribed" /\ FrameFits(g, P)'
    BY <1>11, <2>2, <2>4, <2>5
  <2> QED
    BY <1>9, <1>11, <2>4, <2>6
<1>12. ASSUME NEW ds \in SUBSET srv.subs, Takes(ds, <<>>),
              m.op = "unsubscribe" => \A d \in ds : d.sub # m.sub
       PROVE  StreamInv'
  <2>1. PICK n \in Seq(Frames) : Elems(n) = {} /\ Len(n) <= 1 /\ Takes(ds, n)
    <3>1. <<>> \in Seq(Frames) /\ Elems(<<>>) = {} /\ Len(<<>>) <= 1
      BY DEF Elems
    <3> QED
      BY <1>12, <3>1
  <2> QED
    BY <1>9, <1>12, <2>1
<1>13. ASSUME m.op = "subscribe"
       PROVE  /\ new \in ServerSubs /\ new.sub = sub /\ new.seq = 0
              /\ new.phase = "live" => new.pos # None /\ new.pos = m.cursor
              /\ LET b == [new EXCEPT !.phase = "resync", !.pos = None] IN
                 b \in ServerSubs /\ b.sub = sub /\ b.seq = 0 /\ b.phase # "live"
  <2>1. sub \in 1..MaxIds
    <3>1. Unused(MaxIds, SubsInUse) # {} /\ MaxIds \in Nat
      BY <1>3, StreamAssumptions DEF Room
    <3> QED
      BY <3>1, FreshIs
  <2>2. m.s \in Consumers
    BY <1>5, <1>7, <1>13 DEF WellFormed
  <2>3. AccountOf[m.s] \in Accounts /\ log[AccountOf[m.s]] \in 0..MaxLog
    BY <2>2, StreamAssumptions DEF StreamInv, Counts
  <2>4. m.cursor \in Cursors
    BY <1>8 DEF Messages
  <2> HIDE DEF sub
  <2>5. /\ new \in ServerSubs /\ new.sub = sub /\ new.seq = 0 /\ new.pos = m.cursor
        /\ new.phase = IF m.cursor = None THEN "begin" ELSE "live"
    BY <2>1, <2>3, <2>4 DEF NewServerSub, ServerSubs
  <2> HIDE DEF new
  <2> QED
    BY <2>5 DEF ServerSubs, Cursors
<1> HIDE DEF sub, new
<1>14. CASE m.op = "subscribe"
  <2>1. 0 \in Ids
    BY StreamAssumptions DEF Ids
  <2>2. CASE Begins(new)
    BY <1>10, <1>13, <1>14, <2>2
  <2>3. CASE Begins([new EXCEPT !.phase = "resync", !.pos = None])
    BY <1>10, <1>13, <1>14, <2>3
  <2>4. CASE Says("cursorInvalid", 0)
    BY <1>11, <1>14, <2>1, <2>4
  <2>5. CASE Says("refused", 0)
    BY <1>11, <1>14, <2>1, <2>5
  <2>6. CASE Takes(srv.subs, <<>>)
    BY <1>12, <1>14, <2>6
  <2> QED
    BY <1>3, <1>14, <2>2, <2>3, <2>4, <2>5, <2>6
<1>15. CASE m.op = "unsubscribe"
  <2>1. Takes(srv.subs \ OfSub(m.sub), <<>>)
    BY <1>3, <1>15
  <2>2. \A d \in srv.subs \ OfSub(m.sub) : d.sub # m.sub
    OBVIOUS
  <2>3. srv.subs \ OfSub(m.sub) \in SUBSET srv.subs
    OBVIOUS
  <2> HIDE DEF OfSub
  <2> QED
    BY <1>12, <2>1, <2>2, <2>3
<1>16. CASE m.op = "refresh"
  <2>1. m.sub \in Ids /\ m.sub # 0
    BY <1>5, <1>7, <1>8, <1>16 DEF WellFormed, Messages
  <2>2. CASE Says("refreshed", m.sub)
    BY <1>11, <1>16, <2>1, <2>2
  <2>3. CASE OfSub(m.sub) = {} /\ Says("unknown", m.sub)
    <3>1. \A d \in srv.subs : d.sub # m.sub
      BY <2>3
    <3> QED
      BY <1>11, <1>16, <2>1, <2>3, <3>1
  <2>4. CASE Says("refused", m.sub)
    BY <1>11, <1>16, <2>1, <2>4
  <2> QED
    BY <1>3, <1>16, <2>2, <2>3, <2>4
<1> QED
  BY <1>8, <1>14, <1>15, <1>16 DEF Messages

-----------------------------------------------------------------------------
(* The invariant holds.                                                    *)

LEMMA InitInv ==
    ASSUME Init
    PROVE  StreamInv
<1> DEFINE P == [s \in Ids |-> [n \in Nat |-> None]]
<1>1. P \in Positions
  BY DEF Positions, Cursors
<1>2. Counts
  BY StreamAssumptions DEF Init, Counts
<1>3. /\ k.run = "none" /\ k.conn = 0 /\ k.connecting = FALSE /\ k.timer = FALSE
      /\ k.at = [a \in Accounts |-> "none"] /\ k.subs = [i \in Consumers |-> NewSub]
      /\ k.cons = [c \in Consumers |-> NewCons] /\ k.pending = {} /\ k.fetches = {}
      /\ k.up = <<>> /\ srv = NoServer
  BY DEF Init
<1>4. NewSub \in SubRecord /\ NewCons \in Queue /\ 0 \in 0..MaxConns
  BY Names, StreamAssumptions DEF NewCons, Queue, Untold, Knowledge, States, Views, None, Many,
     SomeConsumer
<1>5. k \in StreamState
  BY <1>3, <1>4 DEF Init, StreamState, SomeConsumer
<1>6. (\A i \in Consumers : k.subs[i] = NewSub /\ k.cons[i] = NewCons /\ ~Current(k, i))
      /\ \A a \in Accounts : k.at[a] = "none"
  BY <1>3, Names DEF Current
<1>7. /\ NewSub.consumers = {} /\ NewSub.sub = 0 /\ NewSub.retryTimer = FALSE
      /\ NewSub.ready = FALSE /\ NewSub.cursor = None /\ NewCons.st = "new"
  BY DEF NewSub, NewCons
<1>8. Asking(k) = {} /\ Elems(k.up) = {} /\ srv.subs = {} /\ srv.down = <<>>
      /\ Elems(srv.down) = {}
  BY <1>3 DEF Asking, Elems, NoServer
<1> HIDE DEF P
<1>9. Linked(k)
  <2>1. \A c \in Consumers : k.at[AccountOf[c]] # c
    BY <1>6 DEF Current
  <2> QED
    BY <1>3, <1>6, <1>7, <2>1 DEF Linked
<1>10. Asked(k) /\ Attached(k) /\ OneConnect(k) /\ WellFormed(k)
  BY <1>3, <1>6, <1>7, <1>8 DEF Asked, Attached, OneConnect, WellFormed
<1>11. Resumes(k, P) /\ Positioned(k)
  BY <1>6, <1>7, <1>8 DEF Resumes, Positioned
<1>12. \A i \in Consumers : Settled(k, P, i) /\ Agree(k, i)
  BY <1>6, <1>7 DEF Settled, Agree
<1>13. Sound(k, P, {})
  BY <1>5, <1>9, <1>10, <1>11, <1>12 DEF Sound, Base
<1>14. ServerFits(P)
  <2>1. srv \in [subs : SUBSET ServerSubs, down : Seq(Frames)] /\ Len(srv.down) <= MaxWire + 1
    BY <1>3, <1>8, StreamAssumptions DEF NoServer
  <2> QED
    BY <1>3, <1>8, <2>1 DEF ServerFits
<1> QED
  BY <1>1, <1>2, <1>13, <1>14 DEF StreamInv

LEMMA NextInv ==
    ASSUME StreamInv, [Next]_vars
    PROVE  StreamInv'
<1>1. CASE Program
  <2>1. ASSUME NEW c \in Consumers, Remove(c) PROVE StreamInv'
    BY <2>1, RemoveInv
  <2>2. ASSUME NEW c \in Consumers, CloseEnds(c) \/ CatchesBreath(c) PROVE StreamInv'
    BY <2>2, QueueInv
  <2>3. ASSUME NEW f \in k.fetches, FetchDone(f) PROVE StreamInv'
    BY <2>3, FetchInv
  <2>4. ASSUME NEW i \in Consumers, AckTimer(i) PROVE StreamInv'
    BY <2>4, AckInv
  <2>5. ASSUME NEW i \in Consumers, RetryTimer(i) PROVE StreamInv'
    BY <2>5, RetryInv
  <2> QED
    BY <1>1, <2>1, <2>2, <2>3, <2>4, <2>5, ReconnectInv, OnFrameInv DEF Program
<1>2. CASE Environment
  <2>1. ASSUME NEW c \in Consumers, Subscribe(c) PROVE StreamInv'
    BY <2>1, SubscribeInv
  <2>2. ASSUME NEW c \in Consumers, BeginClose(c) \/ SlowDown(c) PROVE StreamInv'
    BY <2>2, QueueInv
  <2>3. ASSUME NEW d \in srv.subs, ServerStreams(d) PROVE StreamInv'
    BY <2>3, ServerStreamsInv
  <2>4. ASSUME NEW a \in Accounts, Changes(a) PROVE StreamInv'
    BY <2>4, ChangesInv
  <2> QED
    BY <1>2, <2>1, <2>2, <2>3, <2>4, ServerAnswersInv, NoticesInv, ClosedInv DEF Environment
<1>3. CASE UNCHANGED vars
  <2>1. PICK P \in Positions : Sound(k, P, {}) /\ ServerFits(P)
    BY DEF StreamInv
  <2>2. Step(k) /\ Counts'
    BY <1>3 DEF vars, Step, StreamInv, Counts
  <2> QED
    BY <2>1, <2>2, KeepsSelf, StepInv
<1> QED
  BY <1>1, <1>2, <1>3 DEF Next

LEMMA StreamHolds == Spec => []StreamInv
BY InitInv, NextInv, PTL DEF Spec

\* What is known of the state that TypeOK describes.
LEMMA TypeInv ==
    ASSUME StreamInv
    PROVE  TypeOK
<1>1. PICK P \in Positions : Sound(k, P, {}) /\ ServerFits(P)
  BY DEF StreamInv
<1>2. /\ k \in StreamState /\ Asked(k) /\ Len(srv.down) <= MaxWire + 1
  BY <1>1 DEF Sound, Base, ServerFits
<1>3. /\ k.run \in Consumers \cup {"none"} /\ k.conn \in 0..MaxConns
      /\ k.connecting \in BOOLEAN /\ k.timer \in BOOLEAN
      /\ \A a \in Accounts : k.at[a] \in Consumers \cup {"none"}
  BY <1>2 DEF StreamState, SomeConsumer
<1>4. ASSUME NEW i \in Consumers
      PROVE  /\ k.subs[i].consumers \subseteq Consumers
             /\ k.subs[i].sub \in Ids /\ k.subs[i].ackTimer \in Ids
             /\ k.subs[i].cursor \in Views \ {Broken} /\ k.subs[i].orders \in Views
             /\ k.subs[i].state \in {"pending", "connected", "disconnected"}
  <2>1. k.subs[i] \in SubRecord
    BY <1>2 DEF StreamState
  <2>2. Cursors \subseteq Views \ {Broken}
    BY StreamAssumptions DEF Cursors, Views, None, Broken
  <2> QED
    BY <2>1, <2>2 DEF SubRecord, States
<1>5. ASSUME NEW c \in Consumers
      PROVE  /\ k.cons[c].st \in {"new", "open", "ended", "closing", "waiting", "closed"}
             /\ k.cons[c].room \in 0..Many /\ k.cons[c].told.view \in Views
  <2>1. k.cons[c] \in Queue
    BY <1>2 DEF StreamState
  <2> QED
    BY <2>1 DEF Queue, Knowledge
<1>6. \A q \in k.pending : q.id \in Ids \ {0} /\ k.conn # 0 /\ Current(k, q.s)
  <2>1. k.pending \subseteq Requests /\ MaxIds \in Nat
    BY <1>2, StreamAssumptions DEF StreamState
  <2>2. \A q \in k.pending : q.id \in Ids \ {0}
    BY <2>1 DEF Requests, Ids
  <2> QED
    BY <1>2, <2>2 DEF Asked
<1> QED
  BY <1>2, <1>3, <1>4, <1>5, <1>6 DEF TypeOK, StreamInv, Counts

-----------------------------------------------------------------------------
(* The theorems.                                                           *)

\* No view of an account misses a change or sees one twice, and the cursor with which
\* a subscription is resumed names exactly the orders that were applied, through
\* gaps, resyncs, refused cursors, resubscribes and reconnects (onStreamFrame,
\* applyUnit, resubscribe), for any number of consumers, accounts and failures.
THEOREM ViewsFollowAlways == Spec => []ViewsFollow
<1>1. ASSUME StreamInv
      PROVE  ViewsFollow
  <2>1. PICK P \in Positions : Sound(k, P, {})
    BY <1>1 DEF StreamInv
  <2> SUFFICES ASSUME NEW i \in Consumers
               PROVE  /\ k.subs[i].orders # Broken
                      /\ k.subs[i].cursor # None =>
                           k.subs[i].orders = Position(k.subs[i].cursor)
    BY DEF ViewsFollow
  <2>2. k.subs[i].orders \in Cursors
    BY <2>1 DEF Sound, Base, StreamState, SubRecord
  <2>3. k.subs[i].orders # Broken
    BY <2>2, StreamAssumptions DEF Cursors, None, Broken
  <2> QED
    BY <2>1, <2>3 DEF Sound, Base, Positioned
<1> QED
  BY <1>1, StreamHolds, PTL

\* What the events told each open consumer is what the record it shares with the other
\* consumers of its account says, whenever it joined and whatever overflowed,
\* ended or reconnected meanwhile (offer, catchUp, detach, resubscribe).
THEOREM ConsumersAlwaysAgree == Spec => []ConsumersAgree
<1>1. ASSUME StreamInv
      PROVE  ConsumersAgree
  <2>1. PICK P \in Positions : Sound(k, P, {})
    BY <1>1 DEF StreamInv
  <2>2. ASSUME NEW c \in Consumers, k.cons[c].st = "open"
        PROVE  Matches(k.cons[c].told, Shared(c))
    <3>1. k.cons[c].sub \in Consumers
      BY <2>1, <2>2 DEF Sound, Base, Linked
    <3>2. Agree(k, k.cons[c].sub)
      BY <2>1, <3>1 DEF Sound
    <3> QED
      BY <2>2, <3>2 DEF Agree, Shared
  <2> QED
    BY <2>2 DEF ConsumersAgree, Matches
<1> QED
  BY <1>1, StreamHolds, PTL

\* Nothing is kept for a consumer that left: no request is pending for it or on a
\* connection that is gone, and once nothing is under way every subscription of
\* the server is one the program uses (teardown, detach, expireSubscribe and the
\* answers to requests that are gone in onFrame).
THEOREM NothingEverLeaks == Spec => []NothingLeaks
<1>1. ASSUME StreamInv
      PROVE  NothingLeaks
  <2>1. PICK P \in Positions : ServerFits(P)
    BY <1>1 DEF StreamInv
  <2>2. ASSUME k.up = <<>>, srv.down = <<>>, NEW d \in srv.subs
        PROVE  BySub(k, d.sub) # {}
    <3>1. Held(d)
      BY <2>1 DEF ServerFits
    <3>2. Elems(k.up) = {} /\ Elems(srv.down) = {}
      BY <2>2 DEF Elems
    <3> QED
      BY <3>1, <3>2 DEF Held, Owned
  <2> QED
    BY <1>1, <2>2, TypeInv DEF NothingLeaks
<1> QED
  BY <1>1, StreamHolds, PTL
=============================================================================
