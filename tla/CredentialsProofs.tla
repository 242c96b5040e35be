-------------------------- MODULE CredentialsProofs --------------------------
(***************************************************************************)
(* Theorems about what a client proves its identity with, alone and in     *)
(* MCCredentials: the timestamps it signs for any number of goroutines and *)
(* keys, any clock and any width of the integers, and the renewal of its   *)
(* tokens for any number of renewals and pings.                            *)
(***************************************************************************)
EXTENDS MCCredentials, FiniteSetTheorems, TLAPS

-----------------------------------------------------------------------------
(* SigningTimestamps.                                                      *)

\* What holds of a caller between its reads and its swap: it signs for a key,
\* its reading of the clock is in range and not above high, and its candidate
\* is above what it observed.
Locals(p) ==
    /\ caller[p].pc # "idle" => caller[p].key \in Keys
    /\ caller[p].pc \in {"load", "swap"} => caller[p].now <= high
    /\ caller[p].pc = "swap" => caller[p].observed < caller[p].candidate

\* Every timestamp given out for a key is at most the allocator's last.
IssuedUpToLast ==
    \A k \in Keys : \A i \in DOMAIN issued[k] : issued[k][i] <= last[k]

Inv == SigningTypeOK /\ IssuedUpToLast /\ DistinctAndIncreasing /\ LeadIsBounded
       /\ clock <= high /\ \A p \in Callers : Locals(p)

Caller == [pc : {"idle", "read", "load", "swap", "sleep"},
           key : Keys \cup {"none"}, waited : 0..Backpressure,
           now : 0..MaxInt, observed : 0..MaxInt, candidate : 0..MaxInt]

LEMMA IdleType == Idle \in Caller
  BY AllocatorAssumptions DEF Idle, Caller

LEMMA AllocatorInit == SigningInit => Inv
<1> SUFFICES ASSUME SigningInit PROVE Inv
  OBVIOUS
<1>1. SigningTypeOK
  BY IdleType, AllocatorAssumptions DEF SigningInit, SigningTypeOK, Caller
<1>2. IssuedUpToLast /\ DistinctAndIncreasing /\ LeadIsBounded
  BY DEF SigningInit, IssuedUpToLast, DistinctAndIncreasing, LeadIsBounded
<1>3. \A p \in Callers : Locals(p)
  BY DEF SigningInit, Locals, Idle
<1>4. clock <= high
  BY AllocatorAssumptions DEF SigningInit
<1> QED
  BY <1>1, <1>2, <1>3, <1>4 DEF Inv

\* A step that gives out no timestamp keeps the history's properties.
LEMMA QuietStep ==
    ASSUME Inv, UNCHANGED <<last, issued>>, high' \in Int, high' >= high
    PROVE  IssuedUpToLast' /\ DistinctAndIncreasing' /\ LeadIsBounded'
<1>1. IssuedUpToLast' /\ DistinctAndIncreasing'
  BY DEF Inv, IssuedUpToLast, DistinctAndIncreasing
<1>2. high \in Int /\ Skew \in Nat /\ \A k \in Keys : \A i \in DOMAIN issued[k] : issued[k][i] \in Nat
  BY AllocatorAssumptions DEF Inv, SigningTypeOK
<1>3. LeadIsBounded'
  BY <1>2 DEF Inv, LeadIsBounded
<1> QED
  BY <1>1, <1>3

\* A caller's own step, other than the swap that succeeds.
LEMMA LocalStep ==
    ASSUME Inv, NEW p \in Callers, NEW x \in Caller,
           caller' = [caller EXCEPT ![p] = x], UNCHANGED <<clock, last, high, issued>>,
           x.pc # "idle" => x.key \in Keys,
           x.pc \in {"load", "swap"} => x.now <= high,
           x.pc = "swap" => x.observed < x.candidate
    PROVE  Inv'
<1>1. SigningTypeOK'
  BY DEF Inv, SigningTypeOK, Caller
<1>2. high' \in Int /\ high' >= high
  BY AllocatorAssumptions DEF Inv, SigningTypeOK
<1>3. \A q \in Callers : Locals(q)'
  BY DEF Inv, Locals, SigningTypeOK
<1> QED
  BY <1>1, <1>2, <1>3, QuietStep DEF Inv

LEMMA Appended ==
    ASSUME NEW S, NEW a \in Seq(S), NEW t \in S
    PROVE  /\ DOMAIN Append(a, t) = 1..(Len(a) + 1) /\ DOMAIN a = 1..Len(a)
           /\ Len(a) \in Nat
           /\ \A i \in 1..Len(a) : Append(a, t)[i] = a[i] /\ a[i] \in S
           /\ Append(a, t)[Len(a) + 1] = t
OBVIOUS

LEMMA AllocatorNext == Inv /\ [SigningNext]_signingVars => Inv'
<1> SUFFICES ASSUME Inv, [SigningNext]_signingVars PROVE Inv'
  OBVIOUS
<1> USE DEF Caller
<1>0. high \in Int /\ clock \in Int /\ MaxInt \in Nat /\ Skew \in Nat /\ Backpressure \in Nat
  BY AllocatorAssumptions DEF Inv, SigningTypeOK
<1>1. CASE ClockMoves
  <2>a. clock' \in Clocks /\ clock' \in Int /\ high \in Clocks
    BY <1>1, AllocatorAssumptions DEF ClockMoves, Inv, SigningTypeOK
  <2>b. high' = IF clock' > high THEN clock' ELSE high
    BY <1>1 DEF ClockMoves
  <2>1. /\ high' \in Clocks /\ high' \in Int /\ clock' \in Clocks
        /\ high' >= high /\ clock' <= high'
    BY <1>0, <2>a, <2>b
  <2>2. caller' \in [Callers -> Caller]
    <3> SUFFICES ASSUME NEW p \in Callers
                 PROVE  [caller[p] EXCEPT !.waited = IF caller[p].pc = "idle" \/ @ = Backpressure
                                                THEN @ ELSE @ + 1,
                                     !.pc = IF @ = "sleep" THEN "read" ELSE @] \in Caller
      BY <1>1 DEF ClockMoves
    <3>1. caller[p] \in Caller
      BY DEF Inv, SigningTypeOK
    <3>2. (IF caller[p].pc = "idle" \/ caller[p].waited = Backpressure
           THEN caller[p].waited ELSE caller[p].waited + 1) \in 0..Backpressure
      BY <1>0, <3>1
    <3>3. (IF caller[p].pc = "sleep" THEN "read" ELSE caller[p].pc)
             \in {"idle", "read", "load", "swap", "sleep"}
      BY <3>1
    <3> QED
      BY <3>1, <3>2, <3>3
  <2>3. \A p \in Callers :
          /\ caller'[p].key = caller[p].key /\ caller'[p].now = caller[p].now
          /\ caller'[p].observed = caller[p].observed /\ caller'[p].candidate = caller[p].candidate
          /\ caller'[p].pc = IF caller[p].pc = "sleep" THEN "read" ELSE caller[p].pc
    BY <1>1 DEF ClockMoves, Inv, SigningTypeOK
  <2>4. \A p \in Callers : caller[p].now \in Int
    BY DEF Inv, SigningTypeOK
  <2>5. \A p \in Callers : Locals(p)'
    BY <1>0, <2>1, <2>3, <2>4 DEF Inv, Locals
  <2>6. SigningTypeOK'
    BY <1>1, <2>1, <2>2 DEF ClockMoves, Inv, SigningTypeOK
  <2> QED
    BY <1>1, <2>1, <2>5, <2>6, QuietStep DEF ClockMoves, Inv
<1>2. ASSUME NEW p \in Callers, BeginSigning(p) PROVE Inv'
  <2>1. PICK k \in Keys : caller' = [caller EXCEPT ![p] = [caller[p] EXCEPT !.pc = "read", !.key = k]]
    BY <1>2 DEF BeginSigning, Inv, SigningTypeOK
  <2> DEFINE x == [caller[p] EXCEPT !.pc = "read", !.key = k]
  <2>2. x \in Caller /\ x.pc = "read" /\ x.key \in Keys
    BY DEF Inv, SigningTypeOK
  <2> HIDE DEF x
  <2> QED
    BY <1>2, <2>1, <2>2, LocalStep DEF BeginSigning, x
<1>3. ASSUME NEW p \in Callers, EndSigning(p), UNCHANGED <<clock, last, high, issued>>
      PROVE  Inv'
  BY <1>3, IdleType, LocalStep DEF EndSigning, Idle
<1>4. ASSUME NEW p \in Callers, ReadClock(p) PROVE Inv'
  <2>1. CASE EndSigning(p)
    BY <1>3, <1>4, <2>1 DEF ReadClock
  <2>2. CASE ~EndSigning(p)
    <3> DEFINE x == [caller[p] EXCEPT !.pc = "load", !.now = clock]
    <3>1. clock >= 0 /\ clock <= MaxInt - Skew /\ caller' = [caller EXCEPT ![p] = x]
          /\ caller[p].pc = "read"
      BY <1>4, <2>2 DEF ReadClock, Inv, SigningTypeOK
    <3>2. clock \in 0..MaxInt
      BY <1>0, <3>1
    <3>3. clock <= high
      BY DEF Inv
    <3>4. x \in Caller /\ x.pc = "load" /\ x.now = clock /\ x.key = caller[p].key
      BY <3>2 DEF Inv, SigningTypeOK
    <3>5. caller[p].key \in Keys
      BY <3>1 DEF Inv, Locals
    <3> HIDE DEF x
    <3> QED
      BY <1>4, <3>1, <3>3, <3>4, <3>5, LocalStep DEF ReadClock
  <2> QED
    BY <2>1, <2>2
<1>5. ASSUME NEW p \in Callers, Load(p) PROVE Inv'
  <2>1. CASE EndSigning(p)
    BY <1>3, <1>5, <2>1 DEF Load
  <2>2. CASE ~EndSigning(p)
    <3> DEFINE o == last[caller[p].key]
    <3> DEFINE x == [caller[p] EXCEPT !.pc = "swap", !.observed = o,
                                 !.candidate = Candidate(caller[p].now, o)]
    <3>1. caller[p].pc = "load" /\ ~Exhausted(caller[p].now, o) /\ caller' = [caller EXCEPT ![p] = x]
      BY <1>5, <2>2 DEF Load, Inv, SigningTypeOK
    <3>2. caller[p].key \in Keys /\ caller[p].now <= high
      BY <3>1 DEF Inv, Locals
    <3>3. o \in 0..MaxInt /\ caller[p].now \in 0..MaxInt
      BY <3>2 DEF Inv, SigningTypeOK
    <3>4. Candidate(caller[p].now, o) \in 0..MaxInt /\ o < Candidate(caller[p].now, o)
      BY <1>0, <3>1, <3>3 DEF Candidate, Exhausted
    <3>5. /\ x \in Caller /\ x.pc = "swap" /\ x.now = caller[p].now /\ x.key = caller[p].key
          /\ x.observed = o /\ x.candidate = Candidate(caller[p].now, o)
      BY <3>3, <3>4 DEF Inv, SigningTypeOK
    <3> HIDE DEF x, o
    <3> QED
      BY <1>5, <3>1, <3>2, <3>4, <3>5, LocalStep DEF Load
  <2> QED
    BY <2>1, <2>2
<1>6. ASSUME NEW p \in Callers, Swap(p) PROVE Inv'
  <2>1. CASE ~Swaps(p) /\ EndSigning(p)
    BY <1>3, <1>6, <2>1 DEF Swap
  <2>2. CASE ~Swaps(p) /\ ~EndSigning(p)
    <3> DEFINE x == [caller[p] EXCEPT !.pc = "sleep"]
    <3>1. caller[p].pc = "swap" /\ caller' = [caller EXCEPT ![p] = x] /\ UNCHANGED <<clock, last, high, issued>>
      BY <1>6, <2>2 DEF Swap, Inv, SigningTypeOK
    <3>2. x \in Caller /\ x.pc = "sleep" /\ x.key = caller[p].key
      BY DEF Inv, SigningTypeOK
    <3>3. caller[p].key \in Keys
      BY <3>1 DEF Inv, Locals
    <3> HIDE DEF x
    <3> QED
      BY <3>1, <3>2, <3>3, LocalStep
  <2>3. CASE Swaps(p)
    <3> DEFINE k == caller[p].key
    <3> DEFINE t == caller[p].candidate
    <3>1. /\ caller[p].pc = "swap" /\ UNCHANGED <<clock, high>> /\ EndSigning(p)
          /\ last' = [last EXCEPT ![k] = t] /\ issued' = [issued EXCEPT ![k] = Append(@, t)]
      BY <1>6, <2>3 DEF Swap
    <3>2. k \in Keys /\ caller[p].now <= high /\ caller[p].observed < t
      BY <3>1 DEF Inv, Locals
    <3>3. t \in 0..MaxInt /\ caller[p].now \in 0..MaxInt /\ last[k] \in 0..MaxInt
      BY <3>2 DEF Inv, SigningTypeOK
    <3>4. last[k] < t /\ t <= high + Skew
      BY <1>0, <2>3, <3>2, <3>3 DEF Swaps
    <3>5. /\ issued[k] \in Seq(0..MaxInt) /\ issued'[k] = Append(issued[k], t)
          /\ \A q \in Keys \ {k} : issued'[q] = issued[q] /\ last'[q] = last[q]
          /\ last'[k] = t
      BY <3>1, <3>2 DEF Inv, SigningTypeOK
    <3> HIDE DEF k, t
    <3>6. SigningTypeOK'
      <4>1. caller' \in [Callers -> Caller]
        BY <3>1, IdleType DEF EndSigning, Inv, SigningTypeOK
      <4>2. last' \in [Keys -> 0..MaxInt]
        BY <3>1, <3>3 DEF Inv, SigningTypeOK
      <4>3. issued' \in [Keys -> Seq(0..MaxInt)]
        BY <3>1, <3>3, <3>5 DEF Inv, SigningTypeOK
      <4> QED
        BY <3>1, <4>1, <4>2, <4>3 DEF Inv, SigningTypeOK
    <3>7. \A q \in Callers : Locals(q)'
      BY <3>1 DEF EndSigning, Idle, Inv, Locals, SigningTypeOK
    <3>8. /\ DOMAIN issued'[k] = 1..(Len(issued[k]) + 1) /\ DOMAIN issued[k] = 1..Len(issued[k])
          /\ Len(issued[k]) \in Nat
          /\ \A i \in 1..Len(issued[k]) : issued'[k][i] = issued[k][i] /\ issued[k][i] \in 0..MaxInt
          /\ issued'[k][Len(issued[k]) + 1] = t
      <4>1. issued[k] \in Seq(0..MaxInt) /\ t \in 0..MaxInt /\ issued'[k] = Append(issued[k], t)
        BY <3>3, <3>5
      <4> DEFINE a == issued[k]
      <4> DEFINE b == issued'[k]
      <4> DEFINE S == 0..MaxInt
      <4> HIDE DEF a, b, S
      <4>2. a \in Seq(S) /\ t \in S /\ b = Append(a, t)
        BY <4>1 DEF a, b, S
      <4>3. /\ DOMAIN b = 1..(Len(a) + 1) /\ DOMAIN a = 1..Len(a) /\ Len(a) \in Nat
            /\ \A i \in 1..Len(a) : b[i] = a[i] /\ a[i] \in S
            /\ b[Len(a) + 1] = t
        BY <4>2, Appended
      <4> QED
        BY <4>3 DEF a, b, S
    <3>9. \A i \in DOMAIN issued[k] : issued[k][i] < t /\ issued[k][i] <= high + Skew
      BY <1>0, <3>2, <3>3, <3>4, <3>8 DEF Inv, IssuedUpToLast, LeadIsBounded
    <3>10. \A i \in DOMAIN issued'[k] : issued'[k][i] <= t /\ issued'[k][i] <= high + Skew
      <4>1. t \in Int /\ high + Skew \in Int
        BY <1>0, <3>3
      <4>2. \A i \in DOMAIN issued'[k] : i \in DOMAIN issued[k] \/ i = Len(issued[k]) + 1
        BY <3>8
      <4>3. \A i \in DOMAIN issued[k] : issued'[k][i] <= t /\ issued'[k][i] <= high + Skew
        BY <3>8, <3>9, <4>1
      <4> QED
        BY <3>4, <3>8, <4>1, <4>2, <4>3
    <3>11. \A i, j \in DOMAIN issued'[k] : i < j => issued'[k][i] < issued'[k][j]
      BY <3>2, <3>8, <3>9 DEF Inv, DistinctAndIncreasing
    <3>12. IssuedUpToLast' /\ DistinctAndIncreasing'
      BY <3>5, <3>10, <3>11 DEF Inv, IssuedUpToLast, DistinctAndIncreasing
    <3>13. LeadIsBounded'
      BY <3>1, <3>5, <3>10 DEF Inv, LeadIsBounded
    <3> QED
      BY <3>1, <3>6, <3>7, <3>12, <3>13 DEF Inv
  <2> QED
    BY <2>1, <2>2, <2>3
<1>7. CASE UNCHANGED signingVars
  BY <1>7 DEF signingVars, Inv, SigningTypeOK, IssuedUpToLast, DistinctAndIncreasing, LeadIsBounded, Locals
<1> QED
  BY <1>1, <1>2, <1>4, <1>5, <1>6, <1>7 DEF SigningNext, Sign

-----------------------------------------------------------------------------

\* automaticSigningTimestamp gives out distinct timestamps, in increasing
\* order for each key, for any number of goroutines and any clock.
THEOREM Distinct == SigningSpec => []DistinctAndIncreasing
<1>1. Inv => DistinctAndIncreasing
  BY DEF Inv
<1> QED
  BY <1>1, AllocatorInit, AllocatorNext, PTL DEF SigningSpec

\* It never gives one out further ahead than MaxSigningFutureSkewMS, and never
\* overflows int64.
THEOREM Bounded == SigningSpec => [](LeadIsBounded /\ SigningTypeOK)
<1>1. Inv => LeadIsBounded /\ SigningTypeOK
  BY DEF Inv
<1> QED
  BY <1>1, AllocatorInit, AllocatorNext, PTL DEF SigningSpec

\* So a server that refuses repeated and far future timestamps refuses none of this
\* client's, for any number of goroutines, any clock and any lead.
THEOREM Valid == SigningSpec => []TimestampsAreValid
<1>1. DistinctAndIncreasing /\ LeadIsBounded => TimestampsAreValid
  BY DEF TimestampsAreValid
<1> QED
  BY <1>1, Distinct, Bounded, PTL

-----------------------------------------------------------------------------
(* TokenRenewal: its types, the WaitGroup's count, and that nothing runs   *)
(* once stop returned.                                                     *)
(*                                                                         *)
(* The count is an equation between wg and the set of live runs.  A step   *)
(* adds one run to that set, removes one, exchanges one for another        *)
(* (schedule replacing an armed timer), or removes the armed timers        *)
(* together (stop); each lemma below is one of these cases.                *)

Stages == {"free", "armed", "fetching", "report", "register", "write", "writing",
           "written", "done"}
Unwritten == {"free", "armed", "fetching", "report", "register"}
Run == [stage : Stages, kind : Kinds, id : Nat]

LiveRuns   == {r \in RunIds : Live(r)}
Registered == {r \in RunIds : runs[r].id # 0}

\* What the steps of the runs keep; an id is given out once for each run.
RunsOK == /\ runs \in [RunIds -> Run]
          /\ \A r \in RunIds : runs[r].stage \in Unwritten => runs[r].id = 0
Counts == wg = Cardinality(LiveRuns) /\ nextID = 3 + Cardinality(Registered)

Places == {"connection", "subscription", "loop", "reply", "pong", "ponging",
           "leave", "stop", "wait", "returned"}
Commands == [id : 3..(nextID - 1), kind : Kinds]

\* The variables whose types need nothing of the runs.
FlagsOK == /\ cancelled \in BOOLEAN /\ stopped \in BOOLEAN
           /\ timers \in [Kinds -> {0} \cup RunIds]
           /\ writer \in {0, Reader} \cup RunIds /\ told \subseteq Kinds

\* The inductive invariant.  The count alone is not inductive: schedule and stop
\* count a timer down only if it is armed, so the stages of the runs are needed;
\* and a reader that has returned must not be overtaken by a live run.
IInv ==
    /\ FlagsOK /\ RunsOK /\ Counts /\ QuietAfterStop
    /\ pending \subseteq Commands
    /\ reader \in [pc : Places, kind : Kinds]

-----------------------------------------------------------------------------
(* The counted sets are finite.                                            *)

LEMMA CountsBounded ==
    /\ IsFiniteSet(LiveRuns) /\ Cardinality(LiveRuns) \in 0..MaxRuns
    /\ IsFiniteSet(Registered) /\ Cardinality(Registered) \in 0..MaxRuns
<1>1. IsFiniteSet(RunIds) /\ Cardinality(RunIds) = MaxRuns
  BY RenewerAssumptions, FS_Interval DEF RunIds
<1>2. LiveRuns \in SUBSET RunIds /\ Registered \in SUBSET RunIds
  BY DEF LiveRuns, Registered
<1>3. /\ IsFiniteSet(LiveRuns) /\ Cardinality(LiveRuns) <= MaxRuns
      /\ IsFiniteSet(Registered) /\ Cardinality(Registered) <= MaxRuns
  BY <1>1, <1>2, FS_Subset
<1>4. Cardinality(LiveRuns) \in Nat /\ Cardinality(Registered) \in Nat
  BY <1>3, FS_CardinalityType
<1> QED
  BY <1>3, <1>4, RenewerAssumptions

-----------------------------------------------------------------------------
(* One run.                                                                *)

\* A run that goes on stays counted.
LEMMA GoesOn ==
    ASSUME RunsOK, Counts, NEW r \in RunIds, Live(r),
           NEW stage \in Stages \ {"free", "done"}, Go(r, stage),
           stage \in Unwritten => runs[r].stage \in Unwritten,
           UNCHANGED <<wg, nextID>>
    PROVE  RunsOK' /\ Counts'
<1>1. \A q \in RunIds : /\ runs'[q] \in Run /\ runs'[q].id = runs[q].id
                        /\ runs'[q].stage = IF q = r THEN stage ELSE runs[q].stage
  BY DEF RunsOK, Go, Run
<1>2. RunsOK'
  BY <1>1 DEF RunsOK, Go, Unwritten
<1>3. LiveRuns' = LiveRuns /\ Registered' = Registered
  BY <1>1 DEF LiveRuns, Registered, Live
<1> QED
  BY <1>2, <1>3 DEF Counts

\* A run that returns is no longer counted.
LEMMA Returns ==
    ASSUME RunsOK, Counts, NEW r \in RunIds, Live(r), RunReturns(r), UNCHANGED nextID
    PROVE  RunsOK' /\ Counts'
<1>1. \A q \in RunIds : /\ runs'[q] \in Run /\ runs'[q].id = runs[q].id
                        /\ runs'[q].stage = IF q = r THEN "done" ELSE runs[q].stage
  BY DEF RunsOK, RunReturns, Go, Run, Stages
<1>2. RunsOK'
  BY <1>1 DEF RunsOK, RunReturns, Go, Unwritten
<1>3. LiveRuns' = LiveRuns \ {r} /\ Registered' = Registered /\ r \in LiveRuns
  BY <1>1 DEF LiveRuns, Registered, Live
<1>4. Cardinality(LiveRuns \ {r}) = Cardinality(LiveRuns) - 1
  BY <1>3, CountsBounded, FS_RemoveElement
<1> QED
  BY <1>2, <1>3, <1>4 DEF Counts, RunReturns

\* A run that registers takes the next id.
LEMMA Registers ==
    ASSUME RunsOK, Counts, NEW r \in RunIds, In(r, "register"),
           runs' = [runs EXCEPT ![r].stage = "write", ![r].id = nextID],
           nextID' = nextID + 1, UNCHANGED wg
    PROVE  RunsOK' /\ Counts'
<1>1. nextID \in Nat \ {0}
  BY CountsBounded, RenewerAssumptions DEF Counts
<1>2. \A q \in RunIds : /\ runs'[q] \in Run
                        /\ runs'[q].id = IF q = r THEN nextID ELSE runs[q].id
                        /\ runs'[q].stage = IF q = r THEN "write" ELSE runs[q].stage
  BY <1>1 DEF RunsOK, Run, Stages
<1>3. RunsOK'
  BY <1>2 DEF RunsOK, Unwritten
<1>4. \A q \in RunIds : Live(q)' <=> Live(q)
  <2>1. runs'[r].stage = "write" /\ runs[r].stage = "register"
    BY <1>2 DEF In
  <2>2. Live(r) /\ Live(r)'
    BY <2>1 DEF Live
  <2>3. \A q \in RunIds \ {r} : Live(q)' <=> Live(q)
    BY <1>2 DEF Live
  <2> QED
    BY <2>2, <2>3
<1>5. Registered' = Registered \cup {r} /\ r \notin Registered
  BY <1>1, <1>2 DEF Registered, RunsOK, In, Unwritten
<1>6. Cardinality(Registered') = Cardinality(Registered) + 1
  BY <1>5, CountsBounded, FS_AddElement
<1>7. nextID' = 3 + Cardinality(Registered')
  BY <1>6, CountsBounded DEF Counts
<1>8. LiveRuns' = LiveRuns
  BY <1>4 DEF LiveRuns
<1> QED
  BY <1>3, <1>7, <1>8 DEF Counts

-----------------------------------------------------------------------------
(* Several runs.                                                           *)

\* schedule counts a new run, or exchanges it for the one it replaces.
LEMMA Schedules ==
    ASSUME RunsOK, Counts, NEW kind \in Kinds, Schedule(kind), UNCHANGED nextID
    PROVE  RunsOK' /\ Counts'
<1>1. CASE UNCHANGED <<runs, wg>>
  BY <1>1 DEF RunsOK, Counts, LiveRuns, Registered, Live
<1>2. CASE ~UNCHANGED <<runs, wg>>
  <2>1. PICK r \in RunIds :
          /\ In(r, "free")
          /\ runs' = [[q \in RunIds |-> IF q \in Armed /\ timers[kind] = q
                                        THEN [runs[q] EXCEPT !.stage = "done"] ELSE runs[q]]
                        EXCEPT ![r] = [stage |-> "armed", kind |-> kind, id |-> 0]]
          /\ wg' = IF timers[kind] \in Armed THEN wg ELSE wg + 1
    BY <1>2 DEF Schedule
  <2>2. r \notin Armed /\ runs[r].id = 0
    BY <2>1 DEF Armed, In, RunsOK, Unwritten
  <2>3. \A q \in RunIds :
          /\ runs'[q] \in Run /\ runs'[q].id = runs[q].id
          /\ runs'[q].stage = IF q = r THEN "armed"
                              ELSE IF q \in Armed /\ timers[kind] = q THEN "done"
                              ELSE runs[q].stage
    <3>1. runs'[r] = [stage |-> "armed", kind |-> kind, id |-> 0]
      BY <2>1
    <3>2. \A q \in RunIds \ {r} :
            runs'[q] = IF q \in Armed /\ timers[kind] = q
                       THEN [runs[q] EXCEPT !.stage = "done"] ELSE runs[q]
      BY <2>1
    <3>3. \A q \in RunIds : runs[q] \in Run
      BY DEF RunsOK
    <3>4. runs'[r] \in Run
      BY <3>1 DEF Run, Stages
    <3>5. \A q \in RunIds \ {r} :
            /\ runs'[q] \in Run /\ runs'[q].id = runs[q].id
            /\ runs'[q].stage = IF q \in Armed /\ timers[kind] = q THEN "done"
                                ELSE runs[q].stage
      BY <3>2, <3>3 DEF Run, Stages
    <3> QED
      BY <2>2, <3>1, <3>4, <3>5
  <2>4. RunsOK'
    BY <2>1, <2>3 DEF RunsOK, Unwritten, Armed, In
  <2>5. Registered' = Registered
    BY <2>3 DEF Registered
  <2>6. r \notin LiveRuns
    BY <2>1 DEF LiveRuns, Live, In
  <2>7. Cardinality(LiveRuns') = wg'
    <3>1. CASE timers[kind] \in Armed
      <4> DEFINE a == timers[kind]
      <4>1. a \in LiveRuns /\ a # r
        BY <2>2, <3>1 DEF Armed, LiveRuns, Live, In
      <4>2. LiveRuns' = (LiveRuns \ {a}) \cup {r}
        BY <2>3, <3>1 DEF LiveRuns, Live
      <4>3. /\ IsFiniteSet(LiveRuns \ {a})
            /\ Cardinality(LiveRuns \ {a}) = Cardinality(LiveRuns) - 1
        BY <4>1, CountsBounded, FS_RemoveElement
      <4>4. Cardinality(LiveRuns') = (Cardinality(LiveRuns) - 1) + 1
        BY <2>6, <4>2, <4>3, FS_AddElement
      <4> QED
        BY <2>1, <3>1, <4>4, CountsBounded DEF Counts
    <3>2. CASE timers[kind] \notin Armed
      <4>1. LiveRuns' = LiveRuns \cup {r}
        BY <2>3, <3>2 DEF LiveRuns, Live
      <4>2. Cardinality(LiveRuns') = Cardinality(LiveRuns) + 1
        BY <2>6, <4>1, CountsBounded, FS_AddElement
      <4> QED
        BY <2>1, <3>2, <4>2 DEF Counts
    <3> QED
      BY <3>1, <3>2
  <2> QED
    BY <2>4, <2>5, <2>7 DEF Counts
<1> QED
  BY <1>1, <1>2

\* stop counts down every timer it stops.
LEMMA Stops ==
    ASSUME RunsOK, Counts, Stop
    PROVE  RunsOK' /\ Counts'
<1>1. \A q \in RunIds :
        /\ runs'[q] \in Run /\ runs'[q].id = runs[q].id
        /\ runs'[q].stage = IF q \in Armed THEN "done" ELSE runs[q].stage
  BY DEF Stop, RunsOK, Run, Stages
<1>2. RunsOK'
  BY <1>1 DEF RunsOK, Unwritten, Stop
<1>3. Registered' = Registered
  BY <1>1 DEF Registered
<1>4. Armed \in SUBSET LiveRuns
  BY DEF Armed, LiveRuns, Live, In
<1>5. LiveRuns' = LiveRuns \ Armed
  BY <1>1 DEF LiveRuns, Live
<1>6. IsFiniteSet(Armed) /\ LiveRuns \cap Armed = Armed
  BY <1>4, CountsBounded, FS_Subset
<1>7. Cardinality(LiveRuns') = Cardinality(LiveRuns) - Cardinality(Armed)
  <2>1. ASSUME NEW S, NEW T, IsFiniteSet(S), S \cap T = T
        PROVE  Cardinality(S \ T) = Cardinality(S) - Cardinality(T)
    BY <2>1, FS_Difference
  <2> QED
    BY <1>5, <1>6, <2>1, CountsBounded
<1> QED
  BY <1>2, <1>3, <1>7 DEF Counts, Stop

LEMMA Unmoved ==
    ASSUME RunsOK, Counts, UNCHANGED <<runs, wg, nextID>>
    PROVE  RunsOK' /\ Counts'
BY DEF RunsOK, Counts, LiveRuns, Registered, Live

-----------------------------------------------------------------------------
(* The inductive invariant.                                                *)

LEMMA Begins == RenewerInit => IInv
<1> SUFFICES ASSUME RenewerInit PROVE IInv
  OBVIOUS
<1>1. FlagsOK /\ pending \subseteq Commands /\ reader \in [pc : Places, kind : Kinds]
  BY DEF RenewerInit, FlagsOK, Places, Kinds
<1>2. RunsOK
  BY DEF RenewerInit, RunsOK, Run, Stages, Kinds
<1>3. LiveRuns = {} /\ Registered = {}
  BY DEF RenewerInit, LiveRuns, Registered, Live
<1>4. Counts
  BY <1>3, FS_EmptySet DEF RenewerInit, Counts
<1>5. QuietAfterStop
  BY DEF RenewerInit, QuietAfterStop
<1> QED
  BY <1>1, <1>2, <1>4, <1>5 DEF IInv

LEMMA InvariantImplies == IInv => RenewerTypeOK /\ WaitGroupExact /\ QuietAfterStop
<1> SUFFICES ASSUME IInv PROVE RenewerTypeOK /\ WaitGroupExact /\ QuietAfterStop
  OBVIOUS
<1>1. wg \in 0..MaxRuns /\ nextID \in CommandIds
  BY CountsBounded, RenewerAssumptions DEF IInv, Counts, CommandIds
<1>2. RenewerTypeOK
  BY <1>1 DEF IInv, RenewerTypeOK, FlagsOK, Commands, Places
<1> QED
  BY <1>2 DEF IInv, Counts, WaitGroupExact, LiveRuns

\* While a run is live the reader has not returned.
LEMMA NotReturned ==
    ASSUME IInv, NEW r \in RunIds, Live(r)
    PROVE  reader.pc # "returned"
BY DEF IInv, QuietAfterStop

\* The steps of the reader.
LEMMA ReadKeeps ==
    ASSUME IInv, Read \/ Reply \/ Ping \/ Leave
    PROVE  IInv'
<1> USE DEF IInv
<1>1. CASE Setup
  <2>1. reader.pc \in Kinds /\ UNCHANGED nextID
    BY <1>1 DEF Setup, Kinds
  <2>2. RunsOK' /\ Counts'
    BY <1>1, <2>1, Schedules DEF Setup
  <2>3. FlagsOK'
    BY <1>1, <2>1 DEF Setup, Schedule, FlagsOK
  <2>4. reader' \in [pc : Places, kind : Kinds] /\ reader'.pc # "returned"
    BY <1>1 DEF Setup, Places
  <2> QED
    BY <1>1, <2>2, <2>3, <2>4 DEF Setup, QuietAfterStop, Commands
<1>2. CASE Answered
  <2>1. reader.kind \in Kinds /\ UNCHANGED nextID
    BY <1>2 DEF Answered
  <2>2. RunsOK' /\ Counts'
    <3>1. CASE Schedule(reader.kind)
      BY <3>1, <2>1, Schedules
    <3>2. CASE UNCHANGED <<runs, wg>>
      BY <3>2, <2>1, Unmoved
    <3> QED
      BY <1>2, <3>1, <3>2 DEF Answered
  <2>3. FlagsOK'
    BY <1>2, <2>1 DEF Answered, Schedule, FlagsOK
  <2>4. reader' \in [pc : Places, kind : Kinds] /\ reader'.pc # "returned"
    BY <1>2 DEF Answered, Places
  <2> QED
    BY <1>2, <2>2, <2>3, <2>4 DEF Answered, QuietAfterStop, Commands
<1>3. CASE Reply
  <2>1. RunsOK' /\ Counts'
    BY <1>3, Unmoved DEF Reply
  <2>2. pending' \subseteq Commands'
    BY <1>3 DEF Reply, Commands
  <2>3. reader' \in [pc : Places, kind : Kinds] /\ reader'.pc # "returned"
    <3>1. PICK command \in server.got :
            reader' = IF command \in pending THEN [pc |-> "reply", kind |-> command.kind]
                      ELSE reader
      BY <1>3 DEF Reply
    <3>2. command \in pending => command.kind \in Kinds
      BY DEF Commands
    <3> QED
      BY <1>3, <3>1, <3>2 DEF Reply, Places
  <2>4. FlagsOK'
    BY <1>3 DEF Reply, FlagsOK
  <2> QED
    BY <2>1, <2>2, <2>3, <2>4 DEF QuietAfterStop
<1>4. CASE Ping \/ Pong \/ Leave
  <2>1. UNCHANGED <<runs, wg, nextID, pending, stopped, timers, told>>
    BY <1>4 DEF Ping, Pong, Leave
  <2>2. RunsOK' /\ Counts'
    BY <2>1, Unmoved
  <2>3. FlagsOK'
    BY <1>4, <2>1 DEF Ping, Pong, Leave, FlagsOK, Reader
  <2>4. reader' \in [pc : Places, kind : Kinds] /\ reader'.pc # "returned"
    BY <1>4 DEF Ping, Pong, Leave, Places
  <2> QED
    BY <2>1, <2>2, <2>3, <2>4 DEF QuietAfterStop, Commands
<1>5. CASE Stop
  <2>1. RunsOK' /\ Counts'
    BY <1>5, Stops
  <2>2. FlagsOK'
    BY <1>5 DEF Stop, FlagsOK
  <2>3. reader' \in [pc : Places, kind : Kinds] /\ reader'.pc # "returned"
    BY <1>5 DEF Stop, Places
  <2> QED
    BY <1>5, <2>1, <2>2, <2>3 DEF Stop, QuietAfterStop, Commands
<1>6. CASE Wait
  <2>1. UNCHANGED <<runs, wg, nextID>> /\ RunsOK' /\ Counts'
    BY <1>6, Unmoved DEF Wait
  <2>2. LiveRuns = {}
    <3>1. Cardinality(LiveRuns) = 0
      BY <1>6 DEF Wait, Counts
    <3> QED
      BY <3>1, CountsBounded, FS_EmptySet
  <2>3. QuietAfterStop'
    BY <2>1, <2>2 DEF QuietAfterStop, LiveRuns, Live
  <2>4. FlagsOK' /\ reader' \in [pc : Places, kind : Kinds]
    BY <1>6 DEF Wait, FlagsOK, Places
  <2> QED
    BY <1>6, <2>1, <2>3, <2>4 DEF Wait, Commands
<1> QED
  BY <1>1, <1>2, <1>3, <1>4, <1>5, <1>6 DEF Read

\* The steps of a run: the reader is elsewhere, and has not returned.
LEMMA RunKeeps ==
    ASSUME IInv, NEW r \in RunIds, TimerFires(r) \/ Renew(r)
    PROVE  IInv'
<1> USE DEF IInv
<1>1. Live(r) /\ UNCHANGED reader
  BY DEF TimerFires, Renew, Fetched, Report, Register, Write, Written, In, Live
<1>2. reader'.pc # "returned"
  BY <1>1, NotReturned
<1>3. CASE TimerFires(r)
  <2>1. RunsOK' /\ Counts'
    BY <1>1, <1>3, GoesOn DEF TimerFires, In, Stages, Unwritten
  <2> QED
    BY <1>1, <1>2, <1>3, <2>1 DEF TimerFires, FlagsOK, QuietAfterStop, Commands
<1>4. CASE Fetched(r)
  <2>1. RunsOK' /\ Counts'
    <3>1. CASE RunReturns(r)
      BY <1>1, <1>4, <3>1, Returns DEF Fetched
    <3>2. CASE UNCHANGED wg /\ \E stage \in {"register", "report"} : Go(r, stage)
      BY <1>1, <1>4, <3>2, GoesOn DEF Fetched, In, Stages, Unwritten
    <3> QED
      BY <1>4, <3>1, <3>2 DEF Fetched
  <2> QED
    BY <1>1, <1>2, <1>4, <2>1 DEF Fetched, FlagsOK, QuietAfterStop, Commands
<1>5. CASE Report(r)
  <2>1. RunsOK' /\ Counts'
    BY <1>1, <1>5, Returns DEF Report
  <2>2. told' \subseteq Kinds
    BY <1>5 DEF Report, FlagsOK, RunsOK, Run
  <2> QED
    BY <1>1, <1>2, <1>5, <2>1, <2>2 DEF Report, FlagsOK, QuietAfterStop, Commands
<1>6. CASE Register(r)
  <2>1. CASE RunReturns(r) /\ UNCHANGED <<pending, nextID>>
    <3>1. RunsOK' /\ Counts'
      BY <1>1, <2>1, Returns
    <3> QED
      BY <1>1, <1>2, <1>6, <2>1, <3>1 DEF Register, FlagsOK, QuietAfterStop, Commands
  <2>2. CASE /\ runs' = [runs EXCEPT ![r].stage = "write", ![r].id = nextID]
             /\ pending' = pending \cup {[id |-> nextID, kind |-> runs[r].kind]}
             /\ nextID' = nextID + 1 /\ UNCHANGED wg
    <3>1. RunsOK' /\ Counts'
      BY <1>6, <2>2, Registers DEF Register
    <3>2. nextID \in Nat /\ nextID >= 3 /\ runs[r].kind \in Kinds
      BY CountsBounded, RenewerAssumptions DEF Counts, RunsOK, Run
    <3>3. pending' \subseteq Commands'
      <4>1. [id |-> nextID, kind |-> runs[r].kind] \in [id : 3..nextID, kind : Kinds]
        BY <3>2
      <4>2. pending \subseteq [id : 3..nextID, kind : Kinds]
        BY <3>2 DEF Commands
      <4>3. Commands' = [id : 3..nextID, kind : Kinds]
        <5>1. nextID' - 1 = nextID
          BY <2>2, <3>2
        <5> QED
          BY <5>1 DEF Commands
      <4> QED
        BY <2>2, <4>1, <4>2, <4>3
    <3> QED
      BY <1>1, <1>2, <1>6, <3>1, <3>3 DEF Register, FlagsOK, QuietAfterStop
  <2> QED
    BY <1>6, <2>1, <2>2 DEF Register
<1>7. CASE Write(r)
  <2>1. UNCHANGED <<cancelled, stopped, timers, wg, pending, nextID>>
    BY <1>7 DEF Write
  <2>2. RunsOK' /\ Counts'
    <3>1. CASE In(r, "write") /\ Go(r, "writing")
      BY <1>1, <2>1, <3>1, GoesOn DEF Stages, Unwritten
    <3>2. CASE In(r, "writing") /\ Go(r, "written")
      BY <1>1, <2>1, <3>2, GoesOn DEF Stages, Unwritten
    <3> QED
      BY <1>7, <3>1, <3>2 DEF Write
  <2>3. runs[r].kind \in Kinds
    BY DEF RunsOK, Run
  <2>4. FlagsOK'
    BY <1>7, <2>1, <2>3 DEF Write, FlagsOK
  <2> QED
    BY <1>1, <1>2, <2>1, <2>2, <2>4 DEF QuietAfterStop, Commands
<1>8. CASE Written(r)
  <2>1. RunsOK' /\ Counts'
    BY <1>1, <1>8, Returns DEF Written
  <2> QED
    BY <1>1, <1>2, <1>8, <2>1 DEF Written, FlagsOK, QuietAfterStop, Commands
<1> QED
  BY <1>3, <1>4, <1>5, <1>6, <1>7, <1>8 DEF Renew

LEMMA StepKeeps == IInv /\ [RenewerNext]_renewerVars => IInv'
<1> SUFFICES ASSUME IInv, [RenewerNext]_renewerVars PROVE IInv'
  OBVIOUS
<1>1. CASE CancelCtx \/ UNCHANGED renewerVars
  <2>1. UNCHANGED <<stopped, runs, timers, wg, pending, nextID, writer, reader, told>>
    BY <1>1 DEF CancelCtx, renewerVars
  <2>2. RunsOK' /\ Counts'
    BY <2>1, Unmoved DEF IInv
  <2>3. FlagsOK'
    BY <1>1, <2>1 DEF IInv, CancelCtx, renewerVars, FlagsOK
  <2>4. QuietAfterStop'
    BY <2>1 DEF IInv, QuietAfterStop, Live
  <2> QED
    BY <2>1, <2>2, <2>3, <2>4 DEF IInv, Commands
<1>2. CASE Read \/ Reply \/ Ping \/ Leave
  BY <1>2, ReadKeeps
<1>3. CASE \E r \in RunIds : TimerFires(r) \/ Renew(r)
  BY <1>3, RunKeeps
<1> QED
  BY <1>1, <1>2, <1>3 DEF RenewerNext

LEMMA Inductive == RenewerSpec => []IInv
<1> QED
  BY Begins, StepKeeps, PTL DEF RenewerSpec

-----------------------------------------------------------------------------
(* Theorems.                                                               *)

\* The variables have their types, ids are handed out once, and no command is
\* pending under an id not yet given out (nextID and pending in renewal.go).
THEOREM TypeCorrect == RenewerSpec => []RenewerTypeOK
BY Inductive, InvariantImplies, PTL

\* However many renewals are scheduled, fire, fail or are replaced, the
\* WaitGroup counts exactly those that stop must wait for (schedule, renew, stop).
THEOREM CountIsExact == RenewerSpec => []WaitGroupExact
BY Inductive, InvariantImplies, PTL

\* Once stop has returned, nothing of any renewal runs ("waits for one in flight
\* to finish").
THEOREM StopWaits == RenewerSpec => []QuietAfterStop
BY Inductive, InvariantImplies, PTL

\* So stop waits for every renewal that was begun and for nothing else.
THEOREM StopExact == RenewerSpec => []StopIsExact
<1>1. WaitGroupExact /\ QuietAfterStop => StopIsExact
  BY DEF StopIsExact
<1> QED
  BY <1>1, CountIsExact, StopWaits, PTL

-----------------------------------------------------------------------------
(* Each renewal once.  What waits for an answer and what will be asked for *)
(* are two ways to hold the one renewal of a kind: the invariant says that *)
(* only one of them is held, that neither is held when the reader is about *)
(* to schedule, and that a kind held by neither is known to have failed.   *)

Quiet(k) == Starting(k) = {} /\ Unanswered(k) = {}
Sending(c) == \E r \in RunIds : Live(r) /\ Command(r) = c
Held(k) == k \in told \/ Starting(k) # {} \/
           \E c \in Unanswered(k) : c \in server.got \/ Sending(c)

\* The kinds the reader has yet to schedule.
Unscheduled == CASE reader.pc = "connection" -> Kinds
                 [] reader.pc = "subscription" -> {"subscription"}
                 [] reader.pc = "reply" -> {reader.kind}
                 [] OTHER -> {}
Reading == {"connection", "subscription", "loop", "reply", "pong", "ponging"}

Single == \A k \in Kinds :
    /\ \A q, r \in Starting(k) : q = r
    /\ \A c, d \in Unanswered(k) : c = d
    /\ Starting(k) = {} \/ Unanswered(k) = {}
Timed == \A k \in Kinds : timers[k] \in RunIds =>
             runs[timers[k]].kind = k /\ runs[timers[k]].stage # "free"
Sent == \A r \in RunIds :
    /\ runs[r].id < nextID
    /\ In(r, "written") /\ Command(r) \in pending =>
          Command(r) \in server.got \/ runs[r].kind \in told

\* A run that has written is done with its command only if the server got it, or
\* the failure of the write was reported; the context of a renewer that reads is
\* canceled only from without.
OnceInv ==
    /\ IInv /\ Single /\ Timed /\ Sent
    /\ server \in [got : SUBSET [id : Nat, kind : Kinds], pings : Nat]
    /\ stopped => reader.pc \in {"wait", "returned"}
    /\ \A k \in Unscheduled : Quiet(k)
    /\ reader.pc \in Reading /\ ~cancelled => \A k \in Kinds \ Unscheduled : Held(k)

LEMMA OnceBegins == RenewerInit => OnceInv
<1> SUFFICES ASSUME RenewerInit PROVE OnceInv
  OBVIOUS
<1>1. IInv
  BY Begins
<1>2. \A k \in Kinds : Starting(k) = {} /\ Unanswered(k) = {}
  BY DEF RenewerInit, Starting, Unanswered
<1>3. Sent /\ Timed /\ server \in [got : SUBSET [id : Nat, kind : Kinds], pings : Nat]
  BY RenewerAssumptions DEF RenewerInit, Sent, In, Timed, RunIds
<1>4. Unscheduled = Kinds /\ ~stopped
  BY DEF RenewerInit, Unscheduled
<1> QED
  BY <1>1, <1>2, <1>3, <1>4 DEF OnceInv, Single, Quiet

\* A step of the reader or of the context that looks at no run and no command.
LEMMA Aside ==
    ASSUME OnceInv, IInv', UNCHANGED <<runs, timers, pending, nextID, told, stopped>>,
           server' \in [got : SUBSET [id : Nat, kind : Kinds], pings : Nat],
           server'.got = server.got,
           cancelled => cancelled',
           stopped => reader'.pc \in {"wait", "returned"},
           reader'.pc \in Reading => reader.pc \in Reading,
           Unscheduled' = Unscheduled
    PROVE  OnceInv'
<1>1. \A k \in Kinds : /\ Starting(k)' = Starting(k) /\ Unanswered(k)' = Unanswered(k)
                        /\ Quiet(k)' = Quiet(k)
  BY DEF Starting, Unanswered, Quiet
<1>2. \A k \in Kinds : Held(k)' = Held(k)
  BY <1>1 DEF Held, Sending, Live, Command
<1>3. Single' /\ Timed' /\ Sent'
  BY <1>1 DEF OnceInv, Single, Timed, Sent, In, Command
<1>4. Unscheduled \subseteq Kinds
  BY DEF Unscheduled, OnceInv, IInv, Kinds
<1>5. (\A k \in Unscheduled : Quiet(k))'
  BY <1>1, <1>4 DEF OnceInv
<1>6. (reader.pc \in Reading /\ ~cancelled => \A k \in Kinds \ Unscheduled : Held(k))'
  BY <1>2 DEF OnceInv
<1> QED
  BY <1>3, <1>5, <1>6 DEF OnceInv

\* The reader schedules a kind that is not being renewed, or is told of its end.
LEMMA Scheduled ==
    ASSUME OnceInv, IInv', NEW k \in Kinds, Quiet(k), reader.pc \in Reading,
           Schedule(k) \/ (told' = told \cup {k} /\ UNCHANGED <<runs, timers, wg>>),
           UNCHANGED <<cancelled, stopped, pending, nextID, writer, server>>,
           reader'.pc \in Reading, Unscheduled' = Unscheduled \ {k}
    PROVE  OnceInv'
<1>0. /\ runs \in [RunIds -> Run] /\ Unscheduled \subseteq Kinds
      /\ \A c \in pending : c.id # 0
      /\ \A r \in RunIds : runs[r].stage \in Unwritten => runs[r].id = 0
  BY DEF OnceInv, IInv, RunsOK, Commands, Unscheduled, Kinds
<1>1. ~stopped /\ ~stopped'
  BY DEF OnceInv, Reading
<1>2. \A j \in Kinds : Unanswered(j)' = Unanswered(j)
  BY DEF Unanswered
<1>3. CASE told' = told \cup {k} /\ UNCHANGED <<runs, timers>>
  <2>1. \A j \in Kinds : Starting(j)' = Starting(j) /\ Quiet(j)' = Quiet(j) /\ (Held(j) => Held(j)')
    BY <1>2, <1>3 DEF Starting, Quiet, Held, Sending, Live, Command
  <2>2. Held(k)'
    BY <1>3 DEF Held
  <2>3. Single' /\ Timed' /\ Sent'
    BY <1>2, <1>3, <2>1 DEF OnceInv, Single, Timed, Sent, In, Command
  <2> QED
    BY <1>0, <1>1, <2>1, <2>2, <2>3 DEF OnceInv
<1>4. CASE \E r \in RunIds : /\ In(r, "free") /\ timers' = [timers EXCEPT ![k] = r] /\ told' = told
             /\ runs' = [[q \in RunIds |-> IF q \in Armed /\ timers[k] = q
                                           THEN [runs[q] EXCEPT !.stage = "done"] ELSE runs[q]]
                           EXCEPT ![r] = [stage |-> "armed", kind |-> k, id |-> 0]]
  <2>1. PICK r \in RunIds :
             /\ In(r, "free") /\ timers' = [timers EXCEPT ![k] = r]
             /\ runs' = [[q \in RunIds |-> IF q \in Armed /\ timers[k] = q
                                           THEN [runs[q] EXCEPT !.stage = "done"] ELSE runs[q]]
                           EXCEPT ![r] = [stage |-> "armed", kind |-> k, id |-> 0]]
    BY <1>4
  <2>2. runs'[r] = [stage |-> "armed", kind |-> k, id |-> 0]
    BY <2>1
  <2>3. \A q \in RunIds : ~(q \in Armed /\ timers[k] = q)
    BY DEF Armed, In, OnceInv, Timed, Quiet, Starting
  <2>4. \A q \in RunIds \ {r} : runs'[q] = runs[q]
    BY <1>0, <2>1, <2>3
  <2>5. Starting(k)' = {r}
    BY <2>2, <2>4 DEF Starting, Quiet
  <2>6. runs[r].stage = "free" /\ runs[r].id = 0
    BY <1>0, <2>1 DEF In, Unwritten
  <2>7. \A j \in Kinds \ {k} : Starting(j)' = Starting(j) /\ Quiet(j)' = Quiet(j)
    BY <1>2, <2>2, <2>4, <2>6 DEF Starting, Quiet
  <2>8. Single'
    BY <1>2, <2>5, <2>7 DEF OnceInv, Single, Quiet
  <2>9. Sent'
    <3>1. \A q \in RunIds \ {r} : runs'[q].id < nextID' /\ Command(q)' = Command(q)
      BY <2>4 DEF OnceInv, Sent, Command
    <3>2. runs'[r].id < nextID' /\ runs'[r].stage # "written"
      BY <2>2, <2>6 DEF OnceInv, Sent
    <3> QED
      BY <1>4, <2>4, <3>1, <3>2 DEF OnceInv, Sent, In
  <2>10. Timed'
    <3>1. timers \in [Kinds -> {0} \cup RunIds]
      BY DEF OnceInv, IInv, FlagsOK
    <3>2. \A j \in Kinds \ {k} : timers'[j] = timers[j] /\ timers[j] # r
      BY <2>1, <2>6, <3>1 DEF OnceInv, Timed
    <3> QED
      BY <2>1, <2>2, <2>4, <3>1, <3>2 DEF OnceInv, Timed
  <2>11. \A c \in pending : Sending(c) => Sending(c)'
    BY <1>0, <2>4, <2>6 DEF Sending, Live, Command
  <2>12. \A j \in Kinds \ {k} : Held(j) => Held(j)'
    BY <1>2, <1>4, <2>7, <2>11 DEF Held, Unanswered
  <2>13. Held(k)'
    BY <2>5 DEF Held
  <2> QED
    BY <1>0, <1>1, <2>7, <2>8, <2>9, <2>10, <2>12, <2>13 DEF OnceInv
<1> QED
  BY <1>3, <1>4 DEF Schedule

\* The reader's other steps.  An answer ends the one command of its kind that is
\* pending, and its handling schedules the next.
LEMMA ReaderKeepsOnce ==
    ASSUME OnceInv, IInv', Read \/ Reply \/ Ping \/ Leave \/ CancelCtx
    PROVE  OnceInv'
<1>0. /\ runs \in [RunIds -> Run] /\ reader \in [pc : Places, kind : Kinds]
      /\ server \in [got : SUBSET [id : Nat, kind : Kinds], pings : Nat]
      /\ cancelled \in BOOLEAN
  BY DEF OnceInv, IInv, RunsOK, FlagsOK
<1>1. CASE Setup
  <2> DEFINE k == reader.pc
  <2>1. k \in Kinds /\ k \in Reading /\ k \in Unscheduled /\ Unscheduled' = Unscheduled \ {k}
        /\ reader'.pc \in Reading
    BY <1>0, <1>1 DEF Setup, Kinds, Unscheduled, Reading
  <2> QED
    BY <1>1, <2>1, Scheduled DEF Setup, OnceInv
<1>2. CASE Answered
  <2> DEFINE k == reader.kind
  <2>1. k \in Kinds /\ reader.pc \in Reading /\ k \in Unscheduled /\ Unscheduled' = Unscheduled \ {k}
        /\ reader'.pc \in Reading
    BY <1>0, <1>2 DEF Answered, Kinds, Unscheduled, Reading
  <2> QED
    BY <1>2, <2>1, Scheduled DEF Answered, OnceInv
<1>3. CASE Pong \/ Wait \/ Ping \/ Leave \/ CancelCtx
  <2>1. /\ UNCHANGED <<runs, timers, pending, nextID, told, stopped>> /\ server'.got = server.got
        /\ server' \in [got : SUBSET [id : Nat, kind : Kinds], pings : Nat]
    BY <1>0, <1>3 DEF Pong, Wait, Ping, Leave, CancelCtx
  <2>2. cancelled => cancelled'
    BY <1>3 DEF Pong, Wait, Ping, Leave, CancelCtx
  <2>3. stopped => reader'.pc \in {"wait", "returned"}
    BY <1>0, <1>3 DEF Pong, Wait, Ping, Leave, CancelCtx, OnceInv
  <2>4. (reader'.pc \in Reading => reader.pc \in Reading) /\ Unscheduled' = Unscheduled
    BY <1>0, <1>3 DEF Pong, Wait, Ping, Leave, CancelCtx, Reading, Unscheduled
  <2> QED
    BY <2>1, <2>2, <2>3, <2>4, Aside
<1>4. CASE Stop
  <2>1. \A r \in RunIds : /\ runs'[r].kind = runs[r].kind /\ runs'[r].id = runs[r].id
                           /\ \/ runs'[r].stage = runs[r].stage
                              \/ runs[r].stage = "armed" /\ runs'[r].stage = "done"
    BY <1>0, <1>4 DEF Stop, Run, Armed, In
  <2>2. UNCHANGED <<timers, pending, nextID, server, told>> /\ reader'.pc = "wait"
    BY <1>0, <1>4 DEF Stop
  <2>3. \A k \in Kinds : Starting(k)' \subseteq Starting(k) /\ Unanswered(k)' = Unanswered(k)
    BY <2>1, <2>2 DEF Starting, Unanswered
  <2>4. Single'
    BY <2>3 DEF OnceInv, Single
  <2>5. Sent' /\ Timed'
    BY <2>1, <2>2 DEF OnceInv, Sent, Timed, In, Command
  <2>6. Unscheduled' = {} /\ reader'.pc \notin Reading
    BY <2>2 DEF Unscheduled, Reading
  <2> QED
    BY <2>2, <2>4, <2>5, <2>6 DEF OnceInv
<1>5. CASE Reply
  <2>1. PICK c \in server.got :
             /\ server' = [server EXCEPT !.got = @ \ {c}] /\ pending' = pending \ {c}
             /\ reader' = IF c \in pending THEN [pc |-> "reply", kind |-> c.kind] ELSE reader
    BY <1>5 DEF Reply
  <2>2. UNCHANGED <<cancelled, stopped, runs, timers, nextID, told>> /\ reader.pc = "loop"
    BY <1>5 DEF Reply
  <2>3. /\ c \in [id : Nat, kind : Kinds] /\ server'.got = server.got \ {c}
        /\ server' \in [got : SUBSET [id : Nat, kind : Kinds], pings : Nat]
    BY <1>0, <2>1
  <2>4. \A k \in Kinds : Starting(k)' = Starting(k) /\ Unanswered(k)' = Unanswered(k) \ {c}
    BY <2>1, <2>2 DEF Starting, Unanswered
  <2>5. Single' /\ Timed'
    BY <2>2, <2>4 DEF OnceInv, Single, Timed
  <2>6. Sent'
    BY <2>1, <2>2, <2>3 DEF OnceInv, Sent, In, Command
  <2>7. ~stopped'
    BY <2>2 DEF OnceInv
  <2>8. \A k \in Kinds : k # c.kind \/ c \notin pending => (Held(k) => Held(k)')
    <3>1. \A d : Sending(d)' <=> Sending(d)
      BY <2>2 DEF Sending, Live, Command
    <3> QED
      BY <2>1, <2>2, <2>3, <2>4, <3>1 DEF Held, Unanswered
  <2>9. CASE c \in pending
    <3>1. Quiet(c.kind)'
      BY <2>3, <2>4, <2>9 DEF OnceInv, Single, Unanswered, Quiet
    <3>2. Unscheduled' = {c.kind} /\ Unscheduled = {}
      BY <2>1, <2>2, <2>9 DEF Unscheduled
    <3> QED
      BY <2>2, <2>3, <2>5, <2>6, <2>7, <2>8, <3>1, <3>2 DEF OnceInv, Reading
  <2>10. CASE c \notin pending
    <3>1. Unscheduled' = {} /\ Unscheduled = {}
      BY <2>1, <2>2, <2>10 DEF Unscheduled
    <3> QED
      BY <2>1, <2>2, <2>3, <2>5, <2>6, <2>7, <2>8, <2>10, <3>1 DEF OnceInv
  <2> QED
    BY <2>9, <2>10
<1> QED
  BY <1>1, <1>2, <1>3, <1>4, <1>5 DEF Read

\* A run moves its one renewal on, from its start to a command that is written.
LEMMA RunKeepsOnce ==
    ASSUME OnceInv, IInv', NEW r \in RunIds, TimerFires(r) \/ Renew(r)
    PROVE  OnceInv'
<1>0. /\ runs \in [RunIds -> Run] /\ pending \subseteq Commands /\ nextID \in Nat
      /\ server \in [got : SUBSET [id : Nat, kind : Kinds], pings : Nat]
      /\ \A q \in RunIds : runs[q].stage \in Unwritten => runs[q].id = 0
      /\ Unscheduled \subseteq Kinds /\ runs[r].kind \in Kinds
  <2>1. nextID \in Nat
    BY InvariantImplies DEF OnceInv, RenewerTypeOK, CommandIds
  <2> QED
    BY <2>1 DEF OnceInv, IInv, RunsOK, Unscheduled, Kinds, Run
<1>1. /\ UNCHANGED <<cancelled, stopped, timers, reader>> /\ Unscheduled' = Unscheduled
      /\ \A q \in RunIds \ {r} : runs'[q] = runs[q]
      /\ runs'[r].kind = runs[r].kind /\ runs'[r].stage # "free" /\ runs[r].stage # "free"
  BY <1>0 DEF TimerFires, Renew, Fetched, Report, Register, Write, Written, RunReturns, Go, In,
              Unscheduled, Run
<1>2. Timed'
  BY <1>1 DEF OnceInv, Timed
<1> PICK k \in Kinds : k = runs[r].kind
  BY <1>0
<1>3. \A j \in Kinds \ {k} : Starting(j)' = Starting(j)
  BY <1>1 DEF Starting
<1>4. CASE TimerFires(r) \/ \E stage \in {"register", "report"} : In(r, "fetching") /\ Go(r, stage)
                               /\ UNCHANGED <<pending, nextID, server, told>>
  <2>1. /\ UNCHANGED <<pending, nextID, server, told>> /\ runs'[r].id = runs[r].id
        /\ runs[r].stage \in {"armed", "fetching"}
        /\ runs'[r].stage \in {"fetching", "register", "report"}
    BY <1>0, <1>4 DEF TimerFires, Go, In, Run
  <2>2. \A j \in Kinds : Starting(j)' = Starting(j) /\ Unanswered(j)' = Unanswered(j)
    BY <1>1, <2>1 DEF Starting, Unanswered
  <2>3. Single' /\ \A j \in Kinds : Quiet(j)' = Quiet(j)
    BY <2>2 DEF OnceInv, Single, Quiet
  <2>4. Sent'
    BY <1>1, <2>1 DEF OnceInv, Sent, In, Command
  <2>5. \A c : Sending(c)' <=> Sending(c)
    BY <1>1, <2>1 DEF Sending, Live, Command
  <2>6. \A j \in Kinds : Held(j) => Held(j)'
    BY <2>1, <2>2, <2>5 DEF Held
  <2> QED
    BY <1>0, <1>1, <1>2, <2>1, <2>3, <2>4, <2>6 DEF OnceInv
<1>5. CASE cancelled /\ In(r, "fetching") /\ Go(r, "done") /\ UNCHANGED <<pending, nextID, server, told>>
  <2>1. \A j \in Kinds : Starting(j)' \subseteq Starting(j) /\ Unanswered(j)' = Unanswered(j)
    BY <1>0, <1>1, <1>5 DEF Starting, Unanswered, Go, In
  <2>2. Single' /\ \A j \in Kinds : Quiet(j) => Quiet(j)'
    BY <2>1 DEF OnceInv, Single, Quiet
  <2>3. Sent'
    BY <1>0, <1>1, <1>5 DEF OnceInv, Sent, In, Command, Go
  <2> QED
    BY <1>0, <1>1, <1>2, <1>5, <2>2, <2>3 DEF OnceInv
<1>6. CASE Report(r)
  <2>1. /\ UNCHANGED <<pending, nextID, server>> /\ told' = told \cup {k}
        /\ runs'[r].stage = "done" /\ runs[r].stage = "report" /\ runs'[r].id = runs[r].id
    BY <1>0, <1>6 DEF Report, RunReturns, Go, In
  <2>2. \A j \in Kinds : Starting(j)' \subseteq Starting(j) /\ Unanswered(j)' = Unanswered(j)
    BY <1>1, <2>1 DEF Starting, Unanswered
  <2>3. Single' /\ \A j \in Kinds : Quiet(j) => Quiet(j)'
    BY <2>2 DEF OnceInv, Single, Quiet
  <2>4. Sent'
    BY <1>1, <2>1 DEF OnceInv, Sent, In, Command
  <2>5. \A c \in pending : Sending(c) => Sending(c)'
    BY <1>0, <1>1, <2>1 DEF Sending, Live, Command, Commands, Unwritten
  <2>6. \A j \in Kinds : Held(j) => Held(j)'
    BY <1>3, <2>1, <2>2, <2>5 DEF Held, Unanswered
  <2> QED
    BY <1>0, <1>1, <1>2, <2>1, <2>3, <2>4, <2>6 DEF OnceInv
<1>7. CASE Register(r)
  <2>1. runs[r].stage = "register" /\ UNCHANGED <<server, told>> /\ r \in Starting(k)
    BY <1>7 DEF Register, In, Starting
  <2>2. ~(\A j \in Unscheduled : Quiet(j)) \/ k \notin Unscheduled
    BY <2>1 DEF Quiet
  <2>3. CASE stopped
    <3>0. Go(r, "done") /\ UNCHANGED <<pending, nextID>>
      BY <1>7, <2>3 DEF Register, RunReturns
    <3>1. runs'[r].stage = "done" /\ runs'[r].id = runs[r].id /\ UNCHANGED <<pending, nextID>>
          /\ reader.pc \notin Reading
      BY <1>0, <2>3, <3>0 DEF Go, OnceInv, Reading
    <3>2. \A j \in Kinds : Starting(j)' \subseteq Starting(j) /\ Unanswered(j)' = Unanswered(j)
      BY <1>1, <2>1, <3>1 DEF Starting, Unanswered
    <3>3. Single' /\ \A j \in Kinds : Quiet(j) => Quiet(j)'
      BY <3>2 DEF OnceInv, Single, Quiet
    <3>4. Sent'
      BY <1>1, <2>1, <3>1 DEF OnceInv, Sent, In, Command
    <3> QED
      BY <1>0, <1>1, <1>2, <2>1, <3>1, <3>3, <3>4 DEF OnceInv
  <2>4. CASE ~stopped
    <3> PICK c : c = [id |-> nextID, kind |-> k]
      OBVIOUS
    <3>1. /\ runs'[r].stage = "write" /\ runs'[r].id = nextID /\ Command(r)' = c
          /\ pending' = pending \cup {c} /\ c.kind = k
      BY <1>0, <1>1, <1>7, <2>4 DEF Register, Command, Run
    <3>2. Starting(k)' = {}
      BY <1>1, <2>1, <3>1 DEF Starting, OnceInv, Single
    <3>3. /\ Unanswered(k)' = Unanswered(k) \cup {c}
          /\ \A j \in Kinds \ {k} : Unanswered(j)' = Unanswered(j)
      BY <3>1 DEF Unanswered
    <3>4. Unanswered(k) = {}
      BY <1>0, <2>1 DEF OnceInv, Single
    <3>5. Single' /\ \A j \in Kinds \ {k} : Quiet(j) => Quiet(j)'
      BY <1>3, <3>2, <3>3, <3>4 DEF OnceInv, Single, Quiet
    <3>6. Sent'
      <4>1. nextID' = nextID + 1 /\ \A q \in RunIds : runs[q].id \in Nat
        BY <1>0, <1>7, <2>4 DEF Register, Run
      <4>2. \A q \in RunIds \ {r} : Command(q)' = Command(q) /\ Command(q) # c
                                      /\ runs'[q].id < nextID'
        BY <1>0, <1>1, <4>1 DEF OnceInv, Sent, Command
      <4> QED
        BY <1>0, <1>1, <2>1, <3>1, <4>1, <4>2 DEF OnceInv, Sent, In
    <3>7. Sending(c)'
      BY <3>1 DEF Sending, Live
    <3>8. Held(k)'
      BY <3>1, <3>3, <3>7 DEF Held
    <3>9. \A j \in Kinds \ {k} : Held(j) => Held(j)'
      <4>1. \A d \in pending : Sending(d) => Sending(d)'
        BY <1>0, <1>1, <2>1 DEF Sending, Live, Command, Commands, Unwritten
      <4> QED
        BY <1>3, <2>1, <3>3, <4>1 DEF Held, Unanswered
    <3> QED
      BY <1>0, <1>1, <1>2, <2>1, <2>2, <2>4, <3>5, <3>6, <3>8, <3>9 DEF OnceInv
  <2> QED
    BY <2>3, <2>4
<1>8. CASE Write(r) /\ In(r, "write")
  <2>1. /\ runs'[r].stage = "writing" /\ runs'[r].id = runs[r].id /\ runs[r].stage = "write"
        /\ UNCHANGED <<pending, nextID, server, told>>
    <3>1. ~In(r, "writing")
      BY <1>8 DEF In
    <3>2. Go(r, "writing") /\ UNCHANGED <<pending, nextID, server, told>>
      BY <1>8, <3>1 DEF Write
    <3> QED
      BY <1>0, <1>8, <3>2 DEF Go, In
  <2>2. \A j \in Kinds : Starting(j)' = Starting(j) /\ Unanswered(j)' = Unanswered(j)
    BY <1>1, <2>1 DEF Starting, Unanswered
  <2>3. Single' /\ \A j \in Kinds : Quiet(j)' = Quiet(j)
    BY <2>2 DEF OnceInv, Single, Quiet
  <2>4. Sent'
    BY <1>1, <2>1 DEF OnceInv, Sent, In, Command
  <2>5. \A d : Sending(d)' <=> Sending(d)
    BY <1>1, <2>1 DEF Sending, Live, Command
  <2>6. \A j \in Kinds : Held(j) => Held(j)'
    BY <2>1, <2>2, <2>5 DEF Held
  <2> QED
    BY <1>0, <1>1, <1>2, <2>1, <2>3, <2>4, <2>6 DEF OnceInv
<1>9. CASE Write(r) /\ In(r, "writing")
  <2>1. /\ runs'[r].stage = "written" /\ runs'[r].id = runs[r].id /\ runs[r].stage = "writing"
        /\ UNCHANGED <<pending, nextID>>
        /\ \/ server' = [server EXCEPT !.got = @ \cup {Command(r)}] /\ UNCHANGED told
           \/ told' = told \cup {k} /\ UNCHANGED server
    <3>1. ~In(r, "write")
      BY <1>9 DEF In
    <3>2. Go(r, "written") /\ UNCHANGED <<pending, nextID>>
      BY <1>9, <3>1 DEF Write
    <3>3. \/ server' = [server EXCEPT !.got = @ \cup {Command(r)}] /\ UNCHANGED told
          \/ told' = told \cup {k} /\ UNCHANGED server
      BY <1>9, <3>1 DEF Write
    <3> QED
      BY <1>0, <1>9, <3>2, <3>3 DEF Go, In
  <2>2. Command(r) \in [id : Nat, kind : Kinds]
    BY <1>0 DEF Command, Run
  <2>3. /\ server' \in [got : SUBSET [id : Nat, kind : Kinds], pings : Nat]
        /\ server.got \subseteq server'.got
        /\ Command(r) \in server'.got \/ k \in told'
        /\ told \subseteq told'
    BY <1>0, <2>1, <2>2
  <2>4. \A j \in Kinds : Starting(j)' = Starting(j) /\ Unanswered(j)' = Unanswered(j)
    BY <1>1, <2>1 DEF Starting, Unanswered
  <2>5. Single' /\ \A j \in Kinds : Quiet(j)' = Quiet(j)
    BY <2>4 DEF OnceInv, Single, Quiet
  <2>6. Sent'
    <3>1. \A q \in RunIds : Command(q)' = Command(q)
      BY <1>1, <2>1 DEF Command
    <3> QED
      BY <1>1, <2>1, <2>3, <3>1 DEF OnceInv, Sent, In
  <2>7. \A d : Sending(d)' <=> Sending(d)
    BY <1>1, <2>1 DEF Sending, Live, Command
  <2>8. \A j \in Kinds : Held(j) => Held(j)'
    BY <2>3, <2>4, <2>7 DEF Held
  <2> QED
    BY <1>0, <1>1, <1>2, <2>1, <2>3, <2>5, <2>6, <2>8 DEF OnceInv
<1>10. CASE Written(r)
  <2>1. /\ runs'[r].stage = "done" /\ runs'[r].id = runs[r].id /\ runs[r].stage = "written"
        /\ UNCHANGED <<pending, nextID, server, told>>
    BY <1>0, <1>10 DEF Written, RunReturns, Go, In
  <2>2. \A j \in Kinds : Starting(j)' = Starting(j) /\ Unanswered(j)' = Unanswered(j)
    BY <1>1, <2>1 DEF Starting, Unanswered
  <2>3. Single' /\ \A j \in Kinds : Quiet(j)' = Quiet(j)
    BY <2>2 DEF OnceInv, Single, Quiet
  <2>4. Sent'
    BY <1>1, <2>1 DEF OnceInv, Sent, In, Command
  <2>5. \A d : Sending(d) => Sending(d)' \/ d = Command(r)
    BY <1>1, <2>1 DEF Sending, Live, Command
  <2>6. Command(r) \in pending => Command(r) \in server.got \/ k \in told
    BY <2>1 DEF OnceInv, Sent, In
  <2>7. Command(r).kind = k
    BY DEF Command
  <2>8. \A j \in Kinds : Held(j) => Held(j)'
    BY <2>1, <2>2, <2>5, <2>6, <2>7 DEF Held, Unanswered
  <2> QED
    BY <1>0, <1>1, <1>2, <2>1, <2>3, <2>4, <2>8 DEF OnceInv
<1>11. CASE Fetched(r)
  <2>1. CASE cancelled /\ RunReturns(r)
    BY <1>5, <1>11, <2>1 DEF Fetched, RunReturns
  <2>2. CASE \E stage \in {"register", "report"} : Go(r, stage)
    BY <1>4, <1>11, <2>2 DEF Fetched
  <2> QED
    BY <1>11, <2>1, <2>2 DEF Fetched
<1> QED
  BY <1>4, <1>6, <1>7, <1>8, <1>9, <1>10, <1>11 DEF Renew, Write

LEMMA StepKeepsOnce == OnceInv /\ [RenewerNext]_renewerVars => OnceInv'
<1> SUFFICES ASSUME OnceInv, [RenewerNext]_renewerVars PROVE OnceInv'
  OBVIOUS
<1>1. IInv'
  BY StepKeeps DEF OnceInv
<1>2. CASE RenewerNext
  BY <1>1, <1>2, ReaderKeepsOnce, RunKeepsOnce DEF RenewerNext
<1>3. CASE UNCHANGED renewerVars
  BY <1>1, <1>3, Aside DEF renewerVars, Unscheduled, OnceInv
<1> QED
  BY <1>2, <1>3

\* What is held once is counted once.
LEMMA OnceImplies == OnceInv => EachRenewalOnce
<1> SUFFICES ASSUME OnceInv PROVE EachRenewalOnce
  OBVIOUS
<1>1. NothingForgotten
  <2> SUFFICES ASSUME reader.pc \in {"loop", "pong", "ponging"}, ~cancelled
               PROVE  \A k \in Kinds \ told : Starting(k) # {} \/ \E c \in Unanswered(k) :
                        c \in server.got \/ \E r \in RunIds : Live(r) /\ Command(r) = c
    BY DEF NothingForgotten
  <2>1. Unscheduled = {} /\ reader.pc \in Reading
    BY DEF Unscheduled, Reading
  <2> QED
    BY <2>1 DEF OnceInv, Held, Sending
<1>2. \A k \in Kinds : Cardinality(Starting(k)) + Cardinality(Unanswered(k)) <= 1
  <2> TAKE k \in Kinds
  <2>1. \A S : (\A x, y \in S : x = y) => S = {} \/ \E x : S = {x}
    OBVIOUS
  <2>2. Starting(k) = {} \/ \E x : Starting(k) = {x}
    BY <2>1 DEF OnceInv, Single
  <2>3. Unanswered(k) = {} \/ \E x : Unanswered(k) = {x}
    BY <2>1 DEF OnceInv, Single
  <2>4. Cardinality({}) = 0 /\ \A x : Cardinality({x}) = 1
    BY FS_EmptySet, FS_Singleton
  <2>5. Cardinality(Starting(k)) \in {0, 1} /\ Cardinality(Unanswered(k)) \in {0, 1}
    BY <2>2, <2>3, <2>4
  <2>6. Cardinality(Starting(k)) = 0 \/ Cardinality(Unanswered(k)) = 0
    BY <2>4 DEF OnceInv, Single
  <2> QED
    BY <2>5, <2>6
<1> QED
  BY <1>1, <1>2 DEF EachRenewalOnce, OneAtATime

\* Whatever the order of timers, answers, writes and the end of the connection, a
\* token is renewed neither twice at a time nor not at all (schedule, renew,
\* handleReply in renewal.go).
THEOREM RenewedOnce == RenewerSpec => []EachRenewalOnce
BY OnceBegins, StepKeepsOnce, OnceImplies, PTL DEF RenewerSpec

-----------------------------------------------------------------------------
(* The client's credentials together.                                      *)

credentialsVars == <<op, signingVars, renewerVars>>

LEMMA CredentialsInductive == CredentialsSpec => [](Inv /\ OnceInv)
<1>1. CredentialsInit => Inv /\ OnceInv
  BY AllocatorInit, OnceBegins DEF CredentialsInit
<1>2. Inv /\ OnceInv /\ [CredentialsNext]_credentialsVars => (Inv /\ OnceInv)'
  <2> SUFFICES ASSUME Inv, OnceInv, [CredentialsNext]_credentialsVars PROVE Inv' /\ OnceInv'
    OBVIOUS
  <2>1. [SigningNext]_signingVars /\ [RenewerNext]_renewerVars
    BY DEF CredentialsNext, credentialsVars
  <2> QED
    BY <2>1, AllocatorNext, StepKeepsOnce
<1>3. CredentialsSpec => CredentialsInit /\ [][CredentialsNext]_credentialsVars
  BY PTL DEF CredentialsSpec, credentialsVars
<1> QED
  BY <1>1, <1>2, <1>3, PTL

\* Whether a client signs or renews, its variables have their types: no timestamp
\* leaves int64 and no command is pending under an id not given out.
THEOREM CredentialsTyped == CredentialsSpec => []CredentialsTypeOK
<1>1. Inv /\ OnceInv => CredentialsTypeOK
  BY InvariantImplies DEF Inv, OnceInv, CredentialsTypeOK
<1> QED
  BY <1>1, CredentialsInductive, PTL

\* And all that is promised of the two holds of them together: timestamps a server
\* accepts, a stop that waits for what was begun, and each renewal once.
THEOREM CredentialsSafe == CredentialsSpec => [](TimestampsAreValid /\ StopIsExact /\ EachRenewalOnce)
<1>1. Inv /\ OnceInv => TimestampsAreValid /\ StopIsExact /\ EachRenewalOnce
  BY InvariantImplies, OnceImplies DEF Inv, OnceInv, TimestampsAreValid, StopIsExact
<1> QED
  BY <1>1, CredentialsInductive, PTL
=============================================================================
