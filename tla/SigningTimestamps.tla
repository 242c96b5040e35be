-------------------------- MODULE SigningTimestamps --------------------------
(***************************************************************************)
(* automaticSigningTimestamp (auth/timestamps.go): goroutines that sign    *)
(* requests take millisecond timestamps from one lock-free allocator per   *)
(* credential identity.  A step is one access of shared state: a reading   *)
(* of the wall clock, the atomic Load, the CompareAndSwap.                 *)
(***************************************************************************)
EXTENDS Integers, Sequences

CONSTANTS
    Callers,        \* goroutines that sign
    Keys,           \* credential identities with a well-formed private key
    MaxInt,         \* math.MaxInt64
    Skew,           \* MaxSigningFutureSkewMS
    Backpressure,   \* maxSigningBackpressure, in sleeps of a millisecond
    Clocks          \* readings of the wall clock, which may step both ways

ASSUME AllocatorAssumptions ==
    /\ MaxInt \in Nat /\ Skew \in Nat /\ Backpressure \in Nat
    /\ Skew < MaxInt
    /\ Clocks \subseteq Int /\ \A t \in Clocks : t <= MaxInt

VARIABLES
    clock,    \* the wall clock
    last,     \* each allocator's atomic last; an absent one holds 0
    caller,   \* each caller's place and locals; waited: time since started
    high,     \* history: the highest reading the clock has had
    issued    \* history: the timestamps each allocator gave out, in order

signingVars == <<clock, last, caller, high, issued>>

Idle == [pc |-> "idle", key |-> "none", waited |-> 0, now |-> 0,
         observed |-> 0, candidate |-> 0]

SigningInit ==
    /\ clock \in Clocks /\ high = clock
    /\ last = [k \in Keys |-> 0]
    /\ caller = [p \in Callers |-> Idle]
    /\ issued = [k \in Keys |-> <<>>]

-----------------------------------------------------------------------------

\* A call with a malformed private key is refused and touches nothing.
BeginSigning(p) ==
    /\ caller[p].pc = "idle"
    /\ \E k \in Keys : caller' = [caller EXCEPT ![p].pc = "read", ![p].key = k]
    /\ UNCHANGED <<clock, last, high, issued>>

EndSigning(p) == caller' = [caller EXCEPT ![p] = Idle]

\* `now := time.Now().UnixMilli()` and the refusals of a clock out of range.
ReadClock(p) ==
    /\ caller[p].pc = "read"
    /\ \/ /\ clock < 0 \/ clock > MaxInt - Skew
          /\ EndSigning(p)
       \/ /\ clock >= 0 /\ clock <= MaxInt - Skew
          /\ caller' = [caller EXCEPT ![p].pc = "load", ![p].now = clock]
    /\ UNCHANGED <<clock, last, high, issued>>

Exhausted(now, observed) == observed >= now /\ observed = MaxInt

Candidate(now, observed) == IF observed >= now THEN observed + 1 ELSE now

Load(p) ==
    /\ caller[p].pc = "load"
    /\ LET observed == last[caller[p].key] IN
         \/ Exhausted(caller[p].now, observed) /\ EndSigning(p)
         \/ /\ ~Exhausted(caller[p].now, observed)
            /\ caller' = [caller EXCEPT ![p].pc = "swap", ![p].observed = observed,
                              ![p].candidate = Candidate(caller[p].now, observed)]
    /\ UNCHANGED <<clock, last, high, issued>>

\* Mutant: a plain store, after the ceiling was looked at.
SwapsBlindly(p) == caller[p].candidate <= caller[p].now + Skew

\* The candidate keeps under the ceiling and the CompareAndSwap succeeds.
Swaps(p) == caller[p].candidate <= caller[p].now + Skew /\ last[caller[p].key] = caller[p].observed

OutOfTime(p) == caller[p].waited >= Backpressure

Swap(p) ==
    /\ caller[p].pc = "swap"
    /\ \/ /\ Swaps(p) /\ EndSigning(p)
          /\ last' = [last EXCEPT ![caller[p].key] = caller[p].candidate]
          /\ issued' = [issued EXCEPT ![caller[p].key] = Append(@, caller[p].candidate)]
       \/ /\ ~Swaps(p) /\ UNCHANGED <<last, issued>>
          /\ \/ OutOfTime(p) /\ EndSigning(p)
             \/ ~OutOfTime(p) /\ caller' = [caller EXCEPT ![p].pc = "sleep"]
    /\ UNCHANGED <<clock, high>>

\* A millisecond passes: sleepers wake, and the wall clock reads what it reads.
\* The time a call has waited counts only up to Backpressure.
ClockMoves ==
    /\ clock' \in Clocks
    /\ high' = IF clock' > high THEN clock' ELSE high
    /\ caller' = [p \in Callers |->
               [caller[p] EXCEPT !.waited = IF caller[p].pc = "idle" \/ @ = Backpressure
                                       THEN @ ELSE @ + 1,
                            !.pc = IF @ = "sleep" THEN "read" ELSE @]]
    /\ UNCHANGED <<last, issued>>

Sign(p) == ReadClock(p) \/ Load(p) \/ Swap(p)

SigningNext == ClockMoves \/ \E p \in Callers : BeginSigning(p) \/ Sign(p)

SigningSpec == SigningInit /\ [][SigningNext]_signingVars

\* Goroutines are scheduled and time passes.
SigningFairness == WF_signingVars(ClockMoves) /\ \A p \in Callers : WF_signingVars(Sign(p))

FairSigningSpec == SigningSpec /\ SigningFairness

-----------------------------------------------------------------------------
(* Properties.                                                             *)

\* Every value is in its range; a timestamp never passes the end of int64,
\* whatever the clock reads.
SigningTypeOK ==
    /\ clock \in Clocks /\ high \in Clocks
    /\ last \in [Keys -> 0..MaxInt]
    /\ caller \in [Callers -> [pc : {"idle", "read", "load", "swap", "sleep"},
                          key : Keys \cup {"none"}, waited : 0..Backpressure,
                          now : 0..MaxInt, observed : 0..MaxInt, candidate : 0..MaxInt]]
    /\ issued \in [Keys -> Seq(0..MaxInt)]

\* README "Automatic request signing gives concurrent identical calls distinct
\* authentication tuples": the timestamps of one key are distinct, and in the
\* order the calls took them, also when the clock steps back.
DistinctAndIncreasing ==
    \A k \in Keys : \A i, j \in DOMAIN issued[k] :
        i < j => issued[k][i] < issued[k][j]

\* README "Timestamps can lead the local clock by at most five seconds": no
\* timestamp is further ahead of the clock than the skew allows, the clock
\* being taken at its highest so far.
LeadIsBounded ==
    \A k \in Keys : \A i \in DOMAIN issued[k] : issued[k][i] <= high + Skew

\* A server that refuses a timestamp it has seen, and one that is too far ahead,
\* refuses none of this client's (automaticSigningTimestamp).
TimestampsAreValid == DistinctAndIncreasing /\ LeadIsBounded

\* "larger bursts are backpressured": a call returns, with a timestamp or an
\* error, even if the clock never moves and others keep winning the swap.
CallReturns == \A p \in Callers : caller[p].pc # "idle" ~> caller[p].pc = "idle"
=============================================================================
