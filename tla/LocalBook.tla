------------------------------- MODULE LocalBook -------------------------------
(***************************************************************************)
(* How a side of the local book is rendered (orderbook/local_book.go):     *)
(* BucketSide, with the checked arithmetic it uses, and sideToLevels.      *)
(* A side is a function from prices to quantities.  Rows without a         *)
(* positive price and quantity are refused before they enter a book        *)
(* (LevelsFromProtoLevels, ApplyDelta) and are left out.  Go visits a map  *)
(* in any order: the visit lists the side's prices.                        *)
(***************************************************************************)
EXTENDS Integers, Sequences, FiniteSets, FiniteSetsExt, Functions

CONSTANTS
    Half,      \* how many values of Go's int are negative
    Prices,    \* prices and quantities of the sides that are checked,
    Qtys,
    Depth      \* the most levels of a side

ASSUME LocalBookAssumptions ==
    /\ Half \in Nat \ {0, 1} /\ Depth \in Nat
    /\ Prices \subseteq 1..(Half - 1) /\ Qtys \subseteq 1..(Half - 1)

MaxInt == Half - 1
Wrap(n) == ((n + Half) % (2 * Half)) - Half
Quotient(n, d) == IF n < 0 THEN -((-n) \div d) ELSE n \div d   \* d > 0

Refused == [ok |-> FALSE]
Gives(v) == [ok |-> TRUE, v |-> v]

CheckedMul(a, b) ==
    IF a = 0 \/ b = 0 THEN Gives(0)
    ELSE IF Quotient(Wrap(a * b), a) # b THEN Refused ELSE Gives(Wrap(a * b))

\* Mutant: the sum is not checked.
CheckedAddWraps(a, b) == Gives(Wrap(a + b))

CheckedAdd(a, b) ==
    IF (b > 0 /\ Wrap(a + b) < a) \/ (b < 0 /\ Wrap(a + b) > a) THEN Refused
    ELSE Gives(Wrap(a + b))

\* The bucket of a price: bids round down, asks up.
BucketOf(price, ticks, asks) ==
    LET floor == CheckedMul(price \div ticks, ticks) IN
    IF floor.ok /\ asks /\ price % ticks # 0 THEN CheckedAdd(floor.v, ticks) ELSE floor

AddLevel(side, ticks, asks, book, price) ==
    LET bucket == BucketOf(price, ticks, asks)
        held == IF bucket.v \in DOMAIN book.v THEN book.v[bucket.v] ELSE 0
        sum  == CheckedAdd(held, side[price])
    IN IF ~book.ok \/ ~bucket.ok \/ ~sum.ok THEN Refused
       ELSE Gives([b \in DOMAIN book.v \cup {bucket.v} |->
                      IF b = bucket.v THEN sum.v ELSE book.v[b]])

BucketSide(visit, side, ticks, asks) ==
    IF ticks = 0 THEN Gives(side)
    ELSE LET books[n \in 0..Len(visit)] ==
               IF n = 0 THEN Gives([b \in {} |-> 0])
               ELSE AddLevel(side, ticks, asks, books[n - 1], visit[n])
         IN  books[Len(visit)]

Better(p, q, asks) == IF asks THEN p < q ELSE p > q

\* The buckets, the best first.
Sorted(buckets, asks) ==
    CHOOSE levels \in Bijection(1..Cardinality(buckets), buckets) :
        \A i, j \in DOMAIN levels : i < j => Better(levels[i], levels[j], asks)

\* The prices that are displayed.
SideToLevels(visit, side, ticks, asks, limit) ==
    LET view == BucketSide(visit, side, ticks, asks)
        best == Sorted(DOMAIN view.v, asks)
    IN IF ~view.ok THEN Refused
       ELSE Gives(SubSeq(best, 1, Min({limit, Len(best)})))

-----------------------------------------------------------------------------
(* A view against its definition on unbounded integers; MCOrderbook states *)
(* the properties.                                                         *)

SidesOf(quantities) == UNION {[P -> quantities] : P \in {P \in SUBSET Prices : Cardinality(P) <= Depth}}

ExactBucket(price, ticks, asks) ==
    IF ticks = 0 THEN price
    ELSE ticks * ((IF asks THEN price + ticks - 1 ELSE price) \div ticks)

\* The orders in which a side can be visited.
Visits(side) == Bijection(1..Cardinality(DOMAIN side), DOMAIN side)

Exact(side, ticks, asks) ==
    [b \in {ExactBucket(p, ticks, asks) : p \in DOMAIN side} |->
        SumFunctionOnSet(side, {p \in DOMAIN side : ExactBucket(p, ticks, asks) = b})]

ExactOnEverySide ==
    \A side \in SidesOf(Qtys), ticks \in 0..MaxInt, asks \in BOOLEAN :
      LET exact == Exact(side, ticks, asks)
          fits  == \A b \in DOMAIN exact : b <= MaxInt /\ exact[b] <= MaxInt
      IN \A visit \in Visits(side) :
           BucketSide(visit, side, ticks, asks) = IF fits THEN Gives(exact) ELSE Refused

\* levels are the best of the buckets, at most limit of them, the best first.
BestOf(levels, buckets, asks, limit) ==
    /\ Len(levels) = Min({limit, Cardinality(buckets)})
    /\ \A i \in 1..Len(levels), b \in buckets :
         b \in {levels[j] : j \in 1..i} \/ Better(levels[i], b, asks)

SafeOnEveryBook ==
    \A bids, asks \in SidesOf({1}) :
      (\A b \in DOMAIN bids, a \in DOMAIN asks : b < a) =>
        \A ticks \in 0..MaxInt, limit \in 0..Depth :
        \A bidVisit \in Visits(bids), askVisit \in Visits(asks) :
          LET bidLevels == SideToLevels(bidVisit, bids, ticks, FALSE, limit)
              askLevels == SideToLevels(askVisit, asks, ticks, TRUE, limit)
          IN bidLevels.ok /\ askLevels.ok =>
               /\ BestOf(bidLevels.v, DOMAIN Exact(bids, ticks, FALSE), FALSE, limit)
               /\ BestOf(askLevels.v, DOMAIN Exact(asks, ticks, TRUE), TRUE, limit)
               /\ bidLevels.v # <<>> /\ askLevels.v # <<>> => Head(bidLevels.v) < Head(askLevels.v)
=============================================================================
