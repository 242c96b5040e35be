---------------------------- MODULE MCOrderbook -----------------------------
(* Small instances of OrderbookStream.                                     *)
EXTENDS OrderbookStream, LocalBook

D(a, b) == [start |-> a, end |-> b, reset |-> FALSE, malformed |-> FALSE]

\* Three events on two levels.
TouchTwo   == <<"bid", "ask", "bid">>
\* The second carries two events, the third resets the book.
TouchFour  == <<"bid", "ask", "ask", "bid">>
WithReset  == <<D(1, 1), D(2, 3), [D(4, 4) EXCEPT !.reset = TRUE]>>
\* The publication is malformed.
Malformed  == <<[D(1, 1) EXCEPT !.malformed = TRUE]>>

OkOnly     == {"ok"}
OkOrPanic  == {"ok", "panic"}
AllEvents  == {"request", "stop", "cancel"}

\* A statement about every side and book of LocalBook's constants does not depend
\* on the state and is looked at in the initial one.  Aggregation into buckets is
\* exact or refused, in whatever order Go visits the map: no price or quantity
\* wraps, and a side is refused only when its exact buckets do not fit an int
\* (BucketSide, checkedMul, checkedAdd).  Whatever the bucket and the depth, the
\* displayed levels are the best ones, and a book whose bids are below its asks is
\* displayed that way ("executable-side-safe price buckets").
DisplayIsExact == BookInit => ExactOnEverySide /\ SafeOnEveryBook
=============================================================================
