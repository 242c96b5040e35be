---------------------------- MODULE SignalledFeed ----------------------------
(***************************************************************************)
(* What a realtime.Subscription promises (realtime/subscription.go 10-25): *)
(* the items of a channel in their order, each at most once, with nothing  *)
(* left out unless a resubscribe was announced in between; then an end,    *)
(* after which nothing comes.  Items are numbered in the channel's order.  *)
(***************************************************************************)
EXTENDS Naturals, Sequences

CONSTANT Items    \* the items a channel may carry

VARIABLES
    fed,    \* the items that entered the subscription's queue, in order
    gap,    \* a (re)subscribe has been announced since the last of them
    over    \* the subscription has stopped

vars == <<fed, gap, over>>

Init == fed = <<>> /\ gap = FALSE /\ over = FALSE

Announce == ~over /\ gap' = TRUE /\ UNCHANGED <<fed, over>>

Deliver(item) ==
    /\ ~over
    /\ IF gap
       THEN fed # <<>> => item > fed[Len(fed)]
       ELSE fed # <<>> /\ item = fed[Len(fed)] + 1
    /\ fed' = Append(fed, item)
    /\ gap' = FALSE
    /\ UNCHANGED over

End == over' = TRUE /\ UNCHANGED <<fed, gap>>

Next == Announce \/ End \/ \E item \in Items : Deliver(item)

Spec == Init /\ [][Next]_vars
=============================================================================
