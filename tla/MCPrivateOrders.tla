--------------------------- MODULE MCPrivateOrders --------------------------
(* Small instances of PrivateOrderStream.                                  *)
EXTENDS PrivateOrderStream

Joint  == [c \in Consumers |-> "a"]
Every  == {"slow", "error", "refused", "silent", "late", "drop", "repeat", "short", "behind",
           "expiring", "ended", "token", "garbage", "fatal"}
=============================================================================
