------------------------------ MODULE MCSnapshot ------------------------------
(***************************************************************************)
(* Two instances of SnapshotThenStream for its liveness: a stream that     *)
(* reconnects and is asked for refreshes, on a quiet market; and one that  *)
(* is being ended in every way, while publications arrive and callbacks    *)
(* stop it or panic.  case says which one a behaviour is of.               *)
(***************************************************************************)
EXTENDS Naturals, Sequences

VARIABLES env, sub, w, spc, s, r, refreshDone, delivered, view,
          case    \* "asked" or "ended"

Asked == INSTANCE SnapshotThenStream WITH
    Users <- {"user"}, Silent <- {}, MaxBuffered <- 1, MaxQueue <- 1,
    MaxPubs <- 0, MaxConns <- 2, MaxAsks <- 2,
    Outcomes <- {"ok", "gap"}, Events <- {"request"}

Ended == INSTANCE SnapshotThenStream WITH
    Users <- {"user"}, Silent <- {}, MaxBuffered <- 1, MaxQueue <- 1,
    MaxPubs <- 1, MaxConns <- 1, MaxAsks <- 1,
    Outcomes <- {"ok", "stop", "panic"}, Events <- {"stop", "cancel", "clientClose"}

vars == Asked!vars

CaseInit == case \in {"asked", "ended"} /\ Asked!Init

CaseNext ==
    \/ case = "asked" /\ Asked!Next /\ UNCHANGED case
    \/ case = "ended" /\ Ended!Next /\ UNCHANGED case

\* The fairness of SnapshotThenStream, whose actions differ by their bounds.
CaseSpec ==
    /\ CaseInit /\ [][CaseNext]_<<vars, case>>
    /\ WF_vars(\/ Asked!StartConnected \/ Asked!StartRefreshed \/ Asked!StartFails
               \/ case = "asked" /\ Asked!Refresh("start")
               \/ case = "ended" /\ Ended!Refresh("start"))
    /\ WF_vars(\/ case = "asked" /\ Asked!Worker
               \/ case = "ended" /\ Ended!Worker)
    /\ WF_vars(\/ Asked!SendRefreshDone
               \/ case = "asked" /\ Asked!Refresh("reconnect")
               \/ case = "ended" /\ Ended!Refresh("reconnect"))
    /\ WF_vars(\/ Asked!GapTop \/ Asked!GapRefreshed
               \/ case = "asked" /\ Asked!Refresh("gap")
               \/ case = "ended" /\ Ended!Refresh("gap"))
    /\ WF_vars(\/ Asked!UserReturns("user")
               \/ case = "asked" /\ Asked!Refresh("user")
               \/ case = "ended" /\ Ended!Refresh("user"))

\* The liveness of SnapshotThenStream: requested refreshes are served or the stream
\* is disposed (RequestSnapshotRefresh), Close returns (Close waits for run), and
\* Start returns (signalInitialConnection).
RequestIsServed   == Asked!RequestIsServed
ShutdownCompletes == Asked!ShutdownCompletes
StartReturns      == Asked!StartReturns
===============================================================================
