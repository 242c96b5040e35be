----------------------------- MODULE TokenRenewal -----------------------------
(***************************************************************************)
(* The renewal of a private connection's tokens (realtime/renewal.go) with *)
(* the reader that schedules it, answers its pings and stops it            *)
(* (runSubscriptionOnce, realtime/client.go 341-358 and 393-436).          *)
(*                                                                         *)
(* A run is one timer and the goroutine it starts: fetch a token, register *)
(* the command's id, write the command.  Goroutines: the reader, and a     *)
(* goroutine for each timer that fired.  A step is one critical section of *)
(* mu, one acquisition or release of writeMu, one request or one report.   *)
(***************************************************************************)
EXTENDS Naturals, FiniteSets

CONSTANTS
    MaxRuns,     \* bound: renewals scheduled on the connection
    MaxPings     \* bound: pings by the server

ASSUME RenewerAssumptions == MaxRuns \in Nat \ {0, 1} /\ MaxPings \in Nat

VARIABLES
    cancelled,   \* the renewer's context
    stopped,
    runs,        \* each run: its kind and how far it is
    timers,      \* tokenRenewer.timers: the latest run of a kind, 0 for none
    wg,          \* the WaitGroup's counter
    pending,     \* the commands not answered: their ids and kinds
    nextID,
    writer,      \* who holds writeMu: 0 nobody, Reader, or a run
    server,      \* commands it has received and not answered; pings sent
    reader,      \* the reader: its place, and the kind of the reply it handles
    told         \* history: the kinds whose renewal is known to have failed,
                 \* or that the server said do not expire

renewerVars == <<cancelled, stopped, runs, timers, wg, pending, nextID, writer, server,
          reader, told>>

Kinds  == {"connection", "subscription"}
RunIds == 1..MaxRuns
CommandIds    == 3..(3 + MaxRuns)
Reader == MaxRuns + 1

RenewerInit ==
    /\ cancelled = FALSE /\ stopped = FALSE
    /\ runs = [r \in RunIds |-> [stage |-> "free", kind |-> "connection", id |-> 0]]
    /\ timers = [k \in Kinds |-> 0] /\ wg = 0
    /\ pending = {} /\ nextID = 3 /\ writer = 0
    /\ server = [got |-> {}, pings |-> 0]
    /\ reader = [pc |-> "connection", kind |-> "connection"]
    /\ told = {}

In(r, stage) == runs[r].stage = stage
Go(r, stage) == runs' = [runs EXCEPT ![r].stage = stage]
\* The timers that Stop still stops.
Armed == {r \in RunIds : In(r, "armed") /\ r \in {timers[k] : k \in Kinds}}
Live(r) == runs[r].stage \notin {"free", "done"}

-----------------------------------------------------------------------------
(* The reader.                                                             *)

\* schedule: unless the token does not expire, or after stop, a run of the kind is
\* armed; one still armed is replaced.
Schedule(kind) ==
    \/ told' = told \cup {kind} /\ UNCHANGED <<runs, timers, wg>>
    \/ /\ ~stopped
       /\ \E r \in RunIds :
            /\ In(r, "free") /\ \A q \in 1..(r - 1) : ~In(q, "free")
            /\ runs' = [[q \in RunIds |-> IF q \in Armed /\ timers[kind] = q
                                          THEN [runs[q] EXCEPT !.stage = "done"] ELSE runs[q]]
                          EXCEPT ![r] = [stage |-> "armed", kind |-> kind, id |-> 0]]
            /\ wg' = IF timers[kind] \in Armed THEN wg ELSE wg + 1
            /\ timers' = [timers EXCEPT ![kind] = r]
       /\ UNCHANGED told

\* The setup schedules both kinds.
Setup ==
    /\ \/ reader.pc = "connection" /\ reader' = [reader EXCEPT !.pc = "subscription"]
       \/ reader.pc = "subscription" /\ reader' = [reader EXCEPT !.pc = "loop"]
    /\ Schedule(reader.pc)
    /\ UNCHANGED <<cancelled, stopped, pending, nextID, writer, server>>

\* handleReply: the answer to a command; one that is not pending is passed over.
Reply ==
    /\ reader.pc = "loop"
    /\ \E command \in server.got :
         /\ server' = [server EXCEPT !.got = @ \ {command}]
         /\ pending' = pending \ {command}
         /\ reader' = IF command \in pending THEN [pc |-> "reply", kind |-> command.kind]
                      ELSE reader
    /\ UNCHANGED <<cancelled, stopped, runs, timers, wg, nextID, writer, told>>

\* It renews the next time, or reports a refusal.
Answered ==
    /\ reader.pc = "reply"
    /\ \/ Schedule(reader.kind)
       \/ told' = told \cup {reader.kind} /\ UNCHANGED <<runs, timers, wg>>
    /\ reader' = [reader EXCEPT !.pc = "loop"]
    /\ UNCHANGED <<cancelled, stopped, pending, nextID, writer, server>>

\* A ping is answered under writeMu; the pong may fail.
Ping ==
    /\ reader.pc = "loop" /\ server.pings < MaxPings
    /\ server' = [server EXCEPT !.pings = @ + 1]
    /\ reader' = [reader EXCEPT !.pc = "pong"]
    /\ UNCHANGED <<cancelled, stopped, runs, timers, wg, pending, nextID, writer, told>>

Pong ==
    /\ \/ /\ reader.pc = "pong" /\ writer = 0
          /\ writer' = Reader /\ reader' = [reader EXCEPT !.pc = "ponging"]
       \/ /\ reader.pc = "ponging" /\ writer' = 0
          /\ \E pc \in {"loop", "leave"} : reader' = [reader EXCEPT !.pc = pc]
    /\ UNCHANGED <<cancelled, stopped, runs, timers, wg, pending, nextID, server, told>>

\* The connection ends for one reason or another; stop begins with the cancel.
Leave ==
    /\ \/ reader.pc = "loop" /\ reader' = [reader EXCEPT !.pc = "leave"] /\ UNCHANGED cancelled
       \/ /\ reader.pc = "leave" /\ cancelled' = TRUE
          /\ reader' = [reader EXCEPT !.pc = "stop"]
    /\ UNCHANGED <<stopped, runs, timers, wg, pending, nextID, writer, server, told>>

\* Mutant: a timer that is stopped is not counted down.
StopTimersOnly ==
    /\ reader.pc = "stop" /\ stopped' = TRUE
    /\ runs' = [r \in RunIds |-> IF r \in Armed THEN [runs[r] EXCEPT !.stage = "done"]
                                 ELSE runs[r]]
    /\ reader' = [reader EXCEPT !.pc = "wait"]
    /\ UNCHANGED <<cancelled, wg, timers, pending, nextID, writer, server, told>>

\* stop's critical section.
Stop ==
    /\ reader.pc = "stop" /\ stopped' = TRUE
    /\ runs' = [r \in RunIds |-> IF r \in Armed THEN [runs[r] EXCEPT !.stage = "done"]
                                 ELSE runs[r]]
    /\ wg' = wg - Cardinality(Armed)
    /\ reader' = [reader EXCEPT !.pc = "wait"]
    /\ UNCHANGED <<cancelled, timers, pending, nextID, writer, server, told>>

Wait ==
    /\ reader.pc = "wait" /\ wg = 0
    /\ reader' = [reader EXCEPT !.pc = "returned"]
    /\ UNCHANGED <<cancelled, stopped, runs, timers, wg, pending, nextID, writer,
                   server, told>>

-----------------------------------------------------------------------------
(* A run: renew.                                                           *)

\* The timer fires.
TimerFires(r) ==
    /\ In(r, "armed") /\ Go(r, "fetching")
    /\ UNCHANGED <<cancelled, stopped, timers, wg, pending, nextID, writer, server,
                   reader, told>>

\* The goroutine returns.
RunReturns(r) == Go(r, "done") /\ wg' = wg - 1

\* Mutant: a token request that fails is not reported.
FetchedSilent(r) ==
    /\ In(r, "fetching")
    /\ \/ RunReturns(r)
       \/ ~cancelled /\ UNCHANGED wg /\ Go(r, "register")
    /\ UNCHANGED <<cancelled, stopped, timers, pending, nextID, writer, server, reader, told>>

\* The token arrives or not, and the context is looked at.
Fetched(r) ==
    /\ In(r, "fetching")
    /\ \/ cancelled /\ RunReturns(r)
       \/ ~cancelled /\ UNCHANGED wg /\ \E stage \in {"register", "report"} : Go(r, stage)
    /\ UNCHANGED <<cancelled, stopped, timers, pending, nextID, writer, server, reader, told>>

\* Mutant: a renewal that failed returns without its wg.Done.
ReportOnly(r) ==
    /\ In(r, "report") /\ Go(r, "done")
    /\ told' = told \cup {runs[r].kind}
    /\ UNCHANGED <<cancelled, stopped, wg, timers, pending, nextID, writer, server, reader>>

Report(r) ==
    /\ In(r, "report") /\ RunReturns(r)
    /\ told' = told \cup {runs[r].kind}
    /\ UNCHANGED <<cancelled, stopped, timers, pending, nextID, writer, server, reader>>

\* Mutant: the next id is not taken.
RegisterSameID(r) ==
    /\ In(r, "register") /\ ~stopped
    /\ runs' = [runs EXCEPT ![r].stage = "write", ![r].id = nextID]
    /\ pending' = pending \cup {[id |-> nextID, kind |-> runs[r].kind]}
    /\ UNCHANGED <<cancelled, stopped, wg, nextID, timers, writer, server, reader, told>>

\* The command gets its id and is pending before it is written.
Register(r) ==
    /\ In(r, "register")
    /\ \/ stopped /\ RunReturns(r) /\ UNCHANGED <<pending, nextID>>
       \/ /\ ~stopped
          /\ runs' = [runs EXCEPT ![r].stage = "write", ![r].id = nextID]
          /\ pending' = pending \cup {[id |-> nextID, kind |-> runs[r].kind]}
          /\ nextID' = nextID + 1 /\ UNCHANGED wg
    /\ UNCHANGED <<cancelled, stopped, timers, writer, server, reader, told>>

Command(r) == [id |-> runs[r].id, kind |-> runs[r].kind]

\* write: the lock, and then the frame, which the server can answer before the
\* write returns; or the write fails.
Write(r) ==
    /\ \/ /\ In(r, "write") /\ writer = 0
          /\ writer' = r /\ Go(r, "writing") /\ UNCHANGED <<server, told>>
       \/ /\ In(r, "writing") /\ Go(r, "written")
          /\ \/ server' = [server EXCEPT !.got = @ \cup {Command(r)}] /\ UNCHANGED told
             \/ told' = told \cup {runs[r].kind} /\ UNCHANGED server
          /\ UNCHANGED writer
    /\ UNCHANGED <<cancelled, stopped, timers, wg, pending, nextID, reader>>

\* The lock is released and the goroutine returns.
Written(r) ==
    /\ In(r, "written") /\ writer' = 0 /\ RunReturns(r)
    /\ UNCHANGED <<cancelled, stopped, timers, pending, nextID, server, reader, told>>

\* The subscription's context is canceled.
CancelCtx ==
    /\ ~cancelled /\ cancelled' = TRUE
    /\ UNCHANGED <<stopped, runs, timers, wg, pending, nextID, writer, server, reader, told>>

Read == Setup \/ Answered \/ Pong \/ Stop \/ Wait
Renew(r) == Fetched(r) \/ Report(r) \/ Register(r) \/ Write(r) \/ Written(r)

RenewerNext ==
    \/ Read \/ Reply \/ Ping \/ Leave \/ CancelCtx
    \/ \E r \in RunIds : TimerFires(r) \/ Renew(r)

RenewerSpec == RenewerInit /\ [][RenewerNext]_renewerVars

\* Goroutines are scheduled, the token request is bounded by the HTTP client and
\* the write by renewalWriteTimeout, and the error callback returns.
RenewerFairness ==
    /\ WF_renewerVars(Read) /\ WF_renewerVars(reader.pc = "leave" /\ Leave)
    /\ \A r \in RunIds : WF_renewerVars(Renew(r))

FairRenewerSpec == RenewerSpec /\ RenewerFairness

-----------------------------------------------------------------------------
(* Properties.                                                             *)

\* The types; ids are handed out once.
RenewerTypeOK ==
    /\ cancelled \in BOOLEAN /\ stopped \in BOOLEAN
    /\ timers \in [Kinds -> {0} \cup RunIds]
    /\ wg \in 0..MaxRuns /\ nextID \in CommandIds
    /\ pending \subseteq [id : 3..(nextID - 1), kind : Kinds]
    /\ writer \in {0, Reader} \cup RunIds
    /\ reader.pc \in {"connection", "subscription", "loop", "reply", "pong", "ponging",
                      "leave", "stop", "wait", "returned"}
    /\ told \subseteq Kinds

\* The WaitGroup counts the timers that are armed and the goroutines that have
\* not returned, whichever of stop, schedule and the firing came first.
WaitGroupExact == wg = Cardinality({r \in RunIds : Live(r)})

\* Once stop has returned, no renewal is under way: none fetches, reports to the
\* callback or writes to the connection ("waits for one in flight to finish").
QuietAfterStop == reader.pc = "returned" => \A r \in RunIds : ~Live(r)

\* stop waits for every renewal that was begun, and for nothing else: with a count
\* too low something runs on, with one too high stop never returns.
StopIsExact == WaitGroupExact /\ QuietAfterStop

Starting(k) == {r \in RunIds : runs[r].kind = k /\
                    runs[r].stage \in {"armed", "fetching", "report", "register"}}
Unanswered(k) == {c \in pending : c.kind = k}

\* While the connection is read, a token that expires is being renewed, its
\* command awaits an answer, or the failure is known (schedule, renew,
\* handleReply): no order of the answer and the end of the write loses it.
NothingForgotten ==
    reader.pc \in {"loop", "pong", "ponging"} /\ ~cancelled =>
        \A k \in Kinds \ told : Starting(k) # {} \/ \E c \in Unanswered(k) :
            c \in server.got \/ \E r \in RunIds : Live(r) /\ Command(r) = c

\* A kind is renewed once at a time: by a timer, by a run that has not written,
\* or by a command not answered.
OneAtATime == \A k \in Kinds : Cardinality(Starting(k)) + Cardinality(Unanswered(k)) <= 1

\* Whatever the order of timers, answers and writes, a token is renewed neither
\* twice at a time nor not at all (schedule, renew, handleReply).
EachRenewalOnce == NothingForgotten /\ OneAtATime

\* stop returns ("a stalled socket cannot hold up the connection's shutdown").
StopReturns == (reader.pc = "leave") ~> (reader.pc = "returned")
=============================================================================
