------------------------------ MODULE TradingStop ------------------------------
(***************************************************************************)
(* A client that creates a trigger and then stops all trading              *)
(* (services/stop_all_trading.go), over unary calls whose answers may fail *)
(* in every way CallOutcome knows, and that may be applied or not.         *)
(*                                                                         *)
(* The create is sent again while its error IsRetryable; the listing is a  *)
(* read under retryUnavailable (services/read_retry.go).  Meanwhile live   *)
(* triggers place orders and end.  A request that was not answered may     *)
(* still reach the service later.                                          *)
(***************************************************************************)
EXTENDS CallOutcome, FiniteSets

CONSTANTS
    Given,       \* the ids given out before are 1..Given
    Old,         \* those of triggers that may be live from the start
    MaxSends,    \* bound: times the caller sends the create
    PageSize,    \* triggers of a page (stopAllTriggerPageLimit)
    MaxReads     \* attempts that fit in the retry's budget

ASSUME StopAssumptions ==
    /\ Given \in Nat /\ Old \subseteq 1..Given
    /\ MaxSends \in Nat \ {0} /\ PageSize \in Nat \ {0} /\ MaxReads \in Nat \ {0}

VARIABLES
    live,      \* the service: triggers that can still place an order
    open,      \* the triggers that have an order open
    inflight,  \* creates sent and neither applied nor refused
    created,   \* history: creates applied
    unread,    \* history: creates answered by a success that could not be read
    pc,        \* the caller
    sends,     \* creates it has sent
    applied,   \* the call under way has been applied
    answer,    \* the answer it is about to handle
    known,     \* what it knows of its create: "none", "done", "refused", "unknown"
    token,     \* the page token to send, 0 for none
    sent,      \* sentTokens
    found,     \* triggerIDs
    todo,      \* those whose cancel is still to be called
    failed,    \* FailedTriggers
    reads,     \* attempts of the listing's call
    before,    \* history: the triggers live when StopAllTrading began
    result     \* what StopAllTrading returned

vars == <<live, open, inflight, created, unread, pc, sends, applied, answer, known, token,
          sent, found, todo, failed, reads, before, result>>
service == <<live, open, inflight, created, unread>>
listing == <<token, sent, found, reads>>

New    == {Given + n : n \in 1..MaxSends}     \* ids of the triggers created
Ids    == Old \cup New
NoAnswer == [answered |-> FALSE]
Ok       == [answered |-> TRUE]

Init ==
    /\ live \in SUBSET Old
    /\ open = {} /\ inflight = 0 /\ created = 0 /\ unread = 0
    /\ pc = "create" /\ sends = 0 /\ applied = FALSE /\ answer = NoAnswer /\ known = "none"
    /\ token = 0 /\ sent = {} /\ found = {} /\ reads = 0
    /\ todo = {} /\ failed = {} /\ before = {} /\ result = "none"

-----------------------------------------------------------------------------
(* The service.                                                            *)

\* A trigger places an order, and may have done with it; or it just ends.
Fire(t) ==
    /\ t \in live
    /\ \/ open' = open \cup {t} /\ live' \in {live, live \ {t}}
       \/ live' = live \ {t} /\ UNCHANGED open
    /\ UNCHANGED <<inflight, created, unread, pc, sends, applied, answer, known, listing,
                   todo, failed, before, result>>

\* A create is applied, perhaps long after its caller gave it up.
Apply ==
    /\ inflight > 0
    /\ inflight' = inflight - 1 /\ created' = created + 1
    /\ live' = live \cup {Given + created + 1}
    /\ applied' = (applied \/ pc = "creating")
    /\ UNCHANGED <<open, unread, pc, sends, answer, known, listing, todo, failed, before,
                   result>>

\* What a failed answer proves, and what the caller makes of it.
Outcome(a) == [refuses |-> Refuses(a), unread |-> a.via = "unread",
               success |-> a.via \in {"unread", "garbled"},
               retryable |-> IsRetryable(MapError(a)),
               unknown |-> MutationOutcomeUnknown(MapError(a)),
               again |-> ReadAgain(a), outage |-> Outage(a)]
Failures == {Outcome(a) : a \in Answers}

\* A call that was applied is not refused, and only such a call has a success.
FailureOf(wasApplied) ==
    {f \in Failures : (wasApplied => ~f.refuses) /\ (f.success => wasApplied)}

-----------------------------------------------------------------------------
(* The caller creates a trigger.                                           *)

Send ==
    /\ pc = "create" /\ sends < MaxSends
    /\ sends' = sends + 1 /\ inflight' = inflight + 1
    /\ pc' = "creating"
    /\ UNCHANGED <<live, open, created, unread, applied, answer, known, listing, todo, failed,
                   before, result>>

CreateAnswered ==
    /\ pc = "creating" /\ pc' = "judge" /\ applied' = FALSE
    /\ \/ applied /\ answer' = Ok /\ UNCHANGED <<inflight, unread>>
       \/ \E f \in FailureOf(applied) :
            /\ answer' = f /\ inflight' = IF f.refuses THEN inflight - 1 ELSE inflight
            /\ unread' = IF f.unread THEN unread + 1 ELSE unread
    /\ UNCHANGED <<live, open, created, sends, known, listing, todo, failed, before, result>>

\* The caller sends it again only if IsRetryable, and then gives up.
Judge ==
    /\ pc = "judge" /\ answer' = NoAnswer
    /\ IF answer = Ok THEN known' = "done" /\ pc' = "stop"
       ELSE IF answer.retryable /\ sends < MaxSends
       THEN pc' = "create" /\ UNCHANGED known
       ELSE known' = (IF answer.unknown THEN "unknown" ELSE "refused") /\ pc' = "stop"
    /\ UNCHANGED <<service, sends, applied, listing, todo, failed, before, result>>

-----------------------------------------------------------------------------
(* StopAllTrading.                                                         *)

Return(what) == result' = what /\ pc' = "returned"

Begin ==
    /\ pc = "stop" /\ pc' = "list" /\ before' = live
    /\ UNCHANGED <<service, sends, applied, answer, known, listing, todo, failed, result>>

\* Mutant: a page token is compared with the last one only.
RepeatsLast(next) == next = token

Repeats(next) == next \in sent

Least(S) == CHOOSE x \in S : \A y \in S : x <= y
PageAfter(t) ==
    LET rest == {x \in live : x > t} IN
    {x \in rest : Cardinality({y \in rest : y < x}) < PageSize}
Last(page) == CHOOSE x \in page : \A y \in page : y <= x

\* A page arrives: the live triggers after its token, in the order of their ids.
\* The service may answer with a token it has answered before.
Page ==
    /\ pc = "list"
    /\ LET page == PageAfter(token)
           more == \E x \in live : x \notin page /\ x > token
       IN  \E next \in sent \cup {IF more THEN Last(page) ELSE 0} :
             /\ found' = found \cup page /\ reads' = 0
             /\ \/ next = 0 /\ todo' = found' /\ pc' = "cancel"
                   /\ UNCHANGED <<token, sent, result>>
                \/ next # 0 /\ Repeats(next) /\ Return("contract")
                   /\ UNCHANGED <<token, sent, todo>>
                \/ next # 0 /\ ~Repeats(next) /\ token' = next /\ sent' = sent \cup {next}
                   /\ UNCHANGED <<pc, todo, result>>
    /\ UNCHANGED <<service, sends, applied, answer, known, failed, before>>

\* The read fails: it is repeated within its budget, or the listing fails.
ListFails ==
    /\ pc = "list"
    /\ answer' \in Failures
    /\ pc' = "reread"
    /\ UNCHANGED <<service, sends, applied, known, listing, todo, failed, before, result>>

Reread ==
    /\ pc = "reread" /\ answer' = NoAnswer
    /\ \/ /\ answer.again /\ reads + 1 < MaxReads
          /\ reads' = reads + 1 /\ pc' = "list" /\ UNCHANGED result
       \/ /\ ~(answer.again /\ reads + 1 < MaxReads)
          /\ Return("listing") /\ UNCHANGED reads
    /\ UNCHANGED <<service, sends, applied, known, token, sent, found, todo, failed, before>>

\* The cancel of one trigger succeeds or not, applied or not; a trigger that has
\* ended is refused.
CancelTrigger ==
    /\ pc = "cancel" /\ todo # {}
    /\ LET t == Least(todo) IN
         /\ todo' = todo \ {t}
         /\ \/ t \in live /\ live' = live \ {t} /\ failed' \in {failed, failed \cup {t}}
            \/ failed' = failed \cup {t} /\ UNCHANGED live
    /\ UNCHANGED <<open, inflight, created, unread, pc, sends, applied, answer, known,
                   listing, before, result>>

\* Mutant: the orders are canceled before the triggers are.
OrdersTurnEarly == pc = "cancel"

OrdersTurn == pc = "cancel" /\ todo = {}

\* The cancel of the open orders.
CancelAll ==
    /\ OrdersTurn
    /\ \/ open' = {} /\ Return(IF failed = {} THEN "ok" ELSE "partial")
       \/ open' \in {open, {}} /\ Return("orders")
    /\ UNCHANGED <<live, inflight, created, unread, sends, applied, answer, known, listing,
                   todo, failed, before>>

\* The context is canceled.
Canceled ==
    /\ pc \in {"list", "reread", "cancel"} /\ Return("canceled")
    /\ UNCHANGED <<service, sends, applied, answer, known, listing, todo, failed, before>>

Caller == Send \/ CreateAnswered \/ Judge \/ Begin \/ Page \/ ListFails \/ Reread
          \/ CancelTrigger \/ CancelAll

Next == Caller \/ Apply \/ Canceled \/ \E t \in Ids : Fire(t)

Spec == Init /\ [][Next]_vars

\* Calls are answered or time out, and the caller goes on.
FairSpec == Spec /\ WF_vars(Caller)

-----------------------------------------------------------------------------
(* Properties.                                                             *)

\* A caller that sends a mutation again only when IsRetryable says so has it
\* applied once at most, however late its requests arrive; each further copy is
\* the price of a success that connect-go could not read (IsRetryable).
CreatedOnce == created <= 1 + unread

\* An error that is not MutationOutcomeUnknown proves that the mutation was not
\* applied and never will be, and that none sent before it was but those whose
\* success could not be read (MutationOutcomeUnknown, timestampSkewRoundTripper).
RefusalIsTrue == known = "refused" => created = unread /\ inflight = 0

\* What a caller is told of a mutation is enough to send it again safely: what may
\* be repeated was refused for good, and nothing is applied twice
\* (MutationOutcomeUnknown, IsRetryable).  The one exception, which both parts count,
\* is a success that connect-go cannot read: see OutcomeIsTold.
MutationsAreKnown == CreatedOnce /\ RefusalIsTrue

\* errors.go "MutationOutcomeUnknown reports whether the server may have applied a
\* failed mutation before the error became visible to the caller": a create it
\* calls known to have failed was not applied.
OutcomeIsTold == known = "refused" => created = 0 /\ inflight = 0

\* A read that was refused is not sent again: "a definite refusal carries the
\* code of its HTTP status and returns at once" (roundTripError).
RefusedReadsReturn ==
    [][pc = "reread" /\ pc' = "list" /\ answer.refuses => answer.outage]_vars

\* When StopAllTrading succeeds, no trigger that was live when it began is live,
\* and no order such a trigger placed is open; when some cancels failed, only
\* the triggers it reports may be left ("canceling the triggers first means an
\* order a trigger places before its cancel is still canceled").
NothingLeftBehind ==
    result \in {"ok", "partial"} => before \cap (live \cup open) \subseteq failed

\* StopAllTrading returns, whatever page tokens the service answers with.
Returns == (pc = "list") ~> (pc = "returned")
=============================================================================
