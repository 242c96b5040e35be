--------------------------- MODULE SubaccountAccess ---------------------------
(***************************************************************************)
(* How a client resumes the subscriptions the server ended                 *)
(* (realtime/resubscribe.go): the budget of each subscription              *)
(* (attemptAfter, awaitResume), and what they share, the marks of removed  *)
(* sub-accounts (noteUpdate), the paced read of the account list (read,    *)
(* runRead) and the slots for attempts (reserveAttempt).                   *)
(*                                                                         *)
(* Each subscription belongs to one sub-account.  The server grants and    *)
(* removes access; its updates arrive in order, or are missed.  Time is    *)
(* kept in countdowns: a deadline is the number of ticks left to it, so    *)
(* time needs no bound.  Backoffs and requests last as long as they like.  *)
(***************************************************************************)
EXTENDS Integers, Sequences, FiniteSets, SequencesExt

CONSTANTS
    Subs,           \* subscriptions that resume
    Accounts,       \* sub-accounts
    AccountOf,      \* the sub-account of each subscription
    MaxAttempts,    \* resubscribeTiming
    StableAfter,
    AttemptSpacing,
    ReadInterval,
    MaxChanges      \* bound: grants and removals by the server

ASSUME Assumptions ==
    /\ IsFiniteSet(Subs) /\ IsFiniteSet(Accounts) /\ AccountOf \in [Subs -> Accounts]
    /\ \A n \in {MaxAttempts, StableAfter, AttemptSpacing, ReadInterval} : n \in Nat \ {0}
    /\ MaxChanges \in Nat

VARIABLES
    access,     \* the server: the accounts listed for this key, and how often
                \* that changed
    updates,    \* changes published and not yet arrived
    removed,    \* subaccountAccess.removed
    calls,      \* accessRead: its stage and its answer
    next,       \* subaccountAccess.next, 0 when nil
    readIn,     \* ticks until lastRead + readInterval
    slotIn,     \* ticks until nextAttemptAt
    sub,        \* each subscription: its place, and its attempt
    tries,      \* history: resumes since the subscription was last stable
    sinceRead   \* history: ticks since the last list request, up to ReadInterval

vars == <<access, updates, removed, calls, next, readIn, slotIn, sub, tries, sinceRead>>
clocks == <<readIn, slotIn, sinceRead>>

\* One shared read for each subscription is enough: it waits for one at a time.
Calls == 1..Cardinality(Subs)
Free  == [stage |-> "free", wait |-> 0, asOf |-> 0, listed |-> {}, err |-> "none"]

Unresumed == [pc |-> "up", resuming |-> FALSE, attempts |-> 0,
              up |-> 0, wait |-> 0, call |-> 0, asked |-> 0, asOf |-> 0, reason |-> "none"]

\* Some access may be gone already, its update under way or missed.
Init ==
    /\ \E listed \in SUBSET Accounts : access = [listed |-> listed, changes |-> 0]
    /\ \E arriving \in SUBSET (Accounts \ access.listed) :
         updates = SetToSeq({[account |-> a, removed |-> TRUE] : a \in arriving})
    /\ removed = {}
    /\ calls = [c \in Calls |-> Free] /\ next = 0
    /\ readIn = 0 /\ slotIn = 0 /\ sinceRead = ReadInterval
    /\ sub = [s \in Subs |-> Unresumed]
    /\ tries = [s \in Subs |-> 0]

At(s, pc) == sub[s].pc = pc
Becomes(s, record) == sub' = [sub EXCEPT ![s] = record]
End(s, reason) == Becomes(s, [Unresumed EXCEPT !.pc = "ended", !.reason = reason])
SeenRemoved(s) == AccountOf[s] \in removed

-----------------------------------------------------------------------------
(* A subscription: its connection.                                         *)

\* Mutant: a resume that became ready earns a new budget at once.
EarnedIfReady(s) == TRUE

Earned(s) == sub[s].up >= StableAfter

\* The server ends the subscription: attemptAfter.
Unsubscribed(s) ==
    /\ At(s, "up")
    /\ Becomes(s, [sub[s] EXCEPT !.pc = "head", !.resuming = TRUE, !.up = 0,
                       !.attempts = IF ~sub[s].resuming \/ Earned(s) THEN 0 ELSE @])
    /\ UNCHANGED <<access, updates, removed, calls, next, clocks, tries>>

\* An ordinary reconnect: noteReady counts the time up from here.
Reconnected(s) ==
    /\ At(s, "up") /\ sub[s].up > 0
    /\ Becomes(s, [sub[s] EXCEPT !.up = 0])
    /\ UNCHANGED <<access, updates, removed, calls, next, clocks, tries>>

\* The resumed connection becomes ready, fails, or is refused its tokens.
Connect(s) ==
    /\ At(s, "connecting")
    /\ \/ Becomes(s, [sub[s] EXCEPT !.pc = "up", !.up = 0, !.asked = 0, !.asOf = 0])
       \/ Becomes(s, [sub[s] EXCEPT !.pc = "head", !.asked = 0, !.asOf = 0])
       \/ End(s, "token_refused")
    /\ UNCHANGED <<access, updates, removed, calls, next, clocks, tries>>

-----------------------------------------------------------------------------
(* A subscription: awaitResume.                                            *)

\* Mutant: only a resume uses up the budget, not a failed read.
BudgetFree(s) ==
    /\ At(s, "head")
    /\ \/ SeenRemoved(s) /\ End(s, "access_removed")
       \/ ~SeenRemoved(s) /\ Becomes(s, [sub[s] EXCEPT !.pc = "backoff"])
    /\ UNCHANGED <<access, updates, removed, calls, next, clocks, tries>>

\* Mutant: the budget is off by one.
BudgetLate(s) ==
    /\ At(s, "head")
    /\ \/ SeenRemoved(s) /\ End(s, "access_removed")
       \/ ~SeenRemoved(s) /\ sub[s].attempts > MaxAttempts /\ End(s, "retries_exhausted")
       \/ /\ ~SeenRemoved(s) /\ sub[s].attempts <= MaxAttempts
          /\ Becomes(s, [sub[s] EXCEPT !.pc = "backoff", !.attempts = @ + 1])
    /\ UNCHANGED <<access, updates, removed, calls, next, clocks, tries>>

\* The head of the loop, up to the backoff.
Budget(s) ==
    /\ At(s, "head")
    /\ \/ SeenRemoved(s) /\ End(s, "access_removed")
       \/ ~SeenRemoved(s) /\ sub[s].attempts >= MaxAttempts /\ End(s, "retries_exhausted")
       \/ /\ ~SeenRemoved(s) /\ sub[s].attempts < MaxAttempts
          /\ Becomes(s, [sub[s] EXCEPT !.pc = "backoff", !.attempts = @ + 1])
    /\ UNCHANGED <<access, updates, removed, calls, next, clocks, tries>>

\* After the backoff: the mark, and read, which joins the next list request or
\* starts one, to be sent at lastRead + readInterval.
Ask(s) ==
    /\ At(s, "backoff")
    /\ \/ SeenRemoved(s) /\ End(s, "access_removed") /\ UNCHANGED <<calls, next>>
       \/ /\ ~SeenRemoved(s)
          /\ \E c \in Calls :
               /\ IF next # 0 THEN c = next ELSE calls[c].stage = "free"
               /\ calls' = IF next # 0 THEN calls
                           ELSE [calls EXCEPT ![c].stage = "sleeping", ![c].wait = readIn]
               /\ next' = c
               /\ Becomes(s, [sub[s] EXCEPT !.pc = "reading", !.call = c,
                                            !.asked = access.changes])
    /\ UNCHANGED <<access, updates, removed, clocks, tries>>

\* The answer has been read by those who still wait for it.
Released(s, c) ==
    IF \E t \in Subs \ {s} : sub[t].call = c THEN calls ELSE [calls EXCEPT ![c] = Free]

\* reserveAttempt.
NextSlot == slotIn + AttemptSpacing

Judge(s) ==
    /\ At(s, "reading") /\ calls[sub[s].call].stage = "done"
    /\ LET answer == calls[sub[s].call] IN
         \/ answer.err = "auth" /\ End(s, "list_refused") /\ UNCHANGED slotIn
         \/ /\ answer.err = "net" /\ UNCHANGED slotIn
            /\ Becomes(s, [sub[s] EXCEPT !.pc = "head", !.call = 0, !.asked = 0])
         \/ /\ answer.err = "none" /\ SeenRemoved(s)
            /\ End(s, "access_removed") /\ UNCHANGED slotIn
         \/ /\ answer.err = "none" /\ ~SeenRemoved(s) /\ AccountOf[s] \notin answer.listed
            /\ Becomes(s, [Unresumed EXCEPT !.pc = "ended", !.reason = "not_listed",
                                           !.asked = sub[s].asked, !.asOf = answer.asOf])
            /\ UNCHANGED slotIn
         \/ /\ answer.err = "none" /\ ~SeenRemoved(s) /\ AccountOf[s] \in answer.listed
            /\ Becomes(s, [sub[s] EXCEPT !.pc = "slot", !.call = 0, !.wait = slotIn,
                                         !.asOf = answer.asOf])
            /\ slotIn' = NextSlot
    /\ calls' = Released(s, sub[s].call)
    /\ UNCHANGED <<access, updates, removed, next, readIn, sinceRead, tries>>

\* The slot comes: the mark once more, and the subscription connects.
Resume(s) ==
    /\ At(s, "slot") /\ sub[s].wait = 0
    /\ \/ SeenRemoved(s) /\ End(s, "access_removed") /\ UNCHANGED tries
       \/ /\ ~SeenRemoved(s)
          /\ Becomes(s, [sub[s] EXCEPT !.pc = "connecting"])
          /\ tries' = [tries EXCEPT ![s] = @ + 1]
    /\ UNCHANGED <<access, updates, removed, calls, next, clocks>>

\* Its context is canceled: each of these waits watches it.
Cancel(s) ==
    /\ sub[s].pc \in {"up", "backoff", "reading", "slot", "connecting"}
    /\ End(s, "cancelled")
    /\ calls' = IF At(s, "reading") /\ calls[sub[s].call].stage = "done"
                THEN Released(s, sub[s].call) ELSE calls
    /\ UNCHANGED <<access, updates, removed, next, clocks, tries>>

-----------------------------------------------------------------------------
(* The shared read: runRead, a goroutine for each call.                    *)

\* Mutant: later callers join a read that has already been sent.
SendJoinable(c) ==
    /\ calls[c].stage = "sleeping" /\ calls[c].wait = 0
    /\ calls' = [calls EXCEPT ![c].stage = "sent"]
    /\ readIn' = ReadInterval /\ sinceRead' = 0
    /\ UNCHANGED <<access, updates, removed, next, slotIn, sub, tries>>

\* Mutant: the time of the last read is not kept.
SendUnpaced(c) ==
    /\ calls[c].stage = "sleeping" /\ calls[c].wait = 0
    /\ next' = 0 /\ sinceRead' = 0
    /\ calls' = [calls EXCEPT ![c].stage = "sent"]
    /\ UNCHANGED <<access, updates, removed, readIn, slotIn, sub, tries>>

\* Later callers need a read of their own, and the list is requested.
Send(c) ==
    /\ calls[c].stage = "sleeping" /\ calls[c].wait = 0
    /\ next' = 0 /\ readIn' = ReadInterval /\ sinceRead' = 0
    /\ calls' = [calls EXCEPT ![c].stage = "sent"]
    /\ UNCHANGED <<access, updates, removed, slotIn, sub, tries>>

\* The server lists the accounts.
List(c) ==
    /\ calls[c].stage = "sent"
    /\ calls' = [calls EXCEPT ![c].stage = "listed", ![c].asOf = access.changes,
                              ![c].listed = access.listed]
    /\ UNCHANGED <<access, updates, removed, next, clocks, sub, tries>>

\* The answer arrives, is refused, or fails; nobody may be waiting any more.
Done(c) ==
    /\ \E err \in {"none", "net", "auth"} :
         /\ calls[c].stage = "listed" \/ (calls[c].stage = "sent" /\ err # "none")
         /\ calls' = IF \A s \in Subs : sub[s].call # c THEN [calls EXCEPT ![c] = Free]
                     ELSE [calls EXCEPT ![c].stage = "done", ![c].err = err]
    /\ next' = IF next = c THEN 0 ELSE next
    /\ UNCHANGED <<access, updates, removed, clocks, sub, tries>>

-----------------------------------------------------------------------------
(* The server's changes, and time.                                         *)

Change(a) ==
    /\ access.changes < MaxChanges
    /\ LET removes == a \in access.listed IN
         /\ access' = [listed |-> IF removes THEN access.listed \ {a} ELSE access.listed \cup {a},
                       changes |-> access.changes + 1]
         /\ updates' = Append(updates, [account |-> a, removed |-> removes])
    /\ UNCHANGED <<removed, calls, next, clocks, sub, tries>>

\* noteUpdate; an update may also be missed while its channel reconnects.
NoteUpdate ==
    /\ updates # <<>> /\ updates' = Tail(updates)
    /\ \/ LET update == Head(updates) IN
            removed' = IF update.removed THEN removed \cup {update.account}
                       ELSE removed \ {update.account}
       \/ UNCHANGED removed
    /\ UNCHANGED <<access, calls, next, clocks, sub, tries>>

Less(n) == IF n = 0 THEN 0 ELSE n - 1

Tick ==
    /\ readIn' = Less(readIn) /\ slotIn' = Less(slotIn)
    /\ sinceRead' = IF sinceRead = ReadInterval THEN sinceRead ELSE sinceRead + 1
    /\ calls' = [c \in Calls |-> [calls[c] EXCEPT !.wait = Less(@)]]
    /\ sub' = [s \in Subs |->
                 [sub[s] EXCEPT !.wait = Less(@),
                                !.up = IF At(s, "up") /\ @ < StableAfter THEN @ + 1 ELSE @]]
    /\ tries' = [s \in Subs |-> IF sub'[s].up = StableAfter THEN 0 ELSE tries[s]]
    /\ UNCHANGED <<access, updates, removed, next>>

Await(s) == Connect(s) \/ Budget(s) \/ Ask(s) \/ Judge(s) \/ Resume(s)
RunRead(c) == Send(c) \/ List(c) \/ Done(c)

Next ==
    \/ \E s \in Subs : Unsubscribed(s) \/ Reconnected(s) \/ Await(s) \/ Cancel(s)
    \/ \E c \in Calls : RunRead(c)
    \/ \E a \in Accounts : Change(a)
    \/ NoteUpdate
    \/ Tick

Spec == Init /\ [][Next]_vars

\* Timers run out, goroutines are scheduled, and requests are bounded by
\* timeouts (accessReadTimeout).  A subscription need not stay up.
Fairness ==
    /\ \A s \in Subs : WF_vars(Await(s))
    /\ \A c \in Calls : WF_vars(RunRead(c))
    /\ WF_vars(Tick)

FairSpec == Spec /\ Fairness

-----------------------------------------------------------------------------
(* Properties.                                                             *)

\* The types; never more than one read per subscription is needed.
TypeOK ==
    /\ access.listed \subseteq Accounts /\ access.changes \in 0..MaxChanges
    /\ removed \subseteq Accounts
    /\ next \in {0} \cup Calls
    /\ \A c \in Calls :
         /\ calls[c].stage \in {"free", "sleeping", "sent", "listed", "done"}
         /\ calls[c].wait \in 0..ReadInterval
    /\ readIn \in 0..ReadInterval /\ sinceRead \in 0..ReadInterval
    /\ slotIn \in Nat
    /\ \A s \in Subs :
         /\ sub[s].pc \in {"up", "head", "backoff", "reading", "slot", "connecting", "ended"}
         /\ sub[s].attempts \in 0..MaxAttempts /\ sub[s].call \in {0} \cup Calls

\* What a subscription concludes from a shared list is not older than its own
\* question: it resumes, or ends as not listed, on a list the server made after
\* it asked (accessRead: "started after every caller that joined it asked").
FreshAnswer ==
    \A s \in Subs :
        sub[s].pc \in {"slot", "connecting"} \/ sub[s].reason = "not_listed"
            => sub[s].asOf >= sub[s].asked

\* However often the server ends it, a subscription is resumed at most
\* MaxAttempts times without staying up for StableAfter (resubscribeTiming).
ResumesBounded == \A s \in Subs : tries[s] <= MaxAttempts

\* The list is requested at most once per ReadInterval, whoever asks
\* ("paced across the client").
ReadsPaced ==
    [][\A c \in Calls : calls[c].stage = "sleeping" /\ calls'[c].stage = "sent"
                            => sinceRead >= ReadInterval]_vars

\* Attempts of one client wait for different slots, AttemptSpacing apart.
SlotsApart ==
    \A s, t \in Subs :
        s # t /\ At(s, "slot") /\ At(t, "slot") /\ sub[s].wait > 0 /\ sub[t].wait > 0
            => \/ sub[s].wait - sub[t].wait >= AttemptSpacing
               \/ sub[t].wait - sub[s].wait >= AttemptSpacing

\* What a server that ends subscriptions again and again can make the client do is
\* limited: in number for each subscription, in rate for all of them together
\* (resubscribeTiming, reserveAttempt).
ResumesLimited == ResumesBounded /\ SlotsApart

\* A subscription the server ended is up again or has ended with a reason,
\* whatever the server answers and whoever else is waiting.
WaitsEnd == \A s \in Subs : At(s, "head") ~> (At(s, "up") \/ At(s, "ended"))
=============================================================================
