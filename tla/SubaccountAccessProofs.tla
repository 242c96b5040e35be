----------------------- MODULE SubaccountAccessProofs -----------------------
(***************************************************************************)
(* Theorems about SubaccountAccess, for any number of subscriptions and    *)
(* accounts and any timing: shared answers are fresh, list requests and    *)
(* attempts are paced across the client, and resumes are bounded.          *)
(***************************************************************************)
EXTENDS SubaccountAccess, FiniteSetTheorems, TLAPS

Places == {"up", "head", "backoff", "reading", "slot", "connecting", "ended"}
Resuming == {"head", "backoff", "reading", "slot", "connecting"}

Reasons == {"none", "token_refused", "access_removed", "retries_exhausted",
            "list_refused", "not_listed", "cancelled"}

Call == [stage : {"free", "sleeping", "sent", "listed", "done"}, wait : Nat,
         asOf : Nat, listed : SUBSET Accounts, err : {"none", "net", "auth"}]
Subscription == [pc : Places, resuming : BOOLEAN, attempts : Nat, up : Nat, wait : Nat,
                 call : {0} \cup Calls, asked : Nat, asOf : Nat, reason : Reasons]

Types ==
    /\ access \in [listed : SUBSET Accounts, changes : Nat]
    /\ calls \in [Calls -> Call] /\ next \in {0} \cup Calls
    /\ readIn \in Nat /\ slotIn \in Nat /\ sinceRead \in Nat
    /\ sub \in [Subs -> Subscription] /\ tries \in [Subs -> Nat]

\* The request that sleeps is the one that callers join, and it wakes no sooner
\* than ReadInterval after the last one.
OneSleeps ==
    /\ \A c \in Calls : calls[c].stage = "sleeping" => next = c /\ calls[c].wait = readIn
    /\ next # 0 => calls[next].stage = "sleeping"
    /\ sinceRead + readIn >= ReadInterval

\* A subscription that waits for an answer asked before the list was made.
Waits ==
    \A s \in Subs : At(s, "reading") =>
        LET c == calls[sub[s].call] IN
        /\ sub[s].call \in Calls /\ sub[s].asked <= access.changes
        /\ c.stage # "free"
        /\ c.stage = "listed" \/ (c.stage = "done" /\ c.err = "none")
             => c.asOf >= sub[s].asked
\* A conclusion from an answer is no older than the question.
JudgedOK(record) ==
    /\ record.pc \in {"slot", "connecting"} => record.asOf >= record.asked
    /\ record.reason = "not_listed" => record.pc = "ended" /\ record.asOf >= record.asked
Judged == \A s \in Subs : JudgedOK(sub[s])

\* A slot taken lies AttemptSpacing before the next one.
Slots ==
    /\ \A s \in Subs : At(s, "slot") /\ sub[s].wait > 0 => slotIn >= sub[s].wait + AttemptSpacing
    /\ SlotsApart

\* The budget covers the resumes, and one more while the next is prepared.
BudgetOK(record, resumes) ==
    /\ record.attempts <= MaxAttempts /\ resumes <= MaxAttempts
    /\ record.pc \in {"backoff", "reading", "slot"} => resumes < record.attempts
    /\ record.pc \in {"up", "head", "connecting"} => resumes <= record.attempts
    /\ record.pc \in Resuming => record.resuming
    /\ record.pc = "up" /\ (~record.resuming \/ record.up >= StableAfter) => resumes = 0
Budgeted == \A s \in Subs : BudgetOK(sub[s], tries[s])

IInv == Types /\ OneSleeps /\ Waits /\ Judged /\ Slots /\ Budgeted

LEMMA Timing ==
    /\ MaxAttempts \in Nat \ {0} /\ StableAfter \in Nat \ {0}
    /\ AttemptSpacing \in Nat \ {0} /\ ReadInterval \in Nat \ {0}
BY Assumptions

LEMMA Begins == Init => IInv
<1> SUFFICES ASSUME Init PROVE IInv
  OBVIOUS
<1>1. /\ access \in [listed : SUBSET Accounts, changes : {0}]
      /\ calls = [c \in Calls |-> Free] /\ next = 0
      /\ readIn = 0 /\ slotIn = 0 /\ sinceRead = ReadInterval
      /\ sub = [s \in Subs |-> Unresumed] /\ tries = [s \in Subs |-> 0]
  BY DEF Init
<1>2. Types
  <2>1. Free \in Call
    BY DEF Free, Call
  <2>2. Unresumed \in Subscription
    BY DEF Unresumed, Subscription, Places, Reasons
  <2> QED
    BY <1>1, <2>1, <2>2, Timing DEF Types
<1>3. OneSleeps
  BY <1>1, Timing DEF OneSleeps, Free
<1>4. Waits /\ Judged
  BY <1>1 DEF Waits, Judged, JudgedOK, Unresumed, At
<1>5. Slots
  BY <1>1 DEF Slots, SlotsApart, Unresumed, At
<1>6. Budgeted
  BY <1>1, Timing DEF Budgeted, BudgetOK, Resuming, Unresumed
<1> QED
  BY <1>2, <1>3, <1>4, <1>5, <1>6 DEF IInv

-----------------------------------------------------------------------------
(* A subscription moves.                                                   *)

\* Releasing an answer takes it from nobody who still waits for it.
LEMMA ReleasedKeeps ==
    ASSUME IInv, NEW s \in Subs,
           \/ calls' = calls
           \/ /\ At(s, "reading") /\ calls[sub[s].call].stage = "done"
              /\ calls' = Released(s, sub[s].call),
           UNCHANGED <<next, readIn, sinceRead>>
    PROVE  /\ calls' \in [Calls -> Call] /\ OneSleeps'
           /\ \A t \in Subs \ {s} :
                At(t, "reading") => calls'[sub[t].call] = calls[sub[t].call]
<1>1. CASE calls' = calls
  BY <1>1 DEF IInv, Types, OneSleeps
<1>2. CASE ~(calls' = calls)
  <2> DEFINE done == sub[s].call
  <2>1. done \in Calls /\ calls[done].stage = "done"
    BY <1>2 DEF IInv, Waits
  <2>2. calls' = [calls EXCEPT ![done] = Free] /\ \A t \in Subs \ {s} : sub[t].call # done
    BY <1>2 DEF Released
  <2>3. Free \in Call /\ Free.stage = "free"
    BY DEF Free, Call
  <2>4. calls' \in [Calls -> Call] /\ calls'[done].stage = "free"
        /\ \A c \in Calls \ {done} : calls'[c] = calls[c]
    BY <2>1, <2>2, <2>3 DEF IInv, Types
  <2>5. OneSleeps'
    BY <2>1, <2>4 DEF IInv, OneSleeps, Types
  <2> QED
    BY <2>2, <2>4, <2>5 DEF IInv, Waits
<1> QED
  BY <1>1, <1>2

\* A subscription that neither waits for an answer nor for a slot disturbs only
\* itself.
LEMMA Moves ==
    ASSUME IInv, NEW s \in Subs, NEW record \in Subscription, NEW resumes \in Nat,
           Becomes(s, record), record.pc \notin {"reading", "slot"},
           JudgedOK(record), BudgetOK(record, resumes),
           tries' = [tries EXCEPT ![s] = resumes],
           \/ calls' = calls
           \/ /\ At(s, "reading") /\ calls[sub[s].call].stage = "done"
              /\ calls' = Released(s, sub[s].call),
           UNCHANGED <<access, next, readIn, slotIn, sinceRead>>
    PROVE  IInv'
<1>1. /\ sub' \in [Subs -> Subscription] /\ tries' \in [Subs -> Nat]
      /\ sub'[s] = record /\ tries'[s] = resumes
      /\ \A t \in Subs \ {s} : sub'[t] = sub[t] /\ tries'[t] = tries[t]
  BY DEF IInv, Types, Becomes
<1>2. /\ calls' \in [Calls -> Call] /\ OneSleeps'
      /\ \A t \in Subs \ {s} :
           At(t, "reading") => calls'[sub[t].call] = calls[sub[t].call]
  BY ReleasedKeeps
<1>3. Types'
  BY <1>1, <1>2 DEF IInv, Types
<1>4. Waits'
  BY <1>1, <1>2 DEF IInv, Waits, At
<1>5. Judged' /\ Budgeted'
  BY <1>1 DEF IInv, Judged, Budgeted, JudgedOK, BudgetOK
<1>6. Slots'
  BY <1>1 DEF IInv, Slots, SlotsApart, At
<1> QED
  BY <1>2, <1>3, <1>4, <1>5, <1>6 DEF IInv

LEMMA Ends ==
    ASSUME IInv, NEW s \in Subs, NEW reason \in Reasons \ {"not_listed"},
           End(s, reason), UNCHANGED tries,
           \/ calls' = calls
           \/ /\ At(s, "reading") /\ calls[sub[s].call].stage = "done"
              /\ calls' = Released(s, sub[s].call),
           UNCHANGED <<access, next, readIn, slotIn, sinceRead>>
    PROVE  IInv'
<1> DEFINE record == [Unresumed EXCEPT !.pc = "ended", !.reason = reason]
<1>1. record \in Subscription /\ record.pc = "ended" /\ record.reason = reason
      /\ record.attempts = 0
  BY DEF Unresumed, Subscription, Places, Reasons
<1>2. JudgedOK(record) /\ BudgetOK(record, tries[s])
  BY <1>1, Timing DEF IInv, Budgeted, JudgedOK, BudgetOK, Resuming
<1>3. tries[s] \in Nat /\ tries' = [tries EXCEPT ![s] = tries[s]]
  BY DEF IInv, Types
<1>4. Becomes(s, record)
  BY DEF End
<1> HIDE DEF record
<1> QED
  BY <1>1, <1>2, <1>3, <1>4, Moves

\* The steps that move one subscription only.
LEMMA MovesOnly ==
    ASSUME IInv, NEW s \in Subs,
           Unsubscribed(s) \/ Reconnected(s) \/ Connect(s) \/ Budget(s) \/ Resume(s) \/ Cancel(s)
    PROVE  IInv'
<1>1. sub[s] \in Subscription /\ tries[s] \in Nat
  BY DEF IInv, Types
<1>2. JudgedOK(sub[s]) /\ BudgetOK(sub[s], tries[s])
  BY DEF IInv, Judged, Budgeted
<1>3. tries = [tries EXCEPT ![s] = tries[s]]
  BY DEF IInv, Types
<1>4. CASE Unsubscribed(s)
  <2> DEFINE record == [sub[s] EXCEPT !.pc = "head", !.resuming = TRUE, !.up = 0,
                           !.attempts = IF ~sub[s].resuming \/ Earned(s) THEN 0 ELSE @]
  <2>1. /\ record \in Subscription /\ record.pc = "head" /\ record.resuming
        /\ record.reason = sub[s].reason
        /\ record.attempts = IF ~sub[s].resuming \/ Earned(s) THEN 0 ELSE sub[s].attempts
    BY <1>1 DEF Subscription, Places
  <2>2. JudgedOK(record)
    BY <1>2, <1>4, <2>1 DEF JudgedOK, Unsubscribed, At
  <2>3. BudgetOK(record, tries[s])
    BY <1>1, <1>2, <1>4, <2>1, Timing DEF BudgetOK, Unsubscribed, At, Earned, Resuming
  <2>4. Becomes(s, record) /\ UNCHANGED <<access, calls, next, clocks, tries>>
    BY <1>4 DEF Unsubscribed
  <2> HIDE DEF record
  <2> QED
    BY <1>1, <1>3, <2>1, <2>2, <2>3, <2>4, Moves DEF clocks
<1>5. CASE Reconnected(s)
  <2> DEFINE record == [sub[s] EXCEPT !.up = 0]
  <2>1. /\ record \in Subscription /\ record.pc = "up" /\ record.reason = sub[s].reason
        /\ record.attempts = sub[s].attempts /\ record.resuming = sub[s].resuming
        /\ record.up = 0
    BY <1>1, <1>5 DEF Subscription, Reconnected, At
  <2>2. JudgedOK(record)
    BY <1>2, <1>5, <2>1 DEF JudgedOK, Reconnected, At
  <2>3. BudgetOK(record, tries[s])
    BY <1>1, <1>2, <1>5, <2>1, Timing DEF BudgetOK, Reconnected, At, Resuming
  <2>4. Becomes(s, record) /\ UNCHANGED <<access, calls, next, clocks, tries>>
    BY <1>5 DEF Reconnected
  <2> HIDE DEF record
  <2> QED
    BY <1>1, <1>3, <2>1, <2>2, <2>3, <2>4, Moves DEF clocks
<1>6. CASE Connect(s)
  <2>1. UNCHANGED <<access, calls, next, clocks, tries>> /\ At(s, "connecting")
    BY <1>6 DEF Connect
  <2>2. CASE End(s, "token_refused")
    BY <2>1, <2>2, Ends DEF clocks, Reasons
  <2>3. ASSUME NEW record \in Subscription, Becomes(s, record),
               record.pc \in {"up", "head"}, record.pc = "up" => record.up = 0,
               record.attempts = sub[s].attempts, record.resuming = sub[s].resuming,
               record.reason = sub[s].reason
        PROVE  IInv'
    <3>1. JudgedOK(record)
      BY <1>2, <2>1, <2>3 DEF JudgedOK, At
    <3>2. BudgetOK(record, tries[s])
      BY <1>1, <1>2, <2>1, <2>3, Timing DEF BudgetOK, At, Resuming
    <3> QED
      BY <1>1, <1>3, <2>1, <2>3, <3>1, <3>2, Moves DEF clocks
  <2>4. CASE Becomes(s, [sub[s] EXCEPT !.pc = "up", !.up = 0, !.asked = 0, !.asOf = 0])
    <3> DEFINE record == [sub[s] EXCEPT !.pc = "up", !.up = 0, !.asked = 0, !.asOf = 0]
    <3>1. /\ record \in Subscription /\ record.pc = "up" /\ record.up = 0
          /\ record.attempts = sub[s].attempts /\ record.resuming = sub[s].resuming
          /\ record.reason = sub[s].reason
      BY <1>1 DEF Subscription, Places
    <3>2. Becomes(s, record)
      BY <2>4
    <3> HIDE DEF record
    <3> QED
      BY <2>3, <3>1, <3>2
  <2>5. CASE Becomes(s, [sub[s] EXCEPT !.pc = "head", !.asked = 0, !.asOf = 0])
    <3> DEFINE record == [sub[s] EXCEPT !.pc = "head", !.asked = 0, !.asOf = 0]
    <3>1. /\ record \in Subscription /\ record.pc = "head"
          /\ record.attempts = sub[s].attempts /\ record.resuming = sub[s].resuming
          /\ record.reason = sub[s].reason
      BY <1>1 DEF Subscription, Places
    <3>2. Becomes(s, record)
      BY <2>5
    <3> HIDE DEF record
    <3> QED
      BY <2>3, <3>1, <3>2
  <2> QED
    BY <1>6, <2>2, <2>4, <2>5 DEF Connect
<1>7. CASE Budget(s)
  <2>1. UNCHANGED <<access, calls, next, clocks, tries>> /\ At(s, "head")
    BY <1>7 DEF Budget
  <2>2. CASE End(s, "access_removed") \/ End(s, "retries_exhausted")
    BY <2>1, <2>2, Ends DEF clocks, Reasons
  <2>3. CASE /\ sub[s].attempts < MaxAttempts
             /\ Becomes(s, [sub[s] EXCEPT !.pc = "backoff", !.attempts = @ + 1])
    <3> DEFINE record == [sub[s] EXCEPT !.pc = "backoff", !.attempts = @ + 1]
    <3>0. sub[s].attempts + 1 \in Nat
      BY <1>1 DEF Subscription
    <3>1. /\ record \in Subscription /\ record.pc = "backoff"
          /\ record.attempts = sub[s].attempts + 1 /\ record.resuming = sub[s].resuming
          /\ record.reason = sub[s].reason
      BY <1>1, <3>0 DEF Subscription, Places
    <3>2. JudgedOK(record)
      BY <1>2, <2>1, <3>1 DEF JudgedOK, At
    <3>3. BudgetOK(record, tries[s])
      BY <1>1, <1>2, <2>1, <2>3, <3>1, Timing DEF BudgetOK, At, Resuming, Subscription
    <3>4. Becomes(s, record)
      BY <2>3
    <3> HIDE DEF record
    <3> QED
      BY <1>1, <1>3, <2>1, <3>1, <3>2, <3>3, <3>4, Moves DEF clocks
  <2> QED
    BY <1>7, <2>2, <2>3 DEF Budget
<1>8. CASE Resume(s)
  <2>1. UNCHANGED <<access, calls, next, clocks>> /\ At(s, "slot")
    BY <1>8 DEF Resume
  <2>2. CASE End(s, "access_removed") /\ UNCHANGED tries
    BY <2>1, <2>2, Ends DEF clocks, Reasons
  <2>3. CASE /\ Becomes(s, [sub[s] EXCEPT !.pc = "connecting"])
             /\ tries' = [tries EXCEPT ![s] = @ + 1]
    <3> DEFINE record == [sub[s] EXCEPT !.pc = "connecting"]
    <3>1. /\ record \in Subscription /\ record.pc = "connecting"
          /\ record.attempts = sub[s].attempts /\ record.resuming = sub[s].resuming
          /\ record.reason = sub[s].reason
          /\ record.asOf = sub[s].asOf /\ record.asked = sub[s].asked
      BY <1>1 DEF Subscription, Places
    <3>2. JudgedOK(record)
      BY <1>2, <2>1, <3>1 DEF JudgedOK, At
    <3>3. BudgetOK(record, tries[s] + 1)
      BY <1>1, <1>2, <2>1, <3>1, Timing DEF BudgetOK, At, Resuming, Subscription
    <3>4. Becomes(s, record) /\ tries' = [tries EXCEPT ![s] = tries[s] + 1]
      BY <2>3
    <3>5. tries[s] + 1 \in Nat
      BY <1>1
    <3> HIDE DEF record
    <3> QED
      BY <2>1, <3>1, <3>2, <3>3, <3>4, <3>5, Moves DEF clocks
  <2> QED
    BY <1>8, <2>2, <2>3 DEF Resume
<1>9. CASE Cancel(s)
  BY <1>9, Ends DEF Cancel, clocks, Reasons
<1> QED
  BY <1>4, <1>5, <1>6, <1>7, <1>8, <1>9

-----------------------------------------------------------------------------
(* A subscription asks, and is answered.                                   *)

LEMMA NoCallIsZero == 0 \notin Calls
<1>1. Cardinality(Subs) \in Nat
  BY Assumptions, FS_CardinalityType
<1> QED
  BY <1>1 DEF Calls

LEMMA Asks ==
    ASSUME IInv, NEW s \in Subs, Ask(s)
    PROVE  IInv'
<1>1. UNCHANGED <<access, removed, readIn, slotIn, sinceRead, tries>> /\ At(s, "backoff")
  BY DEF Ask, clocks
<1>2. CASE End(s, "access_removed") /\ UNCHANGED <<calls, next>>
  BY <1>1, <1>2, Ends DEF Reasons
<1>3. CASE ~(End(s, "access_removed") /\ UNCHANGED <<calls, next>>)
  <2>1. PICK c \in Calls :
          /\ IF next # 0 THEN c = next ELSE calls[c].stage = "free"
          /\ calls' = IF next # 0 THEN calls
                      ELSE [calls EXCEPT ![c].stage = "sleeping", ![c].wait = readIn]
          /\ next' = c
          /\ Becomes(s, [sub[s] EXCEPT !.pc = "reading", !.call = c, !.asked = access.changes])
    BY <1>3 DEF Ask
  <2>2. access.changes \in Nat /\ readIn \in Nat
    BY DEF IInv, Types
  <2>3. /\ sub' \in [Subs -> Subscription]
        /\ sub'[s].pc = "reading" /\ sub'[s].call = c /\ sub'[s].asked = access.changes
        /\ sub'[s].attempts = sub[s].attempts /\ sub'[s].resuming = sub[s].resuming
        /\ sub'[s].reason = sub[s].reason
        /\ \A t \in Subs \ {s} : sub'[t] = sub[t]
    <3> DEFINE record == [sub[s] EXCEPT !.pc = "reading", !.call = c, !.asked = access.changes]
    <3>1. /\ record \in Subscription
          /\ record.pc = "reading" /\ record.call = c /\ record.asked = access.changes
          /\ record.attempts = sub[s].attempts /\ record.resuming = sub[s].resuming
          /\ record.reason = sub[s].reason
      BY <2>2 DEF IInv, Types, Subscription, Places
    <3>2. Becomes(s, record)
      BY <2>1
    <3> HIDE DEF record
    <3> QED
      BY <3>1, <3>2 DEF IInv, Types, Becomes
  <2>4. /\ calls' \in [Calls -> Call] /\ calls'[c].stage = "sleeping"
        /\ calls'[c].wait = readIn
        /\ \A d \in Calls \ {c} : calls'[d] = calls[d]
    <3>1. CASE next # 0
      BY <2>1, <3>1 DEF IInv, Types, OneSleeps
    <3>2. CASE next = 0
      <4>1. calls' = [calls EXCEPT ![c].stage = "sleeping", ![c].wait = readIn]
        BY <2>1, <3>2
      <4>2. calls[c] \in Call
        BY DEF IInv, Types
      <4>3. [calls[c] EXCEPT !.stage = "sleeping", !.wait = readIn] \in Call
        BY <2>2, <4>2 DEF Call
      <4> QED
        BY <4>1, <4>2, <4>3 DEF IInv, Types, Call
    <3> QED
      BY <3>1, <3>2
  <2>5. Types'
    BY <1>1, <2>1, <2>3, <2>4 DEF IInv, Types
  <2>6. OneSleeps'
    BY <1>1, <2>1, <2>4, NoCallIsZero DEF IInv, OneSleeps
  <2>7. Waits'
    <3>1. \A t \in Subs \ {s} : At(t, "reading") => calls'[sub[t].call] = calls[sub[t].call]
      BY <2>1, <2>4 DEF IInv, Waits
    <3> QED
      BY <1>1, <2>2, <2>3, <2>4, <3>1 DEF IInv, Waits, At
  <2>8. Judged'
    BY <1>1, <2>3 DEF IInv, Judged, JudgedOK, At
  <2>9. Slots'
    BY <1>1, <2>3 DEF IInv, Slots, SlotsApart, At
  <2>10. Budgeted'
    BY <1>1, <2>3 DEF IInv, Budgeted, BudgetOK, At, Resuming
  <2> QED
    BY <2>5, <2>6, <2>7, <2>8, <2>9, <2>10 DEF IInv
<1> QED
  BY <1>2, <1>3

LEMMA Judges ==
    ASSUME IInv, NEW s \in Subs, Judge(s)
    PROVE  IInv'
<1> DEFINE answer == calls[sub[s].call]
<1>1. /\ UNCHANGED <<access, removed, next, readIn, sinceRead, tries>>
      /\ At(s, "reading") /\ answer.stage = "done" /\ calls' = Released(s, sub[s].call)
  BY DEF Judge
<1>2. sub[s] \in Subscription /\ tries[s] \in Nat /\ slotIn \in Nat
      /\ tries = [tries EXCEPT ![s] = tries[s]]
  BY DEF IInv, Types
<1>3. JudgedOK(sub[s]) /\ BudgetOK(sub[s], tries[s])
  BY DEF IInv, Judged, Budgeted
<1>4. /\ answer.asOf \in Nat
      /\ answer.err = "none" => answer.asOf >= sub[s].asked
  BY <1>1 DEF IInv, Types, Call, Waits
<1> HIDE DEF answer
<1>5. CASE (End(s, "list_refused") \/ End(s, "access_removed")) /\ UNCHANGED slotIn
  BY <1>1, <1>5, Ends DEF Reasons, answer
<1>6. CASE /\ UNCHANGED slotIn
           /\ Becomes(s, [sub[s] EXCEPT !.pc = "head", !.call = 0, !.asked = 0])
  <2> DEFINE record == [sub[s] EXCEPT !.pc = "head", !.call = 0, !.asked = 0]
  <2>1. /\ record \in Subscription /\ record.pc = "head"
        /\ record.attempts = sub[s].attempts /\ record.resuming = sub[s].resuming
        /\ record.reason = sub[s].reason
    BY <1>2 DEF Subscription, Places
  <2>2. JudgedOK(record)
    BY <1>1, <1>3, <2>1 DEF JudgedOK, At
  <2>3. BudgetOK(record, tries[s])
    BY <1>1, <1>2, <1>3, <2>1, Timing DEF BudgetOK, At, Resuming, Subscription
  <2>4. Becomes(s, record)
    BY <1>6
  <2> HIDE DEF record
  <2> QED
    BY <1>1, <1>2, <1>6, <2>1, <2>2, <2>3, <2>4, Moves DEF answer
<1>7. CASE /\ answer.err = "none" /\ UNCHANGED slotIn
           /\ Becomes(s, [Unresumed EXCEPT !.pc = "ended", !.reason = "not_listed",
                                           !.asked = sub[s].asked, !.asOf = answer.asOf])
  <2> DEFINE record == [Unresumed EXCEPT !.pc = "ended", !.reason = "not_listed",
                                         !.asked = sub[s].asked, !.asOf = answer.asOf]
  <2>1. sub[s].asked \in Nat
    BY <1>2 DEF Subscription
  <2>2. /\ record \in Subscription /\ record.pc = "ended" /\ record.attempts = 0
        /\ record.asked = sub[s].asked /\ record.asOf = answer.asOf
    BY <1>4, <2>1 DEF Unresumed, Subscription, Places, Reasons
  <2>3. JudgedOK(record)
    BY <1>4, <1>7, <2>2 DEF JudgedOK
  <2>4. BudgetOK(record, tries[s])
    BY <1>3, <2>2, Timing DEF BudgetOK, Resuming
  <2>5. Becomes(s, record)
    BY <1>7
  <2> HIDE DEF record
  <2> QED
    BY <1>1, <1>2, <1>7, <2>2, <2>3, <2>4, <2>5, Moves DEF answer
<1>8. CASE /\ answer.err = "none" /\ slotIn' = NextSlot
           /\ Becomes(s, [sub[s] EXCEPT !.pc = "slot", !.call = 0, !.wait = slotIn,
                                        !.asOf = answer.asOf])
  <2> DEFINE record == [sub[s] EXCEPT !.pc = "slot", !.call = 0, !.wait = slotIn,
                                      !.asOf = answer.asOf]
  <2>1. /\ record \in Subscription /\ record.pc = "slot" /\ record.wait = slotIn
        /\ record.asked = sub[s].asked /\ record.asOf = answer.asOf
        /\ record.attempts = sub[s].attempts /\ record.resuming = sub[s].resuming
        /\ record.reason = sub[s].reason
    BY <1>2, <1>4 DEF Subscription, Places
  <2>2. Becomes(s, record)
    BY <1>8
  <2> HIDE DEF record
  <2>3. /\ sub' \in [Subs -> Subscription] /\ sub'[s] = record
        /\ \A t \in Subs \ {s} : sub'[t] = sub[t]
    BY <2>1, <2>2 DEF IInv, Types, Becomes
  <2>4. /\ calls' \in [Calls -> Call] /\ OneSleeps'
        /\ \A t \in Subs \ {s} :
             At(t, "reading") => calls'[sub[t].call] = calls[sub[t].call]
    BY <1>1, ReleasedKeeps DEF answer
  <2>5. slotIn' = slotIn + AttemptSpacing /\ slotIn' \in Nat
    BY <1>2, <1>8, Timing DEF NextSlot
  <2>6. Types'
    BY <1>1, <2>3, <2>4, <2>5 DEF IInv, Types
  <2>7. Waits'
    BY <1>1, <2>1, <2>3, <2>4 DEF IInv, Waits, At
  <2>8. Judged'
    BY <1>1, <1>3, <1>4, <1>8, <2>1, <2>3 DEF IInv, Judged, JudgedOK, At
  <2>9. Slots'
    <3>1. \A t \in Subs : sub[t].wait \in Nat
      BY DEF IInv, Types, Subscription
    <3>2. \A t \in Subs \ {s} : At(t, "slot") /\ sub[t].wait > 0
                                    => slotIn >= sub[t].wait + AttemptSpacing
      BY DEF IInv, Slots
    <3>3. \A t \in Subs : (At(t, "slot") /\ sub[t].wait > 0)'
                              => slotIn' >= sub'[t].wait + AttemptSpacing
      BY <1>2, <2>1, <2>3, <2>5, <3>1, <3>2, Timing DEF At
    <3>4. SlotsApart'
      BY <1>2, <2>1, <2>3, <3>1, <3>2, Timing DEF IInv, Slots, SlotsApart, At
    <3> QED
      BY <3>3, <3>4 DEF Slots
  <2>10. Budgeted'
    BY <1>1, <1>3, <2>1, <2>3 DEF IInv, Budgeted, BudgetOK, At, Resuming
  <2> QED
    BY <2>4, <2>6, <2>7, <2>8, <2>9, <2>10 DEF IInv
<1> QED
  BY <1>5, <1>6, <1>7, <1>8 DEF Judge, answer

-----------------------------------------------------------------------------
(* The shared read, and time.                                              *)

\* A step of one request, of which only the stage and the answer change.
LEMMA RunsRead ==
    ASSUME IInv, NEW c \in Calls, RunRead(c)
    PROVE  IInv'
<1>1. UNCHANGED <<access, removed, slotIn, sub, tries>>
  BY DEF RunRead, Send, List, Done, clocks
<1>2. calls[c] \in Call /\ access.changes \in Nat /\ access.listed \in SUBSET Accounts
  BY DEF IInv, Types
<1>3. Judged' /\ Slots' /\ Budgeted'
  BY <1>1 DEF IInv, Judged, Slots, SlotsApart, Budgeted, At
<1>4. CASE Send(c)
  <2>1. /\ calls' \in [Calls -> Call] /\ calls'[c].stage = "sent"
        /\ \A d \in Calls \ {c} : calls'[d] = calls[d]
    <3>1. [calls[c] EXCEPT !.stage = "sent"] \in Call
      BY <1>2 DEF Call
    <3> QED
      BY <1>2, <1>4, <3>1 DEF IInv, Types, Send
  <2>2. Types'
    BY <1>1, <1>4, <2>1, Timing DEF IInv, Types, Send
  <2>3. OneSleeps'
    BY <1>4, <2>1, Timing DEF IInv, OneSleeps, Send
  <2>4. Waits'
    BY <1>1, <2>1 DEF IInv, Waits, At
  <2> QED
    BY <1>3, <2>2, <2>3, <2>4 DEF IInv
<1>5. CASE List(c)
  <2>1. /\ calls' \in [Calls -> Call] /\ calls'[c].stage = "listed"
        /\ calls'[c].asOf = access.changes
        /\ \A d \in Calls \ {c} : calls'[d] = calls[d]
    <3> DEFINE call == [calls[c] EXCEPT !.stage = "listed", !.asOf = access.changes,
                                       !.listed = access.listed]
    <3>1. call \in Call /\ call.stage = "listed" /\ call.asOf = access.changes
      BY <1>2 DEF Call
    <3>2. calls' = [calls EXCEPT ![c] = call]
      BY <1>2, <1>5 DEF IInv, Types, List
    <3> HIDE DEF call
    <3> QED
      BY <3>1, <3>2 DEF IInv, Types
  <2>2. UNCHANGED <<next, readIn, sinceRead>> /\ calls[c].stage = "sent"
    BY <1>5 DEF List, clocks
  <2>3. Types'
    BY <1>1, <2>1, <2>2 DEF IInv, Types
  <2>4. OneSleeps'
    BY <2>1, <2>2 DEF IInv, Types, OneSleeps
  <2>5. Waits'
    BY <1>1, <1>2, <2>1 DEF IInv, Waits, At
  <2> QED
    BY <1>3, <2>3, <2>4, <2>5 DEF IInv
<1>6. CASE Done(c)
  <2>1. UNCHANGED <<readIn, sinceRead>> /\ next' = IF next = c THEN 0 ELSE next
    BY <1>6 DEF Done, clocks
  <2>2. PICK err \in {"none", "net", "auth"} :
          /\ calls[c].stage = "listed" \/ (calls[c].stage = "sent" /\ err # "none")
          /\ calls' = IF \A s \in Subs : sub[s].call # c THEN [calls EXCEPT ![c] = Free]
                      ELSE [calls EXCEPT ![c].stage = "done", ![c].err = err]
    BY <1>6 DEF Done
  <2>3. next # c
    BY <2>2, NoCallIsZero DEF IInv, OneSleeps
  <2>4. /\ calls' \in [Calls -> Call] /\ calls'[c].stage # "sleeping"
        /\ \A d \in Calls \ {c} : calls'[d] = calls[d]
        /\ (\E s \in Subs : sub[s].call = c) =>
             calls'[c].stage = "done" /\ calls'[c].err = err /\ calls'[c].asOf = calls[c].asOf
    <3>1. CASE \A s \in Subs : sub[s].call # c
      <4>1. Free \in Call /\ Free.stage = "free"
        BY DEF Free, Call
      <4> QED
        BY <2>2, <3>1, <4>1 DEF IInv, Types
    <3>2. CASE ~(\A s \in Subs : sub[s].call # c)
      <4> DEFINE call == [calls[c] EXCEPT !.stage = "done", !.err = err]
      <4>1. /\ call \in Call /\ call.stage = "done" /\ call.err = err
            /\ call.asOf = calls[c].asOf
        BY <1>2 DEF Call
      <4>2. calls' = [calls EXCEPT ![c] = call]
        BY <1>2, <2>2, <3>2 DEF IInv, Types
      <4> HIDE DEF call
      <4> QED
        BY <3>2, <4>1, <4>2 DEF IInv, Types
    <3> QED
      BY <3>1, <3>2
  <2>5. Types'
    BY <1>1, <2>1, <2>4 DEF IInv, Types
  <2>6. OneSleeps'
    BY <2>1, <2>3, <2>4 DEF IInv, Types, OneSleeps
  <2>7. Waits'
    BY <1>1, <2>2, <2>4 DEF IInv, Waits, At
  <2> QED
    BY <1>3, <2>5, <2>6, <2>7 DEF IInv
<1> QED
  BY <1>4, <1>5, <1>6 DEF RunRead

\* Time brings every deadline nearer at once, so distances stay as they are.
LEMMA Ticks ==
    ASSUME IInv, Tick
    PROVE  IInv'
<1>1. /\ readIn' = Less(readIn) /\ slotIn' = Less(slotIn)
      /\ sinceRead' = IF sinceRead = ReadInterval THEN sinceRead ELSE sinceRead + 1
      /\ UNCHANGED <<access, next, removed>>
  BY DEF Tick
<1>2. /\ readIn \in Nat /\ slotIn \in Nat /\ sinceRead \in Nat
      /\ readIn' \in Nat /\ slotIn' \in Nat /\ sinceRead' \in Nat
  BY <1>1, Timing DEF IInv, Types, Less
<1>3. /\ calls' \in [Calls -> Call]
      /\ \A c \in Calls :
           /\ calls'[c].stage = calls[c].stage /\ calls'[c].wait = Less(calls[c].wait)
           /\ calls'[c].asOf = calls[c].asOf /\ calls'[c].err = calls[c].err
  <2>1. ASSUME NEW call \in Call
        PROVE  /\ [call EXCEPT !.wait = Less(@)] \in Call
               /\ [call EXCEPT !.wait = Less(@)].stage = call.stage
               /\ [call EXCEPT !.wait = Less(@)].wait = Less(call.wait)
               /\ [call EXCEPT !.wait = Less(@)].asOf = call.asOf
               /\ [call EXCEPT !.wait = Less(@)].err = call.err
    <3>1. Less(call.wait) \in Nat
      BY DEF Call, Less
    <3> QED
      BY <3>1 DEF Call
  <2> QED
    BY <2>1 DEF Tick, IInv, Types
<1>4. ASSUME NEW s \in Subs
      PROVE  /\ sub'[s] \in Subscription
             /\ sub'[s].pc = sub[s].pc /\ sub'[s].resuming = sub[s].resuming
             /\ sub'[s].attempts = sub[s].attempts /\ sub'[s].wait = Less(sub[s].wait)
             /\ sub'[s].call = sub[s].call /\ sub'[s].asked = sub[s].asked
             /\ sub'[s].asOf = sub[s].asOf /\ sub'[s].reason = sub[s].reason
             /\ sub'[s].up = IF At(s, "up") /\ sub[s].up < StableAfter THEN sub[s].up + 1
                             ELSE sub[s].up
  <2> DEFINE up   == IF At(s, "up") /\ sub[s].up < StableAfter THEN sub[s].up + 1 ELSE sub[s].up
             wait == Less(sub[s].wait)
  <2>1. sub[s] \in Subscription
    BY DEF IInv, Types
  <2>2. up \in Nat /\ wait \in Nat
    BY <2>1 DEF Subscription, Less
  <2>3. sub'[s] = [sub[s] EXCEPT !.wait = wait, !.up = up]
    BY DEF Tick
  <2> HIDE DEF up, wait
  <2>4. /\ sub'[s] \in Subscription /\ sub'[s].wait = wait /\ sub'[s].up = up
        /\ sub'[s].pc = sub[s].pc /\ sub'[s].resuming = sub[s].resuming
        /\ sub'[s].attempts = sub[s].attempts
        /\ sub'[s].call = sub[s].call /\ sub'[s].asked = sub[s].asked
        /\ sub'[s].asOf = sub[s].asOf /\ sub'[s].reason = sub[s].reason
    BY <2>1, <2>2, <2>3 DEF Subscription
  <2> QED
    BY <2>4 DEF up, wait
<1>5. /\ tries' \in [Subs -> Nat]
      /\ \A s \in Subs : tries'[s] = IF sub'[s].up = StableAfter THEN 0 ELSE tries[s]
  BY DEF Tick, IInv, Types
<1>6. Types'
  <2>1. sub' \in [Subs -> Subscription]
    BY <1>4 DEF Tick
  <2> QED
    BY <1>1, <1>2, <1>3, <1>5, <2>1 DEF IInv, Types
<1>7. OneSleeps'
  BY <1>1, <1>2, <1>3, Timing, NoCallIsZero DEF IInv, Types, OneSleeps, Less
<1>8. Waits'
  BY <1>1, <1>3, <1>4 DEF IInv, Waits, At
<1>9. Judged'
  BY <1>4 DEF IInv, Judged, JudgedOK
<1>10. Slots'
  <2>1. \A s \in Subs : sub[s].wait \in Nat
    BY DEF IInv, Types, Subscription
  <2>2. \A s \in Subs : /\ sub'[s].pc = sub[s].pc
                        /\ sub'[s].wait = IF sub[s].wait = 0 THEN 0 ELSE sub[s].wait - 1
    BY <1>4 DEF Less
  <2>3. \A s \in Subs : (At(s, "slot") /\ sub[s].wait > 0)'
                            => slotIn' >= sub'[s].wait + AttemptSpacing
    BY <1>1, <1>2, <2>1, <2>2, Timing DEF IInv, Slots, Less, At
  <2>4. SlotsApart'
    BY <2>1, <2>2, Timing DEF IInv, Slots, SlotsApart, At
  <2> QED
    BY <2>3, <2>4 DEF Slots
<1>11. Budgeted'
  <2> SUFFICES ASSUME NEW s \in Subs PROVE BudgetOK(sub'[s], tries'[s])
    BY DEF Budgeted, BudgetOK
  <2>1. BudgetOK(sub[s], tries[s]) /\ sub[s] \in Subscription /\ tries[s] \in Nat
    BY DEF IInv, Budgeted, Types
  <2>2. CASE sub'[s].up = StableAfter
    BY <1>4, <1>5, <2>1, <2>2, Timing DEF BudgetOK, Subscription, Resuming
  <2>3. CASE sub'[s].up # StableAfter
    BY <1>4, <1>5, <2>1, <2>3, Timing DEF BudgetOK, Subscription, Resuming, At
  <2> QED
    BY <2>2, <2>3
<1> QED
  BY <1>6, <1>7, <1>8, <1>9, <1>10, <1>11 DEF IInv

LEMMA StepKeeps == IInv /\ [Next]_vars => IInv'
<1> SUFFICES ASSUME IInv, [Next]_vars PROVE IInv'
  OBVIOUS
<1>1. ASSUME NEW s \in Subs, Unsubscribed(s) \/ Reconnected(s) \/ Await(s) \/ Cancel(s)
      PROVE  IInv'
  BY <1>1, MovesOnly, Asks, Judges DEF Await
<1>2. ASSUME NEW a \in Accounts, Change(a) PROVE IInv'
  <2>1. UNCHANGED <<calls, next, readIn, slotIn, sinceRead, sub, tries>>
    BY <1>2 DEF Change, clocks
  <2>2. /\ access' \in [listed : SUBSET Accounts, changes : Nat]
        /\ access'.changes >= access.changes
    BY <1>2 DEF Change, IInv, Types
  <2>3. Types'
    BY <2>1, <2>2 DEF IInv, Types
  <2>4. Waits'
    <3>1. \A s \in Subs : sub[s].asked \in Nat
      BY DEF IInv, Types, Subscription
    <3>2. access.changes \in Nat /\ access'.changes \in Nat
      BY <2>2 DEF IInv, Types
    <3> QED
      BY <2>1, <2>2, <3>1, <3>2 DEF IInv, Waits, At
  <2> QED
    BY <2>1, <2>3, <2>4 DEF IInv, OneSleeps, Judged, Slots, SlotsApart, Budgeted, At
<1>3. CASE NoteUpdate \/ UNCHANGED vars
  <2>1. UNCHANGED <<access, calls, next, readIn, slotIn, sinceRead, sub, tries>>
    BY <1>3 DEF NoteUpdate, clocks, vars
  <2> QED
    BY <2>1 DEF IInv, Types, OneSleeps, Waits, Judged, Slots, SlotsApart, Budgeted, At
<1> QED
  BY <1>1, <1>2, <1>3, RunsRead, Ticks DEF Next

\* Only Send sends.
LEMMA SentBySend ==
    ASSUME IInv, [Next]_vars, NEW c \in Calls,
           calls[c].stage # "sent", calls'[c].stage = "sent"
    PROVE  Send(c)
<1>0. calls \in [Calls -> Call] /\ Free.stage = "free"
  BY DEF IInv, Types, Free
<1>1. ASSUME NEW s \in Subs, Ask(s) PROVE FALSE
  <2>1. CASE calls' = calls
    BY <2>1
  <2>2. CASE \E d \in Calls :
               calls' = [calls EXCEPT ![d].stage = "sleeping", ![d].wait = readIn]
    <3>1. PICK d \in Calls :
            calls' = [calls EXCEPT ![d].stage = "sleeping", ![d].wait = readIn]
      BY <2>2
    <3>2. CASE d = c
      <4>1. calls'[c] = [calls[c] EXCEPT !.stage = "sleeping", !.wait = readIn]
        BY <1>0, <3>1, <3>2
      <4> QED
        BY <1>0, <4>1 DEF Call
    <3>3. CASE d # c
      BY <1>0, <3>1, <3>3
    <3> QED
      BY <3>2, <3>3
  <2> QED
    BY <1>1, <2>1, <2>2 DEF Ask
<1>2. ASSUME NEW s \in Subs, calls' = Released(s, sub[s].call) PROVE FALSE
  BY <1>0, <1>2 DEF Released
<1>3. ASSUME NEW s \in Subs, Unsubscribed(s) \/ Reconnected(s) \/ Await(s) \/ Cancel(s)
      PROVE  FALSE
  <2>1. CASE calls' = calls
    BY <2>1
  <2>2. CASE calls' # calls
    <3>1. Ask(s) \/ calls' = Released(s, sub[s].call)
      BY <1>3, <2>2
      DEF Unsubscribed, Reconnected, Await, Connect, Budget, Judge, Resume, Cancel
    <3> QED
      BY <1>1, <1>2, <3>1
  <2> QED
    BY <2>1, <2>2
<1>4. ASSUME NEW d \in Calls, RunRead(d) PROVE Send(c)
  <2>1. CASE d = c
    <3>1. ~List(c)
      BY <1>0 DEF List, Call
    <3>2. ~Done(c)
      <4> SUFFICES ASSUME Done(c) PROVE FALSE
        OBVIOUS
      <4>1. PICK err \in {"none", "net", "auth"} :
              calls' = IF \A s \in Subs : sub[s].call # c THEN [calls EXCEPT ![c] = Free]
                       ELSE [calls EXCEPT ![c].stage = "done", ![c].err = err]
        BY DEF Done
      <4>2. CASE calls' = [calls EXCEPT ![c].stage = "done", ![c].err = err]
        <5>1. calls'[c] = [calls[c] EXCEPT !.stage = "done", !.err = err]
          BY <1>0, <4>2
        <5> QED
          BY <1>0, <5>1 DEF Call
      <4>3. CASE calls' = [calls EXCEPT ![c] = Free]
        BY <1>0, <4>3
      <4> QED
        BY <4>1, <4>2, <4>3
    <3> QED
      BY <1>4, <2>1, <3>1, <3>2 DEF RunRead
  <2>2. CASE d # c
    BY <1>0, <1>4, <2>2 DEF RunRead, Send, List, Done
  <2> QED
    BY <2>1, <2>2
<1>5. CASE Tick
  <2>1. calls'[c] = [calls[c] EXCEPT !.wait = Less(@)]
    BY <1>5 DEF Tick
  <2> QED
    BY <1>0, <2>1 DEF Call
<1>6. CASE (\E a \in Accounts : Change(a)) \/ NoteUpdate \/ UNCHANGED vars
  BY <1>6 DEF Change, NoteUpdate, vars
<1> QED
  BY <1>3, <1>4, <1>5, <1>6 DEF Next

LEMMA Inductive == Spec => []IInv
BY Begins, StepKeeps, PTL DEF Spec

-----------------------------------------------------------------------------
(* Theorems.                                                               *)

\* Nobody resumes, or ends as not listed, on a list older than the question,
\* although one request answers several callers (accessRead, read, runRead).
THEOREM Fresh == Spec => []FreshAnswer
<1>1. IInv => FreshAnswer
  BY DEF IInv, Judged, JudgedOK, FreshAnswer, At
<1> QED
  BY <1>1, Inductive, PTL

\* However often the server ends a subscription, it is resumed at most MaxAttempts
\* times without staying up for StableAfter (attemptAfter, awaitResume).
THEOREM Bounded == Spec => []ResumesBounded
<1>1. IInv => ResumesBounded
  BY DEF IInv, Budgeted, BudgetOK, ResumesBounded
<1> QED
  BY <1>1, Inductive, PTL

\* The slots of waiting attempts lie AttemptSpacing apart (reserveAttempt).
THEOREM Apart == Spec => []SlotsApart
<1>1. IInv => SlotsApart
  BY DEF IInv, Slots
<1> QED
  BY <1>1, Inductive, PTL

\* Between two list requests of a client lies ReadInterval (read, runRead).
THEOREM Paced == Spec => ReadsPaced
<1>1. ASSUME IInv, [Next]_vars, NEW c \in Calls,
             calls[c].stage = "sleeping", calls'[c].stage = "sent"
      PROVE  sinceRead >= ReadInterval
  <2>1. /\ calls[c].wait = readIn /\ readIn \in Nat /\ sinceRead \in Nat
        /\ sinceRead + readIn >= ReadInterval
    BY <1>1 DEF IInv, OneSleeps, Types
  <2>2. calls[c].wait = 0
    BY <1>1, SentBySend DEF Send
  <2> QED
    BY <2>1, <2>2, Timing
<1>2. IInv /\ [Next]_vars =>
        [\A c \in Calls : calls[c].stage = "sleeping" /\ calls'[c].stage = "sent"
                              => sinceRead >= ReadInterval]_vars
  BY <1>1
<1> QED
  BY <1>2, Inductive, PTL DEF Spec, ReadsPaced

\* However often the server ends however many subscriptions, the client's resumes
\* are limited in number and in rate.
THEOREM Limited == Spec => []ResumesLimited
<1>1. ResumesBounded /\ SlotsApart => ResumesLimited
  BY DEF ResumesLimited
<1> QED
  BY <1>1, Bounded, Apart, PTL
-----------------------------------------------------------------------------
(* The types with their bounds.                                            *)

Ranges ==
    /\ access.changes \in 0..MaxChanges /\ removed \subseteq Accounts
    /\ updates \in Seq([account : Accounts, removed : BOOLEAN])
    /\ readIn \in 0..ReadInterval /\ sinceRead \in 0..ReadInterval
    /\ \A c \in Calls : calls[c].wait \in 0..ReadInterval

\* A finite set can be listed.
LEMMA Listed ==
    ASSUME NEW S, IsFiniteSet(S)
    PROVE  SetToSeq(S) \in Seq(S)
<1>1. Cardinality(S) \in Nat /\ ExistsBijection(1..Cardinality(S), S)
  BY FS_CardinalityType
<1>2. PICK f \in [1..Cardinality(S) -> S] : IsInjective(f)
  BY <1>1 DEF ExistsBijection, Bijection, Injection
<1>3. SetToSeq(S) \in [1..Cardinality(S) -> S]
  BY <1>2 DEF SetToSeq
<1> QED
  BY <1>1, <1>3

LEMMA RangesBegin == Init => Ranges
<1> SUFFICES ASSUME Init PROVE Ranges
  OBVIOUS
<1> DEFINE Update == [account : Accounts, removed : BOOLEAN]
<1>1. updates \in Seq(Update)
  <2>1. PICK arriving \in SUBSET (Accounts \ access.listed) :
             updates = SetToSeq({[account |-> a, removed |-> TRUE] : a \in arriving})
    BY DEF Init
  <2> DEFINE S == {[account |-> a, removed |-> TRUE] : a \in arriving}
  <2>2. IsFiniteSet(arriving)
    BY FS_Subset, Assumptions
  <2>3. IsFiniteSet(S)
    <3> DEFINE f == [a \in arriving |-> [account |-> a, removed |-> TRUE]]
    <3>1. f \in Bijection(arriving, S)
      BY DEF Bijection, Injection, Surjection, IsInjective
    <3> QED
      BY <2>2, <3>1, FS_Bijection DEF ExistsBijection
  <2>4. S \subseteq Update
    BY \A a \in arriving : a \in Accounts /\ [account |-> a, removed |-> TRUE] \in Update
  <2>5. updates \in Seq(S)
    BY <2>1, <2>3, Listed
  <2> HIDE DEF S, Update
  <2> QED
    BY <2>4, <2>5
<1> QED
  BY <1>1, Timing, Assumptions DEF Init, Ranges, Free

LEMMA RangesKept == IInv /\ Ranges /\ [Next]_vars => Ranges'
<1> SUFFICES ASSUME IInv, Ranges, [Next]_vars PROVE Ranges'
  OBVIOUS
<1>0. Types
  BY DEF IInv
<1> USE Timing
<1> DEFINE Update == [account : Accounts, removed : BOOLEAN]
<1>1. ASSUME NEW s \in Subs, Unsubscribed(s) \/ Reconnected(s) \/ Connect(s) \/ Budget(s) \/ Resume(s)
      PROVE  Ranges'
  BY <1>1 DEF Ranges, Unsubscribed, Reconnected, Connect, Budget, Resume, clocks
<1>2. ASSUME NEW s \in Subs, Ask(s) \/ Judge(s) \/ Cancel(s)
      PROVE  Ranges'
  <2>1. UNCHANGED <<access, updates, removed, readIn, sinceRead>>
    BY <1>2 DEF Ask, Judge, Cancel, clocks
  <2>2. \/ calls' = calls
        \/ \E c \in Calls : calls' = [calls EXCEPT ![c].stage = "sleeping", ![c].wait = readIn]
        \/ \E c : calls' = [calls EXCEPT ![c] = Free]
    BY <1>2 DEF Ask, Judge, Cancel, Released
  <2>3. \A c \in Calls : calls'[c].wait \in {calls[c].wait, readIn, 0}
    <3>1. calls \in [Calls -> Call]
      BY <1>0 DEF Types
    <3>2. ASSUME NEW d \in Calls,
                 calls' = [calls EXCEPT ![d].stage = "sleeping", ![d].wait = readIn]
          PROVE  \A c \in Calls : calls'[c].wait \in {calls[c].wait, readIn}
      BY <3>1, <3>2 DEF Call
    <3>3. ASSUME NEW d, calls' = [calls EXCEPT ![d] = Free]
          PROVE  \A c \in Calls : calls'[c].wait \in {calls[c].wait, 0}
      BY <3>1, <3>3 DEF Free
    <3> QED
      BY <2>2, <3>2, <3>3
  <2> QED
    BY <2>1, <2>3 DEF Ranges
<1>3. ASSUME NEW c \in Calls, RunRead(c)
      PROVE  Ranges'
  <2>1. UNCHANGED <<access, updates, removed>> /\ readIn' \in 0..ReadInterval
        /\ sinceRead' \in 0..ReadInterval
    BY <1>3 DEF RunRead, Send, List, Done, Ranges, clocks
  <2>2. \A d \in Calls : calls'[d].wait \in {calls[d].wait, 0}
    BY <1>0, <1>3 DEF RunRead, Send, List, Done, Types, Call, Free
  <2> QED
    BY <2>1, <2>2 DEF Ranges
<1>4. ASSUME NEW a \in Accounts, Change(a)
      PROVE  Ranges'
  <2>1. updates' \in Seq(Update)
    BY <1>4 DEF Change, Ranges
  <2> QED
    BY <1>0, <1>4, <2>1, Assumptions DEF Change, Ranges, Types, clocks
<1>5. CASE NoteUpdate
  <2>1. updates' \in Seq(Update) /\ Head(updates) \in Update
    <3>1. updates \in Seq(Update) /\ updates # <<>> /\ updates' = Tail(updates)
      BY <1>5 DEF NoteUpdate, Ranges
    <3> HIDE DEF Update
    <3> QED
      BY <3>1
  <2> QED
    BY <1>5, <2>1 DEF NoteUpdate, Ranges, clocks
<1>6. CASE Tick
  <2>1. /\ readIn' \in 0..ReadInterval /\ sinceRead' \in 0..ReadInterval
        /\ UNCHANGED <<access, updates, removed>>
    <3>1. UNCHANGED <<access, updates, removed>> /\ readIn' = Less(readIn)
          /\ sinceRead' = IF sinceRead = ReadInterval THEN sinceRead ELSE sinceRead + 1
      BY <1>6 DEF Tick
    <3>2. readIn \in 0..ReadInterval /\ sinceRead \in 0..ReadInterval
      BY DEF Ranges
    <3> QED
      BY <3>1, <3>2 DEF Less
  <2>2. \A c \in Calls : calls'[c].wait = Less(calls[c].wait)
    BY <1>0, <1>6 DEF Tick, Types, Call
  <2>3. \A n \in 0..ReadInterval : Less(n) \in 0..ReadInterval
    BY DEF Less
  <2> QED
    BY <2>1, <2>2, <2>3 DEF Ranges
<1>7. CASE UNCHANGED vars
  BY <1>7 DEF Ranges, vars, clocks
<1> QED
  BY <1>1, <1>2, <1>3, <1>4, <1>5, <1>6, <1>7 DEF Next, Await

\* The variables have their types; the waits stay within ReadInterval and the
\* attempts within the budget, and a read is found for whoever asks for one.
THEOREM TypeCorrect == Spec => []TypeOK
<1>1. IInv /\ Ranges => TypeOK
  BY Timing DEF IInv, Types, Ranges, Budgeted, BudgetOK, TypeOK, Call, Subscription, Places
<1> QED
  BY <1>1, Inductive, RangesBegin, RangesKept, PTL DEF Spec
=============================================================================
