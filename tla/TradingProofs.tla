----------------------------- MODULE TradingProofs -----------------------------
(***************************************************************************)
(* Theorems about the operations of several calls: a create and            *)
(* StopAllTrading (TradingStop), what a client knows of its mutations and  *)
(* what the stop leaves behind, for any number of triggers, pages and      *)
(* retries and every answer of CallOutcome; and the waits of OrderWaits:   *)
(* the one for a batch, for any window, delay and items and at any         *)
(* distance of the clocks of client and service, and the one for the       *)
(* trades of an order, for any trades, pages and client id; and the        *)
(* conversions of ScaledAmounts, for every width, scale and decimal.       *)
(***************************************************************************)
EXTENDS MCTrading, FiniteSetTheorems, TLAPS

-----------------------------------------------------------------------------
(* What an answer proves (CallOutcome).                                    *)

\* An error after which the outcome is known comes from an answer that refuses, or
\* from connect-go, which could not read a success.
LEMMA KnownByRest ==
    ASSUME NEW st \in Statuses, NEW c \in RestCodes,
           ~MutationOutcomeUnknown(RestError(st, c))
    PROVE  RefusesByRest(st, c)
<1>1. CASE LeftToConnect(st, c)
  <2>1. st # 404
    BY <1>1 DEF RestError, Error, MutationOutcomeUnknown
  <2>2. RestError(st, c) = ByCode(CodeOfBare(st))
    BY <1>1, <2>1 DEF RestError
  <2>3. st \notin {429, 502, 503}
    <3> SUFFICES ASSUME st \in {429, 502, 503} PROVE FALSE
      OBVIOUS
    <3>1. CodeOfBare(st) = "unavailable"
      BY DEF CodeOfBare
    <3>2. \A x \in ConnectCodes : x = "unavailable" => ByCode(x).type = "Server" /\ ByCode(x).status = 0
      BY DEF ByCode, Error, InputCodes
    <3>3. RestError(st, c).type = "Server" /\ RestError(st, c).status = 0
      BY <2>2, <3>1, <3>2 DEF ConnectCodes, FailureCodes, OddCodes
    <3> QED
      BY <3>3 DEF MutationOutcomeUnknown
  <2> QED
    BY <1>1, <2>1, <2>3 DEF LeftToConnect, RefusesByRest
<1>2. CASE ~LeftToConnect(st, c)
  <2>1. RestError(st, c) = [type |-> RestType(st, c), code |-> c, status |-> st]
    BY <1>2 DEF RestError, Error
  <2> QED
    BY <1>2, <2>1 DEF RestType, MutationOutcomeUnknown, RefusesByRest, LeftToConnect, Recognised,
                      RestCodes, Capitals, Nameless, Statuses
<1> QED
  BY <1>1, <1>2

LEMMA KnownByConnect ==
    ASSUME NEW c \in ConnectCodes, NEW d \in Details,
           ~MutationOutcomeUnknown(ConnectError(c, d))
    PROVE  RefusesByConnect(c, d)
<1>1. CASE d = "none" \/ (d = "future" /\ c \in FailureCodes)
  BY <1>1 DEF ConnectError, ByCode, Error, MutationOutcomeUnknown, RefusesByConnect, FailureCodes,
              OddCodes, ConnectCodes, InputCodes
<1>2. CASE ~(d = "none" \/ (d = "future" /\ c \in FailureCodes))
  <2>1. ConnectError(c, d) = ByDetail(c, d)
    BY <1>2 DEF ConnectError
  <2> QED
    BY <1>2, <2>1 DEF ByDetail, Error, MutationOutcomeUnknown, RefusesByConnect, FailureCodes,
              OddCodes, ConnectCodes, InputCodes, Details, OrderDetails, AuthDetails, OtherDetails
<1> QED
  BY <1>1, <1>2

LEMMA KnownIsRefused ==
    ASSUME NEW a \in Answers, ~MutationOutcomeUnknown(MapError(a))
    PROVE  Refuses(a) \/ a.via = "unread"
<1>1. CASE a \in {Garbled, Lost}
  BY <1>1 DEF Garbled, Lost, MapError, Error, MutationOutcomeUnknown
<1>2. ASSUME NEW st \in Statuses, NEW c \in RestCodes, a = Rest(st, c)
      PROVE  Refuses(a)
  <2>1. a.via = "rest" /\ a.status = st /\ a.code = c
    BY <1>2 DEF Rest
  <2>2. MapError(a) = RestError(st, c) /\ (Refuses(a) <=> RefusesByRest(st, c))
    BY <2>1 DEF MapError, Refuses
  <2> QED
    BY <2>2, KnownByRest
<1>3. ASSUME NEW c \in ConnectCodes, NEW d \in Details, a = Connect(c, d)
      PROVE  Refuses(a)
  <2>1. a.via = "connect" /\ a.code = c /\ a.detail = d
    BY <1>3 DEF Connect
  <2>2. MapError(a) = ConnectError(c, d) /\ (Refuses(a) <=> RefusesByConnect(c, d))
    BY <2>1 DEF MapError, Refuses
  <2> QED
    BY <2>2, KnownByConnect
<1>4. ASSUME NEW c \in OddCodes, a = Denied(c)
      PROVE  Refuses(a)
  BY <1>4 DEF Denied, Refuses
<1>5. ASSUME NEW c \in UnreadCodes, a = Unread(c)
      PROVE  a.via = "unread"
  BY <1>5 DEF Unread
<1> QED
  BY <1>1, <1>2, <1>3, <1>4, <1>5 DEF Answers

\* A refused read that is repeated was refused for want of the service.
LEMMA RepeatedIsOutage ==
    ASSUME NEW a \in Answers, Refuses(a), ReadAgain(a)
    PROVE  Outage(a)
<1>1. CASE a \in {Garbled, Lost}
  <2>1. a.via \in {"lost", "garbled"}
    BY <1>1 DEF Garbled, Lost
  <2> QED
    BY <2>1 DEF Refuses
<1>2. ASSUME NEW st \in Statuses, NEW c \in RestCodes, a = Rest(st, c)
      PROVE  Outage(a)
  <2>1. a.via = "rest" /\ a.status = st /\ a.code = c
    BY <1>2 DEF Rest
  <2>2. RefusesByRest(st, c) /\ CodeOf(a) \in {"unavailable", "deadline_exceeded"}
    BY <2>1 DEF Refuses, ReadAgain
  <2>3. CASE LeftToConnect(st, c)
    BY <2>1, <2>2, <2>3 DEF CodeOf, CodeOfBare, LeftToConnect, RefusesByRest, Outage, Capitals,
                            Nameless, RestCodes, Recognised
  <2>4. CASE ~LeftToConnect(st, c)
    <3>1. RestError(st, c).type = RestType(st, c) /\ RestError(st, c).code = c
      BY <2>4 DEF RestError, Error
    <3>2. CodeOf(a) = RoundTripCode(RestError(st, c), st)
      BY <2>1, <2>4 DEF CodeOf
    <3>3. c # "outcome_unknown"
      BY <2>2 DEF RefusesByRest
    <3>4. RestType(st, c) = "Server" /\ st \in {429, 502, 503, 504}
      BY <2>2, <3>1, <3>2, <3>3 DEF RoundTripCode, CodeOfStatus
    <3>5. st # 429
      BY <2>2, <2>4, <3>3, <3>4 DEF RestType, RefusesByRest, LeftToConnect, Capitals, Nameless,
                                    RestCodes, Recognised
    <3>6. st \notin {502, 504}
      BY <2>2, <3>4 DEF RestType, RefusesByRest
    <3> QED
      BY <2>1, <3>4, <3>5, <3>6 DEF Outage
  <2> QED
    BY <2>3, <2>4
<1>3. ASSUME NEW c \in ConnectCodes, NEW d \in Details, a = Connect(c, d)
      PROVE  Outage(a)
  BY <1>3 DEF Connect, ReadAgain, CodeOf, Outage
<1>4. ASSUME NEW c \in OddCodes, a = Denied(c)
      PROVE  Outage(a)
  BY <1>4 DEF Denied, ReadAgain, CodeOf
<1>5. ASSUME NEW c \in UnreadCodes, a = Unread(c)
      PROVE  Outage(a)
  <2>1. a.via = "unread"
    BY <1>5 DEF Unread
  <2> QED
    BY <2>1 DEF Refuses
<1> QED
  BY <1>1, <1>2, <1>3, <1>4, <1>5 DEF Answers

-----------------------------------------------------------------------------
(* The create (TradingStop).                                               *)

\* But for the creates whose success could not be read, which were applied, at most
\* one copy of the create is applied or may still be, and none once the answer
\* refused it; what is judged is an answer the service can give.
OneCopy ==
    /\ created \in Nat /\ inflight \in Nat /\ unread \in Nat
    /\ unread <= created /\ created + inflight <= unread + 1
    /\ pc \in {"create", "creating", "judge"} => known = "none"
    /\ pc # "creating" => ~applied
    /\ pc = "create" => created = unread /\ inflight = 0
    /\ pc = "creating" => /\ created + inflight = unread + 1
                          /\ applied <=> created = unread + 1
    /\ pc = "judge" => \/ answer = Ok
                       \/ /\ answer \in Failures
                          /\ answer.refuses \/ answer.unread => created = unread /\ inflight = 0
    /\ pc = "reread" => answer \in Failures
    /\ known = "refused" => created = unread /\ inflight = 0

\* The listing has passed every trigger that was live when it began, or has it ahead
\* of its token; one it passed is canceled, to be canceled, or reported.
Walked ==
    /\ created \in Nat
    /\ live \subseteq 1..(Given + created) /\ before \subseteq 1..(Given + created)
    /\ token \in Nat /\ 0 \notin sent
    /\ pc \in {"create", "creating", "judge", "stop"} => token = 0
    /\ pc # "returned" => result = "none"
    /\ pc \in {"list", "reread"} => \A t \in before \cap live : t \in found \/ t > token
    /\ pc = "cancel" => before \cap live \subseteq todo \cup failed
    /\ NothingLeftBehind

StopInv == OneCopy /\ Walked

\* What the caller is told of a failed create is enough to go by.
LEMMA FailureTells ==
    ASSUME NEW f \in Failures
    PROVE  /\ f.retryable \/ ~f.unknown => f.refuses \/ f.unread
           /\ f.unread => f.success /\ ~f.refuses
           /\ f.refuses /\ f.again => f.outage
<1>1. PICK a \in Answers : f = Outcome(a)
  BY DEF Failures
<1>2. /\ f.refuses = Refuses(a) /\ f.retryable = IsRetryable(MapError(a))
      /\ f.unknown = MutationOutcomeUnknown(MapError(a))
      /\ f.again = ReadAgain(a) /\ f.outage = Outage(a)
      /\ f.unread = (a.via = "unread") /\ f.success = (a.via \in {"unread", "garbled"})
  BY <1>1, Zenon DEF Outcome
<1>3. IsRetryable(MapError(a)) => ~MutationOutcomeUnknown(MapError(a))
  BY DEF IsRetryable
<1>4. f.retryable \/ ~f.unknown => f.refuses \/ f.unread
  BY <1>2, <1>3, KnownIsRefused, Zenon
<1>5. f.refuses /\ f.again => f.outage
  BY <1>2, RepeatedIsOutage, Zenon
<1>6. f.unread => f.success /\ ~f.refuses
  BY <1>2 DEF Refuses
<1> QED
  BY <1>4, <1>5, <1>6

LEMMA CreateBegins == Init => OneCopy
BY DEF Init, OneCopy

LEMMA CreateSteps == OneCopy /\ [Next]_vars => OneCopy'
<1> SUFFICES ASSUME OneCopy, [Next]_vars PROVE OneCopy'
  OBVIOUS
<1> USE DEF OneCopy
<1>1. CASE Send
  BY <1>1 DEF Send
<1>2. CASE CreateAnswered
  <2>1. CASE applied /\ answer' = Ok /\ UNCHANGED <<inflight, unread>>
    BY <1>2, <2>1 DEF CreateAnswered
  <2>2. ASSUME NEW f \in FailureOf(applied), answer' = f,
               inflight' = IF f.refuses THEN inflight - 1 ELSE inflight,
               unread' = IF f.unread THEN unread + 1 ELSE unread
        PROVE  OneCopy'
    <3>1. f \in Failures /\ (applied => ~f.refuses) /\ (f.success => applied)
      BY DEF FailureOf
    <3>2. pc = "creating" /\ pc' = "judge" /\ ~applied' /\ UNCHANGED <<created, known>>
      BY <1>2 DEF CreateAnswered
    <3>3. f.unread => f.success /\ ~f.refuses
      BY <3>1, FailureTells
    <3>4. CASE f.refuses
      <4>1. ~applied /\ ~f.unread
        BY <3>1, <3>3, <3>4, Zenon
      <4>2. created = unread /\ inflight = 1
        <5>1. created # unread + 1 /\ created + inflight = unread + 1
          BY <3>2, <4>1
        <5> QED
          BY <5>1
      <4>3. inflight' = inflight - 1 /\ unread' = unread
        BY <2>2, <3>4, <4>1, Zenon
      <4>4. created' = unread' /\ inflight' = 0 /\ created' \in Nat /\ unread' \in Nat
        BY <3>2, <4>2, <4>3
      <4> QED
        BY <2>2, <3>1, <3>2, <4>4
    <3>5. CASE f.unread
      <4>1. created = unread + 1 /\ inflight = 0
        <5>1. applied
          BY <3>1, <3>3, <3>5, Zenon
        <5>2. created = unread + 1 /\ created + inflight = unread + 1
          BY <3>2, <5>1
        <5> QED
          BY <5>2
      <4>2. unread' = unread + 1 /\ inflight' = inflight
        BY <2>2, <3>3, <3>5, Zenon
      <4>3. created' = unread' /\ inflight' = 0 /\ created' \in Nat /\ unread' \in Nat
        BY <3>2, <4>1, <4>2
      <4> QED
        BY <2>2, <3>1, <3>2, <4>3
    <3>6. CASE ~f.refuses /\ ~f.unread
      BY <2>2, <3>1, <3>2, <3>6
    <3> QED
      BY <3>4, <3>5, <3>6
  <2> QED
    BY <1>2, <2>1, <2>2 DEF CreateAnswered
<1>3. CASE Judge
  <2>1. /\ pc = "judge" /\ answer' = NoAnswer /\ known = "none"
        /\ UNCHANGED <<created, inflight, unread, applied>>
    BY <1>3 DEF Judge, service
  <2>2. CASE answer = Ok
    BY <1>3, <2>1, <2>2 DEF Judge
  <2>3. CASE answer # Ok /\ answer.retryable /\ sends < MaxSends
    <3>1. answer \in Failures /\ created = unread /\ inflight = 0
      BY <2>1, <2>3, FailureTells
    <3>2. pc' = "create" /\ UNCHANGED known
      BY <1>3, <2>3 DEF Judge
    <3> QED
      BY <2>1, <3>1, <3>2
  <2>4. CASE answer # Ok /\ ~(answer.retryable /\ sends < MaxSends)
    <3>1. answer \in Failures /\ (~answer.unknown => created = unread /\ inflight = 0)
      BY <2>1, <2>4, FailureTells
    <3>2. pc' = "stop" /\ known' = IF answer.unknown THEN "unknown" ELSE "refused"
      BY <1>3, <2>4 DEF Judge
    <3> QED
      BY <2>1, <3>1, <3>2
  <2> QED
    BY <2>2, <2>3, <2>4
<1>4. CASE Begin
  BY <1>4 DEF Begin, service
<1>5. CASE Page
  BY <1>5 DEF Page, service, Return
<1>6. CASE ListFails
  BY <1>6 DEF ListFails, service
<1>7. CASE Reread
  BY <1>7 DEF Reread, service, Return
<1>8. CASE CancelTrigger
  BY <1>8 DEF CancelTrigger
<1>9. CASE CancelAll
  BY <1>9 DEF CancelAll, OrdersTurn, Return
<1>10. CASE Apply
  <2>1. /\ inflight > 0 /\ inflight' = inflight - 1 /\ created' = created + 1
        /\ UNCHANGED <<unread, pc, answer, known>>
    BY <1>10 DEF Apply
  <2>2. (pc = "creating" => applied') /\ (pc # "creating" /\ ~applied => ~applied')
    BY <1>10, Zenon DEF Apply
  <2>3. created' + inflight' = created + inflight /\ created' \in Nat /\ inflight' \in Nat
    BY <2>1
  <2>4. CASE pc = "creating"
    <3>1. created' = unread' + 1
      BY <2>1, <2>4
    <3> QED
      BY <2>1, <2>2, <2>3, <2>4, <3>1
  <2>5. CASE pc # "creating"
    <3>1. ~applied'
      BY <2>2, <2>5
    <3>2. ~(created = unread /\ inflight = 0)
      BY <2>1
    <3> QED
      BY <2>1, <2>3, <2>5, <3>1, <3>2
  <2> QED
    BY <2>4, <2>5
<1>11. CASE Canceled
  BY <1>11 DEF Canceled, service, Return
<1>12. ASSUME NEW t \in Ids, Fire(t) PROVE OneCopy'
  BY <1>12 DEF Fire
<1>13. CASE UNCHANGED vars
  BY <1>13 DEF vars
<1> QED
  BY <1>1, <1>2, <1>3, <1>4, <1>5, <1>6, <1>7, <1>8, <1>9, <1>10, <1>11, <1>12, <1>13 DEF Next, Caller

LEMMA CopyImplies == OneCopy => MutationsAreKnown
BY DEF OneCopy, MutationsAreKnown, CreatedOnce, RefusalIsTrue

-----------------------------------------------------------------------------
(* StopAllTrading.                                                         *)

LEMMA LeastOf ==
    ASSUME NEW T \in SUBSET Nat, T # {}
    PROVE  \E x \in T : \A y \in T : x <= y
<1> DEFINE R == OpToRel(<, Nat)
<1>1. IsWellFoundedOn(R, Nat)
  BY NatLessThanWellFounded
<1>2. R = {ss \in Nat \X Nat : ss[1] < ss[2]}
  BY DEF OpToRel
<1> HIDE DEF R
<1>3. PICK x \in T : \A y \in T : ~(<<y, x>> \in R)
  BY <1>1, WFMin
<1>4. \A y \in T : <<y, x>> \in R <=> y < x
  BY <1>2
<1>5. \A y \in T : ~(y < x)
  BY <1>3, <1>4
<1>6. \A y \in T : x <= y
  BY <1>5
<1> QED
  BY <1>6

LEMMA GreatestOf ==
    ASSUME NEW n \in Nat, NEW T \in SUBSET (0..n), T # {}
    PROVE  \E x \in T : \A y \in T : y <= x
<1> DEFINE D == {d \in 0..n : n - d \in T}
<1>1. D \in SUBSET Nat /\ D # {}
  <2>1. PICK x \in T : TRUE
    OBVIOUS
  <2>2. n - (n - x) = x /\ n - x \in 0..n
    BY <2>1
  <2>3. n - x \in D
    BY <2>1, <2>2
  <2>4. D \subseteq Nat
    OBVIOUS
  <2> QED
    BY <2>3, <2>4, Zenon
<1>2. PICK d \in D : \A y \in D : d <= y
  BY <1>1, LeastOf
<1>3. \A y \in T : n - y \in D /\ n - d >= y
  <2> TAKE y \in T
  <2>1. n - (n - y) = y /\ n - y \in 0..n
    OBVIOUS
  <2>2. n - y \in D
    BY <2>1
  <2> QED
    BY <1>2, <2>2
<1> QED
  BY <1>2, <1>3

\* A page that more follow has a last trigger, and every live trigger from the
\* token up to it is on the page.
LEMMA PageIsPrefix ==
    ASSUME Walked,
           \E x \in live : x \notin PageAfter(token) /\ x > token
    PROVE  /\ Last(PageAfter(token)) \in Nat \ {0}
           /\ \A x \in live : x > token /\ x <= Last(PageAfter(token)) => x \in PageAfter(token)
<1> DEFINE n    == Given + created
           rest == {x \in live : x > token}
           Below(x) == {y \in rest : y < x}
           page == {x \in rest : Cardinality(Below(x)) < PageSize}
<1>0. n \in Nat /\ live \subseteq 1..n /\ PageSize \in Nat \ {0}
  BY StopAssumptions DEF Walked
<1>1. n \in Nat /\ rest \subseteq 1..n /\ PageSize \in Nat \ {0}
  BY <1>0
<1>2. PageAfter(token) = page
  <2>1. \A x : x \in PageAfter(token) <=> x \in page
    BY DEF PageAfter
  <2> QED
    BY <2>1, Zenon DEF PageAfter
<1>3. \A x : IsFiniteSet(Below(x))
  <2> TAKE x
  <2>1. IsFiniteSet(1..n) /\ Below(x) \in SUBSET (1..n)
    BY <1>1, FS_Interval
  <2> QED
    BY <2>1, FS_Subset
<1>4. page # {}
  <2>1. rest # {} /\ rest \subseteq Nat
    BY <1>1
  <2>2. PICK x \in rest : \A y \in rest : x <= y
    BY <2>1, LeastOf
  <2>3. Below(x) = {}
    BY <2>1, <2>2
  <2>4. Cardinality(Below(x)) = 0
    BY <2>3, FS_EmptySet
  <2>5. x \in page
    BY <1>1, <2>2, <2>4
  <2> QED
    BY <2>5
<1>5. page \subseteq 0..n
  BY <1>1
<1>6. PICK m \in page : \A y \in page : y <= m
  BY <1>1, <1>4, <1>5, GreatestOf
<1>7. Last(page) \in page /\ \A y \in page : y <= Last(page)
  BY <1>6, Zenon DEF Last
<1>8. ASSUME NEW x \in live, x > token, x <= Last(page)
      PROVE  x \in page
  <2> DEFINE last == Last(page)
  <2>1. x \in rest /\ last \in rest
    BY <1>7, <1>8
  <2>2. Cardinality(Below(last)) < PageSize
    BY <1>7
  <2> HIDE DEF n
  <2>3. Below(x) \in SUBSET Below(last)
    <3>1. x \in Nat /\ last \in Nat /\ rest \subseteq Nat
      BY <1>1, <2>1
    <3>2. \A y \in Nat : y < x => y < last
      BY <1>8, <3>1
    <3> HIDE DEF rest, last
    <3> QED
      BY <3>1, <3>2
  <2>4. Cardinality(Below(x)) <= Cardinality(Below(last))
    BY <1>3, <2>3, FS_Subset
  <2>5. Cardinality(Below(x)) \in Nat /\ Cardinality(Below(last)) \in Nat
    BY <1>3, FS_CardinalityType
  <2>6. Cardinality(Below(x)) < PageSize
    BY <1>1, <2>2, <2>4, <2>5
  <2> QED
    BY <2>1, <2>6
<1>9. Last(page) \in Nat \ {0}
  BY <1>1, <1>7
<1> HIDE DEF page
<1> QED
  BY <1>2, <1>8, <1>9

LEMMA WalkBegins == Init => Walked
<1> SUFFICES ASSUME Init PROVE Walked
  OBVIOUS
<1>1. live \subseteq 1..Given /\ Given \in Nat /\ created = 0
  BY StopAssumptions DEF Init
<1>2. live \subseteq 1..(Given + created)
  BY <1>1
<1> QED
  BY <1>2 DEF Init, Walked, NothingLeftBehind

\* One page further: what it lists is found, and what it leaves is beyond its token.
LEMMA PageWalks == Walked /\ Page => Walked'
<1> SUFFICES ASSUME Walked, Page PROVE Walked'
  OBVIOUS
<1> DEFINE page == PageAfter(token)
           more == \E x \in live : x \notin page /\ x > token
<1>1. /\ pc = "list" /\ result = "none"
      /\ UNCHANGED <<live, open, created, failed, before>>
      /\ found' = found \cup page
  BY DEF Page, service, Walked
<1>2. PICK next \in sent \cup {IF more THEN Last(page) ELSE 0} :
         \/ next = 0 /\ todo' = found' /\ pc' = "cancel" /\ UNCHANGED <<token, sent, result>>
         \/ next # 0 /\ Repeats(next) /\ Return("contract") /\ UNCHANGED <<token, sent, todo>>
         \/ next # 0 /\ ~Repeats(next) /\ token' = next /\ sent' = sent \cup {next}
               /\ UNCHANGED <<pc, todo, result>>
  BY DEF Page
<1>3. more => Last(page) \in Nat \ {0}
                /\ \A x \in live : x > token /\ x <= Last(page) => x \in page
  BY PageIsPrefix
<1>4. token \in Nat /\ 0 \notin sent /\ live \subseteq Nat
  <2>1. 1..(Given + created) \subseteq Nat
    BY StopAssumptions DEF Walked
  <2> QED
    BY <2>1 DEF Walked
<1> HIDE DEF page
<1>5. CASE next = 0 /\ todo' = found' /\ pc' = "cancel" /\ UNCHANGED <<token, sent, result>>
  <2>1. ~more
    BY <1>2, <1>3, <1>4, <1>5
  <2>2. before \cap live \subseteq found \cup page
    BY <1>1, <2>1 DEF Walked
  <2> QED
    BY <1>1, <1>4, <1>5, <2>2 DEF Walked, NothingLeftBehind
<1>6. CASE Return("contract") /\ UNCHANGED <<token, sent>>
  BY <1>1, <1>6 DEF Return, Walked, NothingLeftBehind
<1>7. CASE next # 0 /\ ~Repeats(next) /\ token' = next /\ sent' = sent \cup {next}
             /\ UNCHANGED <<pc, result>>
  <2>1. more /\ next = Last(page)
    BY <1>2, <1>7 DEF Repeats
  <2>2. next \in Nat \ {0} /\ \A x \in live : x > token /\ x <= next => x \in page
    BY <1>3, <2>1
  <2>3. \A t \in before \cap live : t \in found \cup page \/ t > next
    BY <1>1, <1>4, <2>2 DEF Walked
  <2> QED
    BY <1>1, <1>7, <2>2, <2>3 DEF Walked, NothingLeftBehind
<1> QED
  BY <1>2, <1>5, <1>6, <1>7

LEMMA WalkSteps == Walked /\ [Next]_vars => Walked'
<1> SUFFICES ASSUME Walked, [Next]_vars PROVE Walked'
  OBVIOUS
<1> USE DEF Walked, NothingLeftBehind
<1>1. CASE Send
  BY <1>1 DEF Send, listing
<1>2. CASE CreateAnswered
  BY <1>2 DEF CreateAnswered, listing
<1>3. CASE Judge
  BY <1>3 DEF Judge, service, listing
<1>4. CASE Begin
  <2>1. \A t \in live : t > 0
    BY StopAssumptions
  <2> QED
    BY <1>4, <2>1 DEF Begin, service, listing
<1>5. CASE Page
  BY <1>5, PageWalks
<1>6. CASE ListFails
  BY <1>6 DEF ListFails, service, listing
<1>7. CASE Reread
  BY <1>7 DEF Reread, service, Return
<1>8. CASE CancelTrigger
  <2>1. pc = "cancel" /\ UNCHANGED <<open, created, pc, listing, before, result>>
    BY <1>8 DEF CancelTrigger
  <2>2. live' \subseteq live
    BY <1>8 DEF CancelTrigger
  <2>3. before' \cap live' \subseteq todo' \cup failed'
    BY <1>8, <2>1 DEF CancelTrigger
  <2> QED
    BY <2>1, <2>2, <2>3 DEF listing
<1>9. CASE CancelAll
  BY <1>9 DEF CancelAll, OrdersTurn, Return, listing
<1>10. CASE Apply
  <2>1. created' = created + 1 /\ live' = live \cup {Given + created + 1}
        /\ UNCHANGED <<open, pc, listing, todo, failed, before, result>>
    BY <1>10 DEF Apply
  <2>2. /\ 1..(Given + created) \subseteq 1..(Given + created')
        /\ Given + created + 1 \in 1..(Given + created') /\ Given + created + 1 \notin 1..(Given + created)
    BY <2>1, StopAssumptions
  <2>3. before \cap live' = before \cap live
    BY <2>1, <2>2
  <2>4. /\ live' \subseteq 1..(Given + created') /\ before' \subseteq 1..(Given + created')
        /\ created' \in Nat
    <3> DEFINE old == 1..(Given + created)
               new == 1..(Given + created')
    <3>1. created' \in Nat /\ live \subseteq old /\ before \subseteq old
      BY <2>1
    <3>2. old \subseteq new /\ Given + created + 1 \in new
      BY <2>2
    <3> HIDE DEF old, new
    <3>3. live' \subseteq new /\ before' \subseteq new
      BY <2>1, <3>1, <3>2
    <3> QED
      BY <3>1, <3>3 DEF new
  <2> QED
    BY <2>1, <2>3, <2>4 DEF listing
<1>11. CASE Canceled
  BY <1>11 DEF Canceled, service, listing, Return
<1>12. ASSUME NEW t \in Ids, Fire(t) PROVE Walked'
  <2>1. t \in live /\ live' \subseteq live /\ open' \subseteq open \cup {t}
        /\ UNCHANGED <<created, pc, listing, todo, failed, before, result>>
    BY <1>12 DEF Fire
  <2> QED
    BY <2>1 DEF listing
<1>13. CASE UNCHANGED vars
  BY <1>13 DEF vars
<1> QED
  BY <1>1, <1>2, <1>3, <1>4, <1>5, <1>6, <1>7, <1>8, <1>9, <1>10, <1>11, <1>12, <1>13 DEF Next, Caller

-----------------------------------------------------------------------------
(* The specification keeps what it promises.                               *)

LEMMA StopInductive == Spec => []StopInv
<1>1. Init => StopInv
  BY CreateBegins, WalkBegins DEF StopInv
<1>2. StopInv /\ [Next]_vars => StopInv'
  BY CreateSteps, WalkSteps DEF StopInv
<1> QED
  BY <1>1, <1>2, PTL DEF Spec

\* What the SDK tells a caller of a failed create is enough to send it again
\* safely: an error that IsRetryable, or that is not MutationOutcomeUnknown, comes
\* from an answer that refused it, for every answer of a service, a gateway or a
\* lost connection, however late a request is applied (errors.go, skew.go).
THEOREM KnownMutations == Spec => []MutationsAreKnown
<1>1. StopInv => MutationsAreKnown
  BY CopyImplies DEF StopInv
<1> QED
  BY <1>1, StopInductive, PTL

\* A listing of any number of pages passes over no trigger that was live when
\* StopAllTrading began, while triggers fire, end and are created between its
\* pages; so one it succeeds for is canceled, and what it placed before as well
\* (listLiveTriggers and StopAllTrading in stop_all_trading.go).
THEOREM NothingLeft == Spec => []NothingLeftBehind
<1>1. StopInv => NothingLeftBehind
  BY DEF StopInv, Walked
<1> QED
  BY <1>1, StopInductive, PTL

\* A page that was refused is read again only for want of the service
\* (retryUnavailable in read_retry.go, roundTripError in skew.go).
THEOREM RefusedReadsAreFinal == Spec => RefusedReadsReturn
<1> DEFINE A == pc = "reread" /\ pc' = "list" /\ answer.refuses => answer.outage
<1>1. StopInv /\ [Next]_vars => [A]_vars
  <2> SUFFICES ASSUME StopInv, Next, pc = "reread", pc' = "list", answer.refuses
               PROVE  answer.outage
    OBVIOUS
  <2>1. answer \in Failures
    BY DEF StopInv, OneCopy
  <2>2. CASE Reread
    <3>1. answer.again
      BY <2>2 DEF Reread, Return
    <3> QED
      BY <2>1, <3>1, FailureTells
  <2>3. CASE Apply \/ Canceled \/ \E t \in Ids : Fire(t)
    BY <2>3 DEF Apply, Canceled, Return, Fire
  <2>4. CASE Caller /\ ~Reread
    BY <2>4 DEF Caller, Send, CreateAnswered, Judge, Begin, Page, ListFails, CancelTrigger,
                CancelAll, OrdersTurn
  <2> QED
    BY <2>2, <2>3, <2>4 DEF Next
<1> QED
  BY <1>1, StopInductive, PTL DEF Spec, RefusedReadsReturn

-----------------------------------------------------------------------------
(* The wait for a batch.                                                   *)

StatusValues == {Nothing} \cup [Items -> Phases]

WaitType ==
    [pc : {"idle", "reading", "sleeping", "returned"}, deadline : Int, delay : 1..MaxDelay,
     wake : Int, last : StatusValues, reply : {"none", "status", "again", "error"},
     status : StatusValues, result : {"none", "canceled", "expired", "settled", "error"}]
BatchType == [phase : [Items -> Phases], readable : BOOLEAN, at : Int, dated : BOOLEAN]

WaitTyped ==
    /\ wait \in WaitType /\ batch \in BatchType
    /\ now \in Nat /\ skew \in Int

\* Only one of the two waits is under way, so that only its calls take time.
OneWait == "idle" \in {wait.pc, trades.pc}

\* A status that was read is behind the batch: an item goes on from what it says.
Behind(status) ==
    status # Nothing => \A i \in Items :
        \/ status[i] = "admitted"
        \/ status[i] = "working" /\ batch.phase[i] \in {"working", "terminal"}
        \/ status[i] \in {"rejected", "terminal"} /\ batch.phase[i] = status[i]

SettledInv ==
    /\ wait.reply = "status" => Behind(wait.status)
    /\ wait.result = "settled" => Behind(wait.last) /\ Settled(wait.last)

\* The deadline is one of two, the second once a status was read that tells when
\* the batch was accepted; a wait that goes on is before its deadline.
DatedDeadline == batch.at + skew + Window

DeadlineInv ==
    /\ batch.at <= 0
    /\ wait.deadline = Window \/ wait.deadline = DatedDeadline
    /\ wait.pc \in {"reading", "sleeping"} =>
          /\ now <= wait.deadline
          /\ batch.dated /\ wait.last # Nothing => wait.deadline = DatedDeadline
    /\ wait.pc = "sleeping" => wait.wake <= wait.deadline
    /\ ExpiredIsDue

\* A wait that goes on has no result yet.
Running == wait.pc # "returned" => wait.result = "none"

WaitInv == WaitTyped /\ OneWait /\ Running /\ SettledInv /\ DeadlineInv

-----------------------------------------------------------------------------
(* The invariant holds at first and is kept by what is not about the wait. *)

LEMMA WaitBegins == TradingInit => WaitInv
<1> SUFFICES ASSUME TradingInit PROVE WaitInv
  OBVIOUS
<1>1. PICK place \in {"idle", "reading"}, other \in {"idle", "paging"} :
         WaitInit(place, other) /\ "idle" \in {place, other}
  BY DEF TradingInit
<1>2. /\ now = 0 /\ skew \in Skews
      /\ wait = [pc |-> place, deadline |-> Window, delay |-> 1, wake |-> 0,
                 last |-> Nothing, reply |-> "none", status |-> Nothing, result |-> "none"]
      /\ trades.pc = other
  BY <1>1 DEF WaitInit, BatchInit, TradesInit
<1>3. PICK age \in Ages, d \in BOOLEAN :
         batch = [phase |-> [i \in Items |-> "admitted"], readable |-> FALSE,
                  at |-> -age, dated |-> d]
  BY <1>1 DEF WaitInit, BatchInit
<1>4. age \in 0..Window /\ Window \in Nat \ {0} /\ MaxDelay \in Nat \ {0} /\ Skews \subseteq Int
  BY WaitAssumptions
<1>5. WaitTyped
  <2>1. wait \in WaitType
    BY <1>2, <1>4 DEF WaitType, StatusValues
  <2>2. batch \in BatchType
    BY <1>3, <1>4 DEF BatchType, Phases
  <2> QED
    BY <1>2, <1>4, <2>1, <2>2 DEF WaitTyped
<1>6. OneWait /\ Running /\ SettledInv
  BY <1>1, <1>2 DEF OneWait, Running, SettledInv
<1>7. DeadlineInv
  BY <1>2, <1>3, <1>4 DEF DeadlineInv, ExpiredIsDue
<1> QED
  BY <1>5, <1>6, <1>7 DEF WaitInv

LEMMA Aside ==
    ASSUME WaitInv, UNCHANGED <<now, batch, skew, wait>>,
           wait.pc = "idle" \/ UNCHANGED trades
    PROVE  WaitInv'
BY DEF WaitInv, WaitTyped, OneWait, Running, SettledInv, Behind, Settled, DeadlineInv,
       DatedDeadline, ExpiredIsDue

\* An item only goes on: what a status says of it is passed, or stays true.
LEMMA ItemsGoOn ==
    ASSUME WaitInv, NEW i \in Items, ItemMoves(i)
    PROVE  WaitInv'
<1>1. PICK p \in {"working", "rejected", "terminal"} \ {batch.phase[i]} :
         /\ batch.phase[i] \in {"admitted", "working"}
         /\ batch.phase[i] = "working" => p = "terminal"
         /\ batch' = [batch EXCEPT !.phase[i] = p]
  BY DEF ItemMoves
<1>2. UNCHANGED <<now, skew, wait, trades>>
  BY DEF ItemMoves
<1>3. wait \in WaitType /\ batch \in BatchType
  BY DEF WaitInv, WaitTyped
<1>4. /\ batch' \in BatchType /\ batch'.at = batch.at /\ batch'.dated = batch.dated
      /\ batch'.phase[i] = p
      /\ \A j \in Items \ {i} : batch'.phase[j] = batch.phase[j]
  BY <1>1, <1>3 DEF BatchType, Phases
<1>5. \A status : Behind(status) => Behind(status)'
  BY <1>1, <1>4 DEF Behind
<1>6. SettledInv'
  BY <1>2, <1>5 DEF WaitInv, SettledInv, Settled
<1>7. WaitTyped' /\ OneWait' /\ Running' /\ DeadlineInv'
  BY <1>2, <1>4 DEF WaitInv, WaitTyped, OneWait, Running, DeadlineInv, DatedDeadline, ExpiredIsDue
<1> QED
  BY <1>6, <1>7 DEF WaitInv

LEMMA Appears == WaitInv /\ BatchAppears => WaitInv'
<1> SUFFICES ASSUME WaitInv, BatchAppears PROVE WaitInv'
  OBVIOUS
<1>1. UNCHANGED <<now, skew, wait, trades>> /\ batch' = [batch EXCEPT !.readable = TRUE]
  BY DEF BatchAppears
<1>2. batch' \in BatchType /\ batch'.phase = batch.phase /\ batch'.at = batch.at
      /\ batch'.dated = batch.dated
  BY <1>1 DEF WaitInv, WaitTyped, BatchType
<1> QED
  BY <1>1, <1>2 DEF WaitInv, WaitTyped, OneWait, Running, SettledInv, Behind, Settled, DeadlineInv,
                    DatedDeadline, ExpiredIsDue

LEMMA TimePasses == WaitInv /\ Tick => WaitInv'
<1> SUFFICES ASSUME WaitInv, Tick PROVE WaitInv'
  OBVIOUS
<1>1. now' = now + 1 /\ UNCHANGED <<batch, skew, wait, trades>>
  BY DEF Tick
<1>2. wait \in WaitType /\ batch \in BatchType /\ now \in Nat /\ skew \in Int
  BY DEF WaitInv, WaitTyped
<1>3. wait.pc \in {"reading", "sleeping"} => now < wait.deadline
  BY <1>2 DEF Tick, WaitInv, OneWait, DeadlineInv, Overdue, WaitType
<1>4. wait.deadline \in Int /\ wait.wake \in Int /\ batch.at \in Int
  BY <1>2 DEF WaitType, BatchType
<1>5. wait.pc \in {"reading", "sleeping"} => now' <= wait'.deadline
  BY <1>1, <1>2, <1>3, <1>4
<1>6. ExpiredIsDue'
  <2> SUFFICES ASSUME wait.result = "expired"
               PROVE  batch.at + Window < now + 1 + MaxDelay + Greater(0, -skew)
    BY <1>1 DEF ExpiredIsDue, Greater
  <2>1. batch.at + Window < now + MaxDelay + Greater(0, -skew)
    BY DEF WaitInv, DeadlineInv, ExpiredIsDue
  <2>2. Greater(0, -skew) \in Int /\ MaxDelay \in Nat /\ Window \in Nat
    BY <1>2, WaitAssumptions DEF Greater
  <2> QED
    BY <1>2, <1>4, <2>1, <2>2
<1>7. DeadlineInv'
  BY <1>1, <1>5, <1>6 DEF WaitInv, DeadlineInv, DatedDeadline
<1>8. WaitTyped' /\ OneWait' /\ Running' /\ SettledInv'
  BY <1>1, <1>2 DEF WaitInv, WaitTyped, OneWait, Running, SettledInv, Behind, Settled
<1> QED
  BY <1>7, <1>8 DEF WaitInv

LEMMA StatusComes == WaitInv /\ StatusAnswered => WaitInv'
<1> SUFFICES ASSUME WaitInv, StatusAnswered PROVE WaitInv'
  OBVIOUS
<1>1. UNCHANGED <<now, batch, skew, trades>> /\ wait.pc = "reading"
  BY DEF StatusAnswered
<1>2. wait \in WaitType /\ batch \in BatchType
  BY DEF WaitInv, WaitTyped
<1>3. ASSUME NEW shown \in {batch.phase, Nothing},
             wait' = [wait EXCEPT !.reply = "status", !.status = shown]
      PROVE  WaitInv'
  <2>1. shown \in StatusValues
    BY <1>2 DEF StatusValues, BatchType
  <2>2. Behind(shown)
    BY <1>2 DEF Behind, BatchType, Phases
  <2>3. wait' \in WaitType
    BY <1>2, <1>3, <2>1 DEF WaitType
  <2>4. /\ wait'.status = shown /\ wait'.pc = wait.pc /\ wait'.last = wait.last
        /\ wait'.result = wait.result /\ wait'.deadline = wait.deadline /\ wait'.wake = wait.wake
    BY <1>2, <1>3 DEF WaitType
  <2> QED
    BY <1>1, <2>2, <2>3, <2>4 DEF WaitInv, WaitTyped, OneWait, Running, SettledInv, Behind, Settled,
        DeadlineInv, DatedDeadline, ExpiredIsDue
<1>4. ASSUME NEW again \in {"again", "error"}, wait' = [wait EXCEPT !.reply = again]
      PROVE  WaitInv'
  <2>1. wait' \in WaitType
    BY <1>2, <1>4 DEF WaitType
  <2>2. /\ wait'.reply = again /\ wait'.pc = wait.pc /\ wait'.last = wait.last
        /\ wait'.result = wait.result /\ wait'.deadline = wait.deadline /\ wait'.wake = wait.wake
    BY <1>2, <1>4 DEF WaitType
  <2> QED
    BY <1>1, <2>1, <2>2 DEF WaitInv, WaitTyped, OneWait, Running, SettledInv, Behind, Settled,
        DeadlineInv, DatedDeadline, ExpiredIsDue
<1> QED
  BY <1>3, <1>4 DEF StatusAnswered

-----------------------------------------------------------------------------
(* What the wait does with an answer.                                      *)

Asking == wait.pc \in {"reading", "sleeping"} /\ UNCHANGED <<now, batch, skew, trades>>

\* The time at which the service drops the status is not much later.
Due == batch.at + Window < now + MaxDelay + Greater(0, -skew)

LEMMA EndKeeps ==
    ASSUME WaitInv, Asking, NEW why \in {"canceled", "expired", "settled", "error"},
           NEW last \in StatusValues, Ends(why, last),
           why = "settled" => Behind(last) /\ Settled(last),
           why = "expired" => Due
    PROVE  WaitInv'
<1>1. wait \in WaitType
  BY DEF WaitInv, WaitTyped
<1>2. wait' = [wait EXCEPT !.pc = "returned", !.result = why, !.last = last,
                           !.reply = "none", !.status = Nothing]
  BY DEF Ends
<1>3. wait' \in WaitType
  BY <1>1, <1>2 DEF WaitType, StatusValues
<1>4. /\ wait'.pc = "returned" /\ wait'.result = why /\ wait'.last = last
      /\ wait'.reply = "none" /\ wait'.deadline = wait.deadline
  BY <1>1, <1>2 DEF WaitType
<1>5. ExpiredIsDue'
  BY <1>4 DEF Asking, ExpiredIsDue, Due, Greater
<1> QED
  BY <1>3, <1>4, <1>5 DEF Asking, WaitInv, WaitTyped, OneWait, Running, SettledInv, Behind, Settled,
                          DeadlineInv, DatedDeadline

LEMMA SleepKeeps ==
    ASSUME WaitInv, Asking, NEW deadline, NEW last \in StatusValues,
           deadline = Window \/ deadline = DatedDeadline,
           batch.dated /\ last # Nothing => deadline = DatedDeadline,
           SleepOrExpire(deadline, last)
    PROVE  WaitInv'
<1>1. wait \in WaitType /\ batch \in BatchType /\ now \in Nat /\ skew \in Int /\ batch.at <= 0
  BY DEF WaitInv, WaitTyped, DeadlineInv
<1>2. /\ batch.at \in Int /\ wait.delay \in 1..MaxDelay
      /\ MaxDelay \in Nat \ {0} /\ Window \in Nat \ {0}
  BY <1>1, WaitAssumptions DEF BatchType, WaitType
<1>3. deadline \in Int
  BY <1>1, <1>2 DEF DatedDeadline
<1>4. CASE now + wait.delay > deadline
  <2>1. wait' = [wait EXCEPT !.pc = "returned", !.result = "expired", !.last = last,
                             !.deadline = deadline, !.reply = "none", !.status = Nothing]
    BY <1>4 DEF SleepOrExpire
  <2>2. wait' \in WaitType
    BY <1>1, <1>3, <2>1 DEF WaitType, StatusValues
  <2>3. wait'.pc = "returned" /\ wait'.deadline = deadline /\ wait'.reply = "none"
        /\ wait'.result = "expired"
    BY <1>1, <2>1 DEF WaitType
  <2>4. batch.at + Window < now + MaxDelay + Greater(0, -skew)
    BY <1>1, <1>2, <1>4 DEF DatedDeadline, Greater
  <2>5. ExpiredIsDue'
    BY <2>4 DEF Asking, ExpiredIsDue, Greater
  <2> QED
    BY <2>2, <2>3, <2>5 DEF Asking, WaitInv, WaitTyped, OneWait, Running, SettledInv, DeadlineInv,
                            DatedDeadline
<1>5. CASE now + wait.delay <= deadline
  <2>1. wait' = [wait EXCEPT !.pc = "sleeping", !.wake = now + wait.delay, !.last = last,
                             !.delay = NextDelay(wait.delay),
                             !.deadline = deadline, !.reply = "none", !.status = Nothing]
    BY <1>1, <1>2, <1>3, <1>5 DEF SleepOrExpire
  <2>2. NextDelay(wait.delay) \in 1..MaxDelay
    BY <1>2 DEF NextDelay
  <2>3. wait' \in WaitType
    <3>1. now + wait.delay \in Int /\ Nothing \in StatusValues
      BY <1>1, <1>2 DEF StatusValues
    <3> QED
      BY <1>1, <1>3, <2>1, <2>2, <3>1 DEF WaitType
  <2>4. /\ wait'.pc = "sleeping" /\ wait'.wake = now + wait.delay /\ wait'.deadline = deadline
        /\ wait'.reply = "none" /\ wait'.result = wait.result /\ wait'.last = last
    BY <1>1, <2>1 DEF WaitType
  <2>5. now <= deadline
    BY <1>1, <1>2, <1>3, <1>5
  <2>6. wait.result = "none"
    BY DEF WaitInv, Running, Asking
  <2> QED
    BY <1>5, <2>3, <2>4, <2>5, <2>6 DEF Asking, WaitInv, WaitTyped, OneWait, Running, SettledInv,
                            DeadlineInv, DatedDeadline, ExpiredIsDue, Running
<1> QED
  BY <1>1, <1>2, <1>3, <1>4, <1>5

LEMMA StatusHandled == WaitInv /\ StatusRead => WaitInv'
<1> SUFFICES ASSUME WaitInv, StatusRead PROVE WaitInv'
  OBVIOUS
<1>1. Asking
  BY DEF StatusRead, Asking
<1>2. /\ wait.last \in StatusValues /\ wait.status \in StatusValues
      /\ wait.deadline = Window \/ wait.deadline = DatedDeadline
      /\ batch.dated /\ wait.last # Nothing => wait.deadline = DatedDeadline
  BY <1>1 DEF WaitInv, WaitTyped, WaitType, DeadlineInv, Asking
<1>3. CASE ctx /\ Ends("canceled", wait.last)
  BY <1>1, <1>2, <1>3, EndKeeps
<1>4. CASE Overdue(wait.deadline) /\ Ends("expired", wait.last)
  <2>1. /\ batch.at \in Int /\ batch.at <= 0 /\ now \in Nat /\ skew \in Int
        /\ MaxDelay \in Nat \ {0} /\ Window \in Nat \ {0}
    BY WaitAssumptions DEF WaitInv, WaitTyped, BatchType, DeadlineInv
  <2>2. Due
    BY <1>2, <1>4, <2>1 DEF Due, Overdue, DatedDeadline, Greater
  <2> QED
    BY <1>1, <1>2, <1>4, <2>2, EndKeeps
<1>5. CASE wait.reply = "status" /\ Settled(wait.status) /\ Ends("settled", wait.status)
  <2>1. Behind(wait.status)
    BY <1>5 DEF WaitInv, SettledInv
  <2> QED
    BY <1>1, <1>2, <1>5, <2>1, EndKeeps
<1>6. CASE SleepOrExpire(NewDeadline(wait.deadline), wait.status)
  <2>1. NewDeadline(wait.deadline) = IF batch.dated THEN DatedDeadline ELSE wait.deadline
    BY DEF NewDeadline, DatedDeadline
  <2> QED
    BY <1>1, <1>2, <1>6, <2>1, SleepKeeps
<1>7. CASE SleepOrExpire(wait.deadline, wait.last)
  BY <1>1, <1>2, <1>7, SleepKeeps
<1>8. CASE Ends("error", wait.last)
  BY <1>1, <1>2, <1>8, EndKeeps
<1> QED
  BY <1>3, <1>4, <1>5, <1>6, <1>7, <1>8 DEF StatusRead

LEMMA Wakes == WaitInv /\ WaitWakes => WaitInv'
<1> SUFFICES ASSUME WaitInv, WaitWakes PROVE WaitInv'
  OBVIOUS
<1>1. Asking /\ wait.pc = "sleeping"
  BY DEF WaitWakes, Asking
<1>2. wait \in WaitType /\ wait.last \in StatusValues
  BY DEF WaitInv, WaitTyped, WaitType
<1>3. CASE Ends("canceled", wait.last)
  BY <1>1, <1>2, <1>3, EndKeeps
<1>4. CASE wait' = [wait EXCEPT !.pc = "reading"]
  <2>1. wait' \in WaitType
    BY <1>2, <1>4 DEF WaitType
  <2>2. /\ wait'.pc = "reading" /\ wait'.reply = wait.reply /\ wait'.status = wait.status
        /\ wait'.last = wait.last /\ wait'.result = wait.result
        /\ wait'.deadline = wait.deadline /\ wait'.wake = wait.wake
    BY <1>2, <1>4 DEF WaitType
  <2> QED
    BY <1>1, <2>1, <2>2 DEF Asking, WaitInv, WaitTyped, OneWait, Running, SettledInv, Behind,
        Settled, DeadlineInv, DatedDeadline, ExpiredIsDue
<1> QED
  BY <1>3, <1>4 DEF WaitWakes

-----------------------------------------------------------------------------
(* The specification keeps it.                                             *)

LEMMA WaitSteps == WaitInv /\ [WaitNext]_waitVars => WaitInv'
<1> SUFFICES ASSUME WaitInv, [WaitNext]_waitVars PROVE WaitInv'
  OBVIOUS
<1>1. CASE BatchCaller
  BY <1>1, StatusComes, StatusHandled, Wakes DEF BatchCaller
<1>2. CASE TradesCaller
  <2>1. UNCHANGED <<now, batch, skew, wait>> /\ trades.pc # "idle"
    BY <1>2 DEF TradesCaller, PageArrives, PageAbsent, PageFails, Listed, TradesWake
  <2>2. wait.pc = "idle"
    BY <2>1 DEF WaitInv, OneWait
  <2> QED
    BY <2>1, <2>2, Aside
<1>3. CASE Fill \/ Succeed \/ Cancel \/ \E t \in DOMAIN Quantities : Record(t)
  BY <1>3, Aside DEF Fill, Succeed, Cancel, Record
<1>4. CASE UNCHANGED waitVars
  BY <1>4, Aside DEF waitVars
<1> QED
  BY <1>1, <1>2, <1>3, <1>4, TimePasses, Appears, ItemsGoOn DEF WaitNext

LEMMA WaitInductive == TradingSpec => []WaitInv
<1>1. WaitInv /\ [TradingNext]_<<op, vars, waitVars>> => WaitInv'
  <2> SUFFICES ASSUME WaitInv, [TradingNext]_<<op, vars, waitVars>> PROVE WaitInv'
    OBVIOUS
  <2>1. [WaitNext]_waitVars
    BY DEF TradingNext
  <2> QED
    BY <2>1, WaitSteps
<1> QED
  BY <1>1, WaitBegins, PTL DEF TradingSpec

\* The wait for a batch is over when its window is, with a read in flight as well
\* and at whatever distance the clocks are, and gives the batch up no earlier than
\* one poll, and what the service's clock is behind, before the status is dropped
\* (WaitBatchReplace in orders.go).
THEOREM WindowKept == TradingSpec => []WindowIsKept
<1>1. WaitInv => WindowIsKept
  <2> SUFFICES ASSUME WaitInv PROVE StaysInWindow /\ ExpiredIsDue
    BY DEF WindowIsKept
  <2>1. ExpiredIsDue
    BY DEF WaitInv, DeadlineInv
  <2>2. StaysInWindow
    <3>1. /\ now \in Nat /\ Window \in Int /\ DatedDeadline \in Int
          /\ wait.deadline = Window \/ wait.deadline = DatedDeadline
      BY WaitAssumptions DEF WaitInv, WaitTyped, BatchType, DeadlineInv, DatedDeadline
    <3>2. wait.pc \in {"reading", "sleeping"} =>
             /\ now <= wait.deadline
             /\ batch.dated /\ wait.last # Nothing => wait.deadline = DatedDeadline
      BY DEF WaitInv, DeadlineInv
    <3>3. wait.deadline <= Greater(Window, DatedDeadline)
      BY <3>1 DEF Greater
    <3> QED
      BY <3>1, <3>2, <3>3 DEF StaysInWindow, Greater, DatedDeadline
  <2> QED
    BY <2>1, <2>2
<1> QED
  BY <1>1, WaitInductive, PTL

\* A batch reported as settled is: the status shows every item, none is admitted,
\* and what it says of a rejected or terminal item stays true while the others go
\* on (IsBatchReplaceSettled).
THEOREM SettledStaysTrue == TradingSpec => []SettledIsTrue
<1>1. WaitInv => SettledIsTrue
  <2> SUFFICES ASSUME WaitInv, wait.result = "settled"
               PROVE  /\ DOMAIN wait.last = Items
                      /\ \A i \in Items :
                           /\ "admitted" \notin {wait.last[i], batch.phase[i]}
                           /\ wait.last[i] \in {"rejected", "terminal"} =>
                                 batch.phase[i] = wait.last[i]
    BY DEF SettledIsTrue
  <2>1. Behind(wait.last) /\ Settled(wait.last) /\ wait.last \in StatusValues
    BY DEF WaitInv, SettledInv, WaitTyped, WaitType
  <2>2. wait.last # Nothing /\ wait.last \in [Items -> Phases]
    BY <2>1 DEF Settled, StatusValues
  <2>3. \A i \in Items : wait.last[i] # "admitted"
    BY <2>1, <2>2 DEF Settled
  <2> QED
    BY <2>1, <2>2, <2>3 DEF Behind
<1> QED
  BY <1>1, WaitInductive, PTL

-----------------------------------------------------------------------------
(* Sums over a finite set.  A family of its subsets has a least one, which *)
(* is how what a sum is for one element more is carried to every set.      *)

Family(F, D) == IsFiniteSet(D) /\ F \subseteq SUBSET D /\ F # {}

LEMMA Minimal ==
    ASSUME NEW D, NEW F, Family(F, D)
    PROVE  \E A \in F : \A B \in F : B \subseteq A => B = A
<1>0. IsFiniteSet(D) /\ F \subseteq SUBSET D /\ F # {}
  BY DEF Family
<1> DEFINE N == {Cardinality(A) : A \in F}
<1>1. \A A \in F : IsFiniteSet(A) /\ Cardinality(A) \in Nat
  BY <1>0, FS_Subset, FS_CardinalityType
<1>2. N \in SUBSET Nat /\ N # {}
  BY <1>0, <1>1
<1>3. PICK n \in N : \A m \in N : n <= m
  BY <1>2, LeastOf
<1>4. PICK A \in F : n = Cardinality(A)
  BY <1>3
<1>5. ASSUME NEW B \in F, B \subseteq A PROVE B = A
  <2>1. Cardinality(A) <= Cardinality(B) /\ Cardinality(B) <= Cardinality(A)
    BY <1>1, <1>3, <1>4, <1>5, FS_Subset
  <2> QED
    BY <1>1, <1>5, <2>1, FS_Subset
<1> QED
  BY <1>5

Sum(w, g, A) == IF A = {} THEN 0
                ELSE LET x == CHOOSE x \in A : TRUE IN g[A \ {x}] + w[x]
Sums(D, w, g) == g = [A \in SUBSET D |-> Sum(w, g, A)]

\* A function that sums exists: one right up to every number of elements does.
LEMMA SumsExist ==
    ASSUME NEW D, IsFiniteSet(D), NEW w
    PROVE  \E g : Sums(D, w, g)
<1> DEFINE Upto(n, h) == \A A \in SUBSET D : Cardinality(A) <= n => h[A] = Sum(w, h, A)
           N == {n \in Nat : ~ \E h : Upto(n, h)}
           Less(A) == A \ {CHOOSE x \in A : TRUE}
<1>1. ASSUME NEW A \in SUBSET D
      PROVE  /\ IsFiniteSet(A) /\ Cardinality(A) \in Nat /\ Cardinality(A) <= Cardinality(D)
             /\ A # {} => Less(A) \in SUBSET D /\ Cardinality(Less(A)) = Cardinality(A) - 1
  <2>1. IsFiniteSet(A)
    BY FS_Subset
  <2>2. A # {} => (CHOOSE x \in A : TRUE) \in A
    OBVIOUS
  <2> QED
    BY <2>1, <2>2, FS_Subset, FS_CardinalityType, FS_RemoveElement
<1>2. \A h, f, A : (A # {} => h[Less(A)] = f[Less(A)]) => Sum(w, h, A) = Sum(w, f, A)
  BY DEF Sum
<1> HIDE DEF Less
<1>3. N = {}
  <2>1. SUFFICES ASSUME N # {} PROVE FALSE
    OBVIOUS
  <2>2. PICK n \in N : \A m \in N : n <= m
    <3>1. N \in SUBSET Nat
      OBVIOUS
    <3> HIDE DEF N
    <3> QED
      BY <2>1, <3>1, LeastOf
  <2>3. n # 0
    <3>1. SUFFICES \E h : Upto(0, h)
      BY <2>2
    <3> DEFINE h0 == [A \in SUBSET D |-> 0]
    <3>2. ASSUME NEW A \in SUBSET D, Cardinality(A) <= 0 PROVE h0[A] = Sum(w, h0, A)
      <4>1. Cardinality(A) = 0 /\ IsFiniteSet(A)
        BY <1>1, <3>2
      <4>2. A = {}
        BY <4>1, FS_EmptySet
      <4> QED
        BY <4>2 DEF Sum
    <3> HIDE DEF h0
    <3>3. Upto(0, h0)
      BY <3>2
    <3> QED
      BY <3>3
  <2>4. n \in Nat /\ n - 1 \in Nat /\ n - 1 \notin N
    BY <2>2, <2>3
  <2>5. PICK h : Upto(n - 1, h)
    BY <2>4
  <2> DEFINE h1 == [A \in SUBSET D |-> IF Cardinality(A) <= n - 1 THEN h[A] ELSE Sum(w, h, A)]
  <2>6. ASSUME NEW A \in SUBSET D, Cardinality(A) <= n PROVE h1[A] = Sum(w, h1, A)
    <3>1. A # {} => h1[Less(A)] = h[Less(A)]
      BY <1>1, <2>4, <2>6
    <3>2. h1[A] = Sum(w, h, A)
      BY <2>5
    <3> HIDE DEF h1
    <3> QED
      BY <1>2, <3>1, <3>2
  <2> HIDE DEF h1
  <2>7. Upto(n, h1)
    BY <2>6
  <2> QED
    BY <2>2, <2>7
<1>4. PICK h : Upto(Cardinality(D), h)
  <2>1. Cardinality(D) \in Nat
    BY FS_CardinalityType
  <2> QED
    BY <1>3, <2>1
<1> DEFINE g == [A \in SUBSET D |-> h[A]]
<1>5. ASSUME NEW A \in SUBSET D PROVE h[A] = Sum(w, g, A)
  <2>1. h[A] = Sum(w, h, A)
    BY <1>1, <1>4
  <2>2. A # {} => g[Less(A)] = h[Less(A)]
    BY <1>1
  <2> HIDE DEF g
  <2> QED
    BY <1>2, <2>1, <2>2
<1>6. Sums(D, w, g)
  <2>1. g = [A \in SUBSET D |-> h[A]]
    OBVIOUS
  <2> HIDE DEF g
  <2> QED
    BY <1>5, <2>1 DEF Sums
<1> QED
  BY <1>6

\* A sum is one of its weights and the sum of the rest, whichever it is.
Adds(D, w, g) ==
    /\ g[{}] = 0
    /\ \A A \in SUBSET D : g[A] \in Nat
    /\ \A A \in SUBSET D : \A a \in A : g[A] = g[A \ {a}] + w[a]

LEMMA SumOne ==
    ASSUME NEW D, IsFiniteSet(D), NEW w \in [D -> Nat], NEW g, Sums(D, w, g)
    PROVE  Adds(D, w, g)
<1>1. \A A \in SUBSET D : g[A] = Sum(w, g, A)
  BY DEF Sums
<1>2. g[{}] = 0
  BY <1>1 DEF Sum
<1>3. \A A \in SUBSET D : A # {} => \E x \in A : g[A] = g[A \ {x}] + w[x]
  BY <1>1 DEF Sum
<1>4. \A A \in SUBSET D : g[A] \in Nat
  <2> DEFINE F == {A \in SUBSET D : g[A] \notin Nat}
  <2>1. SUFFICES ASSUME F # {} PROVE FALSE
    OBVIOUS
  <2>2. PICK A \in F : \A B \in F : B \subseteq A => B = A
    <3>1. Family(F, D)
      BY <2>1 DEF Family
    <3> HIDE DEF F
    <3> QED
      BY <3>1, Minimal
  <2>3. A # {}
    <3>1. g[A] \notin Nat
      OBVIOUS
    <3> QED
      BY <1>2, <3>1
  <2>4. PICK x \in A : g[A] = g[A \ {x}] + w[x]
    BY <1>3, <2>3
  <2>5. g[A \ {x}] \in Nat
    BY <2>2
  <2>6. w[x] \in Nat
    OBVIOUS
  <2> QED
    BY <2>4, <2>5, <2>6
<1>5. \A A \in SUBSET D : \A a \in A : g[A] = g[A \ {a}] + w[a]
  <2> DEFINE F == {A \in SUBSET D : \E a \in A : g[A] # g[A \ {a}] + w[a]}
  <2>1. SUFFICES ASSUME F # {} PROVE FALSE
    OBVIOUS
  <2>2. PICK A \in F : \A B \in F : B \subseteq A => B = A
    <3>1. Family(F, D)
      BY <2>1 DEF Family
    <3> HIDE DEF F
    <3> QED
      BY <3>1, Minimal
  <2>3. PICK a \in A : g[A] # g[A \ {a}] + w[a]
    OBVIOUS
  <2>4. PICK x \in A : g[A] = g[A \ {x}] + w[x]
    BY <1>3, <2>3
  <2>5. x # a
    BY <2>3, <2>4
  <2>6. g[A \ {x}] = g[(A \ {x}) \ {a}] + w[a]
    <3>1. A \ {x} \in SUBSET D /\ A \ {x} \notin F
      BY <2>2
    <3> QED
      BY <2>5, <3>1
  <2>7. g[A \ {a}] = g[(A \ {a}) \ {x}] + w[x]
    <3>1. A \ {a} \in SUBSET D /\ A \ {a} \notin F
      BY <2>2
    <3> QED
      BY <2>5, <3>1
  <2>8. (A \ {a}) \ {x} = (A \ {x}) \ {a}
    OBVIOUS
  <2> DEFINE rest == g[(A \ {x}) \ {a}]
  <2>9. w[a] \in Nat /\ w[x] \in Nat /\ rest \in Nat
    BY <1>4
  <2>10. g[A] = (rest + w[a]) + w[x]
    BY <2>4, <2>6
  <2>11. g[A \ {a}] = rest + w[x]
    BY <2>7, <2>8
  <2> HIDE DEF F, rest
  <2> QED
    BY <2>3, <2>9, <2>10, <2>11
<1> QED
  BY <1>2, <1>4, <1>5 DEF Adds

LEMMA SumGrows ==
    ASSUME NEW D, IsFiniteSet(D), NEW w \in [D -> Nat \ {0}], NEW g, Sums(D, w, g),
           NEW A \in SUBSET D, NEW C \in SUBSET D, A \subseteq C, A # C
    PROVE  g[A] < g[C]
<1> DEFINE F == {B \in SUBSET D : A \subseteq B /\ A # B /\ ~(g[A] < g[B])}
<1>1. /\ \A B \in SUBSET D : g[B] \in Nat
      /\ \A B \in SUBSET D : \A b \in B : g[B] = g[B \ {b}] + w[b]
  <2>1. w \in [D -> Nat]
    OBVIOUS
  <2>2. Adds(D, w, g)
    BY <2>1, SumOne
  <2> QED
    BY <2>2 DEF Adds
<1>2. SUFFICES ASSUME F # {} PROVE FALSE
  OBVIOUS
<1>3. PICK B \in F : \A E \in F : E \subseteq B => E = B
  <2>1. Family(F, D)
    BY <1>2 DEF Family
  <2> HIDE DEF F
  <2> QED
    BY <2>1, Minimal
<1>4. PICK b \in B : b \notin A
  OBVIOUS
<1>5. w[b] \in Nat /\ w[b] > 0 /\ g[B] = g[B \ {b}] + w[b]
  BY <1>1
<1>6. A = B \ {b} \/ g[A] < g[B \ {b}]
  <2>1. B \ {b} \in SUBSET D /\ B \ {b} \notin F /\ A \subseteq B \ {b}
    BY <1>3, <1>4
  <2> QED
    BY <2>1
<1>7. g[A] \in Nat /\ g[B \ {b}] \in Nat
  BY <1>1
<1>8. g[A] < g[B]
  <2> HIDE DEF F
  <2> QED
    BY <1>5, <1>6, <1>7
<1> QED
  BY <1>8

\* A sum over places is the sum over what is at them, if no two hold the same.
Placed(D, w, E, v, f) ==
    /\ f \in [D -> E] /\ \A i, j \in D : f[i] = f[j] => i = j
    /\ \A i \in D : w[i] = v[f[i]]

At(f, D) == {f[i] : i \in D}

LEMMA SumAtPlaces ==
    ASSUME NEW D, IsFiniteSet(D), NEW w \in [D -> Nat], NEW g, Sums(D, w, g),
           NEW E, IsFiniteSet(E), NEW v \in [E -> Nat], NEW h, Sums(E, v, h),
           NEW f, Placed(D, w, E, v, f)
    PROVE  g[D] = h[At(f, D)]
<1> DEFINE Img(A) == {f[i] : i \in A}
           F == {A \in SUBSET D : g[A] # h[Img(A)]}
<1>0. /\ f \in [D -> E] /\ \A i, j \in D : f[i] = f[j] => i = j
      /\ \A i \in D : w[i] = v[f[i]]
  BY DEF Placed
<1>1. /\ g[{}] = 0 /\ h[{}] = 0
      /\ \A A \in SUBSET D : \A a \in A : g[A] = g[A \ {a}] + w[a]
      /\ \A A \in SUBSET E : \A a \in A : h[A] = h[A \ {a}] + v[a]
  <2>1. Adds(D, w, g) /\ Adds(E, v, h)
    BY SumOne
  <2> QED
    BY <2>1 DEF Adds
<1>2. SUFFICES ASSUME F # {} PROVE FALSE
  <2>1. D \in SUBSET D
    OBVIOUS
  <2> QED
    BY <2>1 DEF At
<1>3. PICK A \in F : \A B \in F : B \subseteq A => B = A
  <2>1. Family(F, D)
    BY <1>2 DEF Family
  <2> HIDE DEF F
  <2> QED
    BY <2>1, Minimal
<1>4. A # {}
  <2>1. Img({}) = {}
    OBVIOUS
  <2> QED
    BY <1>1, <2>1
<1>5. PICK a \in A : TRUE
  BY <1>4
<1>6. Img(A \ {a}) = Img(A) \ {f[a]} /\ Img(A) \in SUBSET E /\ f[a] \in Img(A)
  <2>1. \A i \in A : f[i] = f[a] <=> i = a
    BY <1>0
  <2> QED
    BY <1>0, <2>1
<1>7. g[A \ {a}] = h[Img(A \ {a})]
  <2>1. A \ {a} \in SUBSET D /\ A \ {a} \notin F
    BY <1>3, <1>5
  <2> QED
    BY <2>1
<1>8. g[A] = g[A \ {a}] + w[a] /\ h[Img(A)] = h[Img(A) \ {f[a]}] + v[f[a]] /\ w[a] = v[f[a]]
  BY <1>0, <1>1, <1>5, <1>6
<1>9. g[A] = h[Img(A)]
  <2> HIDE DEF F, Img
  <2> QED
    BY <1>6, <1>7, <1>8
<1> QED
  BY <1>9

-----------------------------------------------------------------------------
(* Quantities of trades.                                                   *)

Weights(seq) == [i \in DOMAIN seq |-> Quantities[seq[i]]]

LEMMA QuantityIsSum ==
    ASSUME NEW seq, IsFiniteSet(DOMAIN seq)
    PROVE  \E g : Sums(DOMAIN seq, Weights(seq), g) /\ QuantityOf(seq) = g[DOMAIN seq]
<1> DEFINE Is(g) == g = [A \in SUBSET DOMAIN seq |->
                           IF A = {} THEN 0
                           ELSE LET x == CHOOSE x \in A : TRUE
                                IN  g[A \ {x}] + Quantities[seq[x]]]
           G == CHOOSE g : Is(g)
<1>1. ASSUME NEW g PROVE Is(g) <=> Sums(DOMAIN seq, Weights(seq), g)
  <2>1. \A A \in SUBSET DOMAIN seq : A # {} => (CHOOSE x \in A : TRUE) \in DOMAIN seq
    OBVIOUS
  <2> QED
    BY <2>1 DEF Sums, Sum, Weights
<1>2. QuantityOf(seq) = G[DOMAIN seq]
  BY DEF QuantityOf, FoldFunction, FoldFunctionOnSet, MapThenFoldSet
<1>3. \E g : Is(g)
  <2>1. PICK g : Sums(DOMAIN seq, Weights(seq), g)
    BY SumsExist
  <2> HIDE DEF Is
  <2> QED
    BY <1>1, <2>1
<1>4. Is(G)
  <2> HIDE DEF Is
  <2> QED
    BY <1>3
<1> HIDE DEF Is, G
<1>5. Sums(DOMAIN seq, Weights(seq), G)
  BY <1>1, <1>4
<1> QED
  BY <1>2, <1>5

\* Trades of an order, each at most once, that amount to all of them are all.
LEMMA AmountTells ==
    ASSUME NEW cum \in 0..Len(Quantities), NEW got \in Seq(1..cum),
           \A i, j \in DOMAIN got : i < j => got[i] > got[j],
           QuantityOf(got) = QuantityOf([t \in 1..cum |-> t])
    PROVE  Len(got) = cum /\ Range(got) = 1..cum
<1> DEFINE E == 1..cum
           D == 1..Len(got)
           all == [t \in 1..cum |-> t]
           w == Weights(got)
           v == Weights(all)
<1>1. /\ cum \in Nat /\ Len(Quantities) \in Nat /\ DOMAIN all = E
      /\ Quantities \in [1..Len(Quantities) -> Nat \ {0}]
  BY WaitAssumptions
<1>2. D = DOMAIN got /\ Len(got) \in Nat /\ got \in [D -> E]
  OBVIOUS
<1>3. IsFiniteSet(D) /\ IsFiniteSet(E) /\ Cardinality(D) = Len(got) /\ Cardinality(E) = cum
  <2>1. \A m \in Nat : IsFiniteSet(1..m) /\ Cardinality(1..m) = m
    BY FS_Interval
  <2> QED
    BY <1>1, <1>2, <2>1
<1>4. \A i, j \in D : got[i] = got[j] => i = j
  <2>1. ASSUME NEW i \in D, NEW j \in D, i < j PROVE got[i] # got[j]
    <3>1. got[i] > got[j]
      BY <1>2, <2>1
    <3>2. got[i] \in 1..cum /\ got[j] \in 1..cum
      BY <1>2
    <3> QED
      BY <3>1, <3>2
  <2>2. \A i, j \in D : i # j => i < j \/ j < i
    OBVIOUS
  <2> HIDE DEF D
  <2> QED
    BY <2>1, <2>2
<1>5. v \in [E -> Nat \ {0}] /\ \A t \in E : v[t] = Quantities[t]
  BY <1>1 DEF Weights
<1>6. w \in [D -> Nat] /\ \A i \in D : w[i] = v[got[i]]
  BY <1>1, <1>2, <1>5 DEF Weights
<1>7. PICK g : Sums(D, w, g) /\ QuantityOf(got) = g[D]
  BY <1>2, <1>3, QuantityIsSum
<1>8. PICK h : Sums(E, v, h) /\ QuantityOf(all) = h[E]
  BY <1>1, <1>3, QuantityIsSum
<1> DEFINE R == At(got, D)
<1>9. g[D] = h[R]
  <2>1. v \in [E -> Nat]
    BY <1>5
  <2> HIDE DEF v, w, D, E
  <2>2. Placed(D, w, E, v, got)
    BY <1>2, <1>4, <1>6 DEF Placed
  <2> QED
    BY <1>3, <1>6, <1>7, <1>8, <2>1, <2>2, SumAtPlaces
<1>10. R = E
  <2>1. R \in SUBSET E /\ h[R] = h[E]
    BY <1>2, <1>7, <1>8, <1>9 DEF At
  <2>2. R # E => h[R] < h[E]
    <3> HIDE DEF v, w, D, E, R
    <3> QED
      BY <1>3, <1>5, <1>8, <2>1, SumGrows
  <2>3. Adds(E, v, h)
    <3>1. v \in [E -> Nat]
      BY <1>5
    <3> HIDE DEF v, E
    <3> QED
      BY <1>3, <1>8, <3>1, SumOne
  <2>4. h[E] \in Nat
    <3> HIDE DEF v, E
    <3> QED
      BY <2>3 DEF Adds
  <2> QED
    BY <2>1, <2>2, <2>4
<1>11. Len(got) = cum
  <2>1. got \in Injection(D, E) /\ got \in Surjection(D, E)
    <3>1. IsInjective(got)
      BY <1>2, <1>4 DEF IsInjective
    <3>2. \A t \in E : \E i \in D : got[i] = t
      BY <1>10 DEF At
    <3> QED
      BY <1>2, <3>1, <3>2 DEF Injection, Surjection
  <2> HIDE DEF D, E
  <2> QED
    BY <1>3, <2>1, FS_Injection
<1> QED
  BY <1>2, <1>10, <1>11 DEF Range, At

Falls(seq) == \A i, j \in DOMAIN seq : i < j => seq[i] > seq[j]

\* Every finite set of trades can be listed from the newest to the oldest.
LEMMA DescendingIs ==
    ASSUME NEW n \in Nat, NEW S \in SUBSET (1..n)
    PROVE  /\ Cardinality(S) \in Nat
           /\ Descending(S) \in [1..Cardinality(S) -> S]
           /\ Falls(Descending(S))
<1> DEFINE Lists(A) == \E seq \in [1..Cardinality(A) -> A] : Falls(seq)
           F == {A \in SUBSET (1..n) : ~Lists(A)}
<1>1. IsFiniteSet(1..n) /\ F \in SUBSET SUBSET (1..n)
  BY FS_Interval
<1>2. \A A \in SUBSET (1..n) : IsFiniteSet(A) /\ Cardinality(A) \in Nat
  BY <1>1, FS_Subset, FS_CardinalityType
<1>3. F = {}
  <2>1. SUFFICES ASSUME F # {} PROVE FALSE
    OBVIOUS
  <2>2. PICK A \in F : \A B \in F : B \subseteq A => B = A
    <3>1. Family(F, 1..n)
      BY <1>1, <2>1 DEF Family
    <3> HIDE DEF F
    <3> QED
      BY <3>1, Minimal
  <2>3. A # {}
    <3>1. Lists({})
      <4> DEFINE none == [i \in 1..0 |-> 0]
      <4>1. none \in [1..Cardinality({}) -> {}] /\ Falls(none)
        BY FS_EmptySet DEF Falls
      <4> QED
        BY <4>1
    <3> QED
      BY <2>2, <3>1
  <2>4. PICK x \in A : \A y \in A : x <= y
    <3>1. A \in SUBSET Nat
      OBVIOUS
    <3> QED
      BY <2>3, <3>1, LeastOf
  <2> DEFINE B == A \ {x}
             k == Cardinality(A)
  <2>5. k \in Nat \ {0} /\ Cardinality(B) = k - 1
    BY <1>2, FS_RemoveElement, FS_EmptySet
  <2>6. PICK seq \in [1..k - 1 -> B] : Falls(seq)
    <3>1. B \in SUBSET (1..n) /\ B \notin F
      BY <2>2
    <3> QED
      BY <2>5, <3>1
  <2> DEFINE next == [i \in 1..k |-> IF i < k THEN seq[i] ELSE x]
  <2>7. next \in [1..k -> A]
    BY <2>5
  <2>8. Falls(next)
    <3>1. ASSUME NEW i \in 1..k, NEW j \in 1..k, i < j PROVE next[i] > next[j]
      <4>1. i \in 1..k - 1 /\ next[i] = seq[i] /\ seq[i] \in B
        BY <2>5, <3>1
      <4>2. CASE j = k
        <5>1. next[j] = x
          BY <2>5, <4>2
        <5>3. x # seq[i] /\ x <= seq[i]
          BY <2>4, <4>1
        <5>2. x \in 1..n /\ seq[i] \in 1..n
          BY <4>1
        <5> QED
          BY <4>1, <5>1, <5>2, <5>3
      <4>3. CASE j # k
        <5>1. j \in 1..k - 1 /\ next[j] = seq[j]
          BY <2>5, <4>3
        <5> QED
          BY <2>6, <3>1, <4>1, <5>1 DEF Falls
      <4> QED
        BY <4>2, <4>3
    <3> QED
      BY <3>1 DEF Falls
  <2> HIDE DEF next
  <2>9. Lists(A)
    BY <2>7, <2>8
  <2> QED
    BY <2>2, <2>9
<1>4. \E seq \in [1..Cardinality(S) -> S] : Falls(seq)
  BY <1>3
<1> QED
  BY <1>2, <1>4 DEF Descending, Falls

-----------------------------------------------------------------------------
(* The wait for the trades of an order.                                    *)

Trades == 1..Len(Quantities)

OrderType ==
    [gen : {1, 2}, executed : 0..Len(Quantities), first : 0..Len(Quantities),
     recorded : SUBSET Trades]
TradesType ==
    [pc : {"idle", "paging", "listed", "sleeping", "returned"}, since : Nat, key : 0..2,
     asked : 0..1, token : {0} \cup Trades, from : 0..2, found : 0..2,
     cum : 0..Len(Quantities), got : Seq(Trades),
     result : {"none", "complete", "timeout", "canceled", "error"}]

TradesTyped == now \in Nat /\ order \in OrderType /\ trades \in TradesType

\* The trades a listing has are of the order that it found, from the newest on;
\* those of a page to come are older, and are asked of that same order.
Listing ==
    /\ order.first <= order.executed
    /\ trades.pc = "paging" /\ trades.token = 0 => trades.got = <<>>
    /\ trades.found # 0 => trades.cum <= CumOf(trades.found)
    /\ \A i \in DOMAIN trades.got : trades.got[i] <= trades.cum
    /\ Falls(trades.got)
    /\ trades.token # 0 =>
          /\ trades.found # 0 /\ trades.from = trades.found
          /\ trades.pc = "paging" => trades.key = trades.found
          /\ \A i \in DOMAIN trades.got : trades.got[i] >= trades.token

Judged ==
    /\ trades.pc # "returned" => trades.result = "none"
    /\ CompleteIsTrue

TradesInv == TradesTyped /\ Listing /\ Judged

LEMMA TradesBegin == TradingInit => TradesInv
<1> SUFFICES ASSUME TradingInit PROVE TradesInv
  OBVIOUS
<1>1. PICK place \in {"idle", "paging"}, k \in {0, 1} :
         /\ now = 0
         /\ order = [gen |-> 1, executed |-> 0, first |-> 0, recorded |-> {}]
         /\ trades = [pc |-> place, since |-> 0, key |-> k, asked |-> k, token |-> 0,
                      from |-> 0, found |-> 0, cum |-> 0, got |-> <<>>, result |-> "none"]
  BY DEF TradingInit, WaitInit, TradesInit
<1>2. Len(Quantities) \in Nat
  BY WaitAssumptions
<1>3. order \in OrderType
  BY <1>1, <1>2 DEF OrderType
<1>4. trades \in TradesType
  BY <1>1, <1>2 DEF TradesType
<1> QED
  BY <1>1, <1>3, <1>4 DEF TradesInv, TradesTyped, Listing, Judged, Falls, CompleteIsTrue

\* What the wait has seen filled stays filled, while the order fills further and
\* when a successor takes its client id.
FillsStay == \A gen \in 1..2 : CumOf(gen) <= CumOf(gen)'

LEMMA OrderGoesOn ==
    ASSUME TradesInv, UNCHANGED <<now, trades>>, order' \in OrderType,
           order'.first <= order'.executed, FillsStay
    PROVE  TradesInv'
<1>1. trades \in TradesType /\ order \in OrderType
  BY DEF TradesInv, TradesTyped
<1>2. trades.found # 0 => trades.cum <= CumOf(trades.found)'
  <2> SUFFICES ASSUME trades.found # 0 PROVE trades.cum <= CumOf(trades.found)'
    OBVIOUS
  <2>1. trades.found \in 1..2 /\ trades.cum <= CumOf(trades.found)
    BY <1>1 DEF TradesType, TradesInv, Listing
  <2>2. CumOf(trades.found) <= CumOf(trades.found)'
    BY <2>1 DEF FillsStay
  <2>3. trades.cum \in Int /\ CumOf(trades.found) \in Int /\ CumOf(trades.found)' \in Int
    BY <1>1 DEF TradesType, OrderType, CumOf
  <2> QED
    BY <2>1, <2>2, <2>3
<1>3. Listing'
  <2>1. (trades.found # 0 => trades.cum <= CumOf(trades.found))'
    BY <1>2 DEF CumOf
  <2> QED
    BY <2>1 DEF TradesInv, Listing, Falls
<1> QED
  BY <1>3 DEF TradesInv, TradesTyped, Judged, CompleteIsTrue

LEMMA OrderMoves ==
    ASSUME TradesInv, Fill \/ Succeed \/ \E t \in DOMAIN Quantities : Record(t)
    PROVE  TradesInv'
<1>1. order \in OrderType /\ UNCHANGED <<now, trades>> /\ order.first <= order.executed
  BY DEF TradesInv, TradesTyped, Listing, Fill, Succeed, Record
<1>2. Len(Quantities) \in Nat /\ DOMAIN Quantities = Trades
  BY WaitAssumptions DEF Trades
<1>3. CASE Fill
  <2>1. /\ order' \in OrderType /\ order'.executed = order.executed + 1
        /\ order'.first = order.first /\ order'.gen = order.gen
    BY <1>1, <1>2, <1>3 DEF Fill, OrderType
  <2>2. FillsStay
    BY <1>1, <2>1 DEF FillsStay, CumOf, OrderType
  <2> QED
    BY <1>1, <2>1, <2>2, OrderGoesOn DEF OrderType
<1>4. CASE Succeed
  <2>1. /\ order' \in OrderType /\ order'.executed = order.executed
        /\ order'.first = order.executed /\ order'.gen = 2 /\ order.gen = 1
    BY <1>1, <1>2, <1>4 DEF Succeed, OrderType
  <2>2. FillsStay
    BY <1>1, <2>1 DEF FillsStay, CumOf, OrderType
  <2> QED
    BY <1>1, <2>1, <2>2, OrderGoesOn DEF OrderType
<1>5. ASSUME NEW t \in DOMAIN Quantities, Record(t) PROVE TradesInv'
  <2>1. order' = [order EXCEPT !.recorded = @ \cup {t}] /\ t \in Trades
    BY <1>2, <1>5 DEF Record
  <2>2. order.recorded \cup {t} \in SUBSET Trades
    BY <1>1, <2>1 DEF OrderType
  <2>3. /\ order' \in OrderType /\ order'.executed = order.executed
        /\ order'.first = order.first /\ order'.gen = order.gen
    BY <1>1, <2>1, <2>2 DEF OrderType
  <2>4. FillsStay
    BY <1>1, <2>3 DEF FillsStay, CumOf, OrderType
  <2> QED
    BY <1>1, <2>3, <2>4, OrderGoesOn DEF OrderType
<1> QED
  BY <1>3, <1>4, <1>5

\* The wait that goes on without a page, or has come to its end, has the listing
\* that it had, or begins the next one.
LEMMA ListingStays ==
    ASSUME TradesInv, UNCHANGED <<now, order>>, trades' \in TradesType,
           UNCHANGED <<trades.token, trades.from, trades.found, trades.cum, trades.got>>,
           trades'.pc \in {"listed", "sleeping", "returned"},
           trades'.pc # "returned" => trades'.result = trades.result /\ trades.pc # "returned",
           trades'.result = "complete" => CompleteIsTrue'
    PROVE  TradesInv'
<1>1. Listing'
  BY DEF TradesInv, Listing, Falls, CumOf
<1>2. Judged'
  BY DEF TradesInv, Judged, CompleteIsTrue
<1> QED
  BY <1>1, <1>2 DEF TradesInv, TradesTyped

LEMMA Absent == TradesInv /\ PageAbsent => TradesInv'
<1> SUFFICES ASSUME TradesInv, PageAbsent PROVE TradesInv'
  OBVIOUS
<1>1. /\ trades \in TradesType /\ trades.pc = "paging" /\ UNCHANGED <<now, order>>
      /\ trades' = [trades EXCEPT !.pc = "listed"] /\ trades.result = "none"
  BY DEF TradesInv, TradesTyped, PageAbsent, Judged
<1>2. /\ trades' \in TradesType /\ trades'.pc = "listed" /\ trades'.result = trades.result
      /\ UNCHANGED <<trades.token, trades.from, trades.found, trades.cum, trades.got>>
  BY <1>1 DEF TradesType
<1> QED
  BY <1>1, <1>2, ListingStays

LEMMA Fails == TradesInv /\ PageFails => TradesInv'
<1> SUFFICES ASSUME TradesInv, PageFails PROVE TradesInv'
  OBVIOUS
<1>1. /\ trades \in TradesType /\ UNCHANGED <<now, order>>
      /\ trades' = [trades EXCEPT !.pc = "returned", !.result = "error"]
  BY DEF TradesInv, TradesTyped, PageFails
<1>2. /\ trades' \in TradesType /\ trades'.pc = "returned" /\ trades'.result = "error"
      /\ UNCHANGED <<trades.token, trades.from, trades.found, trades.cum, trades.got>>
  BY <1>1 DEF TradesType
<1> QED
  BY <1>1, <1>2, ListingStays

\* A listing that amounts to what the order shows as filled is all of its trades.
LEMMA ListingJudged == TradesInv /\ Listed => TradesInv'
<1> SUFFICES ASSUME TradesInv, Listed PROVE TradesInv'
  OBVIOUS
<1>1. /\ trades \in TradesType /\ trades.pc = "listed" /\ UNCHANGED <<now, order>>
      /\ now \in Nat /\ trades.result = "none"
  BY DEF TradesInv, TradesTyped, Listed, Judged
<1>2. CASE /\ TradesComplete(trades.found, trades.cum, trades.got)
           /\ trades' = [trades EXCEPT !.pc = "returned", !.result = "complete"]
  <2>1. /\ trades' \in TradesType /\ trades'.pc = "returned" /\ trades'.result = "complete"
        /\ UNCHANGED <<trades.token, trades.from, trades.found, trades.cum, trades.got>>
    BY <1>1, <1>2 DEF TradesType
  <2>2. /\ trades.cum \in 0..Len(Quantities) /\ trades.got \in Seq(1..trades.cum)
        /\ \A i, j \in DOMAIN trades.got : i < j => trades.got[i] > trades.got[j]
    <3>1. trades.cum \in 0..Len(Quantities) /\ trades.got \in Seq(Trades)
      BY <1>1 DEF TradesType
    <3>2. \A i \in DOMAIN trades.got : trades.got[i] \in 1..trades.cum
      BY <3>1 DEF TradesInv, Listing, Trades
    <3> QED
      BY <3>1, <3>2 DEF TradesInv, Listing, Falls
  <2>3. QuantityOf(trades.got) = QuantityOf([t \in 1..trades.cum |-> t])
    BY <1>2 DEF TradesComplete
  <2>4. Len(trades.got) = trades.cum /\ Range(trades.got) = 1..trades.cum
    BY <2>2, <2>3, AmountTells
  <2>5. CompleteIsTrue'
    BY <2>1, <2>4 DEF CompleteIsTrue
  <2> QED
    BY <1>1, <2>1, <2>5, ListingStays
<1>3. CASE trades' = [trades EXCEPT !.pc = "returned", !.result = "timeout"]
  <2>1. /\ trades' \in TradesType /\ trades'.pc = "returned" /\ trades'.result = "timeout"
        /\ UNCHANGED <<trades.token, trades.from, trades.found, trades.cum, trades.got>>
    BY <1>1, <1>3 DEF TradesType
  <2> QED
    BY <1>1, <2>1, ListingStays
<1>4. CASE trades' = [trades EXCEPT !.pc = "sleeping", !.since = now]
  <2>1. /\ trades' \in TradesType /\ trades'.pc = "sleeping" /\ trades'.result = trades.result
        /\ UNCHANGED <<trades.token, trades.from, trades.found, trades.cum, trades.got>>
    BY <1>1, <1>4 DEF TradesType
  <2> QED
    BY <1>1, <2>1, ListingStays
<1> QED
  BY <1>2, <1>3, <1>4 DEF Listed

LEMMA NextListing == TradesInv /\ TradesWake => TradesInv'
<1> SUFFICES ASSUME TradesInv, TradesWake PROVE TradesInv'
  OBVIOUS
<1>1. /\ trades \in TradesType /\ trades.pc = "sleeping" /\ UNCHANGED <<now, order>>
      /\ now \in Nat /\ trades.result = "none"
  BY DEF TradesInv, TradesTyped, TradesWake, Judged
<1>2. CASE trades' = [trades EXCEPT !.pc = "returned", !.result = "canceled"]
  <2>1. /\ trades' \in TradesType /\ trades'.pc = "returned" /\ trades'.result = "canceled"
        /\ UNCHANGED <<trades.token, trades.from, trades.found, trades.cum, trades.got>>
    BY <1>1, <1>2 DEF TradesType
  <2> QED
    BY <1>1, <2>1, ListingStays
<1>3. CASE trades' = [trades EXCEPT !.pc = "paging", !.since = now, !.key = trades.asked,
                                    !.token = 0, !.from = 0, !.found = 0, !.cum = 0, !.got = <<>>]
  <2>1. trades' \in TradesType
    <3>1. <<>> \in Seq(Trades) /\ 0 \in 0..Len(Quantities) /\ 0 \in {0} \cup Trades
      BY WaitAssumptions
    <3>2. trades.asked \in 0..2
      BY <1>1 DEF TradesType
    <3>3. /\ now \in Nat /\ trades.asked \in 0..1
          /\ trades.result \in {"none", "complete", "timeout", "canceled", "error"}
          /\ trades' = [pc |-> "paging", since |-> now, key |-> trades.asked,
                        asked |-> trades.asked, token |-> 0, from |-> 0, found |-> 0,
                        cum |-> 0, got |-> <<>>, result |-> trades.result]
      BY <1>1, <1>3 DEF TradesType
    <3> QED
      BY <3>1, <3>2, <3>3 DEF TradesType
  <2>2. /\ trades'.found = 0 /\ trades'.got = <<>> /\ trades'.token = 0
        /\ trades'.result = "none"
    BY <1>1, <1>3 DEF TradesType
  <2> QED
    BY <1>1, <2>1, <2>2 DEF TradesInv, TradesTyped, Listing, Falls, Judged, CompleteIsTrue
<1> QED
  BY <1>2, <1>3 DEF TradesWake

-----------------------------------------------------------------------------
(* A page.                                                                 *)

\* A page that more follow has an oldest trade; one that none follows may be empty.
LEMMA PageIs ==
    ASSUME NEW rest \in SUBSET Trades
    PROVE  /\ Newest(rest, TradesPage) \in SUBSET rest
           /\ Newest(rest, TradesPage) # rest =>
                 /\ Min(Newest(rest, TradesPage)) \in Newest(rest, TradesPage)
                 /\ \A t \in Newest(rest, TradesPage) : t >= Min(Newest(rest, TradesPage))
<1> DEFINE P == Newest(rest, TradesPage)
<1>1. P \in SUBSET rest
  BY DEF Newest
<1>2. Len(Quantities) \in Nat /\ TradesPage \in Nat \ {0}
  BY WaitAssumptions
<1>3. ASSUME P # rest PROVE P # {}
  <2>1. rest # {} /\ rest \in SUBSET (0..Len(Quantities))
    BY <1>1, <1>2, <1>3 DEF Trades
  <2>2. PICK t \in rest : \A u \in rest : u <= t
    BY <1>2, <2>1, GreatestOf
  <2>3. {u \in rest : u > t} = {}
    <3>1. \A u \in rest : u \in Nat /\ t \in Nat /\ u <= t
      BY <1>2, <2>1, <2>2
    <3> QED
      BY <3>1
  <2>4. Cardinality({u \in rest : u > t}) = 0
    BY <2>3, FS_EmptySet
  <2> QED
    BY <1>2, <2>4 DEF Newest
<1>4. ASSUME P # rest PROVE Min(P) \in P /\ \A t \in P : t >= Min(P)
  <2>1. P \in SUBSET Nat
    <3>1. Trades \in SUBSET Nat
      BY <1>2 DEF Trades
    <3> HIDE DEF P
    <3> QED
      BY <1>1, <3>1
  <2>2. \E x \in P : \A y \in P : x <= y
    <3> HIDE DEF P
    <3> QED
      BY <1>3, <1>4, <2>1, LeastOf
  <2>3. Min(P) \in P /\ \A t \in P : Min(P) <= t
    <3> HIDE DEF P
    <3> QED
      BY <2>2 DEF Min
  <2> QED
    BY <2>1, <2>3
<1> QED
  BY <1>1, <1>4

\* A list of newer trades, and then one of older trades.
LEMMA FallsOn ==
    ASSUME NEW a \in Seq(Trades), NEW b \in Seq(Trades), Falls(a), Falls(b),
           \A i \in DOMAIN a : \A j \in DOMAIN b : a[i] > b[j]
    PROVE  Falls(a \o b)
<1>1. Len(Quantities) \in Nat /\ Len(a) \in Nat /\ Len(b) \in Nat
  BY WaitAssumptions
<1>2. DOMAIN (a \o b) = 1..(Len(a) + Len(b))
  BY <1>1
<1>3. ASSUME NEW i \in DOMAIN (a \o b), NEW j \in DOMAIN (a \o b), i < j
      PROVE  (a \o b)[i] > (a \o b)[j]
  <2>1. i \in Nat /\ j \in Nat /\ i >= 1 /\ j <= Len(a) + Len(b)
    BY <1>1, <1>2
  <2>2. CASE j <= Len(a)
    <3>1. i \in DOMAIN a /\ j \in DOMAIN a /\ (a \o b)[i] = a[i] /\ (a \o b)[j] = a[j]
      BY <1>1, <1>3, <2>1, <2>2
    <3> QED
      BY <1>3, <3>1 DEF Falls
  <2>3. CASE i <= Len(a) /\ j > Len(a)
    <3>1. i \in DOMAIN a /\ (a \o b)[i] = a[i]
      BY <1>1, <2>1, <2>3
    <3>2. j - Len(a) \in DOMAIN b /\ (a \o b)[j] = b[j - Len(a)]
      BY <1>1, <2>1, <2>3
    <3> QED
      BY <3>1, <3>2
  <2>4. CASE i > Len(a)
    <3>1. i - Len(a) \in DOMAIN b /\ (a \o b)[i] = b[i - Len(a)]
      BY <1>1, <1>3, <2>1, <2>4
    <3>2. j - Len(a) \in DOMAIN b /\ (a \o b)[j] = b[j - Len(a)]
      BY <1>1, <1>3, <2>1, <2>4
    <3>3. i - Len(a) < j - Len(a)
      BY <1>1, <1>3, <2>1
    <3> QED
      BY <3>1, <3>2, <3>3 DEF Falls
  <2> QED
    BY <1>1, <2>1, <2>2, <2>3, <2>4
<1> QED
  BY <1>3 DEF Falls

LEMMA PageRead == TradesInv /\ PageArrives => TradesInv'
<1> SUFFICES ASSUME TradesInv, PageArrives PROVE TradesInv'
  OBVIOUS
<1>0. PICK gen : gen = IF trades.key = 0 THEN order.gen ELSE trades.key
  OBVIOUS
<1> DEFINE rest == Older(gen, trades.token)
           proper == Newest(rest, TradesPage)
           cursor == IF proper = rest THEN 0 ELSE Min(proper)
           more == Descending(proper)
<1>1. /\ trades \in TradesType /\ order \in OrderType /\ now \in Nat
      /\ trades.pc = "paging" /\ UNCHANGED <<now, order>> /\ trades.result = "none"
  BY DEF TradesInv, TradesTyped, PageArrives, Judged
<1>2. gen \in 1..2 /\ (trades.token # 0 => gen = trades.found /\ gen = trades.from)
  BY <1>0, <1>1 DEF TradesType, OrderType, TradesInv, Listing
<1>3. Len(Quantities) \in Nat /\ CumOf(gen) \in 0..Len(Quantities) /\ CumOf(gen)' = CumOf(gen)
  BY <1>1, <1>2, WaitAssumptions DEF CumOf, OrderType
<1>4. trades' = [trades EXCEPT !.key = gen, !.from = gen, !.found = gen, !.cum = CumOf(gen),
                               !.got = trades.got \o more, !.token = cursor, !.since = now,
                               !.pc = IF cursor = 0 THEN "listed" ELSE "paging"]
  <2>1. Pages(gen) = {<<proper, cursor>>}
    BY <1>2 DEF Pages
  <2> HIDE DEF proper, cursor
  <2>2. PICK page \in Pages(gen) :
           trades' = [trades EXCEPT !.key = gen, !.from = gen, !.found = gen,
                                    !.cum = CumOf(gen), !.got = @ \o Descending(page[1]),
                                    !.token = page[2], !.since = now,
                                    !.pc = IF page[2] = 0 THEN "listed" ELSE "paging"]
    BY <1>0 DEF PageArrives, Pinned
  <2>3. page[1] = proper /\ page[2] = cursor
    BY <2>1, <2>2
  <2> QED
    BY <2>2, <2>3
<1>5. /\ rest \in SUBSET Trades /\ \A t \in rest : t <= CumOf(gen)
      /\ trades.token # 0 => \A t \in rest : t < trades.token
  BY <1>1 DEF Older, OrderType
<1>6. proper \in SUBSET rest /\ (cursor # 0 => cursor \in proper /\ \A t \in proper : t >= cursor)
  BY <1>5, PageIs
<1>7. cursor \in {0} \cup Trades
  BY <1>5, <1>6
<1>8. /\ more \in Seq(Trades) /\ Falls(more)
      /\ \A j \in DOMAIN more : more[j] \in proper
  <2>1. proper \in SUBSET (1..Len(Quantities))
    BY <1>5, <1>6 DEF Trades
  <2>2. Cardinality(proper) \in Nat /\ more \in [1..Cardinality(proper) -> proper] /\ Falls(more)
    <3> HIDE DEF proper
    <3> QED
      BY <1>3, <2>1, DescendingIs
  <2>3. more \in [1..Cardinality(proper) -> Trades]
    <3> HIDE DEF proper, more
    <3> QED
      BY <2>1, <2>2 DEF Trades
  <2> HIDE DEF proper, more
  <2> QED
    BY <2>2, <2>3
<1> HIDE DEF rest, proper, cursor, more
<1>9. trades.got \in Seq(Trades)
  BY <1>1 DEF TradesType
<1>10. trades' \in TradesType
  <2>1. trades.got \o more \in Seq(Trades)
    BY <1>8, <1>9
  <2>2. gen \in 0..2
    BY <1>2
  <2> QED
    BY <1>1, <1>3, <1>4, <1>7, <2>1, <2>2 DEF TradesType
<1>11. /\ trades'.key = gen /\ trades'.from = gen /\ trades'.found = gen
       /\ trades'.cum = CumOf(gen) /\ trades'.got = trades.got \o more /\ trades'.token = cursor
       /\ trades'.result = trades.result /\ trades'.pc = IF cursor = 0 THEN "listed" ELSE "paging"
  BY <1>1, <1>4 DEF TradesType
\* What was listed before this page is newer than what is on it.
<1>12. ASSUME NEW i \in DOMAIN trades.got
       PROVE  /\ trades.token # 0 /\ trades.got[i] >= trades.token
              /\ trades.got[i] <= CumOf(gen) /\ trades.got[i] \in Nat
  <2>1. trades.token # 0
    BY <1>1, <1>12 DEF TradesInv, Listing
  <2>2. trades.cum <= CumOf(gen)
    BY <1>2, <2>1 DEF TradesInv, Listing
  <2>3. trades.got[i] <= trades.cum /\ trades.got[i] >= trades.token
    BY <2>1 DEF TradesInv, Listing
  <2>4. trades.cum \in Nat /\ trades.got[i] \in Nat
    BY <1>1, <1>3, <1>9 DEF TradesType, Trades
  <2> QED
    BY <1>3, <2>1, <2>2, <2>3, <2>4
<1>13. ASSUME NEW j \in DOMAIN more
       PROVE  /\ more[j] \in Nat /\ more[j] <= CumOf(gen)
              /\ trades.token # 0 => more[j] < trades.token
              /\ cursor # 0 => more[j] >= cursor
  <2>1. more[j] \in proper /\ more[j] \in rest /\ more[j] \in Trades
    BY <1>5, <1>6, <1>8
  <2>2. more[j] \in Nat
    BY <1>3, <2>1 DEF Trades
  <2> QED
    BY <1>5, <1>6, <2>1, <2>2
<1>14. \A i \in DOMAIN trades.got : \A j \in DOMAIN more : trades.got[i] > more[j]
  <2> TAKE i \in DOMAIN trades.got
  <2> TAKE j \in DOMAIN more
  <2>1. trades.token \in Nat
    BY <1>1, <1>3 DEF TradesType, Trades
  <2> QED
    BY <1>12, <1>13, <2>1
<1>15. Falls(trades'.got)
  <2>1. Falls(trades.got)
    BY DEF TradesInv, Listing
  <2> QED
    BY <1>8, <1>9, <1>11, <1>14, <2>1, FallsOn
<1>16. \A i \in DOMAIN trades'.got :
          trades'.got[i] <= CumOf(gen) /\ (cursor # 0 => trades'.got[i] >= cursor)
  <2> TAKE k \in DOMAIN trades'.got
  <2>1. \/ \E i \in DOMAIN trades.got : trades'.got[k] = trades.got[i]
        \/ \E j \in DOMAIN more : trades'.got[k] = more[j]
    <3>1. Len(trades.got) \in Nat /\ Len(more) \in Nat /\ trades'.got = trades.got \o more
      BY <1>8, <1>9, <1>11
    <3>2. k \in 1..(Len(trades.got) + Len(more))
      BY <1>8, <1>9, <3>1
    <3>3. CASE k <= Len(trades.got)
      BY <1>8, <1>9, <3>1, <3>2, <3>3
    <3>4. CASE k > Len(trades.got)
      <4>1. k - Len(trades.got) \in DOMAIN more /\ trades'.got[k] = more[k - Len(trades.got)]
        BY <1>8, <1>9, <3>1, <3>2, <3>4
      <4> QED
        BY <4>1
    <3> QED
      BY <3>1, <3>2, <3>3, <3>4
  <2>2. CASE \E i \in DOMAIN trades.got : trades'.got[k] = trades.got[i]
    <3>1. PICK i \in DOMAIN trades.got : trades'.got[k] = trades.got[i]
      BY <2>2
    <3>2. trades.got[i] <= CumOf(gen) /\ trades.got[i] >= trades.token /\ trades.token # 0
      BY <1>12
    <3>3. cursor # 0 => cursor < trades.token
      BY <1>5, <1>6, <3>2
    <3>4. cursor \in Nat /\ trades.token \in Nat /\ trades.got[i] \in Nat
      BY <1>1, <1>3, <1>7, <1>12 DEF TradesType, Trades
    <3> QED
      BY <3>1, <3>2, <3>3, <3>4
  <2>3. CASE \E j \in DOMAIN more : trades'.got[k] = more[j]
    BY <1>13, <2>3
  <2> QED
    BY <2>1, <2>2, <2>3
<1>17. (trades.cum <= CumOf(trades.found))'
  <2>1. trades'.cum <= CumOf(gen)'
    BY <1>3, <1>11
  <2> QED
    BY <1>11, <2>1 DEF CumOf
<1>18. Listing'
  <2>1. (trades.found # 0 => trades.cum <= CumOf(trades.found))'
    BY <1>17
  <2>2. order'.first <= order'.executed
    BY <1>1 DEF TradesInv, Listing
  <2>3. trades'.found # 0
    BY <1>2, <1>11
  <2> QED
    BY <1>11, <1>15, <1>16, <2>1, <2>2, <2>3 DEF Listing, Falls
<1>19. Judged'
  BY <1>1, <1>11 DEF Judged, CompleteIsTrue
<1> QED
  BY <1>1, <1>10, <1>18, <1>19 DEF TradesInv, TradesTyped

LEMMA TradesStep == TradesInv /\ [WaitNext]_waitVars => TradesInv'
<1> SUFFICES ASSUME TradesInv, [WaitNext]_waitVars PROVE TradesInv'
  OBVIOUS
<1>1. CASE TradesCaller
  BY <1>1, PageRead, Absent, Fails, ListingJudged, NextListing DEF TradesCaller
<1>2. CASE Fill \/ Succeed \/ \E t \in DOMAIN Quantities : Record(t)
  BY <1>2, OrderMoves
<1>3. CASE UNCHANGED <<order, trades>> /\ now' \in Nat
  <2>1. Listing'
    BY <1>3 DEF TradesInv, Listing, Falls, CumOf
  <2> QED
    BY <1>3, <2>1 DEF TradesInv, TradesTyped, Judged, CompleteIsTrue
<1>4. CASE BatchCaller \/ Cancel \/ BatchAppears \/ \E i \in Items : ItemMoves(i)
  <2>1. UNCHANGED <<now, order, trades>>
    BY <1>4 DEF BatchCaller, StatusAnswered, StatusRead, WaitWakes, Cancel, BatchAppears, ItemMoves
  <2> QED
    BY <1>3, <2>1 DEF TradesInv, TradesTyped
<1>5. CASE Tick
  <2>1. UNCHANGED <<order, trades>> /\ now' = now + 1 /\ now \in Nat
    BY <1>5 DEF Tick, TradesInv, TradesTyped
  <2> QED
    BY <1>3, <2>1
<1>6. CASE UNCHANGED waitVars
  BY <1>3, <1>6 DEF waitVars, TradesInv, TradesTyped
<1> QED
  BY <1>1, <1>2, <1>4, <1>5, <1>6 DEF WaitNext

LEMMA TradesInductive == TradingSpec => []TradesInv
<1>1. TradesInv /\ [TradingNext]_<<op, vars, waitVars>> => TradesInv'
  <2> SUFFICES ASSUME TradesInv, [TradingNext]_<<op, vars, waitVars>> PROVE TradesInv'
    OBVIOUS
  <2>1. [WaitNext]_waitVars
    BY DEF TradingNext
  <2> QED
    BY <2>1, TradesStep
<1> QED
  BY <1>1, TradesBegin, PTL DEF TradingSpec

\* A wait that succeeds tells the truth of a state that lasts: a batch reported as
\* settled is, and trades reported as complete are all of the order's, each once,
\* however many pages they came in and whatever was filled, recorded late or
\* replaced while they were read (WaitBatchReplace, WaitForOrderTradesComplete).
THEOREM WaitsTellTheTruth == TradingSpec => []ResultsAreTrue
<1>1. TradesInv => CompleteIsTrue
  BY DEF TradesInv, Judged
<1> QED
  BY <1>1, TradesInductive, SettledStaysTrue, PTL DEF ResultsAreTrue

-----------------------------------------------------------------------------
(* Multiples and powers of ten.                                            *)

LEMMA MultipleIs ==
    ASSUME NEW q \in Nat, NEW m \in Nat \ {0}
    PROVE  (q * m) \div m = q /\ (q * m) % m = 0
OBVIOUS

LEMMA MultipleOf ==
    ASSUME NEW x \in Nat, NEW m \in Nat \ {0}, x % m = 0
    PROVE  x \div m \in Nat /\ x = (x \div m) * m
<1>1. x \div m \in Int /\ x = m * (x \div m) + (x % m)
  OBVIOUS
<1>2. x = m * (x \div m)
  BY <1>1
<1>3. x \div m >= 0
  <2>1. SUFFICES ASSUME x \div m <= -1 PROVE FALSE
    BY <1>1
  <2> DEFINE q == x \div m
  <2>2. q \in Int /\ q <= -1 /\ x = m * q
    BY <1>1, <1>2, <2>1
  <2> HIDE DEF q
  <2> QED
    BY <2>2
<1> QED
  BY <1>1, <1>2, <1>3

LEMMA Cancels ==
    ASSUME NEW a \in Nat, NEW b \in Nat, NEW m \in Nat \ {0}, a * m = b * m
    PROVE  a = b
OBVIOUS

\* The powers of ten: a function right up to every number is one on all of them.
LEMMA TenIs == Ten[0] = 1 /\ \A k \in Nat : Ten[k + 1] = 10 * Ten[k]
<1> DEFINE Step(h, k) == IF k = 0 THEN 1 ELSE 10 * h[k - 1]
           Upto(n, h) == \A k \in Nat : k <= n => h[k] = Step(h, k)
           N == {n \in Nat : ~ \E h : Upto(n, h)}
<1>1. N = {}
  <2>1. SUFFICES ASSUME N # {} PROVE FALSE
    OBVIOUS
  <2>2. PICK n \in N : \A m \in N : n <= m
    <3>1. N \in SUBSET Nat
      OBVIOUS
    <3> HIDE DEF N
    <3> QED
      BY <2>1, <3>1, LeastOf
  <2>3. n # 0
    <3>1. Upto(0, [k \in Nat |-> 1])
      OBVIOUS
    <3> QED
      BY <2>2, <3>1
  <2>4. n \in Nat /\ n - 1 \in Nat /\ n - 1 \notin N
    <3>1. n \in Nat
      OBVIOUS
    <3> HIDE DEF N
    <3> QED
      BY <2>2, <2>3, <3>1
  <2>5. PICK h : Upto(n - 1, h)
    BY <2>4
  <2> DEFINE h1 == [k \in Nat |-> IF k < n THEN h[k] ELSE Step(h, k)]
  <2>6. ASSUME NEW k \in Nat, k <= n PROVE h1[k] = Step(h1, k)
    <3>1. k # 0 => k - 1 \in Nat /\ h1[k - 1] = h[k - 1]
      BY <2>4, <2>6
    <3>2. h1[k] = Step(h, k)
      BY <2>4, <2>5, <2>6
    <3> HIDE DEF h1
    <3> QED
      BY <3>1, <3>2
  <2> HIDE DEF h1
  <2>7. Upto(n, h1)
    BY <2>6
  <2> QED
    BY <2>2, <2>7
<1>2. \A n \in Nat : \E h : Upto(n, h)
  BY <1>1
<1> DEFINE U(n) == CHOOSE h : Upto(n, h)
<1>3. \A n \in Nat : Upto(n, U(n))
  BY <1>2
\* Two that are right up to a number agree up to it.
<1>4. ASSUME NEW n \in Nat, NEW m \in Nat, n <= m, NEW h, NEW f, Upto(n, h), Upto(m, f)
      PROVE  h[n] = f[n]
  <2> DEFINE D == {k \in Nat : k <= n /\ h[k] # f[k]}
  <2>1. SUFFICES ASSUME D # {} PROVE FALSE
    OBVIOUS
  <2>2. PICK k \in D : \A j \in D : k <= j
    <3>1. D \in SUBSET Nat
      OBVIOUS
    <3> HIDE DEF D
    <3> QED
      BY <2>1, <3>1, LeastOf
  <2>3. k \in Nat /\ k <= n /\ h[k] # f[k] /\ k <= m
    BY <1>4
  <2>4. h[k] = Step(h, k) /\ f[k] = Step(f, k)
    BY <1>4, <2>3
  <2>5. k # 0
    BY <2>3, <2>4
  <2>6. k - 1 \in Nat /\ k - 1 \notin D
    BY <2>2, <2>3, <2>5
  <2>7. h[k - 1] = f[k - 1]
    BY <2>3, <2>6
  <2> QED
    BY <2>3, <2>4, <2>7
<1> DEFINE g == [n \in Nat |-> U(n)[n]]
<1>5. g = [k \in Nat |-> Step(g, k)]
  <2>1. ASSUME NEW k \in Nat PROVE g[k] = Step(g, k)
    <3>1. g[k] = Step(U(k), k)
      BY <1>3
    <3>2. k # 0 => k - 1 \in Nat /\ g[k - 1] = U(k)[k - 1]
      <4> SUFFICES ASSUME k # 0 PROVE k - 1 \in Nat /\ g[k - 1] = U(k)[k - 1]
        OBVIOUS
      <4>1. k - 1 \in Nat /\ k - 1 <= k
        OBVIOUS
      <4>2. Upto(k - 1, U(k - 1)) /\ Upto(k, U(k))
        BY <1>3, <4>1
      <4> HIDE DEF Upto, U
      <4> QED
        BY <1>4, <4>1, <4>2
    <3> HIDE DEF g, U
    <3> QED
      BY <3>1, <3>2
  <2>2. g = [n \in Nat |-> g[n]]
    OBVIOUS
  <2> HIDE DEF g
  <2> QED
    BY <2>1, <2>2
<1>6. Ten = [k \in Nat |-> Step(Ten, k)]
  <2> HIDE DEF g
  <2>1. \E h : h = [k \in Nat |-> Step(h, k)]
    BY <1>5
  <2> QED
    BY <2>1 DEF Ten
<1> QED
  BY <1>6

LEMMA TenType == \A k \in Nat : Ten[k] \in Nat \ {0}
<1> DEFINE N == {k \in Nat : Ten[k] \notin Nat \ {0}}
<1>1. SUFFICES ASSUME N # {} PROVE FALSE
  OBVIOUS
<1>2. PICK k \in N : \A j \in N : k <= j
  <2>1. N \in SUBSET Nat
    OBVIOUS
  <2> HIDE DEF N
  <2> QED
    BY <1>1, <2>1, LeastOf
<1>3. k \in Nat /\ Ten[k] \notin Nat \ {0}
  OBVIOUS
<1>4. k # 0
  BY <1>3, TenIs
<1>5. k - 1 \in Nat /\ k - 1 \notin N
  <2> HIDE DEF N
  <2> QED
    BY <1>2, <1>3, <1>4
<1>6. Ten[k - 1] \in Nat \ {0}
  BY <1>5
<1>7. Ten[k] = 10 * Ten[k - 1]
  <2>1. (k - 1) + 1 = k
    BY <1>3
  <2> QED
    BY <1>5, <2>1, TenIs
<1> QED
  BY <1>3, <1>6, <1>7

LEMMA TenSum == \A a, b \in Nat : Ten[a + b] = Ten[a] * Ten[b]
<1> SUFFICES ASSUME NEW a \in Nat PROVE \A b \in Nat : Ten[a + b] = Ten[a] * Ten[b]
  OBVIOUS
<1> DEFINE N == {k \in Nat : Ten[a + k] # Ten[a] * Ten[k]}
<1>1. SUFFICES ASSUME N # {} PROVE FALSE
  OBVIOUS
<1>2. PICK k \in N : \A j \in N : k <= j
  <2>1. N \in SUBSET Nat
    OBVIOUS
  <2> HIDE DEF N
  <2> QED
    BY <1>1, <2>1, LeastOf
<1>3. k \in Nat /\ Ten[a + k] # Ten[a] * Ten[k]
  OBVIOUS
<1>4. k # 0
  BY <1>3, TenIs, TenType
<1>5. k - 1 \in Nat /\ k - 1 \notin N
  <2> HIDE DEF N
  <2> QED
    BY <1>2, <1>3, <1>4
<1>6. Ten[a + (k - 1)] = Ten[a] * Ten[k - 1]
  BY <1>5
<1>7. Ten[k] = 10 * Ten[k - 1] /\ Ten[a + k] = 10 * Ten[a + (k - 1)]
  <2>1. (k - 1) + 1 = k /\ (a + (k - 1)) + 1 = a + k /\ a + (k - 1) \in Nat
    BY <1>3, <1>5
  <2> QED
    BY <1>5, <2>1, TenIs
<1>8. Ten[a] \in Nat /\ Ten[k - 1] \in Nat
  BY <1>5, TenType
<1>9. Ten[a + k] = Ten[a] * Ten[k]
  <2>1. 10 * (Ten[a] * Ten[k - 1]) = Ten[a] * (10 * Ten[k - 1])
    BY <1>8
  <2> QED
    BY <1>6, <1>7, <2>1
<1> QED
  BY <1>3, <1>9


-----------------------------------------------------------------------------
(* Decimals (ScaledAmounts).                                               *)

Decimal == [n : Nat, f : Nat]

\* v is the decimal at a scale, with no remainder.
Equals(d, scale, v) == v \in Nat /\ v * Ten[d.f] = d.n * Ten[scale]

LEMMA IsOne ==
    ASSUME NEW d \in Decimal, NEW scale \in Nat, NEW u, NEW v, Equals(d, scale, u), Equals(d, scale, v)
    PROVE  u = v
<1>1. Ten[d.f] \in Nat \ {0}
  BY TenType DEF Decimal
<1>2. u \in Nat /\ v \in Nat /\ u * Ten[d.f] = v * Ten[d.f]
  BY DEF Equals
<1> QED
  BY <1>1, <1>2, Cancels

\* Without its trailing zeros a decimal is the same, and has no more places than
\* one that is scaled by less.
LEMMA TrimIs ==
    ASSUME NEW d \in Decimal, NEW t, t = TrimTrailingFracZeros(d)
    PROVE  /\ t \in Decimal /\ t.f <= d.f
           /\ d.n = t.n * Ten[d.f - t.f]
           /\ \A j \in Nat : j < t.f => d.n % Ten[d.f - j] # 0
<1> DEFINE Zeros(k) == d.n % Ten[d.f - k] = 0
           K == {k \in 0..d.f : Zeros(k)}
           First(k) == Zeros(k) /\ \A j \in 0..(k - 1) : ~Zeros(j)
           f == CHOOSE k \in 0..d.f : First(k)
<1>1. d.n \in Nat /\ d.f \in Nat
  BY DEF Decimal
<1>2. d.f \in K
  <2>1. d.f - d.f = 0 /\ Ten[0] = 1 /\ d.n % 1 = 0 /\ d.f \in 0..d.f
    BY <1>1, TenIs
  <2> QED
    BY <2>1
<1>3. PICK k \in K : \A j \in K : k <= j
  <2>1. K \in SUBSET Nat /\ K # {}
    BY <1>1, <1>2
  <2> HIDE DEF K
  <2> QED
    BY <2>1, LeastOf
<1>4. k \in 0..d.f /\ First(k)
  <2>1. k \in 0..d.f /\ Zeros(k)
    OBVIOUS
  <2>2. ASSUME NEW j \in 0..(k - 1) PROVE ~Zeros(j)
    <3>1. j \in 0..d.f /\ ~(k <= j)
      BY <1>1, <2>1
    <3>2. j \notin K
      <4> HIDE DEF K
      <4> QED
        BY <1>3, <3>1
    <3> QED
      BY <3>1, <3>2
  <2> QED
    BY <2>1, <2>2
<1>5. f \in 0..d.f /\ First(f)
  <2> HIDE DEF First
  <2> QED
    BY <1>4
<1>6. t = [n |-> d.n \div Ten[d.f - f], f |-> f]
  BY DEF TrimTrailingFracZeros
<1> HIDE DEF f
<1>7. d.f - f \in Nat /\ Ten[d.f - f] \in Nat \ {0} /\ d.n % Ten[d.f - f] = 0
  BY <1>1, <1>5, TenType
<1>8. d.n \div Ten[d.f - f] \in Nat /\ d.n = (d.n \div Ten[d.f - f]) * Ten[d.f - f]
  BY <1>1, <1>7, MultipleOf
<1>9. t.f = f /\ t.n = d.n \div Ten[d.f - f] /\ t \in Decimal
  BY <1>1, <1>5, <1>6, <1>8 DEF Decimal
<1>10. \A j \in Nat : j < f => ~Zeros(j)
  <2> TAKE j \in Nat
  <2>1. j < f => j \in 0..(f - 1)
    BY <1>1, <1>5
  <2> HIDE DEF Zeros
  <2> QED
    BY <1>5, <2>1
<1> QED
  BY <1>1, <1>5, <1>8, <1>9, <1>10

\* A decimal is scaled to the integer it is, and refused only if it is none.
LEMMA ToScaled ==
    ASSUME NEW d \in Decimal, NEW scale \in 0..MaxScale
    PROVE  \/ Equals(d, scale, DecimalToScaled(d, scale))
           \/ DecimalToScaled(d, scale) = Invalid /\ \A v : ~Equals(d, scale, v)
<1>0. scale \in Nat /\ scale <= MaxScale /\ MaxScale \in Nat
  BY AmountAssumptions
<1>1. PICK t : t = TrimTrailingFracZeros(d)
  OBVIOUS
<1>2. /\ t.n \in Nat /\ t.f \in Nat /\ t.f <= d.f /\ d.n \in Nat /\ d.f \in Nat
      /\ d.n = t.n * Ten[d.f - t.f]
      /\ \A j \in Nat : j < t.f => d.n % Ten[d.f - j] # 0
  <2>1. t \in Decimal
    BY <1>1, TrimIs
  <2> QED
    BY <1>1, <2>1, TrimIs DEF Decimal
<1>3. CASE t.f <= scale
  <2> DEFINE a == Ten[scale - t.f]
             b == Ten[t.f]
             c == Ten[d.f - t.f]
  <2>1. DecimalToScaled(d, scale) = t.n * a
    BY <1>0, <1>1, <1>2, <1>3 DEF DecimalToScaled
  <2>2. scale - t.f \in Nat /\ d.f - t.f \in Nat
    BY <1>0, <1>2, <1>3
  <2>3. a \in Nat /\ b \in Nat /\ c \in Nat
    BY <1>2, <2>2, TenType
  <2>4. Ten[scale] = a * b
    <3>1. (scale - t.f) + t.f = scale
      BY <1>0, <1>2
    <3> QED
      BY <1>2, <2>2, <3>1, TenSum
  <2>5. Ten[d.f] = b * c
    <3>1. t.f + (d.f - t.f) = d.f
      BY <1>2
    <3>2. Ten[t.f + (d.f - t.f)] = b * c
      BY <1>2, <2>2, TenSum
    <3> HIDE DEF b, c
    <3> QED
      BY <3>1, <3>2
  <2>6. (t.n * a) * (b * c) = (t.n * c) * (a * b) /\ t.n * a \in Nat
    <3> HIDE DEF a, b, c
    <3> QED
      BY <1>2, <2>3
  <2> QED
    BY <1>2, <2>1, <2>4, <2>5, <2>6 DEF Equals
<1>4. CASE t.f > scale
  <2>1. DecimalToScaled(d, scale) = Invalid
    BY <1>0, <1>1, <1>2, <1>4 DEF DecimalToScaled
  <2>2. ASSUME NEW v, Equals(d, scale, v) PROVE FALSE
    <3> DEFINE a == Ten[scale]
               c == Ten[d.f - scale]
    <3>1. d.f - scale \in Nat /\ scale + (d.f - scale) = d.f
      BY <1>0, <1>2, <1>4
    <3>2. a \in Nat \ {0} /\ c \in Nat \ {0} /\ Ten[d.f] = a * c
      BY <1>0, <3>1, TenType, TenSum
    <3>3. v \in Nat /\ v * (a * c) = d.n * a
      BY <2>2, <3>2 DEF Equals
    <3>4. d.n = v * c
      <4> HIDE DEF a, c
      <4>1. (v * c) * a = d.n * a /\ v * c \in Nat
        BY <3>2, <3>3
      <4> QED
        BY <1>2, <3>2, <4>1, Cancels
    <3>5. d.n % c = 0
      <4> HIDE DEF c
      <4> QED
        BY <3>2, <3>3, <3>4, MultipleIs
    <3> QED
      BY <1>0, <1>2, <1>4, <3>5
  <2> QED
    BY <2>1, <2>2
<1> QED
  BY <1>0, <1>2, <1>3, <1>4

LEMMA ExactlyIs ==
    ASSUME NEW d \in Decimal, NEW scale \in Nat, NEW S
    PROVE  /\ \A v : Equals(d, scale, v) => Exactly(d, scale, S) = IF v \in S THEN v ELSE Invalid
           /\ (\A v : ~Equals(d, scale, v)) => Exactly(d, scale, S) = Invalid
<1> DEFINE places == Ten[d.f]
           scaled == d.n * Ten[scale]
<1>1. places \in Nat \ {0} /\ scaled \in Nat
  <2>1. d.n \in Nat /\ Ten[scale] \in Nat
    BY TenType DEF Decimal
  <2> QED
    BY <2>1, TenType DEF Decimal
<1>2. Exactly(d, scale, S) = IF scaled % places = 0 /\ (scaled \div places) \in S
                             THEN scaled \div places ELSE Invalid
  BY DEF Exactly
<1>3. \A v : Equals(d, scale, v) <=> v \in Nat /\ v * places = scaled
  BY DEF Equals
<1> HIDE DEF places, scaled
<1>4. ASSUME NEW v, Equals(d, scale, v)
      PROVE  Exactly(d, scale, S) = IF v \in S THEN v ELSE Invalid
  <2>1. scaled % places = 0 /\ scaled \div places = v
    BY <1>1, <1>3, <1>4, MultipleIs
  <2> QED
    BY <1>2, <2>1
<1>5. ASSUME \A v : ~Equals(d, scale, v) PROVE Exactly(d, scale, S) = Invalid
  <2>1. scaled % places # 0
    <3>1. scaled % places = 0 => Equals(d, scale, scaled \div places)
      BY <1>1, <1>3, MultipleOf
    <3> QED
      BY <1>5, <3>1
  <2> QED
    BY <1>2, <2>1
<1> QED
  BY <1>4, <1>5

\* A decimal scaled and taken if it is in a set is exactly that decimal.
LEMMA ScaledIs ==
    ASSUME NEW d \in Decimal, NEW scale \in 0..MaxScale, NEW S
    PROVE  /\ DecimalToScaled(d, scale) = Invalid \/ DecimalToScaled(d, scale) \in Nat
           /\ Exactly(d, scale, S) =
                 IF DecimalToScaled(d, scale) # Invalid /\ DecimalToScaled(d, scale) \in S
                 THEN DecimalToScaled(d, scale) ELSE Invalid
<1>1. scale \in Nat /\ Invalid \notin Nat
  BY AmountAssumptions DEF Invalid
<1>2. CASE Equals(d, scale, DecimalToScaled(d, scale))
  <2>1. DecimalToScaled(d, scale) \in Nat
    BY <1>2 DEF Equals
  <2> QED
    BY <1>1, <1>2, <2>1, ExactlyIs
<1>3. CASE DecimalToScaled(d, scale) = Invalid /\ \A v : ~Equals(d, scale, v)
  BY <1>1, <1>3, ExactlyIs
<1> QED
  BY <1>2, <1>3, ToScaled

\* Prices and quantities, as the model states it: see QuantitiesAreExact.
LEMMA QuantitiesExact == QuantitiesAreExact
<1> SUFFICES ASSUME NEW d \in Decimals, NEW s \in 0..MaxScale
    PROVE  /\ ParsePriceTicks(d, s) = Exactly(d, s, 0..MaxInt64)
           /\ \/ ResolveQtyScaled(d, s) = Exactly(d, s, 1..MaxInt64)
              \/ /\ ResolveQtyScaled(d, s) < 0
                 /\ s = 0 \/ (s = WideScale /\ Exactly(d, s, 1..MaxInt64) = Invalid)
           /\ ResolveQuoteQtyScaled(d, s) = Exactly(d, s, 1..MaxInt64)
  BY DEF QuantitiesAreExact
<1>1. /\ Half \in Nat \ {0} /\ MaxBig \in Nat /\ 2 * Half - 1 <= MaxBig
      /\ MaxInt64 = Half - 1 /\ MaxUint64 = 2 * Half - 1 /\ Invalid = -(MaxBig + 1)
  BY AmountAssumptions DEF MaxInt64, MaxUint64, Invalid
<1>2. d \in Decimal /\ s \in Int
  BY AmountAssumptions DEF Decimals, Decimal
<1> DEFINE v == DecimalToScaled(d, s)
<1>3. v = Invalid \/ v \in Nat
  BY <1>2, ScaledIs
<1>4. \A S : Exactly(d, s, S) = IF v # Invalid /\ v \in S THEN v ELSE Invalid
  BY <1>2, ScaledIs
<1>5. ParsePriceTicks(d, s) = IF v > MaxInt64 THEN Invalid ELSE v
  BY DEF ParsePriceTicks
<1>6. ParseQtyScaled(d, s) =
         IF v <= 0 \/ v > MaxUint64 \/ (s # WideScale /\ v > MaxInt64) THEN Invalid ELSE v
  BY DEF ParseQtyScaled
<1> HIDE DEF v
<1>7. Int64(Invalid) = Invalid /\ \A u \in 1..MaxInt64 : Int64(u) = u
  BY <1>1 DEF Int64
<1>8. ParsePriceTicks(d, s) = Exactly(d, s, 0..MaxInt64)
  BY <1>1, <1>3, <1>4, <1>5
<1>9. \/ ResolveQtyScaled(d, s) = Exactly(d, s, 1..MaxInt64)
      \/ /\ ResolveQtyScaled(d, s) < 0
         /\ s = 0 \/ (s = WideScale /\ Exactly(d, s, 1..MaxInt64) = Invalid)
  <2>1. CASE s = 0
    BY <1>1, <2>1 DEF ResolveQtyScaled
  <2>2. CASE s # 0
    <3>1. ResolveQtyScaled(d, s) = Int64(ParseQtyScaled(d, s))
      BY <1>2, <2>2 DEF ResolveQtyScaled
    <3>2. CASE v \in 1..MaxInt64
      <4>1. ParseQtyScaled(d, s) = v /\ Int64(v) = v /\ v # Invalid
        BY <1>1, <1>6, <1>7, <3>2
      <4> QED
        BY <1>4, <3>1, <3>2, <4>1
    <3>3. CASE v \notin 1..MaxInt64
      <4>1. Exactly(d, s, 1..MaxInt64) = Invalid
        BY <1>4, <3>3
      <4>2. CASE ParseQtyScaled(d, s) = Invalid
        BY <1>7, <3>1, <4>1, <4>2
      <4>3. CASE ParseQtyScaled(d, s) # Invalid
        <5>1. /\ ~(v <= 0) /\ ~(v > MaxUint64) /\ ~(s # WideScale /\ v > MaxInt64)
              /\ ParseQtyScaled(d, s) = v
          BY <1>6, <4>3, Zenon
        <5>2. v \in Nat /\ v > MaxInt64 /\ v <= MaxUint64
          <6>1. v \in Int
            BY <1>1, <1>3
          <6> QED
            BY <1>1, <3>3, <5>1, <6>1
        <5>3. Int64(v) < 0
          BY <1>1, <5>2 DEF Int64
        <5>4. s = WideScale
          BY <5>1, <5>2
        <5> QED
          BY <3>1, <4>1, <5>1, <5>3, <5>4
      <4> QED
        BY <4>2, <4>3
    <3> QED
      BY <3>2, <3>3
  <2> QED
    BY <2>1, <2>2
<1>10. ResolveQuoteQtyScaled(d, s) = Exactly(d, s, 1..MaxInt64)
  <2> DEFINE q == Int64(ParseQtyScaled(d, s))
  <2>1. ResolveQuoteQtyScaled(d, s) = IF q <= 0 THEN Invalid ELSE q
    BY DEF ResolveQuoteQtyScaled
  <2>2. CASE v \in 1..MaxInt64
    <3>1. q = v
      BY <1>1, <1>6, <2>2 DEF Int64
    <3> HIDE DEF q
    <3> QED
      BY <1>1, <1>4, <2>1, <2>2, <3>1
  <2>3. CASE v \notin 1..MaxInt64
    <3>1. q \in Int /\ q <= 0
      <4>1. CASE ParseQtyScaled(d, s) = Invalid
        BY <1>1, <1>7, <4>1
      <4>2. CASE ParseQtyScaled(d, s) # Invalid
        <5>1. ParseQtyScaled(d, s) = v /\ ~(v <= 0) /\ ~(v > MaxUint64) /\ v # Invalid
          BY <1>6, <4>2
        <5>2. v \in Nat /\ v > MaxInt64 /\ v <= MaxUint64
          BY <1>1, <1>3, <2>3, <5>1
        <5>3. q = v - 2 * Half
          BY <5>1, <5>2 DEF Int64
        <5> HIDE DEF q
        <5> QED
          BY <1>1, <5>2, <5>3
      <4> QED
        BY <4>1, <4>2
    <3> HIDE DEF q
    <3> QED
      BY <1>4, <2>1, <2>3, <3>1
  <2> QED
    BY <2>2, <2>3
<1> QED
  BY <1>8, <1>9, <1>10

\* An amount at another scale: with its places moved, or not an integer there.
LEMMA Rescales ==
    ASSUME NEW d \in Decimal, NEW source \in 0..MaxScale, NEW target \in 0..MaxScale,
           NEW v, Equals(d, source, v)
    PROVE  \/ \E r \in Nat :
                 /\ Equals(d, target, r) /\ (r = 0 <=> v = 0)
                 /\ RescaleExact(v, source, target) = IF r > MaxBig THEN Invalid ELSE r
           \/ (\A r : ~Equals(d, target, r)) /\ RescaleExact(v, source, target) = Invalid
<1>1. /\ source \in Nat /\ target \in Nat /\ MaxScale \in Nat
      /\ source <= MaxScale /\ target <= MaxScale
  BY AmountAssumptions
<1>2. v \in Nat /\ v * Ten[d.f] = d.n * Ten[source] /\ d.n \in Nat
  BY DEF Equals, Decimal
<1> DEFINE places == Ten[d.f]
<1>3. places \in Nat \ {0}
  BY TenType DEF Decimal
<1>4. CASE source <= target
  <2> DEFINE a == Ten[target - source]
             b == Ten[source]
  <2>1. target - source \in Nat /\ source + (target - source) = target
    BY <1>1, <1>4
  <2>2. Ten[source + (target - source)] = b * a
    BY <1>1, <2>1, TenSum
  <2>3. Ten[target] = b * a /\ a \in Nat \ {0} /\ b \in Nat \ {0}
    <3>1. Ten[target] = b * a
      <4> HIDE DEF a, b
      <4> QED
        BY <2>1, <2>2
    <3> QED
      BY <1>1, <2>1, <3>1, TenType
  <2>4. RescaleExact(v, source, target) = IF v * a > MaxBig THEN Invalid ELSE v * a
    BY <1>1, <1>4 DEF RescaleExact
  <2>5. v * a \in Nat /\ (v * a = 0 <=> v = 0) /\ (v * a) * places = d.n * (b * a)
    <3> HIDE DEF a
    <3>1. v * places = d.n * b
      BY <1>2
    <3> HIDE DEF b, places
    <3>2. (v * a) * places = (v * places) * a /\ d.n * (b * a) = (d.n * b) * a
      BY <1>2, <1>3, <2>3
    <3>3. v * a \in Nat /\ (v * a = 0 <=> v = 0)
      BY <1>2, <2>3
    <3> QED
      BY <3>1, <3>2, <3>3
  <2>6. Equals(d, target, v * a)
    BY <2>3, <2>5 DEF Equals
  <2> QED
    BY <2>4, <2>5, <2>6
<1>5. CASE source > target
  <2> DEFINE a == Ten[source - target]
             b == Ten[target]
  <2>1. source - target \in Nat /\ target + (source - target) = source
    BY <1>1, <1>5
  <2>2. Ten[target + (source - target)] = b * a
    BY <1>1, <2>1, TenSum
  <2>3. Ten[source] = b * a /\ a \in Nat \ {0} /\ b \in Nat \ {0}
    <3>1. Ten[source] = b * a
      <4> HIDE DEF a, b
      <4> QED
        BY <2>1, <2>2
    <3> QED
      BY <1>1, <2>1, <3>1, TenType
  <2>4. RescaleExact(v, source, target) =
           IF v % a # 0 \/ v \div a > MaxBig THEN Invalid ELSE v \div a
    BY <1>1, <1>5 DEF RescaleExact
  <2>5. v * places = (d.n * b) * a
    <3> HIDE DEF a, b, places
    <3>1. v * places = d.n * (b * a)
      BY <1>2, <2>3 DEF places
    <3> QED
      BY <1>2, <2>3, <3>1
  <2>6. \A r \in Nat : r * places = d.n * b <=> r * a = v
    <3> HIDE DEF a, b, places
    <3> TAKE r \in Nat
    <3>1. (r * places) * a = (r * a) * places /\ r * places \in Nat /\ d.n * b \in Nat
          /\ r * a \in Nat
      BY <1>2, <1>3, <2>3
    <3>2. ASSUME r * places = d.n * b PROVE r * a = v
      <4>1. (r * a) * places = v * places
        BY <2>5, <3>1, <3>2
      <4> QED
        BY <1>2, <1>3, <3>1, <4>1, Cancels
    <3>3. ASSUME r * a = v PROVE r * places = d.n * b
      <4>1. (r * places) * a = (d.n * b) * a
        BY <2>5, <3>1, <3>3
      <4> QED
        BY <2>3, <3>1, <4>1, Cancels
    <3> QED
      BY <3>2, <3>3
  <2>7. \A r : Equals(d, target, r) <=> r \in Nat /\ r * a = v
    BY <2>6 DEF Equals
  <2> HIDE DEF a, b, places
  <2>8. CASE v % a = 0
    <3>1. v \div a \in Nat /\ v = (v \div a) * a
      BY <1>2, <2>3, <2>8, MultipleOf
    <3>2. v \div a = 0 <=> v = 0
      <4> DEFINE q == v \div a
      <4>1. q \in Nat /\ v = q * a
        BY <3>1
      <4> HIDE DEF q
      <4>2. q = 0 <=> v = 0
        BY <1>2, <2>3, <4>1
      <4> QED
        BY <4>2 DEF q
    <3> QED
      BY <2>4, <2>7, <2>8, <3>1, <3>2
  <2>9. CASE v % a # 0
    <3>1. \A r \in Nat : r * a # v
      BY <2>3, <2>9, MultipleIs
    <3> QED
      BY <2>4, <2>7, <2>9, <3>1
  <2> QED
    BY <2>8, <2>9
<1> QED
  BY <1>1, <1>4, <1>5

LEMMA AmountsExact == AmountsAreExact
<1> SUFFICES ASSUME NEW d \in Decimals, NEW source \in Scales, NEW target \in Scales,
                    NEW ledger \in BOOLEAN
    PROVE  ResolveAssetAmountScaledToScale(d, source, target, ledger) =
              IF {source, target} \subseteq 0..MaxScale /\ Exactly(d, source, Nat) # Invalid
              THEN Exactly(d, target, IF ledger THEN 1..MaxBig ELSE 1..MaxInt64)
              ELSE Invalid
  BY DEF AmountsAreExact
<1> DEFINE v == DecimalToScaled(d, source)
           S == IF ledger THEN 1..MaxBig ELSE 1..MaxInt64
           Fits(u) == IF ~ledger /\ u > MaxInt64 THEN Invalid ELSE u
           moved == RescaleExact(v, source, target)
           given == ResolveAssetAmountScaledToScale(d, source, target, ledger)
<1>1. /\ Half \in Nat \ {0} /\ MaxBig \in Nat /\ MaxInt64 = Half - 1 /\ MaxInt64 <= MaxBig
      /\ Invalid = -(MaxBig + 1) /\ MaxScale \in Nat /\ source \in Nat /\ target \in Nat
  BY AmountAssumptions DEF MaxInt64, Invalid, Scales
<1>2. d \in Decimal
  BY AmountAssumptions DEF Decimals, Decimal
<1>3. given = IF target > MaxScale \/ v <= 0 THEN Invalid ELSE Fits(moved)
  BY DEF ResolveAssetAmountScaledToScale
<1>4. CASE source > MaxScale \/ target > MaxScale
  <2>1. source > MaxScale => v = Invalid
    BY DEF DecimalToScaled
  <2>2. given = Invalid
    <3> HIDE DEF v, moved, Fits, given
    <3> QED
      BY <1>1, <1>3, <1>4, <2>1
  <2>3. ~({source, target} \subseteq 0..MaxScale)
    BY <1>1, <1>4
  <2> QED
    BY <2>2, <2>3
<1>5. CASE source <= MaxScale /\ target <= MaxScale
  <2>1. source \in 0..MaxScale /\ target \in 0..MaxScale
    BY <1>1, <1>5
  <2>2. SUFFICES given = IF Exactly(d, source, Nat) # Invalid THEN Exactly(d, target, S)
                        ELSE Invalid
    BY <2>1
  <2>3. v = Invalid \/ v \in Nat
    BY <1>2, <2>1, ScaledIs
  <2>4. Exactly(d, source, Nat) = v
    <3>1. Exactly(d, source, Nat) = IF v # Invalid /\ v \in Nat THEN v ELSE Invalid
      BY <1>2, <2>1, ScaledIs
    <3> HIDE DEF v
    <3> QED
      BY <2>3, <3>1
  <2>5. CASE v = Invalid
    <3> HIDE DEF v, given, moved, Fits
    <3> QED
      BY <1>1, <1>3, <2>4, <2>5
  <2>6. CASE v # Invalid
    <3>1. Equals(d, source, v)
      BY <1>2, <2>1, <2>6, ToScaled
    <3>2. v \in Nat /\ given = IF v = 0 THEN Invalid ELSE Fits(moved)
      <4> HIDE DEF v, given, moved, Fits
      <4> QED
        BY <1>1, <1>3, <1>5, <2>3, <2>6
    <3>3. CASE \E r \in Nat : /\ Equals(d, target, r) /\ (r = 0 <=> v = 0)
                              /\ moved = IF r > MaxBig THEN Invalid ELSE r
      <4>1. PICK r \in Nat : /\ Equals(d, target, r) /\ (r = 0 <=> v = 0)
                             /\ moved = IF r > MaxBig THEN Invalid ELSE r
        BY <3>3
      <4>2. Exactly(d, target, S) = IF r \in S THEN r ELSE Invalid
        BY <1>1, <1>2, <4>1, ExactlyIs
      <4>3. r \in S <=> r # 0 /\ r <= MaxBig /\ (~ledger => r <= MaxInt64)
        BY <1>1
      <4>4. Fits(moved) = IF r > MaxBig \/ (~ledger /\ r > MaxInt64) THEN Invalid ELSE r
        <5> HIDE DEF v, moved
        <5> QED
          BY <1>1, <4>1
      <4> HIDE DEF v, given, moved, Fits, S
      <4> QED
        BY <1>1, <2>4, <2>6, <3>2, <4>1, <4>2, <4>3, <4>4
    <3>4. CASE (\A r : ~Equals(d, target, r)) /\ moved = Invalid
      <4>1. Exactly(d, target, S) = Invalid
        BY <1>1, <1>2, <3>4, ExactlyIs
      <4>2. Fits(moved) = Invalid
        <5> HIDE DEF moved
        <5> QED
          BY <1>1, <3>4
      <4> HIDE DEF v, given, moved, Fits, S
      <4> QED
        BY <2>4, <2>6, <3>2, <4>1, <4>2
    <3> QED
      <4> HIDE DEF v
      <4> QED
        BY <1>2, <2>1, <3>1, <3>3, <3>4, Rescales
  <2> QED
    BY <2>5, <2>6
<1> QED
  BY <1>1, <1>4, <1>5

LEMMA FormatsBack == QuantitiesFormatBack
<1> SUFFICES ASSUME NEW v \in 0..MaxInt64, NEW s \in 0..MaxScale
             PROVE  DecimalToScaled(FormatFixed(v, s), s) = v
  BY DEF QuantitiesFormatBack
<1>1. v \in Nat /\ s \in Nat
  BY AmountAssumptions DEF MaxInt64
<1> DEFINE d == [n |-> v, f |-> s]
<1>2. PICK t : t = FormatFixed(v, s)
  OBVIOUS
<1>3. d \in Decimal /\ t = TrimTrailingFracZeros(d)
  BY <1>1, <1>2 DEF Decimal, FormatFixed
<1>4. t \in Decimal /\ t.f <= s /\ v = t.n * Ten[s - t.f]
  BY <1>3, TrimIs
<1>5. t.n \in Nat /\ t.f \in Nat /\ s - t.f \in Nat /\ (s - t.f) + t.f = s
  BY <1>1, <1>4 DEF Decimal
<1>6. Ten[(s - t.f) + t.f] = Ten[s - t.f] * Ten[t.f]
  BY <1>5, TenSum
<1>7. Equals(t, s, v)
  <2> DEFINE a == Ten[s - t.f]
             b == Ten[t.f]
  <2>1. a \in Nat /\ b \in Nat
    BY <1>5, TenType
  <2>2. Ten[s] = a * b /\ v = t.n * a
    <3>1. Ten[s] = a * b
      <4> HIDE DEF a, b
      <4> QED
        BY <1>5, <1>6 DEF a, b
    <3> QED
      BY <1>4, <3>1
  <2>3. v * b = t.n * (a * b)
    <3> HIDE DEF a, b
    <3> QED
      BY <1>5, <2>1, <2>2
  <2> QED
    BY <1>1, <2>2, <2>3 DEF Equals
<1>8. Equals(t, s, DecimalToScaled(t, s))
  BY <1>4, <1>7, ToScaled
<1> QED
  BY <1>1, <1>2, <1>4, <1>7, <1>8, IsOne

\* A decimal becomes exactly the integer it is at the scale or is refused, an amount
\* is given as the same amount at another scale or refused, and a quantity that is
\* formatted is read as the same quantity: for decimals of any length, any scales
\* and any widths of the integers (codecs/money.go, codecs/scalars.go,
\* models/money.go).
THEOREM ConversionsAreExact == TradingSpec => []ConversionsExact
<1>1. ConversionsExact
  BY QuantitiesExact, AmountsExact, FormatsBack DEF ConversionsExact
<1> QED
  BY <1>1, PTL
=============================================================================
