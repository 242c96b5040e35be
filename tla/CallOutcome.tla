------------------------------ MODULE CallOutcome ------------------------------
(***************************************************************************)
(* What the caller of one unary call is told of a failed answer: the round *)
(* tripper that classifies REST problems (transport/skew.go), the mapping  *)
(* of Connect errors (wire/errors.go), what they say of a mutation         *)
(* (errors/errors.go), and which of them a read is repeated after          *)
(* (services/read_retry.go).                                               *)
(*                                                                         *)
(* A code is its class.  A code in a Connect message stands for the same   *)
(* code in its details, no code for a placeholder and for a failed         *)
(* answer's body that cannot be read.  The field violations of REST        *)
(* problems are left out.                                                  *)
(***************************************************************************)
EXTENDS Naturals

(* Answers.                                                                *)

Statuses == {400, 401, 403, 404, 409, 412, 422, 429, 500, 501, 502, 503, 504}

\* Classes of REST codes.  "future" and "odd" are not recognised: the first has
\* the form of a code of the contract, the second does not.  "none" is JSON without
\* a code; "bare" is no JSON, nothing, or the router's message for a missing route.
Recognised == {"outcome_unknown", "capacity", "sequence", "routing", "skew", "locked",
               "session", "key_refused", "admission", "repairing", "business"}
Nameless   == {"bare", "none", "odd"}
RestCodes  == Recognised \cup Nameless \cup {"future"}
Capitals   == RestCodes \ Nameless

OddCodes     == {"unknown", "data_loss", "canceled"}
FailureCodes == OddCodes \cup {"internal", "unavailable", "deadline_exceeded"}
InputCodes   == {"invalid_argument", "failed_precondition", "out_of_range"}
ConnectCodes == FailureCodes \cup InputCodes \cup
    {"unauthenticated", "permission_denied", "resource_exhausted", "unimplemented",
     "not_found", "already_exists", "aborted"}

\* Classes of details of a Connect error: orders.v1 codes, auth.v1 codes, a rate
\* limit, and the codes of the other services.
OrderDetails == {"outcome_unknown", "final", "capacity", "admission", "not_admitted",
                 "routing", "invalid", "authlike", "business"}
AuthDetails  == {"auth_refused", "auth_locked", "auth_session", "auth_skew", "auth_busy",
                 "auth_other"}
OtherDetails == {"other_limit", "other_authlike", "other_business"}
Details == OrderDetails \cup AuthDetails \cup OtherDetails \cup {"none", "future", "rate"}

\* Successes, HTTP status 200, that their caller gets as an error: what connect-go
\* cannot decompress or unmarshal, or is over WithReadMaxBytes, it fails with a code
\* of its own; a message it could read may be refused by the SDK's decoder.
UnreadCodes  == {"invalid_argument", "resource_exhausted"}
Unread(c)    == [via |-> "unread", code |-> c]
Garbled      == [via |-> "garbled"]
Lost         == [via |-> "lost"]                 \* no answer, or not in time
Rest(s, c)   == [via |-> "rest", status |-> s, code |-> c]
Connect(c, d) == [via |-> "connect", code |-> c, detail |-> d]
Denied(c)    == [via |-> "denied", code |-> c]   \* c with HTTP status 401 or 403

Answers ==
    {Garbled, Lost} \cup {Unread(c) : c \in UnreadCodes}
           \cup {Rest(s, c) : s \in Statuses, c \in RestCodes}
           \cup {Connect(c, d) : c \in ConnectCodes, d \in Details}
           \cup {Denied(c) : c \in OddCodes}

-----------------------------------------------------------------------------
(* The error a caller gets.                                                *)

Error(type, code, status) == [type |-> type, code |-> code, status |-> status]

\* MapConnectError of a Connect error whose details say nothing.
ByCode(c) ==
    Error(CASE c \in {"unauthenticated", "permission_denied"} -> "Auth"
            [] c \in {"unavailable", "internal", "unknown", "data_loss"} -> "Server"
            [] c = "resource_exhausted" -> "RateLimit"
            [] c \in {"canceled", "deadline_exceeded"} -> "Transport"
            [] c \in InputCodes -> "Validation"
            [] c = "unimplemented" -> "NotImplemented"
            [] OTHER -> "API",
          c, 0)

\* MapConnectError of one whose details say d.
ByDetail(c, d) ==
    Error(CASE d \in {"outcome_unknown", "final"} -> "API"
            [] d \in {"capacity", "rate", "other_limit"} -> "RateLimit"
            [] d = "auth_skew" -> "Skew"
            [] d = "auth_locked" -> "OwnerLocked"
            [] d = "auth_session" -> "Session"
            [] d = "auth_refused" -> "Auth"
            [] d \in {"admission", "not_admitted", "invalid", "authlike", "business",
                      "other_authlike", "other_business"} /\ c = "unavailable" -> "Server"
            [] d = "invalid" /\ c # "unavailable" -> "Validation"
            [] d \in {"authlike", "other_authlike"} /\ c # "unavailable" -> "Auth"
            [] OTHER -> "API",
          d, IF c = "unavailable" THEN 503 ELSE 0)

ConnectError(c, d) ==
    IF d = "none" \/ (d = "future" /\ c \in FailureCodes) THEN ByCode(c) ELSE ByDetail(c, d)

\* connect-go reads the code of an answer that is not its own off the status.
CodeOfBare(s) ==
    CASE s = 401 -> "unauthenticated" [] s = 403 -> "permission_denied"
      [] s = 404 -> "unimplemented"   [] s = 400 -> "internal"
      [] s \in {429, 502, 503, 504} -> "unavailable"
      [] OTHER -> "unknown"

LeftToConnect(s, c) ==
    c \notin {"outcome_unknown", "capacity", "sequence", "skew", "locked", "session"} /\
    \/ s \in {401, 403} /\ c # "key_refused"
    \/ s \in {429, 502, 503} /\ c \in Nameless
    \/ s = 404 /\ c = "bare"

\* Mutant: an answer without a recognised code passes for a refusal.
RestTypeTrusting(s, c) ==
    IF c \in {"outcome_unknown", "sequence"} THEN "API"
    ELSE IF c = "capacity" THEN "RateLimit"
    ELSE IF s >= 502 THEN "Server" ELSE IF c = "skew" THEN "Skew" ELSE "API"

\* The switch of RoundTrip, in its order.
RestType(s, c) ==
    IF c \in {"outcome_unknown", "sequence"} THEN "API"
    ELSE IF c = "capacity" THEN "RateLimit"
    ELSE IF s = 504 THEN "Server"
    ELSE IF s = 503 /\ c = "routing" THEN "API"
    ELSE IF s \in {502, 503} /\ c \in Capitals THEN "Server"
    ELSE IF c = "skew" THEN "Skew"
    ELSE IF c = "locked" THEN "OwnerLocked"
    ELSE IF c = "session" THEN "Session"
    ELSE IF s \in {401, 403} /\ c = "key_refused" THEN "Auth"
    ELSE IF c \in Recognised /\ s = 501 THEN "NotImplemented"
    ELSE IF c \in Recognised /\ s >= 500 THEN "Server"
    ELSE IF c \in Recognised \/ (s = 429 /\ c \in Capitals) THEN "API"
    ELSE "Server"

RestError(s, c) ==
    IF LeftToConnect(s, c)
    THEN IF s = 404 THEN Error("RouteNotFound", c, s) ELSE ByCode(CodeOfBare(s))
    ELSE Error(RestType(s, c), c, s)

\* MapConnectError of what the transport and connect-go return.  The error of a message
\* that a decoder refuses is the decoder's, which UnaryAuthDecoded returns as it is.
MapError(a) ==
    CASE a.via = "lost"    -> Error("Transport", "none", 0)
      [] a.via = "garbled" -> Error("ResponseContract", "none", 0)
      [] a.via = "unread"  -> ByCode(a.code)
      [] a.via = "rest"    -> RestError(a.status, a.code)
      [] a.via = "connect" -> ConnectError(a.code, a.detail)
      [] a.via = "denied"  -> ByCode("unauthenticated")

\* The code an error has for retryUnavailable, which sees it before MapError:
\* roundTripError.  connect-go takes a plain error for unavailable.
CodeOfStatus(s) ==
    CASE s \in {400, 422} -> "invalid_argument" [] s = 401 -> "unauthenticated"
      [] s = 403 -> "permission_denied" [] s = 404 -> "not_found" [] s = 409 -> "aborted"
      [] s = 429 -> "resource_exhausted" [] s = 501 -> "unimplemented"
      [] OTHER -> "failed_precondition"

RoundTripCode(e, s) ==
    IF e.type = "Server"
    THEN IF s \in {429, 502, 503, 504} THEN "unavailable" ELSE "internal"
    ELSE IF e.code = "outcome_unknown" THEN "unavailable" ELSE CodeOfStatus(s)

CodeOf(a) ==
    CASE a.via = "lost"    -> "unavailable"
      [] a.via = "garbled" -> "ok"
      [] a.via = "unread"  -> a.code
      [] a.via = "denied"  -> "unauthenticated"
      [] a.via = "connect" -> a.code
      [] a.via = "rest"    -> IF LeftToConnect(a.status, a.code) THEN CodeOfBare(a.status)
                              ELSE RoundTripCode(RestError(a.status, a.code), a.status)

ReadAgain(a) == CodeOf(a) \in {"unavailable", "deadline_exceeded"}

-----------------------------------------------------------------------------
(* What the error says of a mutation.                                      *)

\* "not_admitted" is orders.v1's UNAVAILABLE, which sets AdmissionRefused.
MutationOutcomeUnknown(e) ==
    \/ e.type \in {"Transport", "RouteNotFound", "ResponseContract"}
    \/ e.type = "Server" /\ ~(e.status = 503 /\ e.code \in {"admission", "not_admitted"})
    \/ e.type = "API" /\ e.code = "outcome_unknown"

IsRetryable(e) ==
    /\ ~MutationOutcomeUnknown(e)
    /\ \/ e.type \in {"Transport", "RateLimit", "Server", "Skew"}
       \/ e.type = "API" /\ e.code \in {"repairing", "auth_busy"}

-----------------------------------------------------------------------------
(* The service and what stands before it (external): the answers that say  *)
(* a mutation was refused, so that it is never applied.  Any other failure *)
(* may come from a gateway after the mutation was applied, or before.      *)

RefusesByRest(s, c) ==
    \/ c \in {"capacity", "sequence", "skew", "locked", "session"}
          /\ (s \notin {502, 503, 504} \/ c \in {"capacity", "sequence"})
    \/ s \in {401, 403} /\ c # "outcome_unknown"
    \/ s = 429 /\ c \in Capitals \ {"outcome_unknown"}
    \/ (s < 500 \/ s = 501) /\ c \in Recognised \ {"outcome_unknown"}
    \/ s = 503 /\ c \in {"routing", "admission"}

RefusesByConnect(c, d) ==
    /\ d # "outcome_unknown"
    /\ \/ c \notin FailureCodes
       \/ c # "unavailable" /\ d \notin {"none", "future"}
       \/ c = "unavailable" /\ d \in {"final", "capacity", "rate", "other_limit", "admission",
                                      "not_admitted", "routing"} \cup AuthDetails

\* Answers that say the service is not available, whatever else they say.
Outage(a) ==
    \/ a.via = "rest" /\ a.status = 503
    \/ a.via = "connect" /\ a.code \in {"unavailable", "deadline_exceeded"}

Refuses(a) ==
    CASE a.via \in {"lost", "garbled", "unread"} -> FALSE
      [] a.via = "denied"  -> TRUE
      [] a.via = "rest"    -> RefusesByRest(a.status, a.code)
      [] a.via = "connect" -> RefusesByConnect(a.code, a.detail)
=============================================================================
