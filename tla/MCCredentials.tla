----------------------------- MODULE MCCredentials -----------------------------
(***************************************************************************)
(* What a client proves its identity with: the timestamps of the requests  *)
(* it signs at once (SigningTimestamps), or the tokens of a connection     *)
(* that are renewed while it is read (TokenRenewal).  The two share no     *)
(* state: op says which one is looked at.                                  *)
(***************************************************************************)
EXTENDS SigningTimestamps, TokenRenewal

VARIABLE op    \* "sign" or "renew"

CredentialsInit ==
    /\ op \in {"sign", "renew"}
    /\ SigningInit /\ (op = "renew" => clock = 1)
    /\ RenewerInit

CredentialsNext ==
    \/ op = "sign"  /\ SigningNext /\ UNCHANGED <<op, renewerVars>>
    \/ op = "renew" /\ RenewerNext /\ UNCHANGED <<op, signingVars>>

\* The fairness of the two, each in its own states.
CredentialsSpec ==
    /\ CredentialsInit /\ [][CredentialsNext]_<<op, signingVars, renewerVars>>
    /\ WF_signingVars(op = "sign" /\ ClockMoves)
    /\ \A p \in Callers : WF_signingVars(op = "sign" /\ Sign(p))
    /\ WF_renewerVars(op = "renew" /\ Read)
    /\ WF_renewerVars(op = "renew" /\ reader.pc = "leave" /\ Leave)
    /\ WF_renewerVars(op = "renew" /\ \E r \in RunIds : Renew(r))

\* A clock that may step back, read as negative, or stand near the end of the
\* integers.
CallerSet == {"a", "b"}
ClockSet  == {-1, 1, 3, 4}

\* Both keep their types; a timestamp stays in the integers whatever the clock
\* reads, and a command's id is handed out once.
CredentialsTypeOK == SigningTypeOK /\ RenewerTypeOK

\* Signers and the renewer's stop return (automaticSigningTimestamp's deadline,
\* stop's cancellation of fetches and writes).
CredentialsReturn == CallReturns /\ StopReturns
=============================================================================
