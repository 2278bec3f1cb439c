----------------------------- MODULE Preflight -----------------------------
(***************************************************************************)
(* PreflightSanityCheckWithRetry (pkg/client/preflight.go) against a pool   *)
(* reached through TunnelPoolClient.  A check asks every IP-echo endpoint   *)
(* for the host's address, directly and through a proxy, believes an        *)
(* address two endpoints agree on, and refuses to start when both agree.    *)
(* Time is the retry deadline: it may pass at any moment.                   *)
(***************************************************************************)
EXTENDS Naturals, FiniteSets

CONSTANTS
    Endpoints,   \* the configured IP-echo endpoints
    Liars        \* endpoints that may answer anything

ASSUME EndpointsAssumption ==
    IsFiniteSet(Endpoints) /\ Liars \subseteq Endpoints

Addresses == {"host", "exit"}
Answers == Addresses \cup {"blank", "badStatus", "noAnswer"}
NoAddress == "none"

BackoffStart == 1    \* preflightRetryBackoffStart, in units of 5 seconds
BackoffMax == 6      \* preflightRetryBackoffMax

VARIABLES
    reroutes,    \* whether the proxy really changes the address: "yes" or "no"
    phase, direct, proxied, backoff,
    deadline,    \* "ahead", "passing" (while the backoff timer runs) or "passed"
    err,         \* the error of the last check: the sentinel errors.Is finds
    result

preflightVars == <<reroutes, phase, direct, proxied, backoff, deadline, err, result>>

PreflightInit ==
    /\ reroutes \in {"yes", "no"}
    /\ phase = "direct" /\ direct = NoAddress /\ proxied = NoAddress
    /\ backoff = BackoffStart /\ deadline = "ahead" /\ err = "nil" /\ result = "none"

----------------------------------------------------------------------------
(* fetchPublicIPFromEndpoint: what one endpoint may come back with when the *)
(* request really leaves from address `from'.                               *)
EndpointAnswers(e, from) ==
    IF deadline = "passed" THEN {"noAnswer"}
    ELSE IF e \in Liars THEN Answers
    ELSE {from, "badStatus", "noAnswer"}

Polls(from) ==
    {answers \in [Endpoints -> Answers] :
       \A e \in Endpoints : answers[e] \in EndpointAnswers(e, from)}

Votes(answers, a) == Cardinality({e \in Endpoints : answers[e] = a})

\* Mutant of Agreed: one endpoint is believed.
HastyAgreed(answers) ==
    {a \in Addresses \cup {"blank"} : Votes(answers, a) >= 1}

\* fetchAgreedPublicIP: the values with a quorum; one of them is returned.
Agreed(answers) ==
    {a \in Addresses \cup {"blank"} : Votes(answers, a) >= 2}

\* Without a quorum the error is that of the last endpoint that failed, whichever
\* it was, and ErrPreflightFailed when all answered.  A transport error carries
\* no sentinel.
PollErrors(answers) ==
    LET failed == {answers[e] : e \in Endpoints} \cap {"badStatus", "noAnswer"}
    IN  IF failed = {} THEN {"ErrPreflightFailed"}
        ELSE {IF f = "badStatus" THEN "ErrPreflightFailed" ELSE "other" : f \in failed}

\* What fetchDirectIP or fetchProxiedIP may return for these answers.
Fetched(answers) ==
    IF Agreed(answers) = {}
       THEN {[ip |-> NoAddress, err |-> x] : x \in PollErrors(answers)}
       ELSE {IF a = "blank" THEN [ip |-> NoAddress, err |-> "ErrPreflightFailed"]
                            ELSE [ip |-> a, err |-> "nil"] : a \in Agreed(answers)}

----------------------------------------------------------------------------
(* One PreflightSanityCheck.                                                *)
FetchDirect ==
    /\ phase = "direct"
    /\ \E answers \in Polls("host") : \E f \in Fetched(answers) :
          /\ direct' = f.ip /\ err' = f.err
          /\ phase' = IF f.err = "nil" THEN "pool" ELSE "failed"
    /\ proxied' = NoAddress
    /\ UNCHANGED <<reroutes, backoff, deadline, result>>

\* TunnelPoolClient.ProxyForCountry: the controller's 503 is ErrPoolExhausted,
\* every other failure ErrEgressUnavailable.
AskPool ==
    /\ phase = "pool"
    /\ \/ deadline # "passed" /\ phase' = "proxied" /\ UNCHANGED err
       \/ deadline # "passed" /\ phase' = "failed" /\ err' = "ErrPoolExhausted"
       \/ phase' = "failed" /\ err' = "ErrEgressUnavailable"
    /\ UNCHANGED <<reroutes, direct, proxied, backoff, deadline, result>>

Exit == IF reroutes = "yes" THEN "exit" ELSE "host"

FetchProxied ==
    /\ phase = "proxied"
    /\ \E answers \in Polls(Exit) : \E f \in Fetched(answers) :
          /\ proxied' = f.ip /\ err' = f.err
          /\ phase' = IF f.err = "nil" THEN "compare" ELSE "failed"
    /\ UNCHANGED <<reroutes, direct, backoff, deadline, result>>

Compare ==
    /\ phase = "compare"
    /\ IF direct = proxied
          THEN phase' = "failed" /\ err' = "ErrPreflightLeaked" /\ UNCHANGED result
          ELSE phase' = "done" /\ result' = "ok" /\ UNCHANGED err
    /\ UNCHANGED <<reroutes, direct, proxied, backoff, deadline>>

----------------------------------------------------------------------------
(* The retry loop.                                                          *)
Retryable(e) == e \in {"ErrEgressUnavailable", "ErrPreflightFailed"}

Bail ==
    /\ phase = "failed" /\ ~Retryable(err)
    /\ phase' = "done" /\ result' = err
    /\ UNCHANGED <<reroutes, direct, proxied, backoff, deadline, err>>

\* The timer fires; a deadline already passed when it was armed wins the select.
Retry ==
    /\ phase = "failed" /\ Retryable(err) /\ deadline # "passed"
    /\ phase' = "direct"
    /\ backoff' = IF 2 * backoff > BackoffMax THEN BackoffMax ELSE 2 * backoff
    /\ deadline' = IF deadline = "ahead" THEN "ahead" ELSE "passed"
    /\ UNCHANGED <<reroutes, direct, proxied, err, result>>

GiveUp ==
    /\ phase = "failed" /\ Retryable(err) /\ deadline # "ahead"
    /\ phase' = "done" /\ result' = err
    /\ UNCHANGED <<reroutes, direct, proxied, backoff, deadline, err>>

\* preflightRetryDeadline passes, or the caller's context is cancelled.
Deadline ==
    /\ deadline = "ahead" /\ phase # "done"
    /\ deadline' = IF phase = "failed" THEN "passing" ELSE "passed"
    /\ UNCHANGED <<reroutes, phase, direct, proxied, backoff, err, result>>

PreflightNext ==
    \/ FetchDirect \/ AskPool \/ FetchProxied \/ Compare
    \/ Bail \/ Retry \/ GiveUp \/ Deadline

PreflightSpec == PreflightInit /\ [][PreflightNext]_preflightVars

----------------------------------------------------------------------------
(* However often it retries, the check never passes behind a proxy that does *)
(* not change the address, even when one endpoint answers anything it likes  *)
(* (fetchAgreedPublicIP's quorum, PreflightSanityCheck).                     *)
LeakNeverPasses ==
    reroutes = "no" /\ Cardinality(Liars) <= 1 => result # "ok"

============================================================================
