---------------------------- MODULE EgressClient ----------------------------
(***************************************************************************)
(* One call of Client.Do (pkg/client) against the controller: the direct    *)
(* attempt of public-first mode, the retry staircase of Client.do, the      *)
(* allocations it asks the controller for (handleProxy, which resolves the  *)
(* excluded lease, acquires a cell and issues a lease), and the gateway     *)
(* that admits and dials for the lease.  The caller may cancel at any       *)
(* moment, leases expire, cells come and go and their addresses are used    *)
(* again.  The lease of an attempt is named by the attempt.                 *)
(***************************************************************************)
EXTENDS LeaseRegistry, Sequences

CONSTANTS
    MaxAttempts,       \* RetryPolicy.MaxAttempts
    UseFallbackPool,   \* RetryPolicy.UseFallbackPool
    Addresses,         \* what docker gives to running cells
    MaxTime            \* bound on the clock

ASSUME PolicyAssumption == MaxAttempts \in Nat \ {0} /\ UseFallbackPool \in BOOLEAN

\* Leases are named by attempts and cells are numbered from 1.
ASSUME NamesAssumption ==
    /\ 1..MaxAttempts \subseteq Leases
    /\ Cells \subseteq Nat \ {0}
    /\ {"api", "gateway", "other"} \subseteq Users

NoLease == 0
NoCell == 0
NoAddress == "none"
Pools == {"main", "fallback"}

VARIABLES
    body,       \* the request's body: "seekable" (or none) or "unseekable"
    waits,      \* TRUE iff the policy makes every wait between attempts positive,
                \* as the default policy does
    pc, attempt,
    lastProxy,  \* lease of the last attempt that used one
    open,       \* response bodies not yet closed
    cancelled,  \* "no", "waiting" (while the backoff timer runs) or "yes"
    result,     \* what Do returned
    leased,     \* the cell of this attempt's lease
    excluded,   \* the address handleProxy resolved ExcludeProxy to
    slot,       \* the hot cell of each pool; cells are numbered as spawned
    address,    \* the address of every cell spawned
    running,    \* the cells whose container runs
    used,       \* history: the cell of the last lease an attempt went on with
    late        \* history: pool requests begun after the cancellation

given == <<body, waits>>
history == <<used, late>>
retry == <<attempt, lastProxy>>
lease == <<leased, excluded>>
cells == <<slot, address, running>>
vars == <<given, pc, retry, open, cancelled, result, lease, cells, history, leaseVars>>

Init ==
    /\ LeaseInit
    /\ body \in {"seekable", "unseekable"}
    /\ waits \in BOOLEAN
    /\ pc = "dispatch" /\ attempt = 1
    /\ lastProxy = NoLease /\ open = 0 /\ cancelled = "no"
    /\ result = "none"
    /\ leased = NoCell /\ excluded = NoAddress
    /\ slot = [p \in Pools |-> NoCell] /\ address = <<>> /\ running = {}
    /\ used = NoCell /\ late = 0

\* An attempt is over: its lease and what it excluded are forgotten.
AttemptEnds == leased' = NoCell /\ excluded' = NoAddress

Returns(what) == pc' = "done" /\ result' = what /\ AttemptEnds

\* rewindBody fails without GetBody, and with it when GetBody fails.
CanRewind == body = "seekable"

----------------------------------------------------------------------------
(* dispatch, in public-first or in VPN-only mode.                           *)
Dispatch ==
    /\ pc = "dispatch"
    /\ pc' \in {"direct", "backoff"}
    /\ UNCHANGED <<given, retry, open, cancelled, result, lease, cells, history, leaseVars>>

\* dispatchPublicFirst, up to the answer of the direct attempt.
DirectSend ==
    /\ pc = "direct" /\ CanRewind
    /\ \E got \in {0, 1} : open' = open + got /\ pc' = IF got = 1 THEN "answered" ELSE "fallen"
    /\ UNCHANGED <<given, retry, cancelled, result, lease, cells, history, leaseVars>>

\* The body cannot be rewound, before the direct attempt or after it.
DirectRefused ==
    /\ pc \in {"direct", "fallen"}
    /\ Returns("error")
    /\ UNCHANGED <<given, retry, open, cancelled, cells, history, leaseVars>>

\* shouldFallbackOnStatus: 429, 403 and 503 fall through to the proxy.
DirectAnswer ==
    /\ pc = "answered"
    /\ \/ Returns("response") /\ UNCHANGED open
       \/ pc' = "fallen" /\ open' = open - 1 /\ UNCHANGED <<result, lease>>
    /\ UNCHANGED <<given, retry, cancelled, cells, history, leaseVars>>

\* The proxy path starts.
DirectFellThrough ==
    /\ pc = "fallen" /\ CanRewind
    /\ pc' = "backoff"
    /\ UNCHANGED <<given, retry, open, cancelled, result, lease, cells, history, leaseVars>>

----------------------------------------------------------------------------
(* do: one iteration of the retry loop.                                     *)

\* strategyFor and the ProxyRequest tryOnce builds from it.
ExcludesPrev == attempt >= 3
FallbackOK == attempt >= 5 /\ UseFallbackPool
ExcludeProxy == IF ExcludesPrev THEN lastProxy ELSE NoLease

Ask ==
    /\ pc' = "asked"
    /\ late' = IF cancelled = "no" THEN late ELSE late + 1
    /\ cancelled' = IF cancelled = "no" THEN "no" ELSE "yes"

\* Mutant of Wait: the timer alone ends the wait.
DeafWait ==
    /\ pc = "backoff" /\ attempt <= MaxAttempts
    /\ Ask
    /\ UNCHANGED <<given, retry, open, result, lease, cells, used, leaseVars>>

\* waitBackoff lets the first attempt start at once, and any attempt whose backoff
\* the policy makes zero (no initial or maximal backoff) or negative (a jitter
\* above one).  Else the timer is armed: a context cancelled before that aborts
\* the wait, one cancelled while it runs may lose the select against the timer.
Wait ==
    /\ pc = "backoff" /\ attempt <= MaxAttempts
    /\ attempt = 1 \/ cancelled # "yes" \/ ~waits
    /\ Ask
    /\ UNCHANGED <<given, retry, open, result, lease, cells, used, leaseVars>>

WaitAborted ==
    /\ pc = "backoff" /\ attempt \in 2..MaxAttempts
    /\ cancelled # "no"
    /\ Returns("error")
    /\ UNCHANGED <<given, retry, open, cancelled, cells, history, leaseVars>>

Exhausted ==
    /\ pc = "backoff" /\ attempt > MaxAttempts
    /\ Returns("error")
    /\ UNCHANGED <<given, retry, open, cancelled, cells, history, leaseVars>>

Retry ==
    /\ pc' = "backoff" /\ attempt' = attempt + 1
    /\ AttemptEnds

\* executeProxyRequest: any failure but the exhausted answer; the text of a
\* context error is kept, its identity is not.  Nothing arrived at the
\* controller, or its answer did not come back.
PoolUnavailable ==
    /\ pc \in {"asked", "answer"}
    /\ Retry
    /\ UNCHANGED <<given, lastProxy, open, cancelled, result, cells, history, leaseVars>>

----------------------------------------------------------------------------
(* handleProxy, the controller's side of an allocation.                     *)

\* Without an excluded proxy the handler goes on to acquire.
ExcludesNothing ==
    /\ pc = "asked" /\ ExcludeProxy = NoLease
    /\ pc' = "acquire" /\ excluded' = NoAddress
    /\ UNCHANGED <<given, retry, open, cancelled, result, leased, cells, history, leaseVars>>

\* ResolveExcludedProxy looks the lease up.
ResolveReads ==
    /\ pc = "asked" /\ ExcludeProxy # NoLease
    /\ LookupReads("api", ExcludeProxy)
    /\ pc' = "resolve"
    /\ UNCHANGED <<given, retry, open, cancelled, result, lease, cells, history>>

Resolved ==
    /\ pc = "resolve"
    /\ LookupAccepts("api")
    /\ excluded' = address[leases[call["api"].id].cell]
    /\ pc' = "acquire"
    /\ UNCHANGED <<given, retry, open, cancelled, result, leased, cells, history>>

\* Mutant of ResolveRefused: a lease that is no longer known excludes nothing.
IgnoredResolve ==
    /\ pc = "resolve"
    /\ LookupRefuses("api")
    /\ pc' = "acquire" /\ excluded' = NoAddress
    /\ UNCHANGED <<given, retry, open, cancelled, result, leased, cells, history>>

\* An expired or unknown lease is a 400, to the client a failure like others.
ResolveRefused ==
    /\ pc = "resolve"
    /\ LookupRefuses("api")
    /\ Retry
    /\ UNCHANGED <<given, lastProxy, open, cancelled, result, cells, history>>

\* PoolState.acquire: the hot cell, unless it has the excluded address.
Serves(p) == slot[p] # NoCell /\ address[slot[p]] # excluded

\* acquireFromPool: the fallback is asked when the pool itself gave nothing.
Reach == {"main"} \cup (IF FallbackOK /\ ~Serves("main") THEN {"fallback"} ELSE {})

\* Issue begins for the acquired cell, or fails for want of randomness: the 500 is a
\* failure like others to the client.
Acquired(c) ==
    /\ \/ IssueReads("api", c) /\ pc' = "issue" /\ UNCHANGED <<attempt, lease>>
       \/ Retry /\ UNCHANGED leaseVars
    /\ UNCHANGED <<given, lastProxy, open, cancelled, result, history>>

AcquireHot ==
    /\ pc = "acquire"
    /\ \E p \in Reach : Serves(p) /\ Acquired(slot[p])
    /\ UNCHANGED cells

\* spawnFromState: a cell with an address no running cell has takes the slot.
\* The cell it replaces runs on until the orphan loop finds it.
AcquireSpawned ==
    /\ pc = "acquire"
    /\ \E p \in Reach, a \in Addresses \ {address[c] : c \in running} :
          LET c == Len(address) + 1 IN
          /\ ~Serves(p) /\ c \in Cells
          /\ slot' = [slot EXCEPT ![p] = c]
          /\ address' = Append(address, a)
          /\ running' = running \cup {c}
          /\ Acquired(c)

\* isPoolExhaustedResponse: the controller's 503 ends the call.
PoolExhausted ==
    /\ pc = "acquire" /\ \A p \in Reach : ~Serves(p)
    /\ Returns("error")
    /\ UNCHANGED <<given, retry, open, cancelled, cells, history, leaseVars>>

\* IssueLease; the answer is on its way.
LeaseIssued ==
    /\ pc = "issue"
    /\ leased' = call["api"].cell
    /\ IssueStores("api", attempt)
    /\ pc' = "answer"
    /\ UNCHANGED <<given, retry, open, cancelled, result, excluded, cells, history>>

----------------------------------------------------------------------------
(* fire, through the lease of this attempt, and the gateway.                *)
RememberProxy == lastProxy' = attempt

FireRefused ==
    /\ pc = "answer"
    /\ RememberProxy /\ Retry
    /\ used' = leased
    /\ UNCHANGED <<given, open, cancelled, result, cells, late, leaseVars>>

\* The request leaves for the gateway, which looks the lease up to admit it.
FireSend ==
    /\ pc = "answer" /\ CanRewind
    /\ LookupReads("gateway", attempt)
    /\ pc' = "admit" /\ used' = leased
    /\ UNCHANGED <<given, retry, open, cancelled, result, lease, cells, late>>

\* dialLease looks it up once more.
Admitted ==
    /\ pc \in {"admit", "lease"}
    /\ LookupAccepts("gateway")
    /\ pc' = IF pc = "admit" THEN "dial" ELSE "reserve"
    /\ UNCHANGED <<given, retry, open, cancelled, result, lease, cells, history>>

Dial ==
    /\ pc = "dial"
    /\ LookupReads("gateway", attempt)
    /\ pc' = "lease"
    /\ UNCHANGED <<given, retry, open, cancelled, result, lease, cells, history>>

\* Either lookup may refuse: a transport error for the client.
Barred ==
    /\ pc \in {"admit", "lease"}
    /\ LookupRefuses("gateway")
    /\ pc' = "failed"
    /\ UNCHANGED <<given, retry, open, cancelled, result, lease, cells, history>>

\* acquireContainer: only the cell the lease names, and only while it is hot.
Relayed ==
    /\ pc = "reserve"
    /\ \/ /\ \E p \in Pools : slot[p] = leased
          /\ open' = open + 1 /\ pc' = "response"
       \/ /\ pc' = "failed" /\ UNCHANGED open
    /\ UNCHANGED <<given, retry, cancelled, result, lease, cells, history, leaseVars>>

\* shouldRetry of a transport error: one of a cancelled context is final.  Whether
\* a timeout of the library counts as context.DeadlineExceeded, which is final
\* too, is the library's choice.
FireFailed ==
    /\ pc = "failed"
    /\ \/ RememberProxy /\ Retry /\ UNCHANGED result
       \/ /\ Returns("error")
          /\ UNCHANGED retry
    /\ UNCHANGED <<given, open, cancelled, cells, history, leaseVars>>

\* Mutant of FireAnswered: a response that is retried stays open.
LeakyFireAnswered ==
    /\ pc = "response"
    /\ \/ Returns("response") /\ UNCHANGED <<retry, open>>
       \/ /\ RememberProxy
          /\ Retry
          /\ UNCHANGED <<result, open>>
    /\ UNCHANGED <<given, cancelled, cells, history, leaseVars>>

\* shouldRetry of an answer: 502, 503, 504 and 429 are closed and retried.
FireAnswered ==
    /\ pc = "response"
    /\ \/ Returns("response") /\ UNCHANGED <<retry, open>>
       \/ /\ RememberProxy
          /\ Retry
          /\ open' = open - 1
          /\ UNCHANGED result
    /\ UNCHANGED <<given, cancelled, cells, history, leaseVars>>

----------------------------------------------------------------------------
Cancel ==
    /\ pc # "done" /\ cancelled = "no"
    /\ cancelled' = IF pc = "backoff" /\ attempt > 1 THEN "waiting" ELSE "yes"
    /\ UNCHANGED <<given, pc, retry, open, result, lease, cells, history, leaseVars>>

Step ==
    \/ Dispatch \/ DirectSend \/ DirectRefused \/ DirectAnswer \/ DirectFellThrough
    \/ Wait \/ WaitAborted \/ Exhausted \/ PoolUnavailable
    \/ ExcludesNothing \/ ResolveReads \/ Resolved \/ ResolveRefused
    \/ AcquireHot \/ AcquireSpawned \/ PoolExhausted \/ LeaseIssued
    \/ FireRefused \/ FireSend \/ Admitted \/ Dial \/ Barred \/ Relayed
    \/ FireFailed \/ FireAnswered

\* killTunnel clears the slot of a pool and removes the cell.
CellReaped(p) ==
    /\ slot[p] # NoCell
    /\ slot' = [slot EXCEPT ![p] = NoCell]
    /\ running' = running \ {slot[p]}
    /\ UNCHANGED address

\* The orphan loop removes a cell that was replaced.
OrphanReaped(c) ==
    /\ c \in running /\ \A p \in Pools : slot[p] # c
    /\ running' = running \ {c}
    /\ UNCHANGED <<slot, address>>

\* Another connection with the credentials of the excluded lease, or with the
\* wrong secret: the gateway looks the lease up while it is being resolved.
OtherLookup ==
    \/ pc = "asked" /\ ExcludeProxy # NoLease /\ LookupReads("other", ExcludeProxy)
    \/ LookupAccepts("other") \/ LookupRefuses("other") \/ LookupMismatch("other")

Around ==
    \/ \E p \in Pools : CellReaped(p) /\ UNCHANGED leaseVars
    \/ \E c \in running : OrphanReaped(c) /\ UNCHANGED leaseVars
    \/ OtherLookup /\ UNCHANGED cells
    \/ now < MaxTime /\ Tick /\ UNCHANGED cells

Next ==
    \/ Step
    \/ Cancel
    \/ /\ pc # "done" /\ Around
       /\ UNCHANGED <<given, pc, retry, open, cancelled, result, lease, history>>

Spec == Init /\ [][Next]_vars

----------------------------------------------------------------------------
(* From the third attempt on, the lease a call gets is never for the cell of *)
(* the last lease it sent a request through, although leases expire, pool    *)
(* requests fail in between and a new cell may have the old one's address    *)
(* (do, tryOnce, ResolveExcludedProxy, PoolState.acquire).                   *)
RotatesCell ==
    pc = "answer" /\ attempt >= 3 /\ used # NoCell => leased # used

(* On every path through the direct attempt, the retries and the errors, the *)
(* only response left open is the one handed to the caller                   *)
(* (dispatchPublicFirst, tryOnce).                                           *)
NoLeakedResponse ==
    pc = "done" => open = (IF result = "response" THEN 1 ELSE 0)

(* With a policy that waits between attempts, as the default does, a         *)
(* cancelled caller costs the pool at most one more allocation: a            *)
(* cancellation seen by the pool client is turned into a retryable error,    *)
(* and it is the next backoff that stops the loop (waitBackoff, shouldRetry, *)
(* executeProxyRequest).  With zero backoff nothing stops it.                *)
CancelStops == waits => late <= 1

============================================================================
