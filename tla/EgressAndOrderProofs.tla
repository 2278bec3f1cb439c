------------------------- MODULE EgressAndOrderProofs -------------------------
(***************************************************************************)
(* Theorems about the lease registry, for any number of users, leases and  *)
(* cells, any TTL and an unbounded clock; and about a call of Client.Do    *)
(* that uses it, for any number of attempts: a cancelled call stops, it    *)
(* leaks no response, and its retries leave the cell they came from.  And  *)
(* about resolveOrder, for any services and dependencies: what it returns is*)
(* an order, or there is a cycle.                                          *)
(***************************************************************************)
EXTENDS EgressClient, StartOrder, TLAPS, FiniteSetTheorems, WellFoundedInduction

\* The provers have 30 seconds for a leaf; SMT is tried again after Zenon.
USE SMTT(30), ZenonT(20), SMTT(29)

-----------------------------------------------------------------------------
(***************************************************************************)
(* The lease registry                                                      *)
(***************************************************************************)

\* The inductive invariant: a reading of the clock that a call works with is
\* never in the future, every id looked up, refused or in the registry was issued,
\* and no id in the registry was refused.
LeaseInv ==
  /\ now \in Nat
  /\ call \in [Users -> Calls]
  /\ \A u \in Users : call[u].op # "none" => call[u].at <= now
  /\ \A u \in Users : call[u].op = "lookup" => call[u].id \in issued
  /\ leases \in [Known -> Records]
  /\ Known \subseteq issued /\ refused \subseteq issued
  /\ RefusalIsFinal

-----------------------------------------------------------------------------
\* A call in progress (Issue, Lookup) has a natural number as its reading of the
\* clock, and one of Issue has a cell.
LEMMA CallFields ==
  ASSUME NEW c \in Calls
  PROVE  /\ c.op = "issue" => c.cell \in Cells /\ c.at \in Nat
         /\ c.op = "lookup" => c.id \in Leases /\ c.at \in Nat
  BY DEF Calls, Idle

\* What pruneExpiredLocked leaves was in the registry, and what it deletes had
\* expired at the reading it was given.
LEMMA KeptFacts ==
  ASSUME LeaseInv, NEW at \in Nat
  PROVE  /\ Kept(at) \subseteq Known
         /\ \A id \in Known \ Kept(at) : leases[id].expires <= at
  BY DEF LeaseInv, Kept, Records

\* The registry starts in the invariant (newLeaseRegistry).
LEMMA LeaseInitInv == LeaseInit => LeaseInv
  BY DEF LeaseInit, LeaseInv, Known, Idle, Calls, RefusalIsFinal, Records

\* The critical section of Issue keeps the invariant: the id it stores is new, so
\* no lookup has refused it.
LEMMA IssueStoresInv ==
  ASSUME LeaseInv, NEW u \in Users, NEW id \in Leases, IssueStores(u, id)
  PROVE  LeaseInv'
<1>1. call[u].cell \in Cells /\ call[u].at \in Nat
  BY CallFields DEF LeaseInv, IssueStores
<1>2. Kept(call[u].at) \subseteq Known
  BY <1>1, KeptFacts
<1>3. call[u].at + TTL \in Nat
  BY <1>1, TTLAssumption
<1>4. Known' = Kept(call[u].at) \cup {id}
  BY DEF Known, IssueStores
<1>5. leases' \in [Known' -> Records]
  BY <1>1, <1>2, <1>3, <1>4 DEF LeaseInv, IssueStores, Records
<1>6. RefusalIsFinal'
  BY <1>2, <1>4 DEF LeaseInv, IssueStores, RefusalIsFinal
<1>7. call' \in [Users -> Calls]
  BY DEF LeaseInv, IssueStores, Calls
<1>8. \A v \in Users : /\ call'[v].op # "none" => call'[v].at <= now'
                       /\ call'[v].op = "lookup" => call'[v].id \in issued'
  BY DEF LeaseInv, IssueStores, Idle
<1> QED
  BY <1>2, <1>4, <1>5, <1>6, <1>7, <1>8 DEF LeaseInv, IssueStores

\* The critical section of Lookup keeps the invariant, whatever it answers: the
\* id it refuses is not among those it leaves.
LEMMA LookupEndsInv ==
  ASSUME LeaseInv, NEW u \in Users,
         LookupAccepts(u) \/ LookupRefuses(u) \/ LookupMismatch(u)
  PROVE  LeaseInv'
<1> USE DEF LookupAccepts, LookupRefuses, LookupMismatch
<1>1. call[u].id \in Leases /\ call[u].at \in Nat
  BY CallFields DEF LeaseInv
<1>2. Kept(call[u].at) \subseteq Known
  BY <1>1, KeptFacts
<1>3. Known' = Kept(call[u].at)
  BY DEF Known, Prunes
<1>4. leases' \in [Known' -> Records]
  BY <1>2, <1>3 DEF LeaseInv, Prunes
<1>5. RefusalIsFinal'
  BY <1>2, <1>3 DEF LeaseInv, RefusalIsFinal
<1>6. call' \in [Users -> Calls]
  BY DEF LeaseInv, Calls
<1>7. \A v \in Users : /\ call'[v].op # "none" => call'[v].at <= now'
                       /\ call'[v].op = "lookup" => call'[v].id \in issued'
  BY DEF LeaseInv, Idle
<1> QED
  BY <1>2, <1>3, <1>4, <1>5, <1>6, <1>7 DEF LeaseInv

\* Every step of the registry keeps the invariant.
LEMMA LeaseNextInv == LeaseInv /\ [LeaseNext]_leaseVars => LeaseInv'
<1> SUFFICES ASSUME LeaseInv, [LeaseNext]_leaseVars PROVE LeaseInv'
  OBVIOUS
<1>1. ASSUME NEW u \in Users, NEW c \in Cells, IssueReads(u, c) PROVE LeaseInv'
  BY <1>1 DEF LeaseInv, IssueReads, Calls, Known, RefusalIsFinal
<1>2. ASSUME NEW u \in Users, NEW id \in Leases, LookupReads(u, id) PROVE LeaseInv'
  BY <1>2 DEF LeaseInv, LookupReads, Calls, Known, RefusalIsFinal
<1>3. CASE Tick
  <2>1. \A u \in Users : call[u].op # "none" => call[u].at \in Nat
    BY CallFields DEF LeaseInv, Calls, Idle
  <2> QED
    BY <1>3, <2>1 DEF LeaseInv, Tick, Known, RefusalIsFinal
<1>4. CASE UNCHANGED leaseVars
  BY <1>4 DEF LeaseInv, leaseVars, Known, RefusalIsFinal
<1> QED
  BY <1>1, <1>2, <1>3, <1>4, IssueStoresInv, LookupEndsInv DEF LeaseNext

-----------------------------------------------------------------------------
\* A lease that a lookup did not find is never found again: the invariant holds
\* in every state of the registry (Issue, Lookup, pruneExpiredLocked).
THEOREM LookupRefusalIsFinal == LeaseSpec => []RefusalIsFinal
<1>1. LeaseInv => RefusalIsFinal
  BY DEF LeaseInv
<1> QED
  BY LeaseInitInv, LeaseNextInv, <1>1, PTL DEF LeaseSpec

\* A lease that leaves the registry had reached its ExpiresAt by the clock, not
\* only by some reading of it (pruneExpiredLocked).
THEOREM LeasesLiveTheirTTL == LeaseSpec => LivesItsTTL
<1> DEFINE Leaves == \A id \in Known : id \in Known' \/ leases[id].expires <= now
<1>1. LeaseInv /\ [LeaseNext]_leaseVars => [Leaves]_leaseVars
  <2> SUFFICES ASSUME LeaseInv, LeaseNext PROVE Leaves
    OBVIOUS
  <2>1. ASSUME NEW u \in Users, NEW id \in Leases, IssueStores(u, id) PROVE Leaves
    <3>1. call[u].at \in Nat /\ call[u].at <= now
      BY <2>1, CallFields DEF LeaseInv, IssueStores
    <3>2. Kept(call[u].at) \subseteq Known'
      BY <2>1 DEF Known, IssueStores
    <3> QED
      BY <3>1, <3>2, KeptFacts DEF LeaseInv, Records
  <2>2. ASSUME NEW u \in Users,
               LookupAccepts(u) \/ LookupRefuses(u) \/ LookupMismatch(u)
        PROVE  Leaves
    <3>1. call[u].at \in Nat /\ call[u].at <= now
      BY <2>2, CallFields DEF LeaseInv, LookupAccepts, LookupRefuses, LookupMismatch
    <3>2. Known' = Kept(call[u].at)
      BY <2>2 DEF Known, LookupAccepts, LookupRefuses, LookupMismatch, Prunes
    <3> QED
      BY <3>1, <3>2, KeptFacts DEF LeaseInv, Records
  <2>3. CASE UNCHANGED leases
    BY <2>3 DEF Known
  <2> QED
    BY <2>1, <2>2, <2>3 DEF LeaseNext, IssueReads, LookupReads, Tick
<1> QED
  BY LeaseInitInv, LeaseNextInv, <1>1, PTL DEF LeaseSpec, LivesItsTTL

-----------------------------------------------------------------------------
(***************************************************************************)
(* The inductive invariant of a call                                       *)
(***************************************************************************)

\* The attempt is at the controller, or on its way there or back.
Allocating == pc \in {"asked", "resolve", "acquire", "issue", "answer"}

\* The attempt has a lease and goes through the gateway.
Firing == pc \in {"admit", "dial", "lease", "reserve", "failed", "response"}

\* The call has not come to the proxy path yet.
Direct == pc \in {"dispatch", "direct", "answered", "fallen"}

\* The cells spawned so far.
Spawned == 1..Len(address)

\* What the client and the handler of its allocation work with.
CallOK ==
  /\ Allocating \/ Firing \/ Direct \/ pc \in {"backoff", "done"}
  /\ attempt \in Nat \ {0}
  /\ Allocating \/ Firing => attempt <= MaxAttempts
  /\ address \in Seq(Addresses) /\ Spawned \subseteq Cells
  /\ slot \in [Pools -> Spawned \cup {NoCell}]
  /\ leased \in Spawned \cup {NoCell} /\ used \in Spawned \cup {NoCell}
  /\ pc = "issue" => call["api"].op = "issue" /\ call["api"].cell \in Spawned
  /\ pc = "resolve" => call["api"].op = "lookup" /\ call["api"].id = lastProxy
  /\ issued \subseteq Leases

\* A response is open only between an answer and the decision about it, or when
\* it was handed to the caller.
OpenOK ==
  open = IF pc \in {"answered", "response"} \/ (pc = "done" /\ result = "response") THEN 1 ELSE 0

\* A call that has asked once after the cancellation meets it in its next backoff,
\* if it waits there.
CancelOK ==
  /\ late \in Nat /\ cancelled \in {"no", "waiting", "yes"}
  /\ cancelled = "waiting" => pc \in {"backoff", "done"} /\ late = 0
  /\ late > 0 => cancelled = "yes" /\ ~Direct /\ (pc = "backoff" => attempt > 1)
  /\ waits => late <= 1

\* The record of a lease, while the registry still has it, names the cell c.
Names(id, c) == id \in issued /\ (id \in Known => leases[id].cell = c)

\* lastProxy is the lease of the last cell used, so that what an allocation
\* excludes is that cell.
RotateOK ==
  /\ pc = "answer" \/ Firing => Names(attempt, leased)
  /\ Firing => used = leased
  /\ Allocating \/ pc = "backoff" =>
       (used # NoCell => lastProxy # NoLease /\ Names(lastProxy, used))
  /\ Direct => used = NoCell
  /\ attempt >= 3 /\ used # NoCell =>
       /\ pc = "acquire" => excluded = address[used]
       /\ pc = "issue" => call["api"].cell # used
       /\ pc = "answer" => leased # used

\* The inductive invariant of a call, with that of the registry.
ClientInv == LeaseInv /\ CallOK /\ OpenOK /\ CancelOK /\ RotateOK

-----------------------------------------------------------------------------
(***************************************************************************)
(* Its proof                                                               *)
(***************************************************************************)

\* A call starts in the invariant (Do).
LEMMA ClientInit == Init => ClientInv
<1> SUFFICES ASSUME Init PROVE ClientInv
  OBVIOUS
<1>1. LeaseInv
  BY LeaseInitInv DEF Init
<1>2. CallOK /\ OpenOK /\ CancelOK /\ RotateOK
  BY DEF Init, LeaseInit, CallOK, OpenOK, CancelOK, RotateOK, Allocating, Firing, Direct,
         Spawned, Pools
<1> QED
  BY <1>1, <1>2 DEF ClientInv

\* What the call and the others do to the lease registry are steps of the registry:
\* handleProxy issues for a cell of the pool, each attempt under an id of its own
\* (IssueLease), and lookups are of ids that were handed out.
LEMMA LeaseSteps ==
  ASSUME ClientInv, [Next]_vars
  PROVE  [LeaseNext]_leaseVars
<1> USE NamesAssumption
<1>1. ASSUME UNCHANGED leaseVars PROVE [LeaseNext]_leaseVars
  BY <1>1
<1>2. CASE Dispatch \/ DirectSend \/ DirectRefused \/ DirectAnswer \/ DirectFellThrough
  BY <1>1, <1>2 DEF Dispatch, DirectSend, DirectRefused, DirectAnswer, DirectFellThrough
<1>3. CASE Wait \/ WaitAborted \/ Exhausted \/ PoolUnavailable \/ ExcludesNothing
  BY <1>1, <1>3 DEF Wait, WaitAborted, Exhausted, PoolUnavailable, ExcludesNothing
<1>4. CASE PoolExhausted \/ FireRefused \/ Relayed \/ FireFailed \/ FireAnswered \/ Cancel
  BY <1>1, <1>4 DEF PoolExhausted, FireRefused, Relayed, FireFailed, FireAnswered, Cancel
<1>5. CASE ResolveReads \/ Resolved \/ ResolveRefused
  <2>1. ResolveReads => ExcludeProxy \in Leases
    BY DEF ResolveReads, LookupReads, ClientInv, CallOK
  <2> QED
    BY <1>5, <2>1 DEF ResolveReads, Resolved, ResolveRefused, LeaseNext
<1>6. CASE AcquireHot
  <2>1. PICK p \in Reach : Serves(p) /\ Acquired(slot[p])
    BY <1>6 DEF AcquireHot
  <2>2. p \in Pools
    BY DEF Reach, Pools
  <2>3. slot \in [Pools -> Spawned \cup {NoCell}] /\ Spawned \subseteq Cells
    BY DEF ClientInv, CallOK
  <2>4. slot[p] \in Cells
    <3>1. slot[p] \in Spawned \cup {NoCell}
      BY ZenonT(30), <2>2, <2>3
    <3> QED
      BY ZenonT(30), <2>1, <2>3, <3>1 DEF Serves
  <2>5. UNCHANGED leaseVars \/ \E c \in Cells : IssueReads("api", c)
    BY ZenonT(30), <2>1, <2>4 DEF Acquired
  <2> QED
    BY <1>1, <2>5 DEF LeaseNext
<1>7. CASE AcquireSpawned
  BY <1>1, <1>7 DEF AcquireSpawned, Acquired, LeaseNext
<1>8. CASE LeaseIssued
  <2>1. attempt \in Leases
    BY <1>8, PolicyAssumption DEF LeaseIssued, ClientInv, CallOK, Allocating
  <2> QED
    BY <1>8, <2>1 DEF LeaseIssued, LeaseNext
<1>9. CASE FireSend \/ Admitted \/ Dial \/ Barred
  <2>1. FireSend \/ Dial => attempt \in Leases
    BY DEF FireSend, Dial, LookupReads, ClientInv, CallOK
  <2> QED
    BY <1>9, <2>1 DEF FireSend, Admitted, Dial, Barred, LeaseNext
<1>10. CASE Around
  <2>1. CASE OtherLookup
    <3>1. LookupReads("other", ExcludeProxy) => ExcludeProxy \in Leases
      BY DEF LookupReads, ClientInv, CallOK
    <3> QED
      BY <2>1, <3>1 DEF OtherLookup, LeaseNext
  <2>2. CASE Tick
    BY <2>2 DEF LeaseNext
  <2> QED
    BY <1>10, <2>1, <2>2, <1>1 DEF Around
<1>11. CASE UNCHANGED vars
  BY <1>1, <1>11 DEF vars
<1> QED
  BY ZenonT(30), <1>2, <1>3, <1>4, <1>5, <1>6, <1>7, <1>8, <1>9, <1>10, <1>11 DEF Next, Step

\* While the registry has a lease, its record does not change (Issue, Lookup).
LEMMA RecordsKept ==
  ASSUME LeaseInv, [LeaseNext]_leaseVars, NEW id, NEW c, Names(id, c)
  PROVE  Names(id, c)'
<1>1. ASSUME NEW u \in Users, NEW i \in Leases, IssueStores(u, i) PROVE Names(id, c)'
  <2>1. call[u].at \in Nat
    BY <1>1, CallFields DEF LeaseInv, IssueStores
  <2>2. Known' = Kept(call[u].at) \cup {i} /\ Kept(call[u].at) \subseteq Known
    BY <1>1, <2>1, KeptFacts DEF Known, IssueStores
  <2> QED
    BY <1>1, <2>2 DEF Names, IssueStores
<1>2. ASSUME NEW u \in Users,
             LookupAccepts(u) \/ LookupRefuses(u) \/ LookupMismatch(u)
      PROVE  Names(id, c)'
  <2>1. call[u].at \in Nat
    BY <1>2, CallFields DEF LeaseInv, LookupAccepts, LookupRefuses, LookupMismatch
  <2>2. Known' = Kept(call[u].at) /\ Kept(call[u].at) \subseteq Known
    BY <1>2, <2>1, KeptFacts DEF Known, LookupAccepts, LookupRefuses, LookupMismatch, Prunes
  <2> QED
    BY <1>2, <2>2 DEF Names, LookupAccepts, LookupRefuses, LookupMismatch, Prunes
<1>3. CASE UNCHANGED <<leases, issued>>
  BY <1>3 DEF Names, Known
<1> QED
  BY <1>1, <1>2, <1>3 DEF LeaseNext, leaseVars, IssueReads, LookupReads, Tick

\* Every step keeps what the call and the handler work with: cells that were
\* spawned, and the call to the registry that the handler is in (handleProxy).
LEMMA CallStep ==
  ASSUME ClientInv, [Next]_vars
  PROVE  CallOK'
<1> USE DEF CallOK, Allocating, Firing, Direct, Spawned
<1> USE NamesAssumption, PolicyAssumption
<1>0. CallOK /\ call \in [Users -> Calls]
  BY DEF ClientInv, LeaseInv
<1>1. CASE Dispatch \/ DirectSend \/ DirectRefused \/ DirectAnswer \/ DirectFellThrough
  BY <1>0, <1>1 DEF Dispatch, DirectSend, DirectRefused, DirectAnswer, DirectFellThrough,
        Returns, AttemptEnds, retry, lease, cells, history, leaseVars
<1>2. CASE Wait \/ WaitAborted \/ Exhausted \/ PoolUnavailable \/ ExcludesNothing
  BY <1>0, <1>2 DEF Wait, Ask, WaitAborted, Exhausted, PoolUnavailable, Retry, ExcludesNothing,
        Returns, AttemptEnds, retry, lease, cells, history, leaseVars
<1>3. CASE PoolExhausted \/ FireRefused \/ Relayed \/ FireFailed \/ FireAnswered \/ Cancel
  BY <1>0, <1>3 DEF PoolExhausted, FireRefused, Relayed, FireFailed, FireAnswered, Cancel, Retry,
        RememberProxy, Returns, AttemptEnds, retry, lease, cells, history, leaseVars
<1>4. CASE ResolveReads
  BY <1>0, <1>4 DEF ResolveReads, LookupReads, ExcludeProxy, retry, lease, cells, history
<1>5. CASE Resolved \/ ResolveRefused
  BY <1>0, <1>5 DEF Resolved, ResolveRefused, LookupAccepts, LookupRefuses, Retry, AttemptEnds,
        retry, cells, history
<1>6. CASE AcquireHot
  <2>1. PICK p \in Reach : Serves(p) /\ Acquired(slot[p])
    BY <1>6 DEF AcquireHot
  <2>2. slot[p] \in Spawned
    BY ZenonT(30), <1>0, <2>1 DEF Serves, Reach, Pools
  <2> QED
    BY <1>0, <1>6, <2>1, <2>2
       DEF AcquireHot, Acquired, IssueReads, Retry, AttemptEnds, retry, lease, cells, history,
          leaseVars
<1>7. CASE AcquireSpawned
  <2>1. PICK p \in Reach, a \in Addresses :
          /\ Len(address) + 1 \in Cells
          /\ slot' = [slot EXCEPT ![p] = Len(address) + 1]
          /\ address' = Append(address, a)
          /\ Acquired(Len(address) + 1)
    BY ZenonT(30), <1>7 DEF AcquireSpawned
  <2>2. Len(address') = Len(address) + 1 /\ address' \in Seq(Addresses) /\ Len(address) \in Nat
    BY <1>0, <2>1
  <2>3. Spawned' = Spawned \cup {Len(address) + 1}
    BY <2>2
  <2>4. slot' \in [Pools -> Spawned' \cup {NoCell}]
    <3>1. slot \in [Pools -> Spawned \cup {NoCell}]
      BY <1>0
    <3>2. p \in Pools
      BY DEF Reach, Pools
    <3>3. Len(address) + 1 \in Spawned' /\ Spawned \subseteq Spawned'
      BY <2>3
    <3> HIDE DEF Spawned
    <3> QED
      BY <2>1, <3>1, <3>2, <3>3
  <2> QED
    BY <1>0, <1>7, <2>1, <2>2, <2>3, <2>4
       DEF AcquireSpawned, Acquired, IssueReads, Retry, AttemptEnds, retry, lease, history, leaseVars
<1>8. CASE LeaseIssued
  BY <1>0, <1>8 DEF LeaseIssued, IssueStores, retry, cells, history
<1>9. CASE FireSend \/ Admitted \/ Dial \/ Barred
  BY ZenonT(30), <1>0, <1>9 DEF FireSend, Admitted, Dial, Barred, LookupReads, LookupAccepts, LookupRefuses,
        retry, lease, cells, history
<1>10. ASSUME Around, UNCHANGED <<given, pc, retry, open, cancelled, result, lease, history>>
       PROVE  CallOK'
  <2>1. call'["api"] = call["api"] /\ issued' = issued
    BY <1>0, <1>10 DEF Around, leaseVars, OtherLookup, LookupReads, LookupAccepts, LookupRefuses,
          LookupMismatch, Tick
  <2>2. address' = address /\ slot' \in [Pools -> Spawned \cup {NoCell}]
    BY <1>0, <1>10 DEF Around, CellReaped, OrphanReaped, cells
  <2> QED
    BY ZenonT(30), <1>0, <1>10, <2>1, <2>2 DEF retry, lease, history
<1>11. CASE UNCHANGED vars
  BY <1>0, <1>11 DEF vars, retry, lease, cells, history, leaseVars
<1> HIDE DEF CallOK, Allocating, Firing, Direct, Spawned
<1> QED
  BY ZenonT(30), <1>1, <1>2, <1>3, <1>4, <1>5, <1>6, <1>7, <1>8, <1>9, <1>10, <1>11
     DEF Next, Step

\* A response is closed on every path but the one that returns it
\* (dispatchPublicFirst, tryOnce).
LEMMA OpenStep ==
  ASSUME ClientInv, [Next]_vars
  PROVE  OpenOK'
<1> USE DEF OpenOK
<1>0. OpenOK
  BY DEF ClientInv
<1>1. CASE Dispatch \/ DirectSend \/ DirectRefused \/ DirectAnswer \/ DirectFellThrough
  BY <1>0, <1>1 DEF Dispatch, DirectSend, DirectRefused, DirectAnswer, DirectFellThrough, Returns
<1>2. CASE Wait \/ WaitAborted \/ Exhausted \/ PoolUnavailable \/ ExcludesNothing
  BY <1>0, <1>2 DEF Wait, Ask, WaitAborted, Exhausted, PoolUnavailable, Retry, ExcludesNothing,
        Returns
<1>3. CASE ResolveReads \/ Resolved \/ ResolveRefused \/ PoolExhausted \/ LeaseIssued
  BY <1>0, <1>3 DEF ResolveReads, Resolved, ResolveRefused, PoolExhausted, LeaseIssued, Retry,
        Returns
<1>4. CASE AcquireHot \/ AcquireSpawned
  BY <1>0, <1>4 DEF AcquireHot, AcquireSpawned, Acquired, Retry
<1>5. CASE FireRefused \/ FireSend \/ Admitted \/ Dial \/ Barred
  BY <1>0, <1>5 DEF FireRefused, FireSend, Admitted, Dial, Barred, Retry
<1>6. CASE Relayed \/ FireFailed \/ FireAnswered \/ Cancel
  BY <1>0, <1>6 DEF Relayed, FireFailed, FireAnswered, Cancel, Retry, Returns
<1>7. CASE UNCHANGED <<pc, open, result>>
  BY <1>0, <1>7
<1> HIDE DEF OpenOK
<1> QED
  BY ZenonT(30), <1>1, <1>2, <1>3, <1>4, <1>5, <1>6, <1>7 DEF Next, Step, vars

\* The backoff of a later attempt ends a cancelled call (waitBackoff).
LEMMA CancelStep ==
  ASSUME ClientInv, [Next]_vars
  PROVE  CancelOK'
<1> USE DEF CancelOK, Direct, given, retry, history
<1>0. CancelOK /\ attempt \in Nat \ {0}
  BY DEF ClientInv, CallOK
<1>1. CASE Dispatch \/ DirectSend \/ DirectRefused \/ DirectAnswer \/ DirectFellThrough
  BY <1>0, <1>1 DEF Dispatch, DirectSend, DirectRefused, DirectAnswer, DirectFellThrough, Returns
<1>2. CASE Wait \/ WaitAborted \/ Exhausted \/ PoolUnavailable \/ ExcludesNothing
  BY <1>0, <1>2 DEF Wait, Ask, WaitAborted, Exhausted, PoolUnavailable, Retry, ExcludesNothing,
        Returns
<1>3. CASE ResolveReads \/ Resolved \/ ResolveRefused \/ PoolExhausted \/ LeaseIssued
  BY <1>0, <1>3 DEF ResolveReads, Resolved, ResolveRefused, PoolExhausted, LeaseIssued, Retry,
        Returns
<1>4. CASE AcquireHot \/ AcquireSpawned
  BY <1>0, <1>4 DEF AcquireHot, AcquireSpawned, Acquired, Retry
<1>5. CASE FireRefused \/ FireSend \/ Admitted \/ Dial \/ Barred
  BY <1>0, <1>5 DEF FireRefused, FireSend, Admitted, Dial, Barred, Retry
<1>6. CASE Relayed \/ FireFailed \/ FireAnswered \/ Cancel
  BY <1>0, <1>6 DEF Relayed, FireFailed, FireAnswered, Cancel, Retry, Returns
<1>7. CASE UNCHANGED <<given, pc, attempt, cancelled, late>>
  BY <1>0, <1>7
<1> HIDE DEF CancelOK, Direct
<1> QED
  BY ZenonT(30), <1>1, <1>2, <1>3, <1>4, <1>5, <1>6, <1>7 DEF Next, Step, vars

\* The cell that a retry excludes is that of lastProxy, the lease it used last: its
\* record does not change, and a lease that is no longer known fails the attempt
\* (ResolveExcludedProxy).
LEMMA RotateStep ==
  ASSUME ClientInv, [Next]_vars
  PROVE  RotateOK'
<1> USE DEF RotateOK, Allocating, Firing, Direct
<1>0. RotateOK /\ CallOK /\ call \in [Users -> Calls] /\ attempt \in Nat \ {0}
  BY ZenonT(30) DEF ClientInv, LeaseInv, CallOK
<1>1. \A id, c : Names(id, c) => Names(id, c)'
  BY ZenonT(30), RecordsKept, LeaseSteps DEF ClientInv
<1>2. CASE Dispatch \/ DirectSend \/ DirectRefused \/ DirectAnswer \/ DirectFellThrough
  BY ZenonT(30), <1>0, <1>2 DEF Dispatch, DirectSend, DirectRefused, DirectAnswer, DirectFellThrough,
        Returns, AttemptEnds, retry, lease, cells, history, leaseVars
<1>3. CASE Wait \/ WaitAborted \/ Exhausted \/ PoolUnavailable
  BY <1>0, <1>1, <1>3 DEF Wait, Ask, WaitAborted, Exhausted, PoolUnavailable, Retry,
        Returns, AttemptEnds, retry, lease, cells, history
<1>4. CASE ExcludesNothing \/ ResolveReads
  BY <1>0, <1>1, <1>4 DEF ExcludesNothing, ResolveReads, ExcludeProxy, ExcludesPrev,
        retry, lease, cells, history
<1>5. CASE Resolved
  <2>1. call["api"].id = lastProxy /\ lastProxy \in Known
    <3>1. call["api"].op = "lookup" /\ call["api"].id = lastProxy
      BY <1>0, <1>5 DEF Resolved, CallOK
    <3> QED
      BY ZenonT(30), <1>5, <3>1 DEF Resolved, LookupAccepts, Kept
  <2>2. used # NoCell => excluded' = address[used]
    BY ZenonT(30), <1>0, <1>5, <2>1 DEF Resolved, Names
  <2> QED
    BY ZenonT(30), <1>0, <1>1, <1>5, <2>2 DEF Resolved, retry, cells, history
<1>6. CASE ResolveRefused \/ PoolExhausted
  BY ZenonT(30), <1>0, <1>1, <1>6 DEF ResolveRefused, PoolExhausted, Retry, Returns, AttemptEnds,
        retry, cells, history
<1>7. CASE AcquireHot
  <2>1. PICK p \in Reach : Serves(p) /\ Acquired(slot[p])
    BY ZenonT(30), <1>7 DEF AcquireHot
  <2>2. attempt >= 3 /\ used # NoCell => slot[p] # used
    BY ZenonT(30), <1>0, <1>7, <2>1 DEF AcquireHot, Serves
  <2>3. pc' = "issue" => call'["api"].cell = slot[p]
    BY <1>0, <2>1, NamesAssumption DEF Acquired, IssueReads, Retry
  <2> QED
    BY <1>0, <1>1, <1>7, <2>1, <2>2, <2>3 DEF AcquireHot, Acquired, Retry, retry, history
<1>8. CASE AcquireSpawned
  <2>1. Acquired(Len(address) + 1)
    BY ZenonT(30), <1>8 DEF AcquireSpawned
  <2>2. used # NoCell => used # Len(address) + 1
    BY <1>0 DEF CallOK, Spawned
  <2>3. pc' = "issue" => call'["api"].cell = Len(address) + 1
    BY <1>0, <2>1, NamesAssumption DEF Acquired, IssueReads, Retry
  <2> QED
    BY <1>0, <1>1, <1>8, <2>1, <2>2, <2>3 DEF AcquireSpawned, Acquired, Retry, retry, history
<1>9. CASE LeaseIssued
  <2>1. Names(attempt, leased)'
    BY ZenonT(30), <1>9, <1>0, NamesAssumption DEF LeaseIssued, IssueStores, Names, Known, retry
  <2> QED
    BY ZenonT(30), <1>0, <1>1, <1>9, <2>1 DEF LeaseIssued, retry, cells, history
<1>10. CASE FireRefused \/ FireSend
  BY ZenonT(30), <1>0, <1>1, <1>10 DEF FireRefused, FireSend, RememberProxy, Retry, AttemptEnds,
        retry, lease, cells, NoLease
<1>11. CASE Admitted \/ Dial \/ Barred \/ Relayed
  BY ZenonT(30), <1>0, <1>1, <1>11 DEF Admitted, Dial, Barred, Relayed, retry, lease, cells, history
<1>12. CASE FireFailed \/ FireAnswered
  BY ZenonT(30), <1>0, <1>1, <1>12 DEF FireFailed, FireAnswered, RememberProxy, Retry, Returns, AttemptEnds,
        retry, cells, history, NoLease
<1>13. ASSUME Cancel \/ Around \/ UNCHANGED <<cells, leaseVars>>,
              UNCHANGED <<pc, retry, lease, history>>
       PROVE  RotateOK'
  <2>1. call'["api"] = call["api"]
    BY <1>0, <1>13, NamesAssumption
       DEF Cancel, Around, leaseVars, OtherLookup, LookupReads, LookupAccepts,
          LookupRefuses, LookupMismatch, Tick
  <2>2. address' = address
    BY <1>13 DEF Cancel, Around, CellReaped, OrphanReaped, cells
  <2> QED
    BY ZenonT(30), <1>0, <1>1, <1>13, <2>1, <2>2 DEF retry, lease, history
<1> HIDE DEF RotateOK, Allocating, Firing, Direct
<1> QED
  BY ZenonT(30), <1>2, <1>3, <1>4, <1>5, <1>6, <1>7, <1>8, <1>9, <1>10, <1>11, <1>12, <1>13
     DEF Next, Step, Cancel, vars

-----------------------------------------------------------------------------
(***************************************************************************)
(* Theorems                                                                *)
(***************************************************************************)

\* The invariant of a call holds in every state (Do, handleProxy, the gateway's
\* lookups).
THEOREM ClientInductive == Spec => []ClientInv
<1>1. ClientInv /\ [Next]_vars => ClientInv'
  BY ZenonT(30), LeaseSteps, LeaseNextInv, CallStep, OpenStep, CancelStep, RotateStep
     DEF ClientInv
<1> QED
  BY ClientInit, <1>1, PTL DEF Spec

\* The call, the controller and the gateway use the lease registry as its own
\* specification says (IssueLease, ResolveExcludedProxy, lookupLease).
THEOREM ClientUsesRegistry == Spec => LeaseSpec
<1>1. Init => LeaseInit
  BY DEF Init
<1>2. ClientInv /\ [Next]_vars => [LeaseNext]_leaseVars
  BY LeaseSteps
<1> QED
  BY ClientInductive, <1>1, <1>2, PTL DEF Spec, LeaseSpec

\* From the third attempt on, a call gets a lease for another cell than the one it
\* used last (do, tryOnce, ResolveExcludedProxy, PoolState.acquire).
THEOREM RetriesRotate == Spec => []RotatesCell
<1>1. ClientInv => RotatesCell
  BY DEF ClientInv, RotateOK, RotatesCell
<1> QED
  BY ClientInductive, <1>1, PTL

\* Whatever path a call takes, only the response it returns is left open
\* (dispatchPublicFirst, tryOnce).
THEOREM ResponsesClosed == Spec => []NoLeakedResponse
<1>1. ClientInv => NoLeakedResponse
  BY DEF ClientInv, OpenOK, NoLeakedResponse
<1> QED
  BY ClientInductive, <1>1, PTL

\* A cancelled call whose policy makes it wait between attempts begins at most one
\* more allocation, whatever the number of attempts it may make (waitBackoff,
\* shouldRetry).
THEOREM CancelledCallStops == Spec => []CancelStops
<1>1. ClientInv => CancelStops
  BY DEF ClientInv, CancelOK, CancelStops
<1> QED
  BY ClientInductive, <1>1, PTL

\* What the registry promises holds where it is used: a lease that a lookup did not
\* find is not found again, and none leaves before its time (Lookup, Issue).
THEOREM ClientLeases == Spec => []RefusalIsFinal /\ LivesItsTTL
  BY ClientUsesRegistry, LookupRefusalIsFinal, LeasesLiveTheirTTL, PTL

-----------------------------------------------------------------------------
(***************************************************************************)
(* The start order                                                         *)
(***************************************************************************)

\* How often a service lists a name.
Lists == [Services -> [Services \cup External -> 0..MaxListed]]

\* The services that have a group, and the others.
Done == {s \in Services : groupOf[s] # 0}

Left == Services \ Done

OrderTypes ==
  /\ dependencies \in Lists
  /\ groups \in Nat /\ groupOf \in [Services -> 0..groups]
  /\ outcome \in {"none", "groups", "cyclic"}

\* The counts are those of the dependencies that have no group yet, and the queue
\* is what no such dependency holds back.
CountOK ==
  /\ inDegree = [s \in Services |-> Cardinality(Entries(dependencies, s, Left))]
  /\ queue = {s \in Left : inDegree[s] = 0}
  /\ processed = Cardinality(Done)

\* A service has a later group than its dependencies, and the one right after the
\* latest of them; so would the services of the queue.  No group is empty.
PlacedOK ==
  /\ \A s \in Done : \A t \in Services :
       <<s, t>> \in DependsOn => t \in Done /\ groupOf[t] < groupOf[s]
  /\ \A s \in Done : groupOf[s] > 1 =>
       \E t \in Services : <<s, t>> \in DependsOn /\ groupOf[t] = groupOf[s] - 1
  /\ \A s \in queue : groups > 0 =>
       \E t \in Services : <<s, t>> \in DependsOn /\ groupOf[t] = groups
  /\ \A k \in 1..groups : \E s \in Services : groupOf[s] = k

OutcomeOK ==
  /\ outcome # "none" => queue = {}
  /\ outcome = "groups" => Left = {}
  /\ outcome = "cyclic" => Left # {}

OrderInv == OrderTypes /\ CountOK /\ PlacedOK /\ OutcomeOK

\* An entry is a name of the set and a number up to how often it is listed.
LEMMA EntryIs ==
  ASSUME NEW d, NEW s, NEW T, NEW e
  PROVE  e \in Entries(d, s, T) <=> \E t \in T : e \in {t} \X (1..d[s][t])
  BY ZenonT(30) DEF Entries

\* A list is finite.
LEMMA EntriesFinite ==
  ASSUME NEW d \in Lists, NEW s \in Services, NEW T \in SUBSET Services
  PROVE  IsFiniteSet(Entries(d, s, T)) /\ Cardinality(Entries(d, s, T)) \in Nat
<1>1. Entries(d, s, T) \subseteq Services \X (1..MaxListed)
  <2> SUFFICES ASSUME NEW e \in Entries(d, s, T) PROVE e \in Services \X (1..MaxListed)
    OBVIOUS
  <2>1. PICK t \in T : e \in {t} \X (1..d[s][t])
    BY EntryIs
  <2>2. d[s][t] \in 0..MaxListed
    BY DEF Lists
  <2> QED
    BY <2>1, <2>2, ListedAssumption
<1>2. IsFiniteSet(1..MaxListed) /\ IsFiniteSet(Services)
  BY FS_Interval, ListedAssumption
<1> DEFINE all == Services \X (1..MaxListed)
<1>3. IsFiniteSet(all)
  BY <1>2, FS_Product, ZenonT(30)
<1> HIDE DEF all
<1>4. IsFiniteSet(Entries(d, s, T))
  BY <1>1, <1>3, FS_Subset, ZenonT(30) DEF all
<1> QED
  BY <1>4, FS_CardinalityType

\* The entries for two sets of names are counted apart.
LEMMA EntriesSplit ==
  ASSUME NEW d \in Lists, NEW s \in Services, NEW T \in SUBSET Services, NEW U \in SUBSET T
  PROVE  Cardinality(Entries(d, s, T)) = Cardinality(Entries(d, s, T \ U)) + Cardinality(Entries(d, s, U))
<1> DEFINE E1 == Entries(d, s, T \ U)
           E2 == Entries(d, s, U)
<1>1. Entries(d, s, T) = E1 \cup E2
  BY ZenonT(30) DEF Entries
<1>2. E1 \cap E2 = {}
  <2> SUFFICES ASSUME NEW e \in E1, e \in E2 PROVE FALSE
    OBVIOUS
  <2>1. PICK t \in T \ U : e \in {t} \X (1..d[s][t])
    BY EntryIs
  <2>2. PICK u \in U : e \in {u} \X (1..d[s][u])
    BY EntryIs
  <2> QED
    BY <2>1, <2>2
<1>3. IsFiniteSet(E1) /\ IsFiniteSet(E2) /\ Cardinality(E1) \in Nat /\ Cardinality(E2) \in Nat
  BY EntriesFinite
<1> HIDE DEF E1, E2
<1>4. Cardinality(E1 \cup E2) = Cardinality(E1) + Cardinality(E2) - Cardinality(E1 \cap E2)
  BY <1>3, FS_Union
<1>5. Cardinality(E1 \cap E2) = 0
  BY <1>2, FS_EmptySet
<1> QED
  BY <1>1, <1>3, <1>4, <1>5 DEF E1, E2

\* The count is zero when none of the names is listed.
LEMMA EntriesNone ==
  ASSUME NEW d \in Lists, NEW s \in Services, NEW T \in SUBSET Services
  PROVE  Cardinality(Entries(d, s, T)) = 0 <=> \A t \in T : d[s][t] = 0
<1>1. Cardinality(Entries(d, s, T)) = 0 <=> Entries(d, s, T) = {}
  BY EntriesFinite, FS_EmptySet
<1>2. ASSUME NEW t \in T, d[s][t] # 0 PROVE Entries(d, s, T) # {}
  <2>1. d[s][t] \in 0..MaxListed
    BY DEF Lists
  <2>2. <<t, 1>> \in {t} \X (1..d[s][t])
    BY <1>2, <2>1, ListedAssumption
  <2>3. <<t, 1>> \in Entries(d, s, T)
    BY <2>2, EntryIs, ZenonT(30)
  <2> QED
    BY <2>3
<1>3. ASSUME \A t \in T : d[s][t] = 0 PROVE Entries(d, s, T) = {}
  <2> SUFFICES ASSUME NEW e \in Entries(d, s, T) PROVE FALSE
    OBVIOUS
  <2>1. PICK t \in T : e \in {t} \X (1..d[s][t])
    BY EntryIs
  <2> QED
    BY <1>3, <2>1
<1> QED
  BY <1>1, <1>2, <1>3

\* Before the first round.
LEMMA OrderStarts == OrderInit => OrderInv
<1> SUFFICES ASSUME OrderInit PROVE OrderInv
  OBVIOUS
<1>1. OrderTypes
  <2>1. dependencies \in Lists
    BY ZenonT(30) DEF OrderInit, Lists
  <2>2. groups = 0 /\ groupOf = [s \in Services |-> 0] /\ outcome = "none"
    BY DEF OrderInit
  <2> QED
    BY <2>1, <2>2 DEF OrderTypes
<1>2. Done = {} /\ Left = Services
  BY DEF OrderInit, Done, Left
<1>3. CountOK
  BY <1>2, FS_EmptySet DEF OrderInit, CountOK, InDegree
<1>4. PlacedOK
  BY <1>2 DEF OrderInit, PlacedOK
<1>5. OutcomeOK
  BY DEF OrderInit, OutcomeOK
<1> QED
  BY <1>1, <1>3, <1>4, <1>5 DEF OrderInv

\* A round: the counts go down by the entries that name the queue.
LEMMA RoundKeeps == OrderInv /\ Round => OrderInv'
<1> SUFFICES ASSUME OrderInv, Round PROVE OrderInv'
  OBVIOUS
<1> USE DEF OrderInv
<1>1. /\ Done' = Done \cup queue /\ Left' = Left \ queue
      /\ queue \subseteq Left /\ Done \cap queue = {}
      /\ Done \subseteq Services /\ Left \subseteq Services
  BY DEF OrderTypes, CountOK, Round, Done, Left
<1>2. OrderTypes'
  BY <1>1 DEF OrderTypes, Round, Left
<1>3. ASSUME NEW s \in Services
      PROVE  /\ Opened(s) \in Nat /\ inDegree[s] \in Nat /\ inDegree'[s] \in Nat
             /\ inDegree'[s] = Cardinality(Entries(dependencies, s, Left'))
             /\ inDegree[s] = inDegree'[s] + Opened(s)
  <2>1. dependencies \in Lists
    BY DEF OrderTypes
  <2>2. inDegree[s] = Cardinality(Entries(dependencies, s, Left))
    BY DEF CountOK
  <2>3. inDegree'[s] = inDegree[s] - Opened(s)
    BY DEF Round
  <2>4. Cardinality(Entries(dependencies, s, Left)) =
          Cardinality(Entries(dependencies, s, Left')) + Cardinality(Entries(dependencies, s, queue))
    BY <1>1, <2>1, EntriesSplit
  <2>5. /\ Cardinality(Entries(dependencies, s, Left')) \in Nat
        /\ Cardinality(Entries(dependencies, s, queue)) \in Nat
    BY <1>1, <2>1, EntriesFinite
  <2> QED
    BY <2>2, <2>3, <2>4, <2>5 DEF Opened
<1>4. ASSUME NEW s \in Services, NEW T \in SUBSET Services
      PROVE  Cardinality(Entries(dependencies, s, T)) = 0 <=> \A t \in T : <<s, t>> \notin DependsOn
  <2>1. dependencies \in Lists
    BY DEF OrderTypes
  <2>2. \A t \in T : dependencies[s][t] = 0 <=> <<s, t>> \notin DependsOn
    BY <2>1, ListedAssumption DEF Lists, DependsOn
  <2>3. Cardinality(Entries(dependencies, s, T)) = 0 <=> \A t \in T : dependencies[s][t] = 0
    BY <2>1, EntriesNone
  <2> QED
    BY <2>2, <2>3, ZenonT(30)
<1>5. ASSUME NEW s \in Done PROVE inDegree[s] = 0 /\ Opened(s) = 0
  <2>1. inDegree[s] = 0
    <3>1. \A t \in Left : <<s, t>> \notin DependsOn
      BY <1>1 DEF PlacedOK, Left
    <3> QED
      BY <1>1, <1>4, <3>1 DEF CountOK
  <2> QED
    BY <1>1, <1>3, <2>1
<1>6. queue' = {s \in Left' : inDegree'[s] = 0}
  <2>0. queue = {s \in Left : inDegree[s] = 0}
    BY DEF CountOK
  <2>1. queue' = {s \in Services : Opened(s) > 0 /\ inDegree'[s] = 0}
    BY DEF Round
  <2>2. ASSUME NEW s \in Services PROVE Opened(s) > 0 /\ inDegree'[s] = 0 <=> s \in Left' /\ inDegree'[s] = 0
    <3>1. CASE s \in Done
      BY <1>1, <1>5, <3>1 DEF Left
    <3>2. CASE s \in queue
      <4>1. inDegree[s] = 0
        BY <2>0, <3>2
      <4>2. Opened(s) \in Nat /\ inDegree'[s] \in Nat /\ inDegree[s] = inDegree'[s] + Opened(s)
        BY <1>3, ZenonT(30)
      <4>3. ~ (Opened(s) > 0)
        BY <4>1, <4>2
      <4> QED
        BY <1>1, <3>2, <4>3
    <3>3. CASE s \in Left \ queue
      <4>1. inDegree[s] # 0 /\ s \in Left'
        BY <1>1, <2>0, <3>3
      <4>2. Opened(s) \in Nat /\ inDegree'[s] \in Nat /\ inDegree[s] = inDegree'[s] + Opened(s)
        BY <1>3, ZenonT(30)
      <4>3. inDegree'[s] = 0 => Opened(s) > 0
        BY <4>1, <4>2
      <4> QED
        BY <4>1, <4>3, ZenonT(30)
    <3> QED
      BY <3>1, <3>2, <3>3 DEF Left
  <2> QED
    BY <1>1, <2>1, <2>2
<1>7. processed' = Cardinality(Done')
  <2>1. IsFiniteSet(Done) /\ IsFiniteSet(queue)
    BY <1>1, FS_Subset, ListedAssumption
  <2>2. Cardinality(Done \cup queue) = Cardinality(Done) + Cardinality(queue) - Cardinality(Done \cap queue)
    BY <2>1, FS_Union
  <2>3. Cardinality(Done \cap queue) = 0 /\ Cardinality(Done) \in Nat /\ Cardinality(queue) \in Nat
    BY <1>1, <2>1, FS_EmptySet, FS_CardinalityType
  <2> QED
    BY <1>1, <2>2, <2>3 DEF Round, CountOK
<1>8. CountOK'
  <2>1. inDegree' = [s \in Services |-> inDegree'[s]] /\ dependencies' = dependencies
    BY DEF Round
  <2>2. inDegree' = [s \in Services |-> Cardinality(Entries(dependencies', s, Left'))]
    BY <1>3, <2>1
  <2> QED
    BY <1>6, <1>7, <2>2 DEF CountOK
<1>9. DependsOn' = DependsOn
  BY DEF Round, DependsOn
<1>10. ASSUME NEW s \in queue, NEW t \in Services, <<s, t>> \in DependsOn
       PROVE  t \in Done /\ groupOf[t] <= groups
  BY <1>1, <1>4, <1>10 DEF CountOK, Left, OrderTypes
<1>11. \A s \in Services : groupOf'[s] = IF s \in queue THEN groups + 1 ELSE groupOf[s]
  BY DEF Round
<1>12. ASSUME NEW s \in Done', NEW t \in Services, <<s, t>> \in DependsOn
       PROVE  t \in Done' /\ groupOf'[t] < groupOf'[s]
  <2>1. CASE s \in queue
    BY <1>1, <1>10, <1>11, <1>12, <2>1 DEF OrderTypes
  <2>2. CASE s \in Done
    BY <1>1, <1>11, <1>12, <2>2 DEF PlacedOK
  <2> QED
    BY <1>1, <2>1, <2>2
<1>13. ASSUME NEW s \in Done', groupOf'[s] > 1
       PROVE  \E t \in Services : <<s, t>> \in DependsOn /\ groupOf'[t] = groupOf'[s] - 1
  <2>1. CASE s \in queue
    <3>1. groupOf'[s] = groups + 1 /\ groups > 0
      BY <1>1, <1>11, <1>13, <2>1 DEF OrderTypes
    <3>2. PICK t \in Services : <<s, t>> \in DependsOn /\ groupOf[t] = groups
      BY <2>1, <3>1 DEF PlacedOK
    <3>3. t \in Done
      BY <2>1, <3>2, <1>10
    <3> QED
      BY <1>1, <1>11, <3>1, <3>2, <3>3 DEF OrderTypes
  <2>2. CASE s \in Done
    <3>1. groupOf'[s] = groupOf[s]
      BY <1>1, <1>11, <2>2
    <3>2. PICK t \in Services : <<s, t>> \in DependsOn /\ groupOf[t] = groupOf[s] - 1
      BY <1>13, <2>2, <3>1 DEF PlacedOK
    <3>3. t \in Done
      BY <2>2, <3>2 DEF PlacedOK
    <3> QED
      BY <1>1, <1>11, <3>1, <3>2, <3>3
  <2> QED
    BY <1>1, <2>1, <2>2
<1>14. ASSUME NEW s \in queue'
       PROVE  \E t \in Services : <<s, t>> \in DependsOn /\ groupOf'[t] = groups'
  <2>1. s \in Services /\ Opened(s) # 0
    BY <1>3 DEF Round
  <2>2. PICK t \in queue : <<s, t>> \in DependsOn
    BY <1>1, <1>4, <2>1 DEF Opened
  <2>3. groups' = groups + 1
    BY DEF Round
  <2>4. t \in Services
    BY <1>1, <2>2
  <2> QED
    BY <1>11, <2>2, <2>3, <2>4
<1>15. ASSUME NEW k \in 1..groups' PROVE \E s \in Services : groupOf'[s] = k
  <2>1. groups' = groups + 1 /\ groups \in Nat
    BY DEF Round, OrderTypes
  <2>2. CASE k = groups + 1
    <3>1. PICK s \in queue : TRUE
      BY DEF Round
    <3> QED
      BY <1>1, <1>11, <2>2
  <2>3. CASE k # groups + 1
    <3>1. k \in 1..groups /\ k # 0
      BY <2>1, <2>3
    <3>2. PICK s \in Services : groupOf[s] = k
      BY <3>1 DEF PlacedOK
    <3>3. s \in Done
      BY <3>1, <3>2 DEF Done
    <3> QED
      BY <1>1, <1>11, <3>2, <3>3
  <2> QED
    BY <2>2, <2>3
<1>16. PlacedOK'
  BY <1>9, <1>12, <1>13, <1>14, <1>15 DEF PlacedOK
<1>17. OutcomeOK'
  BY DEF OutcomeOK, Round
<1> QED
  BY <1>2, <1>8, <1>16, <1>17

\* The end: whether a service is left shows in the number processed.
LEMMA FinishKeeps == OrderInv /\ Finish => OrderInv'
<1> SUFFICES ASSUME OrderInv, Finish PROVE OrderInv'
  OBVIOUS
<1>1. Done' = Done /\ Left' = Left /\ DependsOn' = DependsOn /\ Done \subseteq Services
  BY DEF Finish, Done, Left, DependsOn
<1>2. OrderTypes' /\ CountOK' /\ PlacedOK'
  <2>1. UNCHANGED <<dependencies, inDegree, queue, groupOf, groups, processed>>
    BY DEF Finish
  <2>2. OrderTypes'
    BY <2>1 DEF OrderInv, Finish, OrderTypes
  <2>3. CountOK'
    BY <1>1, <2>1, ZenonT(30) DEF OrderInv, CountOK
  <2>4. PlacedOK'
    BY <1>1, <2>1 DEF OrderInv, PlacedOK
  <2> QED
    BY <2>2, <2>3, <2>4
<1>3. processed = Cardinality(Services) <=> Left = {}
  <2>1. processed = Cardinality(Done)
    BY DEF OrderInv, CountOK
  <2>2. Cardinality(Done) = Cardinality(Services) => Done = Services
    BY <1>1, FS_Subset, ListedAssumption
  <2> QED
    BY <1>1, <2>1, <2>2 DEF Left
<1>4. OutcomeOK'
  BY <1>1, <1>3 DEF OrderInv, OutcomeOK, Finish
<1> QED
  BY <1>2, <1>4 DEF OrderInv

\* The invariant of topoSort's loop.
THEOREM OrderAlways == OrderSpec => []OrderInv
<1>1. ASSUME OrderInv, UNCHANGED orderVars PROVE OrderInv'
  <2>1. Done' = Done /\ Left' = Left /\ DependsOn' = DependsOn
    BY <1>1 DEF Done, Left, DependsOn, orderVars
  <2>2. UNCHANGED <<dependencies, inDegree, queue, groupOf, groups, processed, outcome>>
    BY <1>1 DEF orderVars
  <2>3. OrderTypes' /\ OutcomeOK'
    BY <1>1, <2>1, <2>2 DEF OrderInv, OrderTypes, OutcomeOK
  <2>4. CountOK'
    BY <1>1, <2>1, <2>2, ZenonT(30) DEF OrderInv, CountOK
  <2>5. PlacedOK'
    BY <1>1, <2>1, <2>2 DEF OrderInv, PlacedOK
  <2> QED
    BY <2>3, <2>4, <2>5 DEF OrderInv
<1>2. OrderInv /\ [OrderNext]_orderVars => OrderInv'
  BY <1>1, RoundKeeps, FinishKeeps DEF OrderNext
<1> QED
  BY <1>2, OrderStarts, PTL DEF OrderSpec

\* topoSort returns an order that starts every service as early as it may.
THEOREM OrderIsRespected == OrderSpec => []OrderRespected
<1>1. ASSUME OrderInv PROVE OrderRespected
  <2> SUFFICES ASSUME outcome = "groups", NEW s \in Services
               PROVE  /\ \A t \in Services : <<s, t>> \in DependsOn => groupOf[t] < groupOf[s]
                      /\ \/ groupOf[s] = 1
                         \/ \E t \in Services : <<s, t>> \in DependsOn /\ groupOf[t] = groupOf[s] - 1
    BY ZenonT(30) DEF OrderRespected
  <2>1. s \in Done /\ groupOf[s] \in Nat \ {0}
    BY <1>1 DEF OrderInv, OrderTypes, OutcomeOK, Left, Done
  <2>2. \A t \in Services : <<s, t>> \in DependsOn => groupOf[t] < groupOf[s]
    BY <1>1, <2>1, ZenonT(30) DEF OrderInv, PlacedOK
  <2>3. groupOf[s] > 1 =>
          \E t \in Services : <<s, t>> \in DependsOn /\ groupOf[t] = groupOf[s] - 1
    BY <1>1, <2>1, ZenonT(30) DEF OrderInv, PlacedOK
  <2>4. groupOf[s] = 1 \/ groupOf[s] > 1
    BY <2>1
  <2> QED
    BY <2>2, <2>3, <2>4, ZenonT(30)
<1> QED
  BY <1>1, OrderAlways, PTL

\* The groups in order, as topoSort returns them.
StartGroups == [k \in 1..groups |-> {s \in Services : groupOf[s] = k}]

\* What the service manager is started with is what GroupsAssumption of ServiceManager
\* asks for: a sequence of disjoint groups with every service in one.  And no group is
\* empty.  So what is proved of Run and Stop for any such groups holds for those of
\* resolveOrder.
THEOREM GroupsFit ==
  OrderSpec =>
    [](outcome = "groups" =>
         /\ StartGroups \in Seq((SUBSET Services) \ {{}})
         /\ \A i, j \in 1..Len(StartGroups) : i # j => StartGroups[i] \cap StartGroups[j] = {}
         /\ UNION {StartGroups[i] : i \in 1..Len(StartGroups)} = Services)
<1>1. ASSUME OrderInv, outcome = "groups"
      PROVE  /\ StartGroups \in Seq((SUBSET Services) \ {{}})
             /\ \A i, j \in 1..Len(StartGroups) : i # j => StartGroups[i] \cap StartGroups[j] = {}
             /\ UNION {StartGroups[i] : i \in 1..Len(StartGroups)} = Services
  <2> DEFINE Group(k) == {s \in Services : groupOf[s] = k}
  <2>1. groups \in Nat /\ \A s \in Services : groupOf[s] \in 1..groups
    BY <1>1 DEF OrderInv, OrderTypes, OutcomeOK, Left, Done
  <2>2. ASSUME NEW k \in 1..groups PROVE Group(k) \in (SUBSET Services) \ {{}}
    <3>1. PICK s \in Services : groupOf[s] = k
      BY <1>1, ZenonT(30) DEF OrderInv, PlacedOK
    <3>2. s \in Group(k) /\ Group(k) \subseteq Services
      BY <3>1
    <3> HIDE DEF Group
    <3> QED
      BY <3>2
  <2>3. StartGroups = [k \in 1..groups |-> Group(k)]
    BY DEF StartGroups
  <2> HIDE DEF Group
  <2>4. StartGroups \in Seq((SUBSET Services) \ {{}}) /\ Len(StartGroups) = groups
    BY <2>1, <2>2, <2>3
  <2>5. \A k \in 1..groups : StartGroups[k] = Group(k)
    BY <2>3
  <2>6. ASSUME NEW i \in 1..groups, NEW j \in 1..groups, i # j
        PROVE  StartGroups[i] \cap StartGroups[j] = {}
    BY <2>5, <2>6 DEF Group
  <2>7. UNION {StartGroups[i] : i \in 1..groups} = Services
    <3>1. ASSUME NEW s \in Services PROVE s \in UNION {StartGroups[i] : i \in 1..groups}
      <4>1. groupOf[s] \in 1..groups /\ s \in StartGroups[groupOf[s]]
        BY <2>1, <2>5 DEF Group
      <4> QED
        BY <4>1, ZenonT(30)
    <3>2. \A i \in 1..groups : StartGroups[i] \subseteq Services
      BY <2>5 DEF Group
    <3> QED
      BY <3>1, <3>2, ZenonT(30)
  <2> QED
    BY <2>4, <2>6, <2>7, ZenonT(30)
<1> QED
  BY <1>1, OrderAlways, PTL

\* A set of numbers has a least one.
LEMMA LeastNumber ==
  ASSUME NEW S \in SUBSET Nat, S # {}
  PROVE  \E m \in S : \A n \in S : m <= n
<1> DEFINE R == {p \in Nat \X Nat : p[1] < p[2]}
<1>1. IsWellFoundedOn(R, Nat)
  BY NatLessThanWellFounded, ZenonT(30) DEF OpToRel
<1>2. \A m, n \in Nat : <<n, m>> \in R <=> n < m
  OBVIOUS
<1> HIDE DEF R
<1>3. PICK m \in S : \A n \in S : ~ (<<n, m>> \in R)
  BY <1>1, WFMin, ZenonT(30)
<1>4. ASSUME NEW n \in S PROVE m <= n
  <2>1. m \in Nat /\ n \in Nat /\ ~ (<<n, m>> \in R)
    BY <1>3
  <2>2. ~ (n < m)
    BY <1>2, <2>1
  <2> QED
    BY <2>1, <2>2
<1> QED
  BY <1>4

\* The walks of n steps along the edges E within X.
Walks(E, X, n) == {p \in [0..n -> X] : \A i \in 1..n : <<p[i - 1], p[i]>> \in E}

\* Where every element has a successor there are walks of every length: one of
\* the shortest length without walks would have one.
LEMMA WalksExist ==
  ASSUME NEW E, NEW X, X # {}, \A s \in X : \E t \in X : <<s, t>> \in E
  PROVE  \A n \in Nat : Walks(E, X, n) # {}
<1> DEFINE none == {k \in Nat : Walks(E, X, k) = {}}
<1> SUFFICES ASSUME none # {} PROVE FALSE
  BY ZenonT(30)
<1>1. none \in SUBSET Nat
  OBVIOUS
<1> HIDE DEF none
<1>2. PICK m \in none : \A k \in none : m <= k
  BY <1>1, LeastNumber, ZenonT(30)
<1> USE DEF none
<1>3. m \in Nat /\ Walks(E, X, m) = {}
  OBVIOUS
<1>4. m # 0
  <2>1. PICK s \in X : TRUE
    OBVIOUS
  <2>2. [i \in 0..0 |-> s] \in Walks(E, X, 0)
    BY DEF Walks
  <2> QED
    BY <1>3, <2>2
<1>5. m - 1 \in Nat /\ m - 1 \notin none
  BY <1>1, <1>2, <1>4
<1>6. PICK p : p \in Walks(E, X, m - 1)
  BY <1>5
<1> HIDE DEF none
<1>7. p \in [0..(m - 1) -> X] /\ p[m - 1] \in X
  BY <1>3, <1>5, <1>6 DEF Walks
<1>8. PICK t \in X : <<p[m - 1], t>> \in E
  BY <1>7, ZenonT(30)
<1> DEFINE q == [i \in 0..m |-> IF i = m THEN t ELSE p[i]]
<1>9. q \in [0..m -> X]
  BY <1>3, <1>5, <1>7
<1>10. ASSUME NEW i \in 1..m PROVE <<q[i - 1], q[i]>> \in E
  <2>1. i - 1 \in 0..(m - 1) /\ q[i - 1] = p[i - 1]
    BY <1>3, <1>5
  <2>2. CASE i = m
    BY <1>3, <1>5, <1>8, <2>1, <2>2
  <2>3. CASE i # m
    <3>1. i \in 1..(m - 1) /\ q[i] = p[i]
      BY <1>3, <1>5, <2>3
    <3>2. <<p[i - 1], p[i]>> \in E
      BY <1>6, <3>1 DEF Walks
    <3> QED
      BY <2>1, <3>1, <3>2
  <2> QED
    BY <2>2, <2>3
<1> HIDE DEF q
<1>11. q \in Walks(E, X, m)
  BY <1>9, <1>10, ZenonT(30) DEF Walks
<1> QED
  BY <1>3, <1>11

\* A finite set of that kind has a walk that comes back, by the pigeonhole principle.
LEMMA CycleExists ==
  ASSUME NEW E, NEW X, IsFiniteSet(X), X # {}, \A s \in X : \E t \in X : <<s, t>> \in E
  PROVE  \E n \in 1..Cardinality(X) : \E p \in Walks(E, X, n) : p[0] = p[n]
<1> DEFINE n == Cardinality(X)
<1>1. n \in Nat
  BY FS_CardinalityType
<1>2. PICK p : p \in Walks(E, X, n)
  BY <1>1, WalksExist, ZenonT(30)
<1> HIDE DEF n
<1>3. p \in [0..n -> X]
  BY <1>2 DEF Walks
<1>4. IsFiniteSet(0..n) /\ Cardinality(X) < Cardinality(0..n)
  BY <1>1, FS_Interval DEF n
<1>5. PICK x \in 0..n, y \in 0..n : x # y /\ p[x] = p[y]
  BY <1>3, <1>4, FS_PigeonHole, ZenonT(30)
<1>6. ASSUME NEW a \in 0..n, NEW b \in 0..n, a < b, p[a] = p[b]
      PROVE  \E k \in 1..n : \E q \in Walks(E, X, k) : q[0] = q[k]
  <2> DEFINE k == b - a
             q == [i \in 0..k |-> p[a + i]]
  <2>1. k \in 1..n
    BY <1>1, <1>6
  <2>2. q \in [0..k -> X]
    BY <1>1, <1>3, <1>6
  <2>3. q[0] = q[k]
    BY <1>1, <1>6
  <2>4. ASSUME NEW i \in 1..k PROVE <<q[i - 1], q[i]>> \in E
    <3>1. a + i \in 1..n /\ q[i] = p[a + i] /\ q[i - 1] = p[(a + i) - 1]
      BY <1>1, <1>6
    <3> QED
      BY <1>2, <3>1 DEF Walks
  <2> HIDE DEF q
  <2>5. q \in Walks(E, X, k)
    BY <2>2, <2>4, ZenonT(30) DEF Walks
  <2> QED
    BY <2>1, <2>3, <2>5, ZenonT(30)
<1>7. x < y \/ y < x
  BY <1>1, <1>5
<1> QED
  BY <1>5, <1>6, <1>7, ZenonT(30) DEF n

\* Along a walk that comes back nothing can go down all the time.
LEMMA NoCycleDown ==
  ASSUME NEW E, NEW X, NEW f \in [X -> Nat], \A s, t \in X : <<s, t>> \in E => f[t] < f[s],
         NEW n \in Nat \ {0}, NEW p \in Walks(E, X, n)
  PROVE  p[0] # p[n]
<1> SUFFICES ASSUME p[0] = p[n] PROVE FALSE
  OBVIOUS
<1> DEFINE S == {f[p[i]] : i \in 0..n}
<1>0. p \in [0..n -> X] /\ \A i \in 1..n : <<p[i - 1], p[i]>> \in E
  BY DEF Walks
<1>1. S \in SUBSET Nat /\ S # {}
  BY <1>0
<1>2. PICK m \in S : \A k \in S : m <= k
  <2> HIDE DEF S
  <2> QED
    BY <1>1, LeastNumber, ZenonT(30)
<1>3. PICK i \in 0..n : m = f[p[i]]
  OBVIOUS
<1>4. PICK j \in 0..(n - 1) : m = f[p[j]]
  BY <1>3
<1>5. j + 1 \in 1..n /\ (j + 1) - 1 = j /\ j \in 0..n /\ j + 1 \in 0..n
  OBVIOUS
<1>6. <<p[j], p[j + 1]>> \in E /\ p[j] \in X /\ p[j + 1] \in X
  BY <1>0, <1>5
<1>7. f[p[j + 1]] < f[p[j]]
  BY <1>6
<1>8. f[p[j + 1]] \in S
  BY <1>5
<1>9. m <= f[p[j + 1]] /\ m \in Nat /\ f[p[j + 1]] \in Nat
  BY <1>1, <1>2, <1>8
<1> QED
  BY <1>4, <1>7, <1>9

\* topoSort gives up exactly where there is a cycle.
THEOREM CyclesAreFound == OrderSpec => []CyclesFound
<1> DEFINE Cyclic == \E n \in 1..Cardinality(Services) : \E p \in [0..n -> Services] : IsCycle(p, n)
<1>1. Cardinality(Services) \in Nat
  BY FS_CardinalityType, ListedAssumption
<1>2. ASSUME OrderInv, outcome = "cyclic" PROVE Cyclic
  <2>1. Left # {} /\ queue = {} /\ Left \subseteq Services /\ dependencies \in Lists
    BY <1>2 DEF OrderInv, OutcomeOK, OrderTypes, Left
  <2>2. ASSUME NEW s \in Left PROVE \E t \in Left : <<s, t>> \in DependsOn
    <3>1. Cardinality(Entries(dependencies, s, Left)) # 0
      BY <1>2, <2>1 DEF OrderInv, CountOK
    <3>2. PICK t \in Left : dependencies[s][t] # 0
      BY <2>1, <3>1, EntriesNone
    <3>3. dependencies[s][t] > 0
      BY <2>1, <3>2, ListedAssumption DEF Lists
    <3> QED
      BY <2>1, <3>3 DEF DependsOn
  <2>3. IsFiniteSet(Left) /\ Cardinality(Left) <= Cardinality(Services) /\ Cardinality(Left) \in Nat
    BY <2>1, FS_Subset, FS_CardinalityType, ListedAssumption
  <2>4. PICK n \in 1..Cardinality(Left) : \E p \in Walks(DependsOn, Left, n) : p[0] = p[n]
    BY <2>1, <2>2, <2>3, CycleExists, ZenonT(30)
  <2>5. PICK p \in Walks(DependsOn, Left, n) : p[0] = p[n]
    BY <2>4, ZenonT(30)
  <2>6. p \in [0..n -> Services] /\ IsCycle(p, n)
    BY <2>1, <2>5 DEF IsCycle, Walks
  <2>7. n \in 1..Cardinality(Services)
    BY <1>1, <2>3
  <2> QED
    BY <2>6, <2>7, ZenonT(30)
<1>3. ASSUME OrderInv, outcome = "groups", Cyclic PROVE FALSE
  <2>1. PICK n \in 1..Cardinality(Services) : \E p \in [0..n -> Services] : IsCycle(p, n)
    BY <1>3
  <2>2. PICK p \in [0..n -> Services] : IsCycle(p, n)
    BY <2>1
  <2>3. groupOf \in [Services -> Nat]
    BY <1>3 DEF OrderInv, OrderTypes
  <2>4. \A s, t \in Services : <<s, t>> \in DependsOn => groupOf[t] < groupOf[s]
    BY <1>3 DEF OrderInv, OutcomeOK, PlacedOK, Left
  <2>5. p[0] = p[n] /\ p \in Walks(DependsOn, Services, n)
    BY <2>2 DEF IsCycle, Walks
  <2>6. n \in Nat \ {0}
    BY <1>1
  <2> QED
    BY <2>3, <2>4, <2>5, <2>6, NoCycleDown, ZenonT(30)
<1>4. OrderInv => CyclesFound
  BY <1>2, <1>3 DEF OrderInv, OrderTypes, CyclesFound
<1> QED
  BY <1>4, OrderAlways, PTL

=============================================================================
