---------------------------- MODULE ServiceManager ----------------------------
(***************************************************************************)
(* The service manager: Run instantiates the services, starts them group   *)
(* by group in dependency order, and waits for the first failure or for a  *)
(* cancellation; Stop cancels the run and stops the groups in reverse.     *)
(* Run, the goroutine of every service, and the two callers of Stop run    *)
(* concurrently.                                                           *)
(*                                                                         *)
(* The order of the groups is that of StartOrder.  A panic of a service is *)
(* an error of its Run (safeRun).                                          *)
(***************************************************************************)
EXTENDS Naturals, Sequences

CONSTANTS
  Services,     \* the enabled services
  Groups,       \* the start groups, in order
  Notifiers,    \* services with a Ready channel
  Allowed,      \* services whose failure is allowed
  MaxRetries,   \* attempts after the first one, of every service
  StartupFails  \* TRUE iff a factory may fail or no order may be found

ASSUME GroupsAssumption ==
  /\ Groups \in Seq(SUBSET Services)
  /\ \A i, j \in 1..Len(Groups) : i # j => Groups[i] \cap Groups[j] = {}
  /\ UNION {Groups[i] : i \in 1..Len(Groups)} = Services
  /\ Notifiers \subseteq Services /\ Allowed \subseteq Services
  /\ MaxRetries \in [Services -> Nat]
  /\ StartupFails \in BOOLEAN

VARIABLES
  run,          \* where the goroutine of Run is
  runErr,       \* what Run returns
  parent,       \* the context Run was given: "open" or "cancelled"
  cancelled,    \* TRUE iff the cancel function of Run was called
  group,        \* the group runServiceGroups is at
  startGroups,  \* how many groups are recorded as started
  svc,          \* the goroutine of every service
  attempt,      \* retries made so far
  ready,        \* the services that closed their Ready channel
  errCh,        \* the error channel of Run, of capacity one
  failure,      \* failureSignal: the first failure was reported
  once,         \* stopOnce
  stop,         \* where each caller of Stop is
  stopAt,       \* the groups Stop still has to stop
  halt          \* the Stop call of every service

manager == <<run, runErr, group, startGroups>>
workers == <<svc, attempt, ready, errCh, failure>>
stopping == <<once, stop, stopAt, halt>>
smVars == <<manager, parent, cancelled, workers, stopping>>

Callers == {"run", "app"}

\* The context of Run, and of every service, is done.
Cancelled == parent = "cancelled" \/ cancelled

\* Run has stored its cancel function.
Armed == run \notin {"off", "start"} /\ ~(run \in {"returned", "gone"} /\ errCh = "none")

\* The service's goroutine has been started and is not over.
Alive(s) == svc[s] \in {"running", "backoff", "report", "trigger"}

SMInit ==
  /\ run = "off" /\ runErr = "nil"
  /\ parent = "open" /\ cancelled = FALSE
  /\ group = 0 /\ startGroups = 0
  /\ svc = [s \in Services |-> "off"]
  /\ attempt = [s \in Services |-> 0]
  /\ ready = {} /\ errCh = "none" /\ failure = FALSE
  /\ once = "free" /\ stop = [c \in Callers |-> "idle"]
  /\ stopAt = 0 /\ halt = [s \in Services |-> "no"]

-----------------------------------------------------------------------------
(***************************************************************************)
(* Run                                                                     *)
(***************************************************************************)

\* instantiateAllContext, and the cancel function stored.
Instantiate ==
  /\ run = "start"
  /\ \/ /\ run' = "resolve" /\ errCh' = "empty"
        /\ UNCHANGED runErr
     \/ /\ StartupFails
        /\ run' = "returned" /\ runErr' = "error"
        /\ UNCHANGED errCh
  /\ UNCHANGED <<group, startGroups, parent, cancelled, svc, attempt, ready, failure, stopping>>

\* resolveOrder, with the error paths for no services and for a cycle.
Resolve ==
  /\ run = "resolve"
  /\ \/ run' = "groups" /\ UNCHANGED runErr
     \/ StartupFails /\ run' = "stop" /\ runErr' = "error"
  /\ UNCHANGED <<group, startGroups, parent, cancelled, workers, stopping>>

\* runServiceGroups takes startGroupsMu, which a Stop may hold for reading.
LockGroups ==
  /\ run = "groups"
  /\ \A c \in Callers : stop[c] \notin {"groups", "halting"}
  /\ run' = "launch" /\ group' = 1
  /\ UNCHANGED <<runErr, startGroups, parent, cancelled, workers, stopping>>

\* Mutant of Launch: a reported failure does not end the startup.
StubbornLaunch ==
  /\ run = "launch"
  /\ group <= Len(Groups)
  /\ svc' = [s \in Services |-> IF s \in Groups[group] THEN "running" ELSE svc[s]]
  /\ run' = "ready"
  /\ UNCHANGED <<runErr, group, startGroups, parent, cancelled, attempt, ready,
                 errCh, failure, stopping>>

\* Start every service of the next group, unless a failure was reported.
Launch ==
  /\ run = "launch"
  /\ group <= Len(Groups) /\ ~failure
  /\ svc' = [s \in Services |-> IF s \in Groups[group] THEN "running" ELSE svc[s]]
  /\ run' = "ready"
  /\ UNCHANGED <<runErr, group, startGroups, parent, cancelled, attempt, ready,
                 errCh, failure, stopping>>

\* waitGroupReady: every notifier of the group is ready or gone, or the wait
\* ends early; then the group is recorded.
WaitReady ==
  /\ run = "ready"
  /\ \/ \A s \in Groups[group] \cap Notifiers : s \in ready \/ svc[s] = "exited"
     \/ failure \/ Cancelled
  /\ startGroups' = group /\ group' = group + 1
  /\ run' = "launch"
  /\ UNCHANGED <<runErr, parent, cancelled, workers, stopping>>

\* All groups are started, or a failure ends the startup.
Started ==
  /\ run = "launch"
  /\ group > Len(Groups) \/ failure
  /\ run' = "select"
  /\ UNCHANGED <<runErr, group, startGroups, parent, cancelled, workers, stopping>>

\* Run waits for the cancellation or for the first error.
Select ==
  /\ run = "select"
  /\ \/ Cancelled /\ UNCHANGED <<runErr, errCh>>
     \/ errCh = "full" /\ errCh' = "empty" /\ runErr' = "error"
  /\ run' = "stop"
  /\ UNCHANGED <<group, startGroups, parent, cancelled, svc, attempt, ready, failure, stopping>>

\* The deferred Stop.
RunStop ==
  /\ run = "stop"
  /\ stop' = [stop EXCEPT !["run"] = "begin"]
  /\ run' = "wait"
  /\ UNCHANGED <<runErr, group, startGroups, parent, cancelled, workers, once, stopAt, halt>>

\* Mutant of RunReturn: the channel is closed before the services are waited for.
HastyRunReturn ==
  /\ run = "wait" /\ stop["run"] = "returned"
  /\ errCh' = "closed"
  /\ run' = IF \A s \in Services : ~Alive(s) THEN "returned" ELSE "wait"
  /\ UNCHANGED <<runErr, group, startGroups, parent, cancelled, svc, attempt, ready,
                 failure, stopping>>

\* The deferred wait for the services, then close(errCh).
RunReturn ==
  /\ run = "wait" /\ stop["run"] = "returned"
  /\ \A s \in Services : ~Alive(s)
  /\ errCh' = "closed" /\ run' = "returned"
  /\ UNCHANGED <<runErr, group, startGroups, parent, cancelled, svc, attempt, ready,
                 failure, stopping>>

-----------------------------------------------------------------------------
(***************************************************************************)
(* runService                                                              *)
(***************************************************************************)

\* The service closes its Ready channel.
Ready(s) ==
  /\ svc[s] = "running" /\ s \in Notifiers \ ready
  /\ ready' = ready \cup {s}
  /\ UNCHANGED <<manager, parent, cancelled, svc, attempt, errCh, failure, stopping>>

\* The service's Run returns nil.
Exits(s) ==
  /\ svc[s] = "running"
  /\ svc' = [svc EXCEPT ![s] = "exited"]
  /\ UNCHANGED <<manager, parent, cancelled, attempt, ready, errCh, failure, stopping>>

\* Its Run fails: nothing more once the context is done, else a retry, else
\* handleServiceError, which ignores an allowed failure.
Fails(s) ==
  /\ svc[s] = "running"
  /\ svc' = [svc EXCEPT ![s] =
       IF Cancelled THEN "exited"
       ELSE IF attempt[s] < MaxRetries[s] THEN "backoff"
       ELSE IF s \in Allowed THEN "exited" ELSE "report"]
  /\ UNCHANGED <<manager, parent, cancelled, attempt, ready, errCh, failure, stopping>>

\* waitRetryDelay: the delay passes (a delay of zero does not look at the
\* context), or the cancellation ends it.
Retries(s) ==
  /\ svc[s] = "backoff"
  /\ \/ /\ svc' = [svc EXCEPT ![s] = "running"]
        /\ attempt' = [attempt EXCEPT ![s] = @ + 1]
     \/ /\ Cancelled
        /\ svc' = [svc EXCEPT ![s] = "exited"]
        /\ UNCHANGED attempt
  /\ UNCHANGED <<manager, parent, cancelled, ready, errCh, failure, stopping>>

\* Mutant of Report: the send blocks until the channel has room.
BlockingReport(s) ==
  /\ svc[s] = "report" /\ errCh = "empty"
  /\ errCh' = "full"
  /\ svc' = [svc EXCEPT ![s] = "trigger"]
  /\ UNCHANGED <<manager, parent, cancelled, attempt, ready, failure, stopping>>

\* handleServiceError sends the error if the channel has room.
Report(s) ==
  /\ svc[s] = "report"
  /\ errCh' = IF errCh = "empty" THEN "full" ELSE errCh
  /\ svc' = [svc EXCEPT ![s] = "trigger"]
  /\ UNCHANGED <<manager, parent, cancelled, attempt, ready, failure, stopping>>

\* Then it wakes the startup.
Trigger(s) ==
  /\ svc[s] = "trigger"
  /\ failure' = TRUE
  /\ svc' = [svc EXCEPT ![s] = "exited"]
  /\ UNCHANGED <<manager, parent, cancelled, attempt, ready, errCh, stopping>>

-----------------------------------------------------------------------------
(***************************************************************************)
(* Stop                                                                    *)
(***************************************************************************)

\* Stop cancels the run, if it has got that far.
StopCancel(c) ==
  /\ stop[c] = "begin"
  /\ cancelled' = (cancelled \/ Armed)
  /\ stop' = [stop EXCEPT ![c] = "once"]
  /\ UNCHANGED <<manager, parent, workers, once, stopAt, halt>>

\* stopOnce: the first caller does the work, others wait until it is done.
StopOnce(c) ==
  /\ stop[c] = "once"
  /\ \/ /\ once = "free"
        /\ once' = "busy"
        /\ stop' = [stop EXCEPT ![c] = "lock"]
     \/ /\ once = "done"
        /\ stop' = [stop EXCEPT ![c] = "returned"]
        /\ UNCHANGED once
  /\ UNCHANGED <<manager, parent, cancelled, workers, stopAt, halt>>

\* Mutant of StopLock: startGroups is read without the lock.
UnlockedStopLock(c) ==
  /\ stop[c] = "lock"
  /\ stop' = [stop EXCEPT ![c] = "groups"]
  /\ stopAt' = startGroups
  /\ UNCHANGED <<manager, parent, cancelled, workers, once, halt>>

\* startGroupsMu is read-locked: not while runServiceGroups holds it.
StopLock(c) ==
  /\ stop[c] = "lock"
  /\ run \notin {"launch", "ready"}
  /\ stop' = [stop EXCEPT ![c] = "groups"]
  /\ stopAt' = startGroups
  /\ UNCHANGED <<manager, parent, cancelled, workers, once, halt>>

\* stopGroup of the last group that is left calls Stop of all its services.
StopGroup(c) ==
  /\ stop[c] = "groups" /\ stopAt > 0
  /\ halt' = [s \in Services |-> IF s \in Groups[stopAt] THEN "called" ELSE halt[s]]
  /\ stop' = [stop EXCEPT ![c] = "halting"]
  /\ UNCHANGED <<manager, parent, cancelled, workers, once, stopAt>>

\* A service's Stop returns, or the manager's timer gives it up.
Halts(s) ==
  /\ halt[s] = "called"
  /\ halt' = [halt EXCEPT ![s] = "over"]
  /\ UNCHANGED <<manager, parent, cancelled, workers, once, stop, stopAt>>

\* The whole group has been waited for.
GroupStopped(c) ==
  /\ stop[c] = "halting"
  /\ \A s \in Groups[stopAt] : halt[s] = "over"
  /\ stopAt' = stopAt - 1
  /\ stop' = [stop EXCEPT ![c] = "groups"]
  /\ UNCHANGED <<manager, parent, cancelled, workers, once, halt>>

\* No group is left: Stop returns, and so does every caller that waits.
StopReturn(c) ==
  /\ stop[c] = "groups" /\ stopAt = 0
  /\ once' = "done"
  /\ stop' = [stop EXCEPT ![c] = "returned"]
  /\ UNCHANGED <<manager, parent, cancelled, workers, stopAt, halt>>

-----------------------------------------------------------------------------

RunStep ==
  \/ Instantiate \/ Resolve \/ LockGroups \/ Launch \/ WaitReady \/ Started
  \/ Select \/ RunStop \/ RunReturn

ServiceStep(s) == Ready(s) \/ Exits(s) \/ Fails(s) \/ Retries(s) \/ Report(s) \/ Trigger(s)

StopStep(c) ==
  \/ StopCancel(c) \/ StopOnce(c) \/ StopLock(c) \/ StopGroup(c)
  \/ GroupStopped(c) \/ StopReturn(c)

SMNext ==
  \/ RunStep
  \/ \E s \in Services : ServiceStep(s) \/ Halts(s)
  \/ \E c \in Callers : StopStep(c)

\* Goroutines run; a service returns from Run once its context is done
\* (contract of Service.Run), a retry delay passes, and a Stop call is bounded
\* by the manager's timer.  A service need not become ready, nor return before.
SMFairness ==
  /\ WF_smVars(RunStep)
  /\ \A s \in Services :
       /\ WF_smVars(Cancelled /\ (Exits(s) \/ Fails(s)))
       /\ WF_smVars(Retries(s) \/ Report(s) \/ Trigger(s))
       /\ WF_smVars(Halts(s))
  /\ \A c \in Callers : WF_smVars(StopStep(c))

-----------------------------------------------------------------------------

\* No service goroutine is left to send on the error channel once Run has
\* closed it: the order of the deferred calls in Run.
NoSendAfterClose == errCh = "closed" => \A s \in Services : ~Alive(s)

\* Stop "walks the resolved start groups in reverse order" and "waits for that
\* group before moving to the preceding one", while startup, failures and a
\* second Stop go on: when a service is told to stop, every service launched
\* in a later group has stopped.
StopsInReverse ==
  \A i, j \in 1..Len(Groups) : i < j =>
    \A s \in Groups[i], t \in Groups[j] :
      halt[s] # "no" /\ svc[t] # "off" => halt[t] = "over"

=============================================================================
