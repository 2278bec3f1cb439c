------------------------------- MODULE AppRunner -------------------------------
(***************************************************************************)
(* The process around the service manager: runner.RunContext starts        *)
(* App.Run, waits for a signal, a cancellation or the end of App.Run, and  *)
(* calls App.Stop with a deadline; App.Run runs the manager in a goroutine *)
(* and ends with App.Stop too.  App.Stop does its work once, whoever comes *)
(* first.                                                                  *)
(*                                                                         *)
(* "parent" of ServiceManager is the context of App.Run.                   *)
(***************************************************************************)
EXTENDS ServiceManager

VARIABLES
  app,        \* where App.Run is
  appErr,     \* what App.Run returns
  appErrCh,   \* the error channel of App.Run, of capacity one
  appOnce,    \* App.stopOnce
  appStop,    \* where each caller of App.Stop is
  hooks,      \* the post-stop hooks: "no", or begun "early", before the manager's
              \* goroutine exists, or "last", when it is over
  runner,     \* where the runner is
  signal,     \* TRUE iff a signal or a cancellation has come
  shutdownErr, \* what waitForShutdown returned
  result      \* what RunContext returned

appVars == <<app, appErr, appErrCh, appOnce, appStop, hooks>>
runnerVars == <<runner, signal, shutdownErr, result>>
vars == <<smVars, appVars, runnerVars>>

AppCallers == {"runner", "run"}

\* App.wg counts no goroutine.
NoManager == run \in {"off", "gone"}

Init ==
  /\ SMInit
  /\ app = "start" /\ appErr = "nil" /\ appErrCh = "empty"
  /\ appOnce = "free" /\ appStop = [c \in AppCallers |-> "idle"]
  /\ hooks = "no"
  /\ runner = "wait" /\ signal = FALSE
  /\ shutdownErr = "nil" /\ result = "none"

-----------------------------------------------------------------------------
(***************************************************************************)
(* App.Run                                                                 *)
(***************************************************************************)

\* The cancel function is stored.
AppArm ==
  /\ app = "start"
  /\ app' = "armed"
  /\ UNCHANGED <<smVars, appErr, appErrCh, appOnce, appStop, hooks, runnerVars>>

\* After the pre-run hooks, the manager's goroutine.
AppLaunch ==
  /\ app = "armed"
  /\ app' = "select" /\ run' = "start"
  /\ UNCHANGED <<runErr, group, startGroups, parent, cancelled, workers, stopping,
                 appErr, appErrCh, appOnce, appStop, hooks, runnerVars>>

\* Mutant of ManagerGone: the goroutine also cancels App.Run's context.
CancellingManagerGone ==
  /\ run = "returned"
  /\ run' = "gone" /\ parent' = "cancelled"
  /\ appErrCh' = IF runErr = "error" THEN "full" ELSE appErrCh
  /\ UNCHANGED <<runErr, group, startGroups, cancelled, workers, stopping,
                 app, appErr, appOnce, appStop, hooks, runnerVars>>

\* The manager has returned: its error is sent, and the goroutine ends.
ManagerGone ==
  /\ run = "returned"
  /\ run' = "gone"
  /\ appErrCh' = IF runErr = "error" THEN "full" ELSE appErrCh
  /\ UNCHANGED <<runErr, group, startGroups, parent, cancelled, workers, stopping,
                 app, appErr, appOnce, appStop, hooks, runnerVars>>

\* App.Run waits for its context or for the manager's error, then calls Stop.
AppSelect ==
  /\ app = "select"
  /\ \/ parent = "cancelled" /\ UNCHANGED <<appErr, appErrCh>>
     \/ appErrCh = "full" /\ appErrCh' = "empty" /\ appErr' = "error"
  /\ app' = "wait"
  /\ appStop' = [appStop EXCEPT !["run"] = "begin"]
  /\ UNCHANGED <<smVars, appOnce, hooks, runnerVars>>

\* Mutant of AppReturn: the channel is closed before Stop and the wait.
HastyAppReturn ==
  /\ app = "wait"
  /\ appErrCh' = "closed"
  /\ app' = IF appStop["run"] = "returned" /\ NoManager THEN "returned" ELSE "wait"
  /\ UNCHANGED <<smVars, appErr, appOnce, appStop, hooks, runnerVars>>

\* The deferred calls: Stop, the wait for the manager, close(errCh).
AppReturn ==
  /\ app = "wait"
  /\ appStop["run"] = "returned" /\ NoManager
  /\ appErrCh' = "closed" /\ app' = "returned"
  /\ UNCHANGED <<smVars, appErr, appOnce, appStop, hooks, runnerVars>>

-----------------------------------------------------------------------------
(***************************************************************************)
(* App.Stop                                                                *)
(***************************************************************************)

\* Mutant of AppStopCancel: App.Run's context is left open.
OpenAppStopCancel(c) ==
  /\ appStop[c] = "begin"
  /\ appStop' = [appStop EXCEPT ![c] = "once"]
  /\ UNCHANGED <<smVars, app, appErr, appErrCh, appOnce, hooks, runnerVars>>

\* Stop cancels App.Run, if it has got that far.
AppStopCancel(c) ==
  /\ appStop[c] = "begin"
  /\ parent' = IF app = "start" THEN parent ELSE "cancelled"
  /\ appStop' = [appStop EXCEPT ![c] = "once"]
  /\ UNCHANGED <<manager, cancelled, workers, stopping, app, appErr, appErrCh,
                 appOnce, hooks, runnerVars>>

\* stopOnce: the first caller calls the manager's Stop, others wait.
AppStopOnce(c) ==
  /\ appStop[c] = "once"
  /\ \/ /\ appOnce = "free" /\ appOnce' = "busy"
        /\ appStop' = [appStop EXCEPT ![c] = "manager"]
        /\ stop' = [stop EXCEPT !["app"] = "begin"]
     \/ /\ appOnce = "done"
        /\ appStop' = [appStop EXCEPT ![c] = "returned"]
        /\ UNCHANGED <<appOnce, stop>>
  /\ UNCHANGED <<manager, parent, cancelled, workers, once, stopAt, halt,
                 app, appErr, appErrCh, hooks, runnerVars>>

\* Mutant of AppStopWaited: the manager's goroutine is not waited for.
HastyAppStopWaited(c) ==
  /\ appStop[c] = "manager"
  /\ stop["app"] = "returned"
  /\ hooks' = IF run = "off" THEN "early" ELSE "last"
  /\ appStop' = [appStop EXCEPT ![c] = "hooks"]
  /\ UNCHANGED <<smVars, app, appErr, appErrCh, appOnce, runnerVars>>

\* Then it waits for the goroutines App.wg counts, none if App.Run has not
\* launched the manager yet, and begins the post-stop hooks.
AppStopWaited(c) ==
  /\ appStop[c] = "manager"
  /\ stop["app"] = "returned" /\ NoManager
  /\ hooks' = IF run = "off" THEN "early" ELSE "last"
  /\ appStop' = [appStop EXCEPT ![c] = "hooks"]
  /\ UNCHANGED <<smVars, app, appErr, appErrCh, appOnce, runnerVars>>

\* The hooks are over.
AppStopReturn(c) ==
  /\ appStop[c] = "hooks"
  /\ appOnce' = "done"
  /\ appStop' = [appStop EXCEPT ![c] = "returned"]
  /\ UNCHANGED <<smVars, app, appErr, appErrCh, hooks, runnerVars>>

-----------------------------------------------------------------------------
(***************************************************************************)
(* runner.RunContext                                                       *)
(***************************************************************************)

\* SIGINT or SIGTERM; or the parent of the runner's context is cancelled, and
\* App.Run's context with it.
Signal ==
  /\ ~signal /\ runner = "wait"
  /\ signal' = TRUE
  /\ parent' \in {parent, "cancelled"}
  /\ UNCHANGED <<manager, cancelled, workers, stopping, appVars, runner, shutdownErr, result>>

\* waitForShutdown returns; gracefulShutdown calls App.Stop in a goroutine.
Shutdown ==
  /\ runner = "wait"
  /\ \/ signal /\ UNCHANGED shutdownErr
     \/ app = "returned" /\ shutdownErr' = appErr
  /\ runner' = "shutdown"
  /\ appStop' = [appStop EXCEPT !["runner"] = "begin"]
  /\ UNCHANGED <<smVars, app, appErr, appErrCh, appOnce, hooks, signal, result>>

\* App.Run and App.Stop are over.
Return ==
  /\ runner = "shutdown"
  /\ app = "returned" /\ appStop["runner"] = "returned"
  /\ runner' = "returned" /\ result' = shutdownErr
  /\ UNCHANGED <<smVars, appVars, signal, shutdownErr>>

\* The deadline passes first.
Deadline ==
  /\ runner = "shutdown"
  /\ runner' = "returned" /\ result' = "timeout"
  /\ UNCHANGED <<smVars, appVars, signal, shutdownErr>>

-----------------------------------------------------------------------------

AppStep == AppArm \/ AppLaunch \/ ManagerGone \/ AppSelect \/ AppReturn

AppStopStep(c) ==
  AppStopCancel(c) \/ AppStopOnce(c) \/ AppStopWaited(c) \/ AppStopReturn(c)

RunnerStep == Signal \/ Shutdown \/ Return \/ Deadline

Next ==
  \/ SMNext /\ UNCHANGED <<appVars, runnerVars>>
  \/ AppStep
  \/ \E c \in AppCallers : AppStopStep(c)
  \/ RunnerStep

Spec == Init /\ [][Next]_vars

\* Goroutines run.  Signals need not come, and the deadline, which is not needed
\* for what follows, need not pass.
FairSpec ==
  /\ Spec /\ SMFairness
  /\ WF_vars(AppStep) /\ WF_vars(Shutdown \/ Return)
  /\ \A c \in AppCallers : WF_vars(AppStopStep(c))

-----------------------------------------------------------------------------
(***************************************************************************)
(* Properties                                                              *)
(***************************************************************************)

\* The manager's goroutine is over when App.Run closes the channel it sends on:
\* otherwise "a shutdown racing a non-nil error out of ServiceManager.Run panics
\* the process" (app.go).
AppNoSendAfterClose == appErrCh = "closed" => NoManager

\* RunContext reports success after a failure that is not allowed only if a
\* signal came: the error passes three channels on its way.
FailureReported == failure /\ result = "nil" => signal

\* "The first non-allowed terminal failure ends the application": from whatever
\* state of startup, whichever services fail with it, without the help of the
\* deadline.
FailureEndsApp ==
  (runner = "wait" /\ \E s \in Services : svc[s] = "report") ~> result # "none"

\* A signal during or after the startup of the services ends the application
\* within what the services need, without the help of the deadline.
SignalEndsApp ==
  (runner = "wait" /\ signal /\ run \in {"groups", "launch", "ready", "select"})
    ~> result # "none"

\* "runs after all services stop" (OnPostStop), with the one exception the code
\* leaves: a hook begins when every service is over, and stays alone, unless a
\* signal made App.Stop overtake the launch of the manager, whose goroutine
\* App.wg did not count yet.
HooksAfterServices ==
  /\ hooks = "last" => \A s \in Services : ~Alive(s)
  /\ hooks = "early" => signal

\* A group is started only when every ready-notifying service of the groups
\* before it is ready or gone, whatever fails or retries meanwhile, or when the
\* run is cancelled (runServiceGroups, waitGroupReady).
GroupsStartReady ==
  run = "ready" =>
    Cancelled \/ \A i \in 1..(group - 1) : \A s \in Groups[i] \cap Notifiers :
                   s \in ready \/ svc[s] = "exited"

=============================================================================
