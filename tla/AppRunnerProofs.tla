--------------------------- MODULE AppRunnerProofs ---------------------------
(***************************************************************************)
(* Theorems about the service manager and the process around it, for any   *)
(* services, start groups, numbers of retries and timing of signals: the   *)
(* channels are closed after their last sender, services are started and   *)
(* stopped in the order of their groups, and a failure is not lost.        *)
(***************************************************************************)
EXTENDS AppRunner, TLAPS

USE SMTT(30), ZenonT(20), SMTT(29)

-----------------------------------------------------------------------------
(***************************************************************************)
(* The inductive invariant                                                 *)
(***************************************************************************)

\* The variables the invariant needs the shape of.
ShapesOK ==
  /\ run \in {"off", "start", "resolve", "groups", "launch", "ready", "select", "stop",
              "wait", "returned", "gone"}
  /\ failure \in BOOLEAN /\ cancelled \in BOOLEAN
  /\ group \in Nat /\ startGroups \in Nat /\ stopAt \in Nat
  /\ svc \in [Services -> {"off", "running", "backoff", "report", "trigger", "exited"}]
  /\ halt \in [Services -> {"no", "called", "over"}]
  /\ stop \in [Callers -> {"idle", "begin", "once", "lock", "groups", "halting", "returned"}]
  /\ appStop \in [AppCallers -> {"idle", "begin", "once", "manager", "hooks", "returned"}]

\* Run is past runServiceGroups: it starts no service any more.
Late == run \in {"select", "stop", "wait", "returned", "gone"}

\* How far App.Run and Run are says which channels are open and which
\* goroutines can exist.
RunOK ==
  /\ app \in {"start", "armed"} <=> run = "off"
  /\ app \in {"start", "armed", "select", "wait", "returned"}
  /\ run \in {"off", "start"} => errCh = "none"
  /\ run \in {"off", "start", "resolve", "groups"} =>
       startGroups = 0 /\ \A s \in Services : svc[s] = "off"
  /\ run \in {"returned", "gone"} => \A s \in Services : ~Alive(s)
  /\ errCh = "closed" => run \in {"returned", "gone"}
  /\ appErrCh = "closed" => app = "returned" /\ run \in {"off", "gone"}

\* The launched services are those of the recorded groups and of the one
\* waitGroupReady waits for.
LaunchedOK ==
  /\ startGroups <= Len(Groups)
  /\ run \in {"launch", "ready"} => group = startGroups + 1
  /\ run = "ready" => group <= Len(Groups)
  /\ \A i \in 1..Len(Groups) : \A s \in Groups[i] :
       svc[s] # "off" => i <= startGroups \/ (run = "ready" /\ i = group)

\* Every notifier of the recorded groups is ready or gone.
RecordedReady ==
  \A i \in 1..startGroups : \A s \in Groups[i] \cap Notifiers :
    s \in ready \/ svc[s] = "exited"

\* waitGroupReady ended early only for a failure, which ends the startup, or for
\* a cancellation.
NotifiersOK ==
  /\ run = "launch" => failure \/ Cancelled \/ RecordedReady
  /\ run = "ready" => Cancelled \/ RecordedReady

\* A caller that stopOnce let in.
Inside(c) == stop[c] \in {"lock", "groups", "halting"}

\* At most one caller is inside stopOnce.
OnceOK ==
  /\ \A c \in Callers : Inside(c) => once = "busy"
  /\ \A c, d \in Callers : Inside(c) /\ Inside(d) => c = d

\* Nothing is halted before stopOnce and the read lock on the groups; the
\* groups above stopAt are over, those below have not been told.
HaltOK ==
  /\ \A s \in Services : halt[s] # "no" => Late /\ once # "free"
  /\ \A c \in Callers :
       /\ stop[c] = "lock" => \A s \in Services : halt[s] = "no"
       /\ stop[c] \in {"groups", "halting"} =>
            /\ run \notin {"launch", "ready"} /\ stopAt <= startGroups
            /\ \A i \in 1..Len(Groups) : \A s \in Groups[i] :
                 /\ i < stopAt \/ (i = stopAt /\ stop[c] = "groups") => halt[s] = "no"
                 /\ i > stopAt /\ svc[s] # "off" => halt[s] = "over"
       /\ stop[c] = "halting" => stopAt > 0

\* Without a signal App.Run ends only by the manager's error, and the runner
\* only by that of App.Run.
ErrorOK ==
  ~signal =>
    /\ parent = "cancelled" \/ appStop["run"] # "idle" => app \in {"wait", "returned"}
    /\ app \in {"wait", "returned"} => appErr = "error"
    /\ runner = "wait" => appStop["runner"] = "idle"
    /\ runner # "wait" => app = "returned" /\ shutdownErr = "error"
    /\ result # "nil"

\* Hooks that begin last begin after the manager, and only a signal lets App.Stop
\* overtake its launch.
HooksOK ==
  /\ hooks = "last" => run = "gone"
  /\ hooks = "early" => signal

\* The inductive invariant: who can still send, start and be stopped.
AppInv ==
  /\ ShapesOK /\ RunOK /\ LaunchedOK /\ NotifiersOK /\ OnceOK /\ HaltOK
  /\ ErrorOK /\ HooksOK /\ StopsInReverse

-----------------------------------------------------------------------------
(***************************************************************************)
(* What the steps of each part leave alone                                 *)
(***************************************************************************)

\* The groups of the start order are disjoint sets of services.
LEMMA GroupFacts ==
  /\ Len(Groups) \in Nat
  /\ \A i \in 1..Len(Groups) : Groups[i] \subseteq Services
  /\ \A i, j \in 1..Len(Groups) : \A s \in Groups[i] : s \in Groups[j] => i = j
BY GroupsAssumption

\* The steps of App.Run, App.Stop and the runner.
AppSide == AppStep \/ (\E c \in AppCallers : AppStopStep(c)) \/ RunnerStep

\* They leave the services and the manager's bookkeeping alone; App.Run starts
\* the manager once and outlives it, App.Stop makes its one call of Stop.
LEMMA AppFrame ==
  ASSUME AppInv, AppSide
  PROVE  /\ UNCHANGED <<runErr, group, startGroups, cancelled, workers, once, stopAt, halt>>
         /\ UNCHANGED run \/ (run = "off" /\ run' = "start") \/ (run = "returned" /\ run' = "gone")
         /\ UNCHANGED parent \/ parent' = "cancelled"
         /\ UNCHANGED stop \/ stop' = [stop EXCEPT !["app"] = "begin"]
<1> USE DEF smVars, manager, workers, stopping
<1>1. CASE AppStep
  <2>1. CASE AppArm
    BY <2>1 DEF AppArm
  <2>2. CASE AppLaunch
    BY <2>2 DEF AppLaunch, AppInv, RunOK
  <2>3. CASE ManagerGone
    BY <2>3 DEF ManagerGone
  <2>4. CASE AppSelect
    BY <2>4 DEF AppSelect
  <2>5. CASE AppReturn
    BY <2>5 DEF AppReturn
  <2> QED BY <1>1, <2>1, <2>2, <2>3, <2>4, <2>5 DEF AppStep
<1>2. ASSUME NEW c \in AppCallers, AppStopStep(c)
      PROVE  /\ UNCHANGED <<run, runErr, group, startGroups, cancelled, workers, once, stopAt, halt>>
             /\ UNCHANGED parent \/ parent' = "cancelled"
             /\ UNCHANGED stop \/ stop' = [stop EXCEPT !["app"] = "begin"]
  <2>1. CASE AppStopCancel(c)
    BY <2>1 DEF AppStopCancel
  <2>2. CASE AppStopOnce(c)
    BY <2>2 DEF AppStopOnce
  <2>3. CASE AppStopWaited(c) \/ AppStopReturn(c)
    BY <2>3 DEF AppStopWaited, AppStopReturn
  <2> QED BY <1>2, <2>1, <2>2, <2>3 DEF AppStopStep
<1>3. CASE RunnerStep
  <2>1. CASE Signal
    BY <2>1 DEF Signal
  <2>2. CASE Shutdown
    BY <2>2 DEF Shutdown
  <2>3. CASE Return \/ Deadline
    BY <2>3 DEF Return, Deadline
  <2> QED BY <1>3, <2>1, <2>2, <2>3 DEF RunnerStep
<1> QED BY <1>1, <1>2, <1>3 DEF AppSide

\* The goroutine of a service changes that service alone.
LEMMA ServiceFrame ==
  ASSUME AppInv, NEW s \in Services, ServiceStep(s)
  PROVE  /\ UNCHANGED <<manager, parent, cancelled, stopping>>
         /\ ready \subseteq ready'
         /\ failure' \in BOOLEAN
         /\ failure => failure'
         /\ UNCHANGED errCh \/ (errCh = "empty" /\ errCh' = "full")
         /\ svc' \in [Services -> {"off", "running", "backoff", "report", "trigger", "exited"}]
         /\ \A t \in Services : /\ svc'[t] = "off" <=> svc[t] = "off"
                                /\ ~Alive(t) => svc'[t] = svc[t]
<1> USE DEF manager, stopping
<1> DEFINE Moves(v) == Alive(s) /\ svc' = [svc EXCEPT ![s] = v]
           Values == {"running", "backoff", "report", "trigger", "exited"}
<1>1. CASE Ready(s)
  BY <1>1 DEF Ready, AppInv, ShapesOK
<1>2. ASSUME NEW v \in Values, Moves(v)
      PROVE  /\ svc' \in [Services -> {"off", "running", "backoff", "report", "trigger", "exited"}]
             /\ \A t \in Services : /\ svc'[t] = "off" <=> svc[t] = "off"
                                    /\ ~Alive(t) => svc'[t] = svc[t]
  BY <1>2 DEF AppInv, ShapesOK, Alive
<1>3. CASE Exits(s)
  <2>1. Moves("exited")
    BY <1>3 DEF Exits, Alive
  <2> HIDE DEF Moves
  <2> QED BY ZenonT(30), <1>2, <1>3, <2>1 DEF Exits, AppInv, ShapesOK
<1>4. CASE Fails(s)
  <2> DEFINE v == IF Cancelled THEN "exited"
                  ELSE IF attempt[s] < MaxRetries[s] THEN "backoff"
                  ELSE IF s \in Allowed THEN "exited" ELSE "report"
  <2>1. v \in Values /\ Moves(v)
    BY <1>4 DEF Fails, Alive
  <2> HIDE DEF v, Moves
  <2> QED BY ZenonT(30), <1>2, <1>4, <2>1 DEF Fails, AppInv, ShapesOK
<1>5. CASE Retries(s)
  <2>1. Moves("running") \/ Moves("exited")
    BY <1>5 DEF Retries, Alive
  <2> HIDE DEF Moves
  <2> QED BY ZenonT(30), <1>2, <1>5, <2>1 DEF Retries, AppInv, ShapesOK
<1>6. CASE Report(s)
  <2>1. Moves("trigger")
    BY <1>6 DEF Report, Alive
  <2> HIDE DEF Moves
  <2> QED BY ZenonT(30), <1>2, <1>6, <2>1 DEF Report, AppInv, ShapesOK
<1>7. CASE Trigger(s)
  <2>1. Moves("exited")
    BY <1>7 DEF Trigger, Alive
  <2> HIDE DEF Moves
  <2> QED BY ZenonT(30), <1>2, <1>7, <2>1 DEF Trigger, AppInv, ShapesOK
<1> QED BY <1>1, <1>3, <1>4, <1>5, <1>6, <1>7 DEF ServiceStep

\* A step of Stop leaves the services and Run alone, and never revokes a
\* cancellation.
LEMMA StopFrame ==
  ASSUME AppInv, NEW c \in Callers, StopStep(c)
  PROVE  /\ UNCHANGED <<manager, parent, workers>>
         /\ cancelled' \in BOOLEAN
         /\ cancelled => cancelled'
<1>1. cancelled' \in BOOLEAN /\ (cancelled => cancelled')
  BY ZenonT(30)
     DEF AppInv, ShapesOK, Armed, StopStep, StopCancel, StopOnce, StopLock, StopGroup, GroupStopped, StopReturn
<1>2. UNCHANGED <<manager, parent, workers>>
  BY DEF StopStep, StopCancel, StopOnce, StopLock, StopGroup, GroupStopped, StopReturn
<1> QED BY <1>1, <1>2

-----------------------------------------------------------------------------
(***************************************************************************)
(* Every step keeps every part of the invariant                            *)
(***************************************************************************)

\* The steps of Next, grouped by what they can disturb.
LEMMA Steps ==
  ASSUME [Next]_vars
  PROVE  \/ RunStep /\ UNCHANGED <<appVars, runnerVars>>
         \/ \E s \in Services : ServiceStep(s) /\ UNCHANGED <<appVars, runnerVars>>
         \/ \E s \in Services : Halts(s) /\ UNCHANGED <<appVars, runnerVars>>
         \/ \E c \in Callers : StopStep(c) /\ UNCHANGED <<appVars, runnerVars>>
         \/ AppSide
         \/ UNCHANGED vars
BY ZenonT(30) DEF Next, SMNext, AppSide

\* The shapes of the variables of Run, Stop and App.Stop.
LEMMA ShapesStep == AppInv /\ [Next]_vars => ShapesOK'
<1> SUFFICES ASSUME AppInv, [Next]_vars PROVE ShapesOK'
  OBVIOUS
<1> USE DEF AppInv, ShapesOK, manager, workers, stopping
<1>1. ASSUME RunStep, UNCHANGED <<appVars, runnerVars>> PROVE ShapesOK'
  <2>1. CASE Launch
    BY <1>1, <2>1 DEF Launch, appVars
  <2>2. CASE RunStop
    <3>1. stop' \in [Callers -> {"idle", "begin", "once", "lock", "groups", "halting", "returned"}]
      BY <2>2 DEF RunStop, Callers
    <3> QED BY <1>1, <2>2, <3>1 DEF RunStop, appVars
  <2> QED
    BY <1>1, <2>1, <2>2 DEF RunStep, Instantiate, Resolve, LockGroups, WaitReady, Started,
       Select, RunReturn, appVars
<1>2. ASSUME NEW s \in Services, ServiceStep(s), UNCHANGED <<appVars, runnerVars>> PROVE ShapesOK'
  BY <1>2, ServiceFrame DEF appVars
<1>3. ASSUME NEW s \in Services, Halts(s), UNCHANGED <<appVars, runnerVars>> PROVE ShapesOK'
  BY <1>3 DEF Halts, appVars
<1>4. ASSUME NEW c \in Callers, StopStep(c), UNCHANGED <<appVars, runnerVars>> PROVE ShapesOK'
  <2>1. stopAt' \in Nat
    BY <1>4 DEF StopStep, StopCancel, StopOnce, StopLock, StopGroup, GroupStopped, StopReturn, HaltOK
  <2>2. halt' \in [Services -> {"no", "called", "over"}]
    BY <1>4 DEF StopStep, StopCancel, StopOnce, StopLock, StopGroup, GroupStopped, StopReturn
  <2>3. stop' \in [Callers -> {"idle", "begin", "once", "lock", "groups", "halting", "returned"}]
    BY <1>4 DEF StopStep, StopCancel, StopOnce, StopLock, StopGroup, GroupStopped, StopReturn
  <2> QED BY <1>4, <2>1, <2>2, <2>3, StopFrame DEF appVars
<1>5. ASSUME AppSide PROVE ShapesOK'
  <2>1. appStop' \in [AppCallers -> {"idle", "begin", "once", "manager", "hooks", "returned"}]
    BY <1>5 DEF AppSide, AppStep, AppArm, AppLaunch, ManagerGone, AppSelect, AppReturn,
       AppStopStep, AppStopCancel, AppStopOnce, AppStopWaited, AppStopReturn,
       RunnerStep, Signal, Shutdown, Return, Deadline, appVars, AppCallers
  <2> QED BY <1>5, <2>1, AppFrame
<1>6. ASSUME UNCHANGED vars PROVE ShapesOK'
  BY <1>6 DEF vars, smVars, appVars
<1> HIDE DEF AppInv, ShapesOK
<1> QED BY ZenonT(30), <1>1, <1>2, <1>3, <1>4, <1>5, <1>6, Steps

\* Goroutines start after, and channels close before, what the program order of
\* App.Run and Run says.
LEMMA RunOKStep == AppInv /\ [Next]_vars => RunOK'
<1> SUFFICES ASSUME AppInv, [Next]_vars PROVE RunOK'
  OBVIOUS
<1> USE DEF AppInv, ShapesOK, RunOK, Alive, manager, workers, stopping
<1>1. ASSUME RunStep, UNCHANGED <<appVars, runnerVars>> PROVE RunOK'
  BY <1>1 DEF RunStep, Instantiate, Resolve, LockGroups, Launch, WaitReady, Started,
     Select, RunStop, RunReturn, appVars
<1>2. ASSUME NEW s \in Services, ServiceStep(s), UNCHANGED <<appVars, runnerVars>> PROVE RunOK'
  BY <1>2, ServiceFrame DEF appVars
<1>3. ASSUME NEW s \in Services, Halts(s), UNCHANGED <<appVars, runnerVars>> PROVE RunOK'
  BY <1>3 DEF Halts, appVars
<1>4. ASSUME NEW c \in Callers, StopStep(c), UNCHANGED <<appVars, runnerVars>> PROVE RunOK'
  BY <1>4, StopFrame DEF appVars
<1>5. ASSUME AppSide PROVE RunOK'
  <2>1. /\ app' \in {"start", "armed"} <=> run' = "off"
        /\ app' \in {"start", "armed", "select", "wait", "returned"}
        /\ appErrCh' = "closed" => app' = "returned" /\ run' \in {"off", "gone"}
    BY <1>5 DEF AppSide, AppStep, AppArm, AppLaunch, ManagerGone, AppSelect, AppReturn,
       AppStopStep, AppStopCancel, AppStopOnce, AppStopWaited, AppStopReturn, NoManager,
       RunnerStep, Signal, Shutdown, Return, Deadline, appVars, smVars
  <2> QED BY ZenonT(30), <1>5, <2>1, AppFrame
<1>6. ASSUME UNCHANGED vars PROVE RunOK'
  BY <1>6 DEF vars, smVars, appVars
<1> HIDE DEF AppInv, ShapesOK, RunOK, Alive
<1> QED BY ZenonT(30), <1>1, <1>2, <1>3, <1>4, <1>5, <1>6, Steps

\* Launch and WaitReady are the only steps that launch and record.
LEMMA LaunchedStep == AppInv /\ [Next]_vars => LaunchedOK'
<1> SUFFICES ASSUME AppInv, [Next]_vars PROVE LaunchedOK'
  OBVIOUS
<1> USE DEF AppInv, ShapesOK, RunOK, LaunchedOK, manager, workers, stopping
<1>1. ASSUME RunStep PROVE LaunchedOK'
  BY <1>1, GroupFacts DEF RunStep, Instantiate, Resolve, LockGroups, Launch, WaitReady, Started,
     Select, RunStop, RunReturn
<1>2. ASSUME NEW s \in Services, ServiceStep(s) PROVE LaunchedOK'
  BY <1>2, ServiceFrame, GroupFacts
<1>3. ASSUME NEW s \in Services, Halts(s) PROVE LaunchedOK'
  BY <1>3 DEF Halts
<1>4. ASSUME NEW c \in Callers, StopStep(c) PROVE LaunchedOK'
  BY <1>4, StopFrame
<1>5. ASSUME AppSide PROVE LaunchedOK'
  BY <1>5, AppFrame
<1>6. ASSUME UNCHANGED vars PROVE LaunchedOK'
  BY <1>6 DEF vars, smVars
<1> HIDE DEF AppInv, ShapesOK, RunOK, LaunchedOK
<1> QED BY ZenonT(30), <1>1, <1>2, <1>3, <1>4, <1>5, <1>6, Steps

\* waitGroupReady lets the startup go on only past a ready group, unless it is
\* over anyway.
LEMMA NotifiersStep == AppInv /\ [Next]_vars => NotifiersOK'
<1> SUFFICES ASSUME AppInv, [Next]_vars PROVE NotifiersOK'
  OBVIOUS
<1> USE DEF AppInv, ShapesOK, LaunchedOK, NotifiersOK, RecordedReady, Cancelled,
        manager, workers, stopping
<1>1. ASSUME RunStep PROVE NotifiersOK'
  <2>1. CASE Launch
    <3>1. RecordedReady => RecordedReady'
      BY <2>1, GroupFacts DEF Launch
    <3> QED BY <2>1, <3>1 DEF Launch
  <2>2. CASE WaitReady
    <3>1. (\A s \in Groups[group] \cap Notifiers : s \in ready \/ svc[s] = "exited")
            /\ RecordedReady => RecordedReady'
      BY <2>2 DEF WaitReady
    <3> QED BY <2>2, <3>1 DEF WaitReady
  <2>3. CASE LockGroups
    BY <2>3 DEF LockGroups, RunOK
  <2> QED
    BY <1>1, <2>1, <2>2, <2>3
       DEF RunStep, Instantiate, Resolve, Started, Select, RunStop, RunReturn
<1>2. ASSUME NEW s \in Services, ServiceStep(s) PROVE NotifiersOK'
  <2>1. RecordedReady => RecordedReady'
    BY <1>2, ServiceFrame, GroupFacts DEF Alive
  <2> QED BY <1>2, <2>1, ServiceFrame
<1>3. ASSUME NEW s \in Services, Halts(s) PROVE NotifiersOK'
  BY <1>3 DEF Halts
<1>4. ASSUME NEW c \in Callers, StopStep(c) PROVE NotifiersOK'
  BY <1>4, StopFrame
<1>5. ASSUME AppSide PROVE NotifiersOK'
  BY <1>5, AppFrame
<1>6. ASSUME UNCHANGED vars PROVE NotifiersOK'
  BY ZenonT(30), <1>6 DEF vars, smVars
<1> HIDE DEF AppInv, ShapesOK, LaunchedOK, NotifiersOK, RecordedReady, Cancelled
<1> QED BY ZenonT(30), <1>1, <1>2, <1>3, <1>4, <1>5, <1>6, Steps

\* stopOnce lets one caller in, and lets nobody in again.
LEMMA OnceStep == AppInv /\ [Next]_vars => OnceOK'
<1> SUFFICES ASSUME AppInv, [Next]_vars PROVE OnceOK'
  OBVIOUS
<1> USE DEF AppInv, ShapesOK, OnceOK, Inside, manager, workers, stopping
<1>1. ASSUME RunStep PROVE OnceOK'
  BY <1>1 DEF RunStep, Instantiate, Resolve, LockGroups, Launch, WaitReady, Started,
     Select, RunStop, RunReturn
<1>2. ASSUME NEW s \in Services, ServiceStep(s) PROVE OnceOK'
  BY <1>2, ServiceFrame
<1>3. ASSUME NEW s \in Services, Halts(s) PROVE OnceOK'
  BY <1>3 DEF Halts
<1>4. ASSUME NEW c \in Callers, StopStep(c) PROVE OnceOK'
  BY <1>4 DEF StopStep, StopCancel, StopOnce, StopLock, StopGroup, GroupStopped, StopReturn
<1>5. ASSUME AppSide PROVE OnceOK'
  BY <1>5, AppFrame
<1>6. ASSUME UNCHANGED vars PROVE OnceOK'
  BY <1>6 DEF vars, smVars
<1> HIDE DEF AppInv, ShapesOK, OnceOK, Inside
<1> QED BY ZenonT(30), <1>1, <1>2, <1>3, <1>4, <1>5, <1>6, Steps

\* Stop halts what is launched, from the last group down, and nothing is
\* launched any more once it has begun to.
LEMMA HaltStep == AppInv /\ [Next]_vars => HaltOK'
<1> SUFFICES ASSUME AppInv, [Next]_vars PROVE HaltOK'
  OBVIOUS
<1> USE DEF AppInv, ShapesOK, LaunchedOK, OnceOK, HaltOK, Inside, Late,
        manager, workers, stopping
<1>1. ASSUME RunStep PROVE HaltOK'
  BY <1>1 DEF RunStep, Instantiate, Resolve, LockGroups, Launch, WaitReady, Started,
     Select, RunStop, RunReturn
<1>2. ASSUME NEW s \in Services, ServiceStep(s) PROVE HaltOK'
  BY <1>2, ServiceFrame, GroupFacts
<1>3. ASSUME NEW s \in Services, Halts(s) PROVE HaltOK'
  BY <1>3 DEF Halts
<1>4. ASSUME NEW c \in Callers, StopStep(c) PROVE HaltOK'
  <2>1. CASE StopCancel(c) \/ StopOnce(c)
    BY <1>4, <2>1 DEF StopCancel, StopOnce
  <2>2. CASE StopLock(c)
    BY <1>4, <2>2, GroupFacts DEF StopLock
  <2>3. CASE StopGroup(c)
    <3>1. /\ UNCHANGED <<run, stopAt, startGroups, svc, once>> /\ stopAt > 0
          /\ stop' = [stop EXCEPT ![c] = "halting"] /\ stop[c] = "groups"
      BY <2>3 DEF StopGroup
    <3>2. run \notin {"launch", "ready"} /\ stopAt <= startGroups /\ once = "busy"
      BY <1>4, <3>1
    <3>3. \A d \in Callers : stop'[d] \in {"lock", "groups", "halting"} => d = c
      BY <1>4, <3>1
    <3>4. Late
      BY <3>1, <3>2 DEF RunOK
    <3>5. \A i \in 1..Len(Groups) : \A s \in Groups[i] :
            /\ i < stopAt => halt'[s] = "no"
            /\ i > stopAt /\ svc[s] # "off" => halt'[s] = "over"
      <4> TAKE i \in 1..Len(Groups)
      <4> TAKE s \in Groups[i]
      <4>1. s \in Services
        BY GroupFacts
      <4>2. i # stopAt => s \notin Groups[stopAt]
        BY <3>1, <3>2, GroupFacts
      <4> QED BY <1>4, <2>3, <4>1, <4>2 DEF StopGroup
    <3> QED BY <3>1, <3>2, <3>3, <3>4, <3>5
  <2>4. CASE GroupStopped(c)
    BY <1>4, <2>4 DEF GroupStopped
  <2>5. CASE StopReturn(c)
    BY <1>4, <2>5 DEF StopReturn
  <2> QED BY <1>4, <2>1, <2>2, <2>3, <2>4, <2>5 DEF StopStep
<1>5. ASSUME AppSide PROVE HaltOK'
  <2>1. CASE UNCHANGED run
    BY <1>5, <2>1, AppFrame
  <2>2. CASE run = "off" /\ run' = "start"
    <3>1. \A s \in Services : halt[s] = "no"
      BY <2>2
    <3> QED BY <1>5, <2>2, <3>1, AppFrame
  <2>3. CASE run = "returned" /\ run' = "gone"
    BY <1>5, <2>3, AppFrame
  <2> QED BY <1>5, <2>1, <2>2, <2>3, AppFrame
<1>6. ASSUME UNCHANGED vars PROVE HaltOK'
  BY <1>6 DEF vars, smVars
<1> HIDE DEF AppInv, ShapesOK, LaunchedOK, OnceOK, HaltOK, Inside, Late
<1> QED BY ZenonT(30), <1>1, <1>2, <1>3, <1>4, <1>5, <1>6, Steps

\* No step makes a service stop before the services launched after it.
LEMMA ReverseStep == AppInv /\ [Next]_vars => StopsInReverse'
<1> SUFFICES ASSUME AppInv, [Next]_vars PROVE StopsInReverse'
  BY ZenonT(30)
<1> USE GroupFacts DEF AppInv, ShapesOK, StopsInReverse, manager, workers, stopping
<1>1. ASSUME RunStep PROVE StopsInReverse'
  <2>1. CASE Launch
    BY <2>1 DEF Launch, HaltOK, Late
  <2> QED
    BY <1>1, <2>1 DEF RunStep, Instantiate, Resolve, LockGroups, WaitReady, Started,
       Select, RunStop, RunReturn
<1>2. ASSUME NEW s \in Services, ServiceStep(s) PROVE StopsInReverse'
  BY <1>2, ServiceFrame
<1>3. ASSUME NEW s \in Services, Halts(s) PROVE StopsInReverse'
  BY <1>3 DEF Halts
<1>4. ASSUME NEW c \in Callers, StopStep(c) PROVE StopsInReverse'
  <2>1. CASE StopGroup(c)
    <3> SUFFICES ASSUME NEW i \in 1..Len(Groups), NEW j \in 1..Len(Groups), i < j,
                        NEW s \in Groups[i], NEW t \in Groups[j],
                        halt'[s] # "no", svc'[t] # "off"
                 PROVE  halt'[t] = "over"
      BY DEF StopsInReverse
    <3>1. s \in Services /\ t \in Services /\ svc'[t] = svc[t]
      BY <2>1 DEF StopGroup
    <3>2. CASE i = stopAt
      BY <1>4, <2>1, <3>1, <3>2 DEF StopGroup, HaltOK
    <3>3. CASE i < stopAt
      BY <1>4, <2>1, <3>1, <3>3 DEF StopGroup, HaltOK, LaunchedOK
    <3>4. CASE i > stopAt
      BY <1>4, <2>1, <3>1, <3>4 DEF StopGroup, HaltOK
    <3> QED BY <3>2, <3>3, <3>4
  <2> QED BY <1>4, <2>1 DEF StopStep, StopCancel, StopOnce, StopLock, GroupStopped, StopReturn
<1>5. ASSUME AppSide PROVE StopsInReverse'
  BY <1>5, AppFrame
<1>6. ASSUME UNCHANGED vars PROVE StopsInReverse'
  BY <1>6 DEF vars, smVars
<1> HIDE DEF AppInv, ShapesOK, StopsInReverse
<1> QED BY ZenonT(30), <1>1, <1>2, <1>3, <1>4, <1>5, <1>6, Steps

\* The manager's own steps leave the context of App.Run alone.
LEMMA ManagerFrame ==
  ASSUME AppInv, RunStep \/ (\E s \in Services : ServiceStep(s) \/ Halts(s))
                         \/ (\E c \in Callers : StopStep(c))
  PROVE  UNCHANGED parent
<1>1. CASE RunStep
  BY <1>1 DEF RunStep, Instantiate, Resolve, LockGroups, Launch, WaitReady, Started,
     Select, RunStop, RunReturn
<1>2. ASSUME NEW s \in Services, ServiceStep(s) \/ Halts(s) PROVE UNCHANGED parent
  BY <1>2, ServiceFrame DEF Halts
<1>3. ASSUME NEW c \in Callers, StopStep(c) PROVE UNCHANGED parent
  BY <1>3, StopFrame
<1> QED BY <1>1, <1>2, <1>3

\* An error that ends App.Run is the one RunContext returns.
LEMMA ErrorStep == AppInv /\ [Next]_vars => ErrorOK'
<1> SUFFICES ASSUME AppInv, [Next]_vars PROVE ErrorOK'
  OBVIOUS
<1>0. ErrorOK /\ ShapesOK
  BY DEF AppInv
<1> USE DEF ErrorOK, ShapesOK
<1>1. ASSUME UNCHANGED <<parent, appVars, runnerVars>> PROVE ErrorOK'
  BY <1>0, <1>1 DEF appVars, runnerVars
<1>2. CASE AppStep
  <2>1. CASE AppArm
    BY <1>0, <2>1 DEF AppArm, smVars, runnerVars
  <2>2. CASE AppLaunch
    BY <1>0, <2>2 DEF AppLaunch, runnerVars
  <2>3. CASE ManagerGone
    BY <1>0, <2>3 DEF ManagerGone, runnerVars
  <2>4. CASE AppSelect
    BY <1>0, <2>4 DEF AppSelect, smVars, runnerVars, AppCallers
  <2>5. CASE AppReturn
    BY <1>0, <2>5 DEF AppReturn, smVars, runnerVars
  <2> QED BY <1>2, <2>1, <2>2, <2>3, <2>4, <2>5 DEF AppStep
<1>3. ASSUME NEW c \in AppCallers, AppStopStep(c) PROVE ErrorOK'
  <2>1. CASE AppStopCancel(c)
    BY <1>0, <1>3, <2>1 DEF AppStopCancel, runnerVars, AppCallers
  <2>2. CASE AppStopOnce(c)
    BY <1>0, <1>3, <2>2 DEF AppStopOnce, runnerVars, AppCallers
  <2>3. CASE AppStopWaited(c) \/ AppStopReturn(c)
    BY <1>0, <1>3, <2>3 DEF AppStopWaited, AppStopReturn, smVars, runnerVars, AppCallers
  <2> QED BY <1>3, <2>1, <2>2, <2>3 DEF AppStopStep
<1>4. CASE RunnerStep
  <2>1. CASE Signal
    BY <2>1 DEF Signal
  <2>2. CASE Shutdown
    BY <1>0, <2>2 DEF Shutdown, smVars, AppCallers
  <2>3. CASE Return
    BY <1>0, <2>3 DEF Return, smVars, appVars
  <2>4. CASE Deadline
    BY <1>0, <2>4 DEF Deadline, smVars, appVars
  <2> QED BY <1>4, <2>1, <2>2, <2>3, <2>4 DEF RunnerStep
<1> QED BY <1>1, <1>2, <1>3, <1>4, Steps, ManagerFrame DEF AppSide, vars, smVars

\* App.Stop waits for the manager's goroutine, if App.Run has launched it, and
\* without a signal App.Run has.
LEMMA HooksStep == AppInv /\ [Next]_vars => HooksOK'
<1> SUFFICES ASSUME AppInv, [Next]_vars PROVE HooksOK'
  OBVIOUS
<1>0. HooksOK /\ RunOK /\ ErrorOK /\ ShapesOK
  BY DEF AppInv
<1>1. ASSUME RunStep, UNCHANGED <<appVars, runnerVars>> PROVE HooksOK'
  BY <1>0, <1>1 DEF HooksOK, RunStep, Instantiate, Resolve, LockGroups, Launch, WaitReady,
     Started, Select, RunStop, RunReturn, appVars, runnerVars
<1>2. ASSUME UNCHANGED <<run, appVars, runnerVars>> PROVE HooksOK'
  BY <1>0, <1>2 DEF HooksOK, appVars, runnerVars
<1>3. ASSUME AppStep \/ RunnerStep PROVE HooksOK'
  <2>1. UNCHANGED hooks /\ (signal => signal')
    BY <1>3 DEF AppStep, AppArm, AppLaunch, ManagerGone, AppSelect, AppReturn, RunnerStep,
       Signal, Shutdown, Return, Deadline, appVars, runnerVars
  <2>2. UNCHANGED run \/ (run = "off" /\ run' = "start") \/ (run = "returned" /\ run' = "gone")
    BY <1>3, AppFrame DEF AppSide
  <2> QED BY <1>0, <2>1, <2>2 DEF HooksOK
<1>4. ASSUME NEW c \in AppCallers, AppStopStep(c) PROVE HooksOK'
  <2>1. CASE AppStopCancel(c) \/ AppStopOnce(c) \/ AppStopReturn(c)
    BY <1>0, <2>1 DEF HooksOK, AppStopCancel, AppStopOnce, AppStopReturn, manager, smVars, runnerVars
  <2>2. CASE AppStopWaited(c)
    <3>1. appStop[c] = "manager" /\ NoManager /\ UNCHANGED <<run, signal>>
          /\ hooks' = IF run = "off" THEN "early" ELSE "last"
      BY <2>2 DEF AppStopWaited, smVars, manager, runnerVars
    <3>2. run = "off" => signal
      BY <1>0, <1>4, <3>1 DEF RunOK, ErrorOK, AppCallers
    <3> QED BY <3>1, <3>2 DEF HooksOK, NoManager
  <2> QED BY <1>4, <2>1, <2>2 DEF AppStopStep
<1>5. ASSUME NEW s \in Services, ServiceStep(s) \/ Halts(s) PROVE UNCHANGED run
  BY <1>5, ServiceFrame DEF Halts, manager
<1>6. ASSUME NEW c \in Callers, StopStep(c) PROVE UNCHANGED run
  BY <1>6, StopFrame DEF manager
<1> QED BY ZenonT(30), <1>1, <1>2, <1>3, <1>4, <1>5, <1>6, Steps DEF AppSide, vars, smVars, manager

-----------------------------------------------------------------------------
(***************************************************************************)
(* The theorems                                                            *)
(***************************************************************************)

\* A process that has just started has launched, sent and stopped nothing.
LEMMA InitAppInv == Init => AppInv
<1> SUFFICES ASSUME Init PROVE AppInv
  OBVIOUS
<1> USE DEF Init, SMInit
<1>1. ShapesOK
  <2>1. failure \in BOOLEAN /\ cancelled \in BOOLEAN
    BY ZenonT(30)
  <2> QED BY <2>1 DEF ShapesOK
<1>2. RunOK
  BY DEF RunOK, Alive
<1>3. LaunchedOK
  BY GroupFacts DEF LaunchedOK
<1>4. NotifiersOK /\ OnceOK /\ ErrorOK
  BY DEF NotifiersOK, OnceOK, Inside, ErrorOK, Callers, AppCallers
<1>5. HaltOK /\ StopsInReverse
  BY GroupFacts DEF HaltOK, StopsInReverse, Callers
<1>6. HooksOK
  BY DEF HooksOK
<1> QED BY <1>1, <1>2, <1>3, <1>4, <1>5, <1>6 DEF AppInv

\* The inductive invariant holds of every behaviour of the process, for any
\* services, groups and retries.
THEOREM AppInductive == Spec => []AppInv
<1>1. AppInv /\ [Next]_vars => AppInv'
  BY ShapesStep, RunOKStep, LaunchedStep, NotifiersStep, OnceStep, HaltStep, ReverseStep,
     ErrorStep, HooksStep DEF AppInv
<1> QED BY <1>1, InitAppInv, PTL DEF Spec

\* Run closes its error channel after its last sender is gone (the order of the
\* deferred calls in ServiceManager.Run).
THEOREM ErrChClosedLast == Spec => []NoSendAfterClose
<1>1. AppInv => NoSendAfterClose
  BY ZenonT(30) DEF AppInv, RunOK, NoSendAfterClose
<1> QED BY <1>1, AppInductive, PTL

\* App.Run closes its error channel after the manager's goroutine is gone, so no
\* shutdown makes that goroutine send on a closed channel (app.go).
THEOREM AppErrChClosedLast == Spec => []AppNoSendAfterClose
<1>1. AppInv => AppNoSendAfterClose
  BY DEF AppInv, RunOK, AppNoSendAfterClose, NoManager
<1> QED BY <1>1, AppInductive, PTL

\* Stop halts the groups in reverse order, whoever calls it, however often and
\* however far the startup has come (ServiceManager.Stop, stopGroup).
THEOREM StopsReverse == Spec => []StopsInReverse
<1>1. AppInv => StopsInReverse
  BY DEF AppInv
<1> QED BY <1>1, AppInductive, PTL

\* A group is launched only past ready groups, unless the run is cancelled
\* (runServiceGroups, waitGroupReady).
THEOREM GroupsInOrder == Spec => []GroupsStartReady
<1>1. AppInv => GroupsStartReady
  <2> SUFFICES ASSUME AppInv, run = "ready", ~Cancelled
               PROVE  \A i \in 1..(group - 1) : \A s \in Groups[i] \cap Notifiers :
                        s \in ready \/ svc[s] = "exited"
    BY DEF GroupsStartReady
  <2>1. RecordedReady /\ group = startGroups + 1 /\ startGroups \in Nat
    BY DEF AppInv, NotifiersOK, LaunchedOK, ShapesOK
  <2> QED BY <2>1 DEF RecordedReady
<1> QED BY <1>1, AppInductive, PTL

\* RunContext returns nil after a failure only when a signal came first
\* (runner.waitForShutdown, App.Run, ServiceManager.Run).
THEOREM FailuresReported == Spec => []FailureReported
<1>1. AppInv => FailureReported
  BY DEF AppInv, ErrorOK, FailureReported
<1> QED BY <1>1, AppInductive, PTL

\* The post-stop hooks begin when every service is over, and none runs beside
\* them, unless a signal made App.Stop overtake the launch of the manager
\* (App.Stop, App.Run).
THEOREM HooksComeLast == Spec => []HooksAfterServices
<1>1. AppInv => HooksAfterServices
  BY ZenonT(30) DEF AppInv, HooksOK, RunOK, HooksAfterServices
<1> QED BY <1>1, AppInductive, PTL

=============================================================================
