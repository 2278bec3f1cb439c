----------------------------- MODULE ServiceRun -----------------------------
(***************************************************************************)
(* The controller's service (service.go): Run starts the reaper and four   *)
(* servers one after the other and waits; Stop drains them.  The manager   *)
(* cancels the context of Run before it calls Stop, and Run may still be   *)
(* starting then: what Stop does not find yet, the goroutines that wait    *)
(* for the context have to end.  The HTTP proxy is the module extended.    *)
(***************************************************************************)
EXTENDS HTTPGateway

CONSTANT Loops   \* the reaper's loops

Senders == {"socks", "http", "api", "metrics"}

VARIABLES
  run,        \* Run: the step it is at; "select", "nil" or "error" (returned)
  stop,       \* Stop: "idle" or the step it is at
  cancelled,  \* the context of Run
  srv,        \* of SOCKS gateway, API and metrics server: "none", "built" (its
              \* goroutine has not listened yet), "open" or "closed"
  watching,   \* goroutines that wait for the context to close a gateway
  failing,    \* goroutines with an error for httpErr
  sent,       \* errors in httpErr
  loop,       \* the reaper's loops: "off", "waiting", "pass", "leaving", "done"
  closed      \* Manager.Close has run

svc == <<run, stop, cancelled, srv, watching, failing, sent, loop, closed>>
svars == <<vars, svc>>

Returned == run \in {"nil", "error"}

SInit ==
  /\ Init
  /\ run = "boot" /\ stop = "idle" /\ cancelled = FALSE
  /\ srv = [s \in Senders \ {"http"} |-> "none"]
  /\ watching = {} /\ failing = {} /\ sent = 0
  /\ loop = [l \in Loops |-> "off"]
  /\ closed = FALSE

Opens(s) == srv' = [srv EXCEPT ![s] = "open"]
Shuts(s) == srv' = [srv EXCEPT ![s] = IF @ = "open" THEN "closed" ELSE @]

-----------------------------------------------------------------------------
(* Run.                                                                    *)
Fails == run' = "error"

\* The boot reap, then Reaper.Start.  The first tick of a loop is a period away:
\* a loop that starts with a cancelled context leaves at once.
StartReaper ==
  /\ run = "boot"
  /\ run' = "socks"
  /\ loop' = [l \in Loops |-> IF cancelled THEN "leaving" ELSE "waiting"]
  /\ UNCHANGED <<vars, stop, cancelled, srv, watching, failing, sent, closed>>

\* startGateway; Listen may fail.
StartSOCKS ==
  /\ run = "socks"
  /\ \/ run' = "http" /\ Opens("socks") /\ watching' = watching \cup {"socks"}
     \/ Fails /\ UNCHANGED <<srv, watching>>
  /\ UNCHANGED <<vars, stop, cancelled, failing, sent, loop, closed>>

\* Mutant of StartHTTP: nothing waits for the context.
UnwatchedStartHTTP ==
  /\ run = "http"
  /\ \/ run' = "api" /\ Start /\ UNCHANGED watching
     \/ Fails /\ UNCHANGED <<vars, watching>>
  /\ UNCHANGED <<stop, cancelled, srv, failing, sent, loop, closed>>

StartHTTP ==
  /\ run = "http"
  /\ \/ run' = "api" /\ Start /\ watching' = watching \cup {"http"}
     \/ Fails /\ UNCHANGED <<vars, watching>>
  /\ UNCHANGED <<stop, cancelled, srv, failing, sent, loop, closed>>

\* startAPI and startMetrics leave a goroutine that listens.
StartAPI ==
  /\ run = "api"
  /\ \/ run' = "metrics" /\ srv' = [srv EXCEPT !["api"] = "built"]
     \/ Fails /\ UNCHANGED srv
  /\ UNCHANGED <<vars, stop, cancelled, watching, failing, sent, loop, closed>>

StartMetrics ==
  /\ run = "metrics"
  /\ run' = "select" /\ srv' = [srv EXCEPT !["metrics"] = "built"]
  /\ UNCHANGED <<vars, stop, cancelled, watching, failing, sent, loop, closed>>

RunReturns ==
  /\ run = "select"
  /\ \/ cancelled /\ run' = "nil" /\ UNCHANGED sent
     \/ sent > 0 /\ run' = "error" /\ sent' = sent - 1
  /\ UNCHANGED <<vars, stop, cancelled, srv, watching, failing, loop, closed>>

-----------------------------------------------------------------------------
(* The servers' goroutines.                                                *)

\* The API or metrics server listens, or cannot.  A Listen of the API server that
\* fails for the cancelled context is no error.
Listens(s) ==
  /\ s \in {"api", "metrics"} /\ srv[s] = "built"
  /\ \/ Opens(s) /\ UNCHANGED failing
     \/ /\ srv' = [srv EXCEPT ![s] = "closed"]
        /\ \/ failing' = failing \cup {s}
           \/ s = "api" /\ cancelled /\ UNCHANGED failing
  /\ UNCHANGED <<vars, run, stop, cancelled, watching, sent, loop, closed>>

\* The API server ends: its Start sees the context, or its Serve that Stop has shut
\* the server down.
APIEnds ==
  /\ cancelled
  /\ srv["api"] = "open" /\ Shuts("api")
  /\ UNCHANGED <<vars, run, stop, cancelled, watching, failing, sent, loop, closed>>

\* A server fails on its own, and has an error to send.
ServerFails(s) ==
  /\ \/ s = "http" /\ ServeFails /\ UNCHANGED srv
     \/ s # "http" /\ srv[s] = "open" /\ Shuts(s) /\ UNCHANGED vars
  /\ failing' = failing \cup {s}
  /\ UNCHANGED <<run, stop, cancelled, watching, sent, loop, closed>>

\* Mutant of Capacity: room for fewer errors than there are servers.
SmallCapacity == 3

\* The capacity of httpErr.
Capacity == 4

\* Mutant of Sends: the error of the metrics server is only logged.
LoggedSends(s) ==
  /\ s \in failing /\ sent < Capacity
  /\ failing' = failing \ {s}
  /\ sent' = IF s = "metrics" THEN sent ELSE sent + 1
  /\ UNCHANGED <<vars, run, stop, cancelled, srv, watching, loop, closed>>

Sends(s) ==
  /\ s \in failing /\ sent < Capacity
  /\ failing' = failing \ {s}
  /\ sent' = sent + 1
  /\ UNCHANGED <<vars, run, stop, cancelled, srv, watching, loop, closed>>

\* The goroutine of a gateway's Start sees the context and calls Close.
ContextCloses(s) ==
  /\ cancelled /\ s \in watching
  /\ watching' = watching \ {s}
  /\ \/ s = "socks" /\ Shuts("socks") /\ UNCHANGED vars
     \/ s = "http" /\ CloseSnapshot("ctx") /\ UNCHANGED srv
  /\ UNCHANGED <<run, stop, cancelled, failing, sent, loop, closed>>

\* A connection of the HTTP proxy, or a Close of it, goes on.
Gateway == (HandlerNext \/ \E k \in Closers : CloseNext(k)) /\ UNCHANGED svc

-----------------------------------------------------------------------------
(* The reaper's loops.  A tick and the context may be ready together.      *)
Tick(l) ==
  /\ loop[l] \in {"waiting", "pass"}
  /\ loop' = [loop EXCEPT ![l] = IF @ = "waiting" THEN "pass" ELSE "waiting"]
  /\ UNCHANGED <<vars, run, stop, cancelled, srv, watching, failing, sent, closed>>

Leaves(l) ==
  /\ \/ cancelled /\ loop[l] = "waiting"
     \/ loop[l] = "leaving"
  /\ loop' = [loop EXCEPT ![l] = "done"]
  /\ UNCHANGED <<vars, run, stop, cancelled, srv, watching, failing, sent, closed>>

-----------------------------------------------------------------------------
(* The manager cancels the context and calls Stop.                         *)
Cancel ==
  /\ ~cancelled /\ cancelled' = TRUE
  /\ UNCHANGED <<vars, run, stop, srv, watching, failing, sent, loop, closed>>

StopBegins ==
  /\ cancelled /\ stop = "idle"
  /\ stop' = "api"
  /\ UNCHANGED <<vars, run, cancelled, srv, watching, failing, sent, loop, closed>>

\* stopAPI and stopMetrics: Shutdown of what Run has built so far.  A metrics
\* server shut down before it listens never does; the API server may still.
StopServer(s) ==
  /\ stop = s
  /\ stop' = IF s = "api" THEN "metrics" ELSE "socks"
  /\ IF s = "metrics" /\ srv[s] = "built" THEN srv' = [srv EXCEPT ![s] = "closed"] ELSE Shuts(s)
  /\ UNCHANGED <<vars, run, cancelled, watching, failing, sent, loop, closed>>

\* stopSOCKSGateway: Close takes the listener Start has stored, if any.
StopSOCKS ==
  /\ stop = "socks" /\ stop' = "http"
  /\ Shuts("socks")
  /\ UNCHANGED <<vars, run, cancelled, watching, failing, sent, loop, closed>>

\* stopHTTPProxy, which waits for Close.
StopHTTP ==
  /\ stop = "http"
  /\ \/ CloseSnapshot("stop") /\ UNCHANGED stop
     \/ closer["stop"].pc \in {"closed", "failed"} /\ stop' = "reaper" /\ UNCHANGED vars
  /\ UNCHANGED <<run, cancelled, srv, watching, failing, sent, loop, closed>>

\* Mutant of StopReaper: Stop does not wait for the loops.
HastyStopReaper ==
  /\ stop = "reaper" /\ stop' = "done" /\ closed' = TRUE
  /\ UNCHANGED <<vars, run, cancelled, srv, watching, failing, sent, loop>>

\* Reaper.Shutdown waits for the loops that have started; then Manager.Close.
StopReaper ==
  /\ stop = "reaper" /\ \A l \in Loops : loop[l] \in {"off", "done"}
  /\ stop' = "done" /\ closed' = TRUE
  /\ UNCHANGED <<vars, run, cancelled, srv, watching, failing, sent, loop>>

-----------------------------------------------------------------------------
RunStep == StartReaper \/ StartSOCKS \/ StartHTTP \/ StartAPI \/ StartMetrics \/ RunReturns
StopStep == StopServer("api") \/ StopServer("metrics") \/ StopSOCKS \/ StopHTTP \/ StopReaper

SNext ==
  \/ RunStep \/ Cancel \/ StopBegins \/ StopStep
  \/ \E s \in Senders : ContextCloses(s) \/ Sends(s) \/ ServerFails(s)
  \/ \E s \in {"api", "metrics"} : Listens(s)
  \/ APIEnds
  \/ \E l \in Loops : Tick(l) \/ Leaves(l)
  \/ Gateway

SSpec == SInit /\ [][SNext]_svars

\* Goroutines that can run do, a pass of the reaper ends, a loop whose context is
\* cancelled sees that in the end, and the manager stops a service whose Run has
\* returned.
SFairSpec ==
  /\ SSpec
  /\ Fairness
  /\ WF_svars(RunStep) /\ WF_svars(StopBegins) /\ WF_svars(StopStep) /\ WF_svars(APIEnds)
  /\ WF_svars(Returned /\ Cancel)
  /\ \A s \in Senders : WF_svars(ContextCloses(s)) /\ WF_svars(Sends(s))
  /\ \A s \in {"api", "metrics"} : WF_svars(Listens(s))
  /\ \A l \in Loops : WF_svars(loop[l] = "pass" /\ Tick(l)) /\ SF_svars(Leaves(l))

-----------------------------------------------------------------------------
\* Whatever point of its start Run has reached when the context is cancelled, the
\* SOCKS, the HTTP proxy and the API port end up closed for good: what Stop came
\* too early for, the goroutines waiting for the context close (Start, Close, Stop).
PortsReleased ==
  cancelled ~> [](srv["socks"] # "open" /\ listening # "yes" /\ srv["api"] # "open")

\* The failure of any server, while Run is still starting or later, ends Run: the
\* error reaches httpErr or the start is aborted (Run, startAPI, startMetrics).
FailureEndsRun == failing # {} ~> Returned

\* A server goroutine never blocks on httpErr, not even when Run has returned and
\* nobody receives any more.
SendersNeverBlock == failing # {} => sent < Capacity

\* No pass of the reaper is under way when or after Manager.Close empties the pools,
\* also when Stop overtakes the start of the reaper (Stop, Reaper.Shutdown).
NoPassAfterClose == closed => \A l \in Loops : loop[l] # "pass"

=============================================================================
