---------------------------- MODULE ServiceProofs -----------------------------
(***************************************************************************)
(* Theorems about the HTTP proxy and the service that runs it, for any     *)
(* number of connections and of reaper loops: reservations are released    *)
(* once, no server goroutine blocks on httpErr, and no pass of the reaper  *)
(* overlaps the end of Manager.Close.  And about the procedures around it: *)
(* config init, for any list of files, the loading of any configuration, and*)
(* the preflight check, for any endpoints.                                 *)
(***************************************************************************)
EXTENDS ServiceRun, Procedures, TLAPS, FiniteSetTheorems

\* The provers have 30 seconds for a leaf; SMT is tried again after Zenon.
USE SMTT(30), ZenonT(20), SMTT(29)

-----------------------------------------------------------------------------
(***************************************************************************)
(* The HTTP proxy                                                          *)
(***************************************************************************)

\* Before the dial a connection has no reservation, from the dial to the first
\* Close it has one, afterwards it has released it; the deferred Close may be
\* the first or the second, and a transport may close before its handler is done.
ReservationOK ==
  /\ pc \in [Conns -> {"idle", "handling", "connect", "forward", "abandoned", "dialed", "relayed",
                       "forwarded", "detached", "tracked", "relay", "draining", "deferred", "done"}]
  /\ upstream \in [Conns -> {"none", "open", "closed"}]
  /\ releases \in [Conns -> Nat]
  /\ \A c \in Conns :
       /\ pc[c] \in {"idle", "handling", "connect", "forward", "abandoned"} =>
            upstream[c] = "none" /\ releases[c] = 0
       /\ pc[c] \in {"dialed", "forwarded", "detached", "tracked", "relay"} =>
            upstream[c] = "open" /\ releases[c] = 0
       /\ pc[c] = "draining" => upstream[c] = "closed" /\ releases[c] = 1
       /\ pc[c] \in {"relayed", "deferred"} =>
            \/ upstream[c] = "open" /\ releases[c] = 0
            \/ upstream[c] = "closed" /\ releases[c] = 1
       /\ pc[c] = "done" => \/ upstream[c] = "none" /\ releases[c] = 0
                            \/ upstream[c] = "closed" /\ releases[c] = 1

\* releaseConn.Close gives an open reservation back and leaves a closed one alone.
LEMMA CloseFacts ==
  ASSUME ReservationOK, NEW c \in Conns, upstream[c] # "none", CloseUpstream(c)
  PROVE  /\ upstream' \in [Conns -> {"none", "open", "closed"}]
         /\ releases' \in [Conns -> Nat]
         /\ upstream'[c] = "closed"
         /\ releases'[c] = IF upstream[c] = "open" THEN releases[c] + 1 ELSE releases[c]
         /\ \A d \in Conns \ {c} : upstream'[d] = upstream[d] /\ releases'[d] = releases[d]
BY DEF ReservationOK, CloseUpstream

\* No handler closes twice or not at all.
LEMMA HandlerStep ==
  ASSUME ReservationOK, HandlerNext
  PROVE  ReservationOK'
<1>1. PICK c \in Conns :
        \/ Accept(c) \/ Handle(c) \/ Abandon(c) \/ DialFails(c) \/ Dialed(c)
        \/ Forwarded(c) \/ TransportCloses(c) \/ HijackFails(c) \/ Hijack(c) \/ TrackHijacked(c) \/ WriteEstablished(c)
        \/ RelayCloses(c) \/ RelayReturns(c) \/ CloseConnectTunnels(c)
        \/ \E d \in Directions : CopyMoves(c, d) \/ CopyEnds(c, d)
  BY ZenonT(30) DEF HandlerNext
<1>2. CASE Accept(c) \/ Abandon(c) \/ DialFails(c) \/ Forwarded(c)
  BY <1>2 DEF Accept, Abandon, DialFails, Forwarded, ReservationOK
<1>3. CASE Handle(c)
  <2>1. PICK next \in {"done", "connect", "forward"} : pc' = [pc EXCEPT ![c] = next]
    BY ZenonT(30), <1>3 DEF Handle
  <2> QED BY <1>3, <2>1 DEF Handle, ReservationOK
<1>4. CASE Dialed(c)
  BY <1>4 DEF Dialed, AfterDial, ReservationOK
<1>5. CASE TransportCloses(c) \/ HijackFails(c)
  BY <1>5, CloseFacts DEF TransportCloses, HijackFails, ReservationOK
<1>6. CASE Hijack(c) \/ TrackHijacked(c)
  BY <1>6 DEF Hijack, TrackHijacked, ReservationOK
<1>7. CASE WriteEstablished(c)
  BY <1>7 DEF WriteEstablished, ReservationOK
<1>8. CASE RelayCloses(c)
  BY <1>8, CloseFacts DEF RelayCloses, ReservationOK
<1>9. CASE RelayReturns(c)
  BY <1>9 DEF RelayReturns, ReservationOK
<1>10. CASE CloseConnectTunnels(c)
  BY <1>10, CloseFacts DEF CloseConnectTunnels, ReservationOK
<1>11. CASE \E d \in Directions : CopyMoves(c, d) \/ CopyEnds(c, d)
  BY <1>11 DEF CopyMoves, CopyEnds, ReservationOK
<1> QED BY <1>1, <1>2, <1>3, <1>4, <1>5, <1>6, <1>7, <1>8, <1>9, <1>10, <1>11

\* Start, Serve and Close never touch a reservation: Close closes the client's side
\* and leaves the cell's to the relay.
LEMMA CloserFrame ==
  ASSUME Start \/ ServeFails \/ \E k \in Closers : CloseSnapshot(k) \/ CloseNext(k)
  PROVE  UNCHANGED <<pc, upstream, releases>>
<1>1. CASE Start \/ ServeFails
  BY <1>1 DEF Start, ServeFails, handlers
<1>2. ASSUME NEW k \in Closers, CloseSnapshot(k) \/ CloseNext(k)
      PROVE  UNCHANGED <<pc, upstream, releases>>
  <2>1. CASE CloseSnapshot(k)
    BY <2>1 DEF CloseSnapshot, handlers
  <2>2. CASE CloseNext(k)
    BY <2>2 DEF CloseNext, ShutdownBegins, ShutdownReturns, ShutdownTimesOut, CloseOne, handlers
  <2> QED BY <1>2, <2>1, <2>2
<1> QED BY <1>1, <1>2

\* What each handler has dialled and released is an invariant of the gateway.
THEOREM ReservationInductive == Spec => []ReservationOK
<1>1. Init => ReservationOK
  BY DEF Init, ReservationOK
<1>2. ReservationOK /\ [Next]_vars => ReservationOK'
  <2> SUFFICES ASSUME ReservationOK, [Next]_vars PROVE ReservationOK'
    OBVIOUS
  <2>1. CASE HandlerNext
    BY <2>1, HandlerStep
  <2>2. ASSUME UNCHANGED <<pc, upstream, releases>> PROVE ReservationOK'
    BY <2>2 DEF ReservationOK
  <2> QED BY ZenonT(30), <2>1, <2>2, CloserFrame DEF Next, vars
<1> QED BY <1>1, <1>2, PTL DEF Spec

\* Every reservation a connection of the HTTP proxy takes is released exactly once
\* (handleConnect, relayConnect, closeConnectTunnels, releaseConn.Close).
THEOREM ReleasesOnce == Spec => []ReleasedOnce
<1>1. ReservationOK => ReleasedOnce
  BY DEF ReservationOK, ReleasedOnce
<1> QED BY <1>1, ReservationInductive, PTL

-----------------------------------------------------------------------------
(***************************************************************************)
(* The service                                                             *)
(***************************************************************************)

\* The service drives the HTTP proxy as the proxy's own specification says, so
\* what is proved of the proxy alone holds of it inside the service (startHTTP,
\* stopHTTPProxy and the goroutine of Start).
THEOREM ServiceRunsGateway == SSpec => Spec
<1>1. SInit => Init
  BY DEF SInit
<1>2. [SNext]_svars => [Next]_vars
  <2> SUFFICES ASSUME SNext PROVE [Next]_vars
    BY DEF svars
  <2>1. CASE RunStep
    BY ZenonT(30), <2>1 DEF RunStep, StartReaper, StartSOCKS, StartHTTP, StartAPI, StartMetrics,
       RunReturns, Next
  <2>2. CASE Cancel \/ StopBegins
    BY ZenonT(30), <2>2 DEF Cancel, StopBegins
  <2>3. CASE StopStep
    BY ZenonT(30), <2>3 DEF StopStep, StopServer, StopSOCKS, StopHTTP, StopReaper, Next, Closers
  <2>4. ASSUME NEW s \in Senders, ContextCloses(s) \/ Sends(s) \/ ServerFails(s) PROVE [Next]_vars
    BY ZenonT(30), <2>4 DEF ContextCloses, Sends, ServerFails, Next, Closers
  <2>5. ASSUME NEW s \in {"api", "metrics"}, Listens(s) PROVE [Next]_vars
    BY ZenonT(30), <2>5 DEF Listens
  <2>6. CASE APIEnds
    BY ZenonT(30), <2>6 DEF APIEnds
  <2>7. ASSUME NEW l \in Loops, Tick(l) \/ Leaves(l) PROVE [Next]_vars
    BY ZenonT(30), <2>7 DEF Tick, Leaves
  <2>8. CASE Gateway
    BY ZenonT(30), <2>8 DEF Gateway, Next
  <2> QED BY ZenonT(30), <2>1, <2>2, <2>3, <2>4, <2>5, <2>6, <2>7, <2>8 DEF SNext
<1> QED BY <1>1, <1>2, PTL DEF SSpec, Spec

\* The HTTP proxy releases every reservation once, however the start, the failures
\* and the stop of the service interleave with its handlers.
THEOREM ServiceReleasesOnce == SSpec => []ReleasedOnce
BY ServiceRunsGateway, ReleasesOnce, PTL

\* The server of s has ended, or its listener has failed: it never serves again.
Over(s) == IF s = "http" THEN listening = "no" ELSE srv[s] = "closed"

\* The servers whose goroutine has no error to send any more.
Spent == {s \in Senders : Over(s)} \ failing

\* Run starts each server once, a server with an error to send has ended, and
\* httpErr holds at most one error of each server that has.
SendersOK ==
  /\ srv \in [Senders \ {"http"} -> {"none", "built", "open", "closed"}]
  /\ run \in {"boot", "socks"} => srv["socks"] = "none"
  /\ run \in {"boot", "socks", "http", "api"} => srv["api"] = "none"
  /\ run \in {"boot", "socks", "http", "api", "metrics"} => srv["metrics"] = "none"
  /\ failing \subseteq {s \in Senders : Over(s)}
  /\ sent \in Nat
  /\ sent <= Cardinality(Spent)

\* Manager.Close runs after the reaper's loops are over, or before they start with a
\* cancelled context.
LoopsOK ==
  /\ cancelled \in BOOLEAN
  /\ loop \in [Loops -> {"off", "waiting", "pass", "leaving", "done"}]
  /\ stop # "idle" => cancelled
  /\ closed => cancelled /\ \A l \in Loops : loop[l] \in {"off", "leaving", "done"}

\* The four senders, and why one that still has to send finds room.
LEMMA SendersFacts ==
  /\ IsFiniteSet(Senders)
  /\ Cardinality(Senders) <= 4
  /\ \A S \in SUBSET Senders : IsFiniteSet(S) /\ Cardinality(S) \in Nat
  /\ \A S, T \in SUBSET Senders : S \subseteq T => Cardinality(S) <= Cardinality(T)
  /\ \A S \in SUBSET Senders, s \in Senders : s \notin S => Cardinality(S \cup {s}) = Cardinality(S) + 1
<1>1. IsFiniteSet({"socks"}) /\ Cardinality({"socks"}) = 1
  BY FS_Singleton
<1>2. IsFiniteSet({"socks"} \cup {"http"}) /\ Cardinality({"socks"} \cup {"http"}) <= 2
  BY <1>1, FS_AddElement
<1>3. /\ IsFiniteSet({"socks"} \cup {"http"} \cup {"api"})
      /\ Cardinality({"socks"} \cup {"http"} \cup {"api"}) <= 3
  BY <1>2, FS_AddElement, FS_CardinalityType
<1>4. /\ IsFiniteSet({"socks"} \cup {"http"} \cup {"api"} \cup {"metrics"})
      /\ Cardinality({"socks"} \cup {"http"} \cup {"api"} \cup {"metrics"}) <= 4
  BY <1>3, FS_AddElement, FS_CardinalityType
<1>5. Senders = {"socks"} \cup {"http"} \cup {"api"} \cup {"metrics"}
  BY DEF Senders
<1>6. IsFiniteSet(Senders) /\ Cardinality(Senders) <= 4
  BY <1>4, <1>5
<1>7. ASSUME NEW S \in SUBSET Senders PROVE IsFiniteSet(S) /\ Cardinality(S) \in Nat
  BY <1>6, FS_Subset, FS_CardinalityType
<1>8. ASSUME NEW S \in SUBSET Senders, NEW T \in SUBSET Senders, S \subseteq T
      PROVE  Cardinality(S) <= Cardinality(T)
  BY <1>7, <1>8, FS_Subset
<1>9. ASSUME NEW S \in SUBSET Senders, NEW s \in Senders, s \notin S
      PROVE  Cardinality(S \cup {s}) = Cardinality(S) + 1
  BY <1>7, <1>9, FS_AddElement
<1> QED BY <1>6, <1>7, <1>8, <1>9

\* A step of the proxy reopens no listener.
LEMMA ListenerFrame ==
  ASSUME [Next]_vars
  PROVE  listening = "no" => listening' = "no"
<1>1. CASE HandlerNext
  BY <1>1 DEF HandlerNext, Accept, Handle, Abandon, DialFails, Dialed, Forwarded, TransportCloses,
     HijackFails, Hijack, TrackHijacked, WriteEstablished, RelayCloses, RelayReturns,
     CloseConnectTunnels, CopyMoves, CopyEnds,
     gateway
<1>2. ASSUME NEW k \in Closers, CloseSnapshot(k) \/ CloseNext(k)
      PROVE  listening = "no" => listening' = "no"
  BY <1>2 DEF CloseSnapshot, CloseNext, ShutdownBegins, ShutdownReturns, ShutdownTimesOut, CloseOne
<1> QED BY <1>1, <1>2 DEF Next, Start, ServeFails, vars

\* A step that sends nothing, opens no ended server and makes only servers that have
\* just ended fail keeps the bound on httpErr.
LEMMA SpentGrows ==
  ASSUME SendersOK, sent' \in Nat, sent' <= sent,
         failing' \subseteq {s \in Senders : Over(s)'},
         \A s \in Senders : Over(s) => Over(s)',
         \A s \in failing' : s \in failing \/ ~Over(s)
  PROVE  sent' <= Cardinality(Spent')
<1>1. Spent \subseteq Spent' /\ Spent \in SUBSET Senders /\ Spent' \in SUBSET Senders
  BY DEF Spent
<1>2. Cardinality(Spent) <= Cardinality(Spent') /\ Cardinality(Spent) \in Nat /\ Cardinality(Spent') \in Nat
  BY <1>1, SendersFacts
<1> QED BY <1>2 DEF SendersOK

\* Every step keeps the account of the senders.
LEMMA SendersStep == SendersOK /\ [SNext]_svars => SendersOK'
<1> SUFFICES ASSUME SendersOK, [SNext]_svars PROVE SendersOK'
  OBVIOUS
<1> DEFINE Typed == srv' \in [Senders \ {"http"} -> {"none", "built", "open", "closed"}]
           Once == /\ run' \in {"boot", "socks"} => srv'["socks"] = "none"
                   /\ run' \in {"boot", "socks", "http", "api"} => srv'["api"] = "none"
                   /\ run' \in {"boot", "socks", "http", "api", "metrics"} => srv'["metrics"] = "none"
<1>0. ASSUME UNCHANGED <<run, srv, failing, sent>>, listening = "no" => listening' = "no"
      PROVE  SendersOK'
  <2>1. \A s \in Senders : Over(s) => Over(s)'
    BY <1>0 DEF Over
  <2>2. sent' <= Cardinality(Spent')
    BY <1>0, <2>1, SpentGrows DEF SendersOK
  <2> QED BY <1>0, <2>1, <2>2 DEF SendersOK
<1>1. CASE RunStep
  <2>1. CASE StartReaper
    BY <2>1 DEF StartReaper, vars, SendersOK, Over, Spent
  <2>2. CASE StartSOCKS \/ StartAPI \/ StartMetrics
    <3>1. Typed /\ Once
      BY <2>2 DEF StartSOCKS, StartAPI, StartMetrics, Opens, Fails, SendersOK, Senders
    <3>2. UNCHANGED <<failing, sent, listening>>
      BY <2>2 DEF StartSOCKS, StartAPI, StartMetrics, vars
    <3>3. \A s \in Senders : Over(s) => Over(s)'
      BY <2>2 DEF StartSOCKS, StartAPI, StartMetrics, Opens, Fails, SendersOK, Senders, Over, vars
    <3>4. sent' <= Cardinality(Spent')
      BY <3>2, <3>3, SpentGrows DEF SendersOK
    <3> QED BY <3>1, <3>2, <3>3, <3>4 DEF SendersOK
  <2>3. CASE StartHTTP
    <3>1. /\ UNCHANGED <<srv, failing, sent>> /\ run = "http" /\ run' \in {"api", "error"}
          /\ listening = "no" => listening' = "no"
      BY <2>3 DEF StartHTTP, Fails, Start, vars
    <3>2. \A s \in Senders : Over(s) => Over(s)'
      BY <3>1 DEF Over
    <3>3. sent' <= Cardinality(Spent')
      BY <3>1, <3>2, SpentGrows DEF SendersOK
    <3> QED BY <3>1, <3>2, <3>3 DEF SendersOK
  <2>4. CASE RunReturns
    <3>1. UNCHANGED <<srv, failing, listening>> /\ sent' \in Nat /\ sent' <= sent /\ run' \in {"nil", "error"}
      BY <2>4 DEF RunReturns, vars, SendersOK
    <3>2. \A s \in Senders : Over(s) => Over(s)'
      BY <3>1 DEF Over
    <3>3. sent' <= Cardinality(Spent')
      BY <3>1, <3>2, SpentGrows DEF SendersOK
    <3> QED BY <3>1, <3>2, <3>3 DEF SendersOK
  <2> QED BY <1>1, <2>1, <2>2, <2>3, <2>4 DEF RunStep
<1>2. CASE Cancel \/ StopBegins \/ (\E l \in Loops : Tick(l) \/ Leaves(l))
  BY ZenonT(30), <1>0, <1>2 DEF Cancel, StopBegins, Tick, Leaves, vars
<1>3. ASSUME UNCHANGED <<run, failing, sent, listening>>,
             \/ UNCHANGED srv
             \/ \E s \in Senders \ {"http"} : srv[s] # "none" /\ srv' = [srv EXCEPT ![s] = "closed"]
      PROVE  SendersOK'
  <2>1. Typed /\ Once
    BY <1>3 DEF SendersOK, Senders
  <2>2. \A s \in Senders : Over(s) => Over(s)'
    BY <1>3 DEF Over, SendersOK
  <2>3. sent' <= Cardinality(Spent')
    BY <1>3, <2>2, SpentGrows DEF SendersOK
  <2> QED BY <1>3, <2>1, <2>2, <2>3 DEF SendersOK
<1>4. CASE StopStep \/ APIEnds \/ \E s \in Senders : ContextCloses(s)
  <2>1. CASE StopHTTP \/ ContextCloses("http") \/ StopReaper
    BY <1>0, <2>1 DEF StopHTTP, ContextCloses, CloseSnapshot, StopReaper, vars
  <2>2. ASSUME NEW s \in Senders \ {"http"}, Shuts(s) PROVE
          \/ UNCHANGED srv
          \/ srv[s] # "none" /\ srv' = [srv EXCEPT ![s] = "closed"]
    <3>1. CASE srv[s] = "open"
      BY <2>2, <3>1 DEF Shuts, SendersOK
    <3>2. CASE srv[s] # "open"
      BY <2>2, <3>2 DEF Shuts, SendersOK
    <3> QED BY <3>1, <3>2
  <2>3. CASE StopServer("api") \/ StopServer("metrics") \/ StopSOCKS \/ APIEnds \/ ContextCloses("socks")
    <3>1. UNCHANGED <<run, failing, sent, listening>>
      BY <2>3 DEF StopServer, StopSOCKS, APIEnds, ContextCloses, vars, CloseSnapshot
    <3>2. \/ UNCHANGED srv
          \/ \E s \in Senders \ {"http"} : srv[s] # "none" /\ srv' = [srv EXCEPT ![s] = "closed"]
      <4>1. /\ "api" \in Senders \ {"http"} /\ "metrics" \in Senders \ {"http"}
            /\ "socks" \in Senders \ {"http"}
        BY DEF Senders
      <4>2. \/ Shuts("api") \/ Shuts("socks") \/ Shuts("metrics")
            \/ srv["metrics"] = "built" /\ srv' = [srv EXCEPT !["metrics"] = "closed"]
        BY <2>3 DEF StopServer, StopSOCKS, APIEnds, ContextCloses
      <4> QED BY <2>2, <4>1, <4>2
    <3> QED BY ZenonT(30), <1>3, <3>1, <3>2
  <2>4. ASSUME NEW s \in Senders, ContextCloses(s) PROVE s \in {"socks", "http"}
    BY <2>4 DEF ContextCloses
  <2> QED BY ZenonT(30), <1>4, <2>1, <2>3, <2>4 DEF StopStep
<1>5. ASSUME NEW s \in Senders, ServerFails(s) PROVE SendersOK'
  <2>1. /\ UNCHANGED <<run, sent>> /\ failing' = failing \cup {s}
        /\ Typed /\ Once /\ ~Over(s) /\ Over(s)'
    BY <1>5 DEF ServerFails, ServeFails, Shuts, SendersOK, Over, Senders
  <2>2. \A d \in Senders : Over(d) => Over(d)'
    BY <1>5 DEF ServerFails, ServeFails, Shuts, SendersOK, Over, vars
  <2>3. sent' <= Cardinality(Spent')
    BY <2>1, <2>2, SpentGrows DEF SendersOK
  <2> QED BY <2>1, <2>2, <2>3 DEF SendersOK
<1>6. ASSUME NEW s \in {"api", "metrics"}, Listens(s) PROVE SendersOK'
  <2>1. /\ UNCHANGED <<run, sent, listening>> /\ Typed /\ Once /\ ~Over(s) /\ s \in Senders
        /\ failing' = failing \/ (failing' = failing \cup {s} /\ Over(s)')
    BY <1>6 DEF Listens, Opens, SendersOK, Over, Senders, vars
  <2>2. \A d \in Senders : Over(d) => Over(d)'
    BY <1>6 DEF Listens, Opens, SendersOK, Over, Senders, vars
  <2>3. failing' \subseteq {d \in Senders : Over(d)'}
    BY ZenonT(30), <2>1, <2>2 DEF SendersOK
  <2>4. sent' <= Cardinality(Spent')
    BY <2>1, <2>2, <2>3, SpentGrows DEF SendersOK
  <2> QED BY <2>1, <2>3, <2>4 DEF SendersOK
<1>7. ASSUME NEW s \in Senders, Sends(s) PROVE SendersOK'
  <2>1. UNCHANGED <<run, srv, listening>> /\ failing' = failing \ {s} /\ sent' = sent + 1 /\ s \in failing
    BY <1>7 DEF Sends, vars
  <2>2. \A d \in Senders : Over(d)' <=> Over(d)
    BY <2>1 DEF Over
  <2>3. Spent' = Spent \cup {s} /\ s \notin Spent /\ Spent \in SUBSET Senders
    BY <2>1, <2>2 DEF Spent, SendersOK
  <2>4. Cardinality(Spent') = Cardinality(Spent) + 1 /\ Cardinality(Spent) \in Nat
    BY <2>3, SendersFacts
  <2> QED BY <2>1, <2>2, <2>4 DEF SendersOK
<1>8. CASE Gateway
  BY <1>0, <1>8, ListenerFrame DEF Gateway, Next, svc
<1>9. CASE UNCHANGED svars
  BY <1>0, <1>9 DEF svars, svc, vars
<1> QED BY ZenonT(30), <1>1, <1>2, <1>4, <1>5, <1>6, <1>7, <1>8, <1>9 DEF SNext

\* Every step keeps the order of the loops and Manager.Close.
LEMMA LoopsStep == LoopsOK /\ [SNext]_svars => LoopsOK'
<1> SUFFICES ASSUME LoopsOK, [SNext]_svars PROVE LoopsOK'
  OBVIOUS
<1>0. ASSUME UNCHANGED <<cancelled, stop, closed, loop>> PROVE LoopsOK'
  BY <1>0 DEF LoopsOK
<1>1. CASE RunStep
  <2>1. CASE StartReaper
    BY <2>1 DEF StartReaper, LoopsOK
  <2> QED
    BY ZenonT(30), <1>0, <1>1, <2>1
       DEF RunStep, StartSOCKS, StartHTTP, StartAPI, StartMetrics, RunReturns
<1>2. CASE Cancel \/ StopBegins
  <2>1. UNCHANGED <<loop, closed>> /\ cancelled' = TRUE
    BY ZenonT(30), <1>2 DEF Cancel, StopBegins, LoopsOK
  <2> QED BY ZenonT(30), <2>1 DEF LoopsOK
<1>3. CASE StopStep
  <2>1. CASE StopReaper
    BY <2>1 DEF StopReaper, LoopsOK
  <2>2. CASE StopServer("api") \/ StopServer("metrics") \/ StopSOCKS \/ StopHTTP
    <3>1. UNCHANGED <<cancelled, closed, loop>> /\ stop # "idle"
      BY <2>2 DEF StopServer, StopSOCKS, StopHTTP
    <3> QED BY ZenonT(30), <3>1 DEF LoopsOK
  <2> QED BY <1>3, <2>1, <2>2 DEF StopStep
<1>4. ASSUME NEW l \in Loops, Tick(l) \/ Leaves(l) PROVE LoopsOK'
  <2>1. /\ loop' \in [Loops -> {"off", "waiting", "pass", "leaving", "done"}]
        /\ \A m \in Loops : loop[m] \in {"off", "leaving", "done"} => loop'[m] \in {"off", "leaving", "done"}
    BY <1>4 DEF Tick, Leaves, LoopsOK
  <2>2. UNCHANGED <<cancelled, stop, closed>>
    BY <1>4 DEF Tick, Leaves
  <2> QED BY ZenonT(30), <2>1, <2>2 DEF LoopsOK
<1> QED
  BY ZenonT(30), <1>0, <1>1, <1>2, <1>3, <1>4
     DEF SNext, ContextCloses, Sends, ServerFails, Listens, APIEnds, Gateway, svc, svars

\* A service that has not started has ended no server and closed nothing.
LEMMA SInitInv == SInit => SendersOK /\ LoopsOK
<1> SUFFICES ASSUME SInit PROVE SendersOK /\ LoopsOK
  OBVIOUS
<1>1. cancelled \in BOOLEAN /\ stop = "idle" /\ ~closed
  BY ZenonT(30) DEF SInit
<1>2. Spent \in SUBSET Senders
  BY DEF Spent
<1>3. Cardinality(Spent) \in Nat
  BY <1>2, SendersFacts
<1> QED BY <1>1, <1>3 DEF SInit, SendersOK, LoopsOK, Senders

\* What Run has started and what the senders have sent is an invariant of the
\* service.
THEOREM ServiceInductive == SSpec => [](SendersOK /\ LoopsOK)
BY SInitInv, SendersStep, LoopsStep, PTL DEF SSpec

\* No goroutine of a server ever blocks on httpErr, whoever receives (Run,
\* startGateway, startAPI, startMetrics).
THEOREM SendsNeverBlock == SSpec => []SendersNeverBlock
<1>1. SendersOK => SendersNeverBlock
  <2> SUFFICES ASSUME SendersOK, NEW s \in failing PROVE sent < 4
    BY DEF SendersNeverBlock, Capacity
  <2>1. s \in Senders /\ s \notin Spent /\ Spent \in SUBSET Senders
    BY DEF SendersOK, Spent
  <2>2. Spent \cup {s} \in SUBSET Senders /\ Senders \in SUBSET Senders
    BY <2>1
  <2>3. Cardinality(Spent) + 1 <= Cardinality(Senders) /\ Cardinality(Spent) \in Nat
    <3>1. Cardinality(Spent \cup {s}) = Cardinality(Spent) + 1 /\ Cardinality(Spent) \in Nat
      BY <2>1, SendersFacts
    <3>2. Cardinality(Spent \cup {s}) <= Cardinality(Senders)
      BY <2>2, SendersFacts
    <3> QED BY <3>1, <3>2
  <2>4. Cardinality(Senders) \in Nat /\ Cardinality(Senders) <= 4
    BY <2>2, SendersFacts
  <2> QED BY <2>3, <2>4 DEF SendersOK
<1> QED BY <1>1, ServiceInductive, PTL

\* Manager.Close never overlaps or precedes a pass of the reaper (Service.Stop,
\* Reaper.Start, Reaper.Shutdown).
THEOREM CloseEndsPasses == SSpec => []NoPassAfterClose
<1>1. LoopsOK => NoPassAfterClose
  BY DEF LoopsOK, NoPassAfterClose
<1> QED BY <1>1, ServiceInductive, PTL

-----------------------------------------------------------------------------
(***************************************************************************)
(* config init                                                             *)
(***************************************************************************)

AtFile == {"file", "rename", "write"}
AtEnv == {".env", "writeEnv", "renameEnv", "done"}

\* The variables of config init keep their types.
BootTypes ==
  /\ release \in Releases
  /\ file \in [Files \cup {Example} -> {"absent", "own", "special", "torn"} \cup Releases]
  /\ env \in [kind : {"absent", "special", "file"}, token : Tokens \cup {"none", "own", "cut"},
              user : Users \cup {"none"}]
  /\ init \in [pc : {"idle"} \cup AtFile \cup AtEnv, at : Nat, refresh : BOOLEAN,
               user : Users \cup {"none"}]

\* Where the command is among the files.
PlaceOK ==
  /\ init.pc = "idle" => init = Idle
  /\ init.pc \in AtFile => init.at \in 1 .. Len(Managed) + 1
  /\ init.pc \in AtEnv => init.at = Len(Managed) + 2
  /\ init.pc = "rename" => Replaces
  /\ init.pc = "write" => ~Replaces /\ file[Current] = "torn"

\* The files it has passed are as they were asked for.
PassedOK ==
  /\ init.pc # "idle" /\ init.refresh =>
       \A i \in 1 .. Len(Managed) :
         i < init.at /\ Managed[i] \in Runtime => file[Managed[i]] = release
  /\ init.pc \in AtEnv => file[Example] = release

\* .env has a token only once it is written, and the user once the command is done.
EnvOK ==
  /\ env.kind # "file" => env.token = "none"
  /\ init.pc = "writeEnv" => env.kind = "file" /\ env.token = "none"
  /\ init.pc = "done" => env.user = init.user

\* The inductive invariant of config init.
BootInv == BootTypes /\ PlaceOK /\ PassedOK /\ EnvOK

\* The file the command is at is one of its files.
LEMMA CurrentFile ==
  ASSUME BootInv, init.pc \in AtFile
  PROVE  /\ Current \in Files \cup {Example}
         /\ init.at <= Len(Managed) => Current = Managed[init.at] /\ Current \in Files
         /\ Current = Example <=> init.at = Len(Managed) + 1
         /\ init.at \in Nat /\ Len(Managed) \in Nat
<1>1. Len(Managed) \in Nat /\ \A i \in 1 .. Len(Managed) : Managed[i] \in Files
  BY ManagedAssumption
<1>2. init.at \in 1 .. Len(Managed) + 1
  BY DEF BootInv, PlaceOK
<1> QED
  BY <1>1, <1>2, ManagedAssumption DEF Current

\* The operator, an upgrade, the start and the end of the command.
LEMMA AroundStep ==
  ASSUME BootInv,
         \/ \E f \in Files, content \in {"absent", "own", "special"} : OperatorEdits(f, content)
         \/ OperatorEditsEnv \/ Upgrade \/ Aborts \/ Returns
         \/ \E refresh \in BOOLEAN, user \in Users : Begin(refresh, user)
  PROVE  BootInv'
<1>0. Len(Managed) \in Nat
  BY ManagedAssumption
<1>1. ASSUME init' = Idle, BootTypes', env'.kind # "file" => env'.token = "none" PROVE BootInv'
  BY <1>1 DEF BootInv, PlaceOK, PassedOK, EnvOK, Idle, AtFile, AtEnv
<1>2. ASSUME NEW f \in Files, NEW content \in {"absent", "own", "special"},
             OperatorEdits(f, content)
      PROVE  BootInv'
  <2>1. init' = Idle /\ env' = env
    BY <1>2 DEF OperatorEdits
  <2>2. BootTypes'
    BY <1>2 DEF OperatorEdits, BootInv, BootTypes
  <2> QED
    BY <1>1, <2>1, <2>2 DEF BootInv, EnvOK
<1>3. CASE OperatorEditsEnv
  <2>1. init' = Idle /\ UNCHANGED <<release, file, init>>
    BY <1>3 DEF OperatorEditsEnv
  <2>2. env' \in {NoEnv, [NoEnv EXCEPT !.kind = "special"]}
              \cup {[kind |-> "file", token |-> "own", user |-> u] : u \in Users}
    BY <1>3 DEF OperatorEditsEnv
  <2>3. env'.kind # "file" => env'.token = "none"
    BY <2>2 DEF NoEnv
  <2>4. env' \in [kind : {"absent", "special", "file"},
                  token : Tokens \cup {"none", "own", "cut"}, user : Users \cup {"none"}]
    BY <2>2 DEF NoEnv
  <2> QED
    BY <1>1, <2>1, <2>3, <2>4 DEF BootInv, BootTypes
<1>4. CASE Upgrade
  <2>1. init' = Idle /\ env' = env
    BY <1>4 DEF Upgrade
  <2>2. BootTypes'
    BY <1>4 DEF Upgrade, BootInv, BootTypes, Releases
  <2> QED
    BY <1>1, <2>1, <2>2 DEF BootInv, EnvOK
<1>5. CASE Aborts \/ Returns
  <2>1. init' = Idle /\ UNCHANGED <<release, file, env, used>>
    BY <1>5 DEF Aborts, Returns
  <2>2. BootTypes'
    BY ZenonT(30), <2>1 DEF BootInv, BootTypes, Idle
  <2> QED
    BY <1>1, <2>1, <2>2 DEF BootInv, EnvOK
<1>6. ASSUME NEW refresh \in BOOLEAN, NEW user \in Users, Begin(refresh, user) PROVE BootInv'
  <2>1. /\ init' = [pc |-> "file", at |-> 1, refresh |-> refresh, user |-> user]
        /\ UNCHANGED <<release, file, env, used>>
    BY <1>6 DEF Begin
  <2>2. BootTypes'
    BY <2>1 DEF BootInv, BootTypes, AtFile
  <2> QED
    BY <1>0, <2>1, <2>2 DEF BootInv, PlaceOK, PassedOK, EnvOK, AtFile, AtEnv
<1> QED
  BY ZenonT(30), <1>2, <1>3, <1>4, <1>5, <1>6

\* The command goes on to the next file when the one it is at is as asked for.
LEMMA AdvanceStep ==
  ASSUME BootInv, init.pc \in AtFile, Advance, env' = env, release' = release,
         file' \in [Files \cup {Example} -> {"absent", "own", "special", "torn"} \cup Releases],
         \A f \in Files \cup {Example} : f # Current => file'[f] = file[f],
         Replaces => file'[Current] = release
  PROVE  BootInv'
<1> DEFINE Commands == [pc : {"idle"} \cup AtFile \cup AtEnv, at : Nat, refresh : BOOLEAN,
                        user : Users \cup {"none"}]
<1>1. /\ Current \in Files \cup {Example}
      /\ init.at <= Len(Managed) => Current = Managed[init.at] /\ Current \in Files
      /\ Current = Example <=> init.at = Len(Managed) + 1
      /\ init.at \in Nat /\ Len(Managed) \in Nat
  BY CurrentFile
<1>2. init.at \in 1 .. Len(Managed) + 1
  BY DEF BootInv, PlaceOK
<1>3. /\ init'.at = init.at + 1 /\ init'.refresh = init.refresh /\ init'.user = init.user
      /\ init'.pc = IF Current = Example THEN ".env" ELSE "file"
      /\ init' \in Commands
  <2>1. init \in Commands
    BY DEF BootInv, BootTypes
  <2>2. CASE Current = Example
    <3> DEFINE moved == [init EXCEPT !.pc = ".env"]
    <3>1. moved \in Commands /\ moved.at = init.at /\ init' = [moved EXCEPT !.at = init.at + 1]
      BY <2>1, <2>2 DEF Advance, AtEnv
    <3>2. moved.pc = ".env" /\ moved.refresh = init.refresh /\ moved.user = init.user
      BY <2>1
    <3>3. init.at + 1 \in Nat
      BY <1>1
    <3> HIDE DEF moved
    <3> QED
      BY <2>2, <3>1, <3>2, <3>3
  <2>3. CASE Current # Example
    <3> DEFINE moved == [init EXCEPT !.pc = "file"]
    <3>1. moved \in Commands /\ moved.at = init.at /\ init' = [moved EXCEPT !.at = init.at + 1]
      BY <2>1, <2>3 DEF Advance, AtFile
    <3>2. moved.pc = "file" /\ moved.refresh = init.refresh /\ moved.user = init.user
      BY <2>1
    <3>3. init.at + 1 \in Nat
      BY <1>1
    <3> HIDE DEF moved
    <3> QED
      BY <2>3, <3>1, <3>2, <3>3
  <2> QED
    BY <2>2, <2>3
<1>4. BootTypes'
  BY <1>3 DEF BootInv, BootTypes
<1>5. PlaceOK'
  BY <1>1, <1>2, <1>3 DEF PlaceOK, AtFile, AtEnv
<1>6. PassedOK'
  <2>1. ASSUME init.refresh, NEW i \in 1 .. Len(Managed), i < init'.at, Managed[i] \in Runtime
        PROVE  file'[Managed[i]] = release
    <3>1. Managed[i] \in Files
      BY ManagedAssumption
    <3>2. CASE Managed[i] = Current
      BY <2>1, <3>2 DEF Replaces
    <3>3. CASE Managed[i] # Current
      <4>1. i < init.at
        BY <1>1, <1>2, <1>3, <2>1, <3>3
      <4>2. file[Managed[i]] = release
        BY <2>1, <4>1 DEF BootInv, PassedOK, AtFile
      <4> QED
        BY ZenonT(30), <3>1, <3>3, <4>2
    <3> QED
      BY <3>2, <3>3
  <2>2. Current = Example => file'[Example] = release
    BY DEF Replaces
  <2> QED
    BY ZenonT(30), <1>3, <2>1, <2>2 DEF PassedOK, AtEnv
<1>7. EnvOK'
  BY <1>3 DEF BootInv, EnvOK
<1> QED
  BY <1>4, <1>5, <1>6, <1>7 DEF BootInv

\* The steps on the files.
LEMMA FileStep ==
  ASSUME BootInv, FillsTemp \/ Renames \/ Preserves \/ Creates \/ Writes
  PROVE  BootInv'
<1>0. init.pc \in AtFile
  BY DEF FillsTemp, Renames, Preserves, Creates, Writes, AtFile
<1>1. /\ Current \in Files \cup {Example} /\ (Current = Example => Replaces)
      /\ init.at \in Nat /\ Len(Managed) \in Nat
  BY <1>0, CurrentFile DEF Replaces
<1>2. CASE FillsTemp
  <2>1. /\ init' = [init EXCEPT !.pc = "rename"] /\ Replaces /\ init.pc = "file"
        /\ UNCHANGED <<release, file, env, used>>
    BY <1>2 DEF FillsTemp
  <2>2. /\ init'.at = init.at /\ init'.refresh = init.refresh /\ init'.user = init.user
        /\ init'.pc = "rename"
        /\ init' \in [pc : {"idle"} \cup AtFile \cup AtEnv, at : Nat, refresh : BOOLEAN,
                      user : Users \cup {"none"}]
    BY <2>1 DEF BootInv, BootTypes, AtFile
  <2>3. Current' = Current /\ (Replaces' <=> Replaces)
    BY <2>1, <2>2 DEF Current, Replaces
  <2> QED
    BY <2>1, <2>2, <2>3 DEF BootInv, BootTypes, PlaceOK, PassedOK, EnvOK, AtFile, AtEnv
<1>3. CASE Renames
  <2>1. /\ file' = [file EXCEPT ![Current] = release] /\ Advance
        /\ UNCHANGED <<release, env, used>>
    BY <1>3 DEF Renames
  <2>2. /\ file' \in [Files \cup {Example} -> {"absent", "own", "special", "torn"} \cup Releases]
        /\ \A f \in Files \cup {Example} : f # Current => file'[f] = file[f]
        /\ file'[Current] = release
    BY <1>1, <2>1 DEF BootInv, BootTypes
  <2> QED
    BY <1>0, <2>1, <2>2, AdvanceStep
<1>4. CASE Preserves
  <2>1. ~Replaces /\ Advance /\ UNCHANGED <<release, file, env, used>>
    BY <1>4 DEF Preserves
  <2>2. file' \in [Files \cup {Example} -> {"absent", "own", "special", "torn"} \cup Releases]
    BY <2>1 DEF BootInv, BootTypes
  <2> QED
    BY <1>0, <2>1, <2>2, AdvanceStep
<1>5. CASE Creates
  <2>1. /\ file' = [file EXCEPT ![Current] = "torn"] /\ ~Replaces
        /\ init' = [init EXCEPT !.pc = "write"] /\ init.pc = "file"
        /\ UNCHANGED <<release, env, used>>
    BY <1>5 DEF Creates
  <2>2. /\ init'.at = init.at /\ init'.refresh = init.refresh /\ init'.user = init.user
        /\ init'.pc = "write"
        /\ init' \in [pc : {"idle"} \cup AtFile \cup AtEnv, at : Nat, refresh : BOOLEAN,
                      user : Users \cup {"none"}]
    BY <2>1 DEF BootInv, BootTypes, AtFile
  <2>3. Current' = Current /\ (Replaces' <=> Replaces)
    BY <2>1, <2>2 DEF Current, Replaces
  <2>4. /\ file' \in [Files \cup {Example} -> {"absent", "own", "special", "torn"} \cup Releases]
        /\ \A f \in Files \cup {Example} : f # Current => file'[f] = file[f]
        /\ file'[Current] = "torn"
    BY <1>1, <2>1 DEF BootInv, BootTypes
  <2>5. BootTypes' /\ EnvOK'
    BY <2>1, <2>2, <2>4 DEF BootInv, BootTypes, EnvOK
  <2>6. PlaceOK'
    BY <2>1, <2>2, <2>3, <2>4 DEF BootInv, PlaceOK, AtFile, AtEnv
  <2>7. PassedOK'
    <3>1. \A i \in 1 .. Len(Managed) : Managed[i] \in Files
      BY ManagedAssumption
    <3>2. init.refresh => Current \notin Runtime
      BY <2>1 DEF Replaces
    <3> QED
      BY <2>1, <2>2, <2>4, <3>1, <3>2 DEF BootInv, PassedOK, AtEnv
  <2> QED
    BY <2>5, <2>6, <2>7 DEF BootInv
<1>6. CASE Writes
  <2>1. ~Replaces
    BY <1>6 DEF Writes, BootInv, PlaceOK
  <2>2. CASE file' = [file EXCEPT ![Current] = release] /\ Advance
    <3>1. /\ file' \in [Files \cup {Example} -> {"absent", "own", "special", "torn"} \cup Releases]
          /\ \A f \in Files \cup {Example} : f # Current => file'[f] = file[f]
      BY <1>1, <2>2 DEF BootInv, BootTypes
    <3>2. UNCHANGED <<release, env, used>>
      BY ZenonT(30), <1>6 DEF Writes
    <3> QED
      BY ZenonT(30), <1>0, <2>1, <2>2, <3>1, <3>2, AdvanceStep
  <2>3. CASE init' = Idle /\ file' = file
    <3>1. UNCHANGED <<release, env, used>>
      BY <1>6 DEF Writes
    <3> QED
      BY ZenonT(30), <2>3, <3>1 DEF BootInv, BootTypes, PlaceOK, PassedOK, EnvOK, Idle, AtFile, AtEnv
  <2> QED
    BY <1>6, <2>2, <2>3 DEF Writes
<1> QED
  BY <1>2, <1>3, <1>4, <1>5, <1>6

\* The steps on .env.
LEMMA EnvStep ==
  ASSUME BootInv, CreatesEnv \/ WritesEnv \/ FindsUser \/ FillsEnvTemp \/ RenamesEnv
  PROVE  BootInv'
<1> DEFINE Commands == [pc : {"idle"} \cup AtFile \cup AtEnv, at : Nat, refresh : BOOLEAN,
                        user : Users \cup {"none"}]
           Envs == [kind : {"absent", "special", "file"},
                    token : Tokens \cup {"none", "own", "cut"}, user : Users \cup {"none"}]
<1>0. /\ init \in Commands /\ env \in Envs /\ release' = release /\ file' = file
      /\ init.pc \in AtEnv
  <2>1. release' = release /\ file' = file
    BY ZenonT(30) DEF CreatesEnv, WritesEnv, FindsUser, FillsEnvTemp, RenamesEnv
  <2>2. init.pc \in {".env", "writeEnv", "renameEnv"}
    BY ZenonT(30) DEF CreatesEnv, WritesEnv, FindsUser, FillsEnvTemp, RenamesEnv
  <2>3. init \in Commands /\ env \in Envs
    BY DEF BootInv, BootTypes
  <2> QED
    BY <2>1, <2>2, <2>3 DEF AtEnv
<1>1. ASSUME NEW step \in AtEnv, init' = [init EXCEPT !.pc = step], env' \in Envs, EnvOK'
      PROVE  BootInv'
  <2>1. init' \in Commands
    BY <1>0, <1>1
  <2>2. /\ init'.pc = step /\ init'.at = init.at /\ init'.refresh = init.refresh
        /\ init'.pc \notin AtFile \cup {"idle", "rename", "write"} /\ init.pc # "idle"
    BY <1>0, <1>1 DEF AtEnv, AtFile
  <2>3. BootTypes'
    BY ZenonT(30), <1>0, <1>1, <2>1 DEF BootInv, BootTypes
  <2>4. PlaceOK'
    BY ZenonT(30), <1>0, <2>2 DEF BootInv, PlaceOK
  <2>5. PassedOK'
    BY ZenonT(30), <1>0, <2>2 DEF BootInv, PassedOK
  <2> QED
    BY <1>1, <2>3, <2>4, <2>5 DEF BootInv
<1>2. ASSUME init' = Idle, env' \in Envs, env'.kind = "file" PROVE BootInv'
  <2>1. BootTypes'
    BY <1>0, <1>2 DEF BootInv, BootTypes, Idle
  <2> QED
    BY ZenonT(30), <1>2, <2>1 DEF BootInv, PlaceOK, PassedOK, EnvOK, Idle, AtFile, AtEnv
<1>3. init.pc = "writeEnv" => env.kind = "file"
  BY DEF BootInv, EnvOK
<1>4. CASE CreatesEnv
  <2>1. /\ env' \in Envs /\ env'.kind = "file" /\ env'.token = "none"
        /\ init' = [init EXCEPT !.pc = "writeEnv"]
    BY <1>4 DEF CreatesEnv, NoEnv
  <2>2. init'.pc = "writeEnv"
    BY <1>0, <2>1
  <2>3. EnvOK'
    BY <2>1, <2>2 DEF EnvOK
  <2> QED
    BY <1>1, <2>1, <2>3 DEF AtEnv
<1>5. CASE WritesEnv
  <2>0. env.kind = "file" /\ init.user \in Users \cup {"none"}
    <3>1. init.pc = "writeEnv"
      BY ZenonT(30), <1>5 DEF WritesEnv
    <3> QED
      BY <1>0, <1>3, <3>1
  <2>1. PICK t \in Tokens \ used :
          \/ /\ env' = [env EXCEPT !.token = t, !.user = init.user]
             /\ init' = [init EXCEPT !.pc = "done"]
          \/ /\ env' \in {env, [env EXCEPT !.user = init.user],
                          [env EXCEPT !.token = "cut", !.user = init.user]}
             /\ init' = Idle
    BY ZenonT(30), <1>5 DEF WritesEnv
  <2>4. ASSUME NEW u \in Tokens \cup {"cut"},
               env' = [env EXCEPT !.token = u, !.user = init.user]
        PROVE  env' \in Envs /\ env'.kind = "file" /\ env'.user = init.user
    <3> DEFINE mid == [env EXCEPT !.token = u]
    <3>1. mid \in Envs /\ mid.kind = "file" /\ env' = [mid EXCEPT !.user = init.user]
      BY <1>0, <2>0, <2>4
    <3> HIDE DEF mid
    <3> QED
      BY <2>0, <3>1
  <2>2. CASE /\ env' = [env EXCEPT !.token = t, !.user = init.user]
             /\ init' = [init EXCEPT !.pc = "done"]
    <3>1. env' \in Envs /\ env'.kind = "file" /\ env'.user = init.user
      BY ZenonT(30), <2>2, <2>4
    <3>2. init'.pc = "done" /\ init'.user = init.user
      BY <1>0, <2>2
    <3>3. EnvOK'
      BY <3>1, <3>2 DEF EnvOK
    <3> QED
      BY <1>1, <2>2, <3>1, <3>3 DEF AtEnv
  <2>3. CASE /\ env' \in {env, [env EXCEPT !.user = init.user],
                          [env EXCEPT !.token = "cut", !.user = init.user]}
             /\ init' = Idle
    <3>1. CASE env' = env
      BY <1>0, <1>2, <2>0, <2>3, <3>1
    <3>2. CASE env' = [env EXCEPT !.user = init.user]
      <4>1. env' \in Envs /\ env'.kind = "file"
        BY <1>0, <2>0, <3>2
      <4> QED
        BY <1>2, <2>3, <4>1
    <3>3. CASE env' = [env EXCEPT !.token = "cut", !.user = init.user]
      <4>1. env' \in Envs /\ env'.kind = "file"
        BY ZenonT(30), <2>4, <3>3
      <4> QED
        BY <1>2, <2>3, <4>1
    <3> QED
      BY <2>3, <3>1, <3>2, <3>3
  <2> QED
    BY <2>1, <2>2, <2>3
<1>6. CASE FindsUser
  <2>1. /\ init' = [init EXCEPT !.pc = "done"] /\ env' = env
        /\ env.kind = "file" /\ env.user = init.user
    BY <1>6 DEF FindsUser
  <2>2. init'.pc = "done" /\ init'.user = init.user
    BY <1>0, <2>1
  <2>3. EnvOK'
    BY <2>1, <2>2 DEF EnvOK
  <2> QED
    BY <1>0, <1>1, <2>1, <2>3 DEF AtEnv
<1>7. CASE FillsEnvTemp
  <2>1. init' = [init EXCEPT !.pc = "renameEnv"] /\ env' = env /\ env.kind = "file"
    BY <1>7 DEF FillsEnvTemp
  <2>2. init'.pc = "renameEnv"
    BY <1>0, <2>1
  <2>3. EnvOK'
    BY <2>1, <2>2 DEF EnvOK
  <2> QED
    BY <1>0, <1>1, <2>1, <2>3 DEF AtEnv
<1>8. CASE RenamesEnv
  <2>1. init' = [init EXCEPT !.pc = "done"] /\ env' = [env EXCEPT !.user = init.user]
    BY <1>8 DEF RenamesEnv
  <2>2. init'.pc = "done" /\ init'.user = init.user
    BY <1>0, <2>1
  <2>3. env' \in Envs /\ env'.kind = env.kind /\ env'.token = env.token /\ env'.user = init.user
    BY <1>0, <2>1
  <2>4. EnvOK'
    BY <2>2, <2>3 DEF BootInv, EnvOK
  <2> QED
    BY <1>1, <2>1, <2>3, <2>4 DEF AtEnv
<1> QED
  BY <1>4, <1>5, <1>6, <1>7, <1>8

\* Every step of config init keeps its invariant.
LEMMA BootKept ==
  ASSUME BootInv, [BootNext]_bootVars
  PROVE  BootInv'
<1>1. CASE UNCHANGED bootVars
  <2>1. Current' = Current /\ (Replaces' <=> Replaces)
    BY <1>1 DEF bootVars, Current, Replaces
  <2> QED
    BY <1>1, <2>1 DEF bootVars, BootInv, BootTypes, PlaceOK, PassedOK, EnvOK
<1>2. CASE BootNext
  BY ZenonT(30), <1>2, AroundStep, FileStep, EnvStep DEF BootNext
<1> QED
  BY ZenonT(30), <1>1, <1>2

\* config init keeps its invariant from its first state on.
LEMMA BootAlways == BootSpec => []BootInv
<1>1. BootInit => BootInv
  BY DEF BootInit, BootInv, BootTypes, PlaceOK, PassedOK, EnvOK, NoEnv, Idle, Releases,
         AtFile, AtEnv
<1> QED
  BY <1>1, BootKept, PTL DEF BootSpec

\* A config init that succeeds, over whatever an earlier one, another release or
\* the operator left behind, has delivered what it was asked for: the user in
\* .env, the example file and, on a refresh, every generated file.
THEOREM InitAlwaysDelivers == BootSpec => []InitDelivers
<1>1. BootInv => InitDelivers
  <2>1. Len(Managed) \in Nat /\ \A f \in Runtime : \E i \in 1 .. Len(Managed) : f = Managed[i]
    BY ManagedAssumption DEF Files
  <2>2. ASSUME BootInv, init.pc = "done"
        PROVE  /\ env.user = init.user /\ file[Example] = release
               /\ init.refresh => \A f \in Runtime : file[f] = release
    <3>1. env.user = init.user
      BY ZenonT(30), <2>2 DEF BootInv, EnvOK
    <3>2. file[Example] = release /\ init.at = Len(Managed) + 2
      BY ZenonT(30), <2>2 DEF BootInv, PassedOK, PlaceOK, AtEnv
    <3>3. ASSUME init.refresh, NEW f \in Runtime PROVE file[f] = release
      <4>1. PICK i \in 1 .. Len(Managed) : f = Managed[i]
        BY <2>1
      <4>2. i < init.at
        BY <2>1, <3>2
      <4> QED
        BY <2>2, <3>3, <4>1, <4>2 DEF BootInv, PassedOK
    <3> QED
      BY <3>1, <3>2, <3>3
  <2> QED
    BY ZenonT(30), <2>2 DEF InitDelivers
<1> QED
  BY <1>1, BootAlways, PTL

\* No step of config init, whichever one it is cut short at, changes a whole file
\* of the operator's, or takes away the token of .env.
THEOREM InitKeepsOperator == BootSpec => OperatorKept
<1> DEFINE Kept ==
      init.pc # "idle" =>
        /\ \A f \in Files : file[f] \in {"own", "special"} \cup Releases =>
             file'[f] = file[f] \/ (init.refresh /\ f \in Runtime)
        /\ env.token # "none" => env'.token = env.token
<1>1. ASSUME BootInv, [BootNext]_bootVars PROVE Kept \/ UNCHANGED bootVars
  <2>1. ASSUME init = Idle PROVE Kept
    BY <2>1 DEF Idle
  <2>2. ASSUME UNCHANGED <<file, env>> PROVE Kept
    BY <2>2
  <2>3. ASSUME env' = env, init.pc \in AtFile, NEW content,
               file' = [file EXCEPT ![Current] = content],
               Replaces \/ file[Current] \in {"absent", "torn"}
        PROVE  Kept
    <3>1. /\ Current \in Files \cup {Example} /\ Example \notin Files
          /\ file \in [Files \cup {Example} ->
                         {"absent", "own", "special", "torn"} \cup Releases]
      BY ZenonT(30), <1>1, <2>3, CurrentFile, ManagedAssumption DEF BootInv, BootTypes
    <3>2. ASSUME NEW f \in Files, file[f] \in {"own", "special"} \cup Releases
          PROVE  file'[f] = file[f] \/ (init.refresh /\ f \in Runtime)
      <4>1. CASE f # Current
        BY ZenonT(30), <2>3, <3>1, <4>1
      <4>2. CASE f = Current
        <5>1. Replaces
          BY <2>3, <3>2, <4>2 DEF Releases
        <5> QED
          BY <3>1, <4>2, <5>1 DEF Replaces
      <4> QED
        BY <4>1, <4>2
    <3> QED
      BY ZenonT(30), <2>3, <3>2
  <2>4. ASSUME file' = file, env.token = "none" \/ env'.token = env.token PROVE Kept
    BY <2>4
  <2> HIDE DEF Kept
  <2>5. CASE \/ \E f \in Files, content \in {"absent", "own", "special"} :
                  OperatorEdits(f, content)
             \/ OperatorEditsEnv \/ Upgrade
             \/ \E refresh \in BOOLEAN, user \in Users : Begin(refresh, user)
    BY ZenonT(30), <2>1, <2>5 DEF OperatorEdits, OperatorEditsEnv, Upgrade, Begin
  <2>6. CASE Aborts \/ Returns \/ FillsTemp \/ Preserves \/ FindsUser \/ FillsEnvTemp
    BY ZenonT(30), <2>2, <2>6 DEF Aborts, Returns, FillsTemp, Preserves, FindsUser, FillsEnvTemp
  <2>7. CASE Renames
    <3>1. /\ init.pc \in AtFile /\ Replaces /\ env' = env
          /\ file' = [file EXCEPT ![Current] = release]
      BY <1>1, <2>7 DEF Renames, BootInv, PlaceOK, AtFile
    <3> QED
      BY ZenonT(30), <2>3, <3>1
  <2>8. CASE Creates
    <3>1. /\ init.pc \in AtFile /\ file[Current] \in {"absent", "torn"} /\ env' = env
          /\ file' = [file EXCEPT ![Current] = "torn"]
      BY <2>8 DEF Creates, AtFile
    <3> QED
      BY ZenonT(30), <2>3, <3>1
  <2>9. CASE Writes
    <3>1. /\ init.pc \in AtFile /\ file[Current] = "torn" /\ env' = env
          /\ file' = [file EXCEPT ![Current] = release] \/ file' = file
      BY <1>1, <2>9 DEF Writes, BootInv, PlaceOK, AtFile
    <3> QED
      BY <2>2, <2>3, <3>1
  <2>10. CASE CreatesEnv
    BY <1>1, <2>4, <2>10 DEF CreatesEnv, BootInv, EnvOK
  <2>11. CASE WritesEnv
    <3>1. init.pc = "writeEnv" /\ file' = file
      BY ZenonT(30), <2>11 DEF WritesEnv
    <3>2. env.token = "none"
      BY <1>1, <3>1 DEF BootInv, EnvOK
    <3> QED
      BY <2>4, <3>1, <3>2
  <2>12. CASE RenamesEnv
    <3>1. file' = file /\ env' = [env EXCEPT !.user = init.user]
      BY <2>12 DEF RenamesEnv
    <3>2. env'.token = env.token
      BY <1>1, <3>1 DEF BootInv, BootTypes
    <3> QED
      BY <2>4, <3>1, <3>2
  <2> QED
    BY ZenonT(30), <1>1, <2>5, <2>6, <2>7, <2>8, <2>9, <2>10, <2>11, <2>12 DEF BootNext
<1> QED
  BY <1>1, BootAlways, PTL DEF BootSpec, OperatorKept

-----------------------------------------------------------------------------
(***************************************************************************)
(* The configuration                                                       *)
(***************************************************************************)

\* What the two commands have found out about the files and the environment.
ConfigInv ==
  /\ setup \in Setups
  /\ checked = "ok" => setup.token = "set" /\ PoolsLoad(setup) /\ RoutesLoad(setup, NoName)
  /\ booted = "failed" => ~NewLoads(setup)
  /\ booted = "ok" =>
       /\ NewLoads(setup)
       /\ specs = [n \in DOMAIN setup.pools |-> SpecOf(setup.pools[n])]
       /\ router \in Routers(setup, setup.env.defaultPool)

\* The invariant holds before either command has run.
LEMMA ConfigInitInv == ConfigInit => ConfigInv
  BY DEF ConfigInit, ConfigInv

\* Check, Boots and FailsToBoot keep it.
LEMMA ConfigNextInv == ConfigInv /\ [ConfigNext]_configVars => ConfigInv'
<1> SUFFICES ASSUME ConfigInv, [ConfigNext]_configVars PROVE ConfigInv'
  OBVIOUS
<1>1. CASE Check
  BY ZenonT(30), <1>1 DEF ConfigInv, Check
<1>2. CASE Boots
  BY ZenonT(30), <1>2 DEF ConfigInv, Boots
<1>3. CASE FailsToBoot
  BY ZenonT(30), <1>3 DEF ConfigInv, FailsToBoot
<1>4. CASE UNCHANGED configVars
  BY <1>4 DEF ConfigInv, configVars
<1> QED
  BY ZenonT(30), <1>1, <1>2, <1>3, <1>4 DEF ConfigNext

\* A spec has the configurations and the fallback of its entry.
LEMMA SpecOfEntry ==
  ASSUME NEW e, IsEntry(e)
  PROVE  SpecOf(e).configs = e.configs /\ SpecOf(e).fallback = e.fallback
  BY DEF IsEntry, SpecOf

\* Whatever router LoadRouter builds, and whatever the country, Resolve answers
\* with a pool of the file or, without a default only, with none.
LEMMA ResolveKnown ==
  ASSUME NEW s \in Setups, NEW d, RoutesLoad(s, d), NEW r \in Routers(s, d), NEW t \in Texts
  PROVE  /\ Resolve(r, t) \in DOMAIN s.pools \cup {NoName}
         /\ Resolve(r, t) = NoName => r.defaultPool = NoName
<1> DEFINE keys == {Folded[u] : u \in DOMAIN s.countries}
<1>1. /\ DOMAIN s.pools \subseteq Names /\ NoName \notin Names
      /\ \A u \in DOMAIN s.countries : s.countries[u] \in DOMAIN s.pools
  BY ZenonT(30), SetupsAssumption DEF IsSetup, RoutesLoad
<1>2. PICK m \in [keys -> Names] :
        /\ r = [countries |-> m, defaultPool |-> DefaultPool(s, d)]
        /\ \A k \in keys : \E u \in DOMAIN s.countries : Folded[u] = k /\ m[k] = s.countries[u]
  BY ZenonT(30) DEF Routers
<1>3. r.countries = m /\ DOMAIN m = keys /\ r.defaultPool = DefaultPool(s, d)
  BY ZenonT(30), <1>2
<1>4. CASE Folded[t] \in keys
  <2>1. Resolve(r, t) = m[Folded[t]]
    BY ZenonT(30), <1>3, <1>4 DEF Resolve
  <2>2. m[Folded[t]] \in DOMAIN s.pools
    BY ZenonT(30), <1>1, <1>2, <1>4
  <2> QED
    BY ZenonT(30), <1>1, <2>1, <2>2
<1>5. CASE Folded[t] \notin keys
  <2>1. Resolve(r, t) = r.defaultPool
    BY ZenonT(30), <1>3, <1>5 DEF Resolve
  <2> QED
    BY ZenonT(30), <1>3, <2>1 DEF RoutesLoad
<1> QED
  BY ZenonT(30), <1>4, <1>5

\* What New accepted is enough to serve.
LEMMA LoadedServes == ConfigInv => BootedServes
<1> SUFFICES ASSUME ConfigInv, booted = "ok", NEW t \in Texts, NEW p, p = Resolve(router, t)
             PROVE  /\ p = NoName => router.defaultPool = NoName
                    /\ p # NoName => /\ p \in DOMAIN specs
                                     /\ specs[p].configs # {}
                                     /\ specs[p].configs \subseteq setup.bundle
                                     /\ specs[p].fallback \in DOMAIN specs \cup {NoName}
  BY DEF BootedServes
<1>1. /\ setup \in Setups /\ PoolsLoad(setup) /\ RoutesLoad(setup, setup.env.defaultPool)
      /\ specs = [n \in DOMAIN setup.pools |-> SpecOf(setup.pools[n])]
      /\ router \in Routers(setup, setup.env.defaultPool)
  BY ZenonT(30) DEF ConfigInv, NewLoads
<1>2. /\ p \in DOMAIN setup.pools \cup {NoName}
      /\ p = NoName => router.defaultPool = NoName
  BY ZenonT(30), <1>1, ResolveKnown
<1>3. ASSUME p # NoName
      PROVE  /\ p \in DOMAIN specs
             /\ specs[p].configs # {}
             /\ specs[p].configs \subseteq setup.bundle
             /\ specs[p].fallback \in DOMAIN specs \cup {NoName}
  <2>1. p \in DOMAIN setup.pools /\ DOMAIN specs = DOMAIN setup.pools
    BY ZenonT(30), <1>1, <1>2, <1>3
  <2>2. IsEntry(setup.pools[p])
    BY ZenonT(30), <1>1, <2>1, SetupsAssumption DEF IsSetup
  <2>3. /\ specs[p].configs = setup.pools[p].configs
        /\ specs[p].fallback = setup.pools[p].fallback
    BY ZenonT(30), <1>1, <2>1, <2>2, SpecOfEntry
  <2> QED
    BY ZenonT(30), <1>1, <2>1, <2>3 DEF PoolsLoad, EntryValid, FallbacksValid
<1> QED
  BY ZenonT(30), <1>2, <1>3

\* Whatever configurations operators write, a service that New has built answers
\* every country with a pool that exists and can be spawned from.
THEOREM BootedServiceServes == ConfigSpec => []BootedServes
<1>1. ConfigInv /\ [ConfigNext]_configVars => ConfigInv'
  BY ConfigNextInv
<1> QED
  BY <1>1, ConfigInitInv, LoadedServes, PTL DEF ConfigSpec

\* Whatever configurations operators write, the only files that `config check'
\* passes and New refuses lack the default pool of the environment.
THEOREM CheckedFilesBoot == ConfigSpec => []CheckedBoots
<1>1. ConfigInv /\ [ConfigNext]_configVars => ConfigInv'
  BY ConfigNextInv
<1>2. ConfigInv => CheckedBoots
  BY ZenonT(30), SetupsAssumption DEF ConfigInv, CheckedBoots, NewLoads, RoutesLoad, DefaultPool
<1> QED
  BY <1>1, <1>2, ConfigInitInv, PTL DEF ConfigSpec

\* The pools New builds are what PoolsAssumption of CellPool asks for, with the files
\* of the bundle as its configurations: no name is the empty string, a pool uses files
\* of the bundle, and a fallback is a pool there is, or none.  And a pool uses at least
\* one file.  So what is proved of the pools for any such configuration holds
\* for every one that boots (LoadPoolSpecs, validateFallbacks).
THEOREM BootedPoolsFit ==
  ConfigSpec =>
    [](booted = "ok" =>
         /\ NoName \notin DOMAIN specs
         /\ [p \in DOMAIN specs |-> specs[p].configs] \in [DOMAIN specs -> (SUBSET setup.bundle) \ {{}}]
         /\ [p \in DOMAIN specs |-> specs[p].fallback] \in [DOMAIN specs -> DOMAIN specs \cup {NoName}])
<1>1. ASSUME ConfigInv, booted = "ok"
      PROVE  /\ NoName \notin DOMAIN specs
             /\ \A p \in DOMAIN specs : /\ specs[p].configs \in (SUBSET setup.bundle) \ {{}}
                                        /\ specs[p].fallback \in DOMAIN specs \cup {NoName}
  <2>1. /\ setup \in Setups /\ NewLoads(setup)
        /\ specs = [n \in DOMAIN setup.pools |-> SpecOf(setup.pools[n])]
    BY <1>1 DEF ConfigInv
  <2>2. DOMAIN setup.pools \subseteq Names /\ DOMAIN specs = DOMAIN setup.pools
    BY <2>1, SetupsAssumption DEF IsSetup
  <2>3. NoName \notin DOMAIN specs
    BY <2>2, SetupsAssumption
  <2>4. ASSUME NEW p \in DOMAIN specs
        PROVE  /\ specs[p].configs \in (SUBSET setup.bundle) \ {{}}
               /\ specs[p].fallback \in DOMAIN specs \cup {NoName}
    <3>1. setup.pools[p].configs \in (SUBSET setup.bundle) \ {{}}
      BY <2>1, <2>2, ZenonT(30) DEF NewLoads, PoolsLoad, EntryValid
    <3>2. setup.pools[p].fallback \in DOMAIN specs \cup {NoName}
      BY <2>1, <2>2, ZenonT(30) DEF NewLoads, PoolsLoad, FallbacksValid
    <3>3. specs[p].configs = setup.pools[p].configs /\ specs[p].fallback = setup.pools[p].fallback
      BY <2>1, <2>2 DEF SpecOf
    <3> QED
      BY <3>1, <3>2, <3>3, ZenonT(30)
  <2> QED
    BY <2>3, <2>4, ZenonT(30)
<1>2. ConfigInv => (booted = "ok" =>
         /\ NoName \notin DOMAIN specs
         /\ [p \in DOMAIN specs |-> specs[p].configs] \in [DOMAIN specs -> (SUBSET setup.bundle) \ {{}}]
         /\ [p \in DOMAIN specs |-> specs[p].fallback] \in [DOMAIN specs -> DOMAIN specs \cup {NoName}])
  BY <1>1, ZenonT(30)
<1> QED
  BY <1>2, ConfigInitInv, ConfigNextInv, PTL DEF ConfigSpec

-----------------------------------------------------------------------------
(***************************************************************************)
(* The preflight check                                                     *)
(***************************************************************************)

\* Two endpoints cannot both be the one that lies: with at most one of those, an
\* address that fetchAgreedPublicIP believes is the one the requests come from.
LEMMA QuorumIsHonest ==
  ASSUME Cardinality(Liars) <= 1, NEW from \in Addresses, NEW answers \in Polls(from),
         NEW a \in Agreed(answers)
  PROVE  a = from
<1> DEFINE S == {e \in Endpoints : answers[e] = a}
<1>1. Cardinality(S) >= 2 /\ a \in Addresses \cup {"blank"}
  BY DEF Agreed, Votes
<1>2. IsFiniteSet(Liars) /\ IsFiniteSet(S)
  BY EndpointsAssumption, FS_Subset
<1>3. ~(S \subseteq Liars)
  <2> SUFFICES ASSUME S \subseteq Liars PROVE FALSE
    OBVIOUS
  <2>1. Cardinality(S) <= Cardinality(Liars)
    BY <1>2, FS_Subset
  <2>2. Cardinality(S) \in Nat /\ Cardinality(Liars) \in Nat
    BY <1>2, FS_CardinalityType
  <2> QED
    BY <1>1, <2>1, <2>2
<1>4. PICK e \in Endpoints : e \notin Liars /\ answers[e] = a
  BY <1>3
<1>5. answers[e] \in EndpointAnswers(e, from)
  BY DEF Polls
<1>6. a = from \/ a = "badStatus" \/ a = "noAnswer"
  BY ZenonT(30), <1>4, <1>5 DEF EndpointAnswers
<1>7. a = "host" \/ a = "exit" \/ a = "blank"
  BY ZenonT(30), <1>1 DEF Addresses
<1> QED
  BY ZenonT(30), <1>6, <1>7

\* A poll without a quorum ends with one of two errors.
LEMMA PollErrorKinds ==
  ASSUME NEW answers, NEW x \in PollErrors(answers)
  PROVE  x \in {"ErrPreflightFailed", "other"}
<1> DEFINE failed == {answers[e] : e \in Endpoints} \cap {"badStatus", "noAnswer"}
<1> HIDE DEF failed
<1>1. CASE failed = {}
  BY ZenonT(30), <1>1 DEF PollErrors, failed
<1>2. CASE failed # {}
  <2>1. PICK f \in failed : x = IF f = "badStatus" THEN "ErrPreflightFailed" ELSE "other"
    BY ZenonT(30), <1>2 DEF PollErrors, failed
  <2> QED
    BY ZenonT(30), <2>1
<1> QED
  BY <1>1, <1>2

\* What a fetch returns without an error is where its requests come from.
LEMMA FetchIsHonest ==
  ASSUME Cardinality(Liars) <= 1, NEW from \in Addresses, NEW answers \in Polls(from),
         NEW f \in Fetched(answers), f.err = "nil"
  PROVE  f.ip = from
<1>1. CASE Agreed(answers) = {}
  <2>1. PICK x \in PollErrors(answers) : f = [ip |-> NoAddress, err |-> x]
    BY <1>1 DEF Fetched
  <2>2. x \in {"ErrPreflightFailed", "other"}
    BY PollErrorKinds
  <2> QED
    BY ZenonT(30), <2>1, <2>2
<1>2. CASE Agreed(answers) # {}
  <2>1. PICK a \in Agreed(answers) :
          f = IF a = "blank" THEN [ip |-> NoAddress, err |-> "ErrPreflightFailed"]
                             ELSE [ip |-> a, err |-> "nil"]
    BY <1>2 DEF Fetched
  <2>2. a = from
    BY QuorumIsHonest
  <2> QED
    BY ZenonT(30), <2>1, <2>2 DEF Addresses
<1> QED
  BY <1>1, <1>2

\* The errors a fetch can come back with.
LEMMA FetchErrors ==
  ASSUME NEW answers, NEW f \in Fetched(answers)
  PROVE  f.err \in {"nil", "other", "ErrPreflightFailed"}
<1>1. CASE Agreed(answers) = {}
  <2>1. PICK x \in PollErrors(answers) : f = [ip |-> NoAddress, err |-> x]
    BY <1>1 DEF Fetched
  <2>2. x \in {"ErrPreflightFailed", "other"}
    BY ZenonT(30), PollErrorKinds
  <2> QED
    BY ZenonT(30), <2>1, <2>2
<1>2. CASE Agreed(answers) # {}
  BY <1>2 DEF Fetched
<1> QED
  BY <1>1, <1>2

\* Behind a proxy that changes nothing, what a quorum agrees on is the host's address.
LeakInv ==
  /\ err \in {"nil", "other", "ErrPreflightFailed", "ErrPoolExhausted", "ErrEgressUnavailable",
              "ErrPreflightLeaked"}
  /\ reroutes = "no" /\ Cardinality(Liars) <= 1 =>
       /\ phase \in {"pool", "proxied", "compare"} => direct = "host"
       /\ phase = "compare" => proxied = "host"
       /\ result # "ok"

\* Every step of the check and of its retry loop keeps that.
LEMMA LeakStep == LeakInv /\ [PreflightNext]_preflightVars => LeakInv'
<1> SUFFICES ASSUME LeakInv, [PreflightNext]_preflightVars PROVE LeakInv'
  OBVIOUS
<1>1. CASE FetchDirect
  <2>1. PICK answers \in Polls("host") : \E f \in Fetched(answers) :
          /\ direct' = f.ip /\ err' = f.err
          /\ phase' = IF f.err = "nil" THEN "pool" ELSE "failed"
    BY ZenonT(30), <1>1 DEF FetchDirect
  <2>2. PICK f \in Fetched(answers) :
          /\ direct' = f.ip /\ err' = f.err
          /\ phase' = IF f.err = "nil" THEN "pool" ELSE "failed"
    BY ZenonT(30), <2>1
  <2>3. Cardinality(Liars) <= 1 /\ f.err = "nil" => f.ip = "host"
    BY FetchIsHonest DEF Addresses
  <2>4. f.err \in {"nil", "other", "ErrPreflightFailed"}
    BY FetchErrors
  <2>5. UNCHANGED <<reroutes, result>>
    BY <1>1 DEF FetchDirect
  <2> QED
    BY <2>2, <2>3, <2>4, <2>5 DEF LeakInv
<1>2. CASE FetchProxied
  <2>1. PICK answers \in Polls(Exit) : \E f \in Fetched(answers) :
          /\ proxied' = f.ip /\ err' = f.err
          /\ phase' = IF f.err = "nil" THEN "compare" ELSE "failed"
    BY ZenonT(30), <1>2 DEF FetchProxied
  <2>2. PICK f \in Fetched(answers) :
          /\ proxied' = f.ip /\ err' = f.err
          /\ phase' = IF f.err = "nil" THEN "compare" ELSE "failed"
    BY ZenonT(30), <2>1
  <2>3. Cardinality(Liars) <= 1 /\ f.err = "nil" => f.ip = Exit
    BY FetchIsHonest DEF Addresses, Exit
  <2>4. f.err \in {"nil", "other", "ErrPreflightFailed"}
    BY FetchErrors
  <2>5. UNCHANGED <<reroutes, direct, result>> /\ phase = "proxied"
    BY <1>2 DEF FetchProxied
  <2> QED
    BY <2>2, <2>3, <2>4, <2>5 DEF LeakInv, Exit
<1>3. CASE AskPool
  BY <1>3 DEF AskPool, LeakInv
<1>4. CASE Compare
  BY <1>4 DEF Compare, LeakInv
<1>5. CASE Bail \/ GiveUp
  BY ZenonT(30), <1>5 DEF Bail, GiveUp, LeakInv
<1>6. CASE Retry \/ Deadline
  BY <1>6 DEF Retry, Deadline, LeakInv
<1>7. CASE UNCHANGED preflightVars
  BY <1>7 DEF preflightVars, LeakInv
<1> QED
  BY ZenonT(30), <1>1, <1>2, <1>3, <1>4, <1>5, <1>6, <1>7 DEF PreflightNext

\* However many endpoints are configured and whatever one of them answers, a client
\* never starts behind a proxy that does not change its address.
THEOREM LeakIsFound == PreflightSpec => []LeakNeverPasses
<1>1. PreflightInit => LeakInv
  BY DEF PreflightInit, LeakInv
<1>2. LeakInv /\ [PreflightNext]_preflightVars => LeakInv'
  BY LeakStep
<1>3. LeakInv => LeakNeverPasses
  BY DEF LeakInv, LeakNeverPasses
<1> QED
  BY <1>1, <1>2, <1>3, PTL DEF PreflightSpec

-----------------------------------------------------------------------------
(***************************************************************************)
(* The procedures together                                                 *)
(***************************************************************************)

\* The procedures share no state: a step of one leaves the others standing.
THEOREM ProceduresApart == ProceduresSpec => BootSpec /\ ConfigSpec /\ OrderSpec /\ PreflightSpec
<1> DEFINE all == <<procedure, bootVars, configVars, orderVars, preflightVars>>
<1>1. ProceduresInit => BootInit /\ ConfigInit /\ OrderInit /\ PreflightInit
  BY ZenonT(30) DEF ProceduresInit
<1>2. [ProceduresNext]_all =>
        /\ [BootNext]_bootVars /\ [ConfigNext]_configVars
        /\ [OrderNext]_orderVars /\ [PreflightNext]_preflightVars
  BY ZenonT(30) DEF ProceduresNext, Inits, Configures, Orders, Preflights
<1> QED
  BY <1>1, <1>2, PTL DEF ProceduresSpec, BootSpec, ConfigSpec, OrderSpec, PreflightSpec

\* So what the run over the procedures checks of config init, of the configuration
\* and of the preflight holds for every list of files, every set of configurations
\* and all endpoints (BootstrapConfig, CheckConfig, New, PreflightSanityCheckWithRetry).
THEOREM ProceduresCorrect ==
  ProceduresSpec =>
    /\ []InitDelivers /\ OperatorKept
    /\ []BootedServes /\ []CheckedBoots /\ []LeakNeverPasses
BY ProceduresApart, InitAlwaysDelivers, InitKeepsOperator, BootedServiceServes,
   CheckedFilesBoot, LeakIsFound, PTL

=============================================================================
