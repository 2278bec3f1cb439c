---------------------------- MODULE HTTPGateway ----------------------------
(***************************************************************************)
(* The controller's HTTP forward proxy (http_proxy_gateway.go): handlers   *)
(* that dial a cell for their client, CONNECT tunnels that leave the HTTP   *)
(* server by hijacking their connection, and Close, which two goroutines    *)
(* call: the one Start leaves waiting for the service context, and          *)
(* Service.stopHTTPProxy.  Every dialled cell connection holds one          *)
(* reservation of its tunnel until releaseConn.Close gives it back.         *)
(***************************************************************************)
EXTENDS Naturals, FiniteSets

CONSTANT Conns   \* client connections, one request each

Closers == {"ctx", "stop"}

VARIABLES
    pc,         \* where the handler of each connection is
    client,     \* the client's side of the connection: "open" or "closed"
    upstream,   \* the cell's side: "none", "open" or "closed"
    releases,   \* times the reservation of the connection was released
    copies,     \* its two relay goroutines: not begun, reading, writing or over
    hijacked,   \* g.hijacked
    server,     \* g.server: "set" or "nil"
    listening,  \* the listener: "unbound" before Start, then "yes" or "no"
    closer      \* for each caller of Close: step, server it took, tunnels to close

vars == <<pc, client, upstream, releases, copies, hijacked, server, listening, closer>>
handlers == <<pc, client, upstream, releases, copies, hijacked>>
gateway == <<server, listening, closer>>

Directions == {"up", "down"}
InServer == {"handling", "connect", "forward", "dialed", "relayed"}
InTunnel == {"detached", "tracked", "relay", "draining", "deferred"}
NoCopies == [d \in Directions |-> "none"]

\* NewHTTPProxyGateway.
Init ==
    /\ pc = [c \in Conns |-> "idle"]
    /\ client = [c \in Conns |-> "open"]
    /\ upstream = [c \in Conns |-> "none"]
    /\ releases = [c \in Conns |-> 0]
    /\ copies = [c \in Conns |-> NoCopies]
    /\ hijacked = {}
    /\ server = "nil"
    /\ listening = "unbound"
    /\ closer = [k \in Closers |-> [pc |-> "idle", server |-> "nil", list |-> {}]]

----------------------------------------------------------------------------
\* Mutant of CloseUpstream: every Close releases.
OncelessCloseUpstream(c) ==
    /\ upstream' = [upstream EXCEPT ![c] = "closed"]
    /\ releases' = [releases EXCEPT ![c] = @ + 1]

\* releaseConn.Close closes the connection each time it is called and runs the
\* release once.
CloseUpstream(c) ==
    /\ upstream' = [upstream EXCEPT ![c] = "closed"]
    /\ releases' = [releases EXCEPT ![c] = IF upstream[c] = "open" THEN @ + 1 ELSE @]

----------------------------------------------------------------------------
(* Start listens and leaves a goroutine that serves and one that waits for  *)
(* the context.                                                             *)
Start ==
    /\ listening = "unbound"
    /\ server' = "set" /\ listening' = "yes"
    /\ UNCHANGED <<closer, handlers>>

\* Serve fails: net/http closes the listener.
ServeFails ==
    /\ listening = "yes" /\ listening' = "no"
    /\ UNCHANGED <<server, closer, handlers>>

----------------------------------------------------------------------------
(* Handlers.                                                                *)

\* net/http accepts the connection and starts its handler.
Accept(c) ==
    /\ pc[c] = "idle" /\ listening = "yes"
    /\ pc' = [pc EXCEPT ![c] = "handling"]
    /\ UNCHANGED <<client, upstream, releases, copies, hijacked, gateway>>

\* handle: a request without a valid lease, or malformed, is answered at once;
\* the others go to handleConnect or handleForwardRequest.
Handle(c) ==
    /\ pc[c] = "handling"
    /\ \E next \in {"done", "connect", "forward"} : pc' = [pc EXCEPT ![c] = next]
    /\ UNCHANGED <<client, upstream, releases, copies, hijacked, gateway>>

\* The request of handleForwardRequest is cancelled: the handler answers and is
\* done, the dial of its transport goes on.
Abandon(c) ==
    /\ pc[c] = "forward"
    /\ pc' = [pc EXCEPT ![c] = "abandoned"]
    /\ UNCHANGED <<client, upstream, releases, copies, hijacked, gateway>>

\* dialLease: no cell connection, so no reservation is left.
DialFails(c) ==
    /\ pc[c] \in {"connect", "forward", "abandoned"}
    /\ pc' = [pc EXCEPT ![c] = "done"]
    /\ UNCHANGED <<client, upstream, releases, copies, hijacked, gateway>>

AfterDial == [connect |-> "dialed", forward |-> "relayed", abandoned |-> "forwarded"]

Dialed(c) ==
    /\ pc[c] \in DOMAIN AfterDial
    /\ upstream' = [upstream EXCEPT ![c] = "open"]
    /\ pc' = [pc EXCEPT ![c] = AfterDial[@]]
    /\ UNCHANGED <<client, releases, copies, hijacked, gateway>>

\* The handler of a forwarded request has copied the response, or given up.
Forwarded(c) ==
    /\ pc[c] = "relayed"
    /\ pc' = [pc EXCEPT ![c] = IF upstream[c] = "closed" THEN "done" ELSE "forwarded"]
    /\ UNCHANGED <<client, upstream, releases, copies, hijacked, gateway>>

\* Its transport keeps no idle connection: a goroutine of the transport closes it
\* when the response ends, fails or is no longer wanted.
TransportCloses(c) ==
    /\ pc[c] \in {"relayed", "forwarded"} /\ upstream[c] = "open"
    /\ CloseUpstream(c)
    /\ pc' = [pc EXCEPT ![c] = IF @ = "relayed" THEN @ ELSE "done"]
    /\ UNCHANGED <<client, copies, hijacked, gateway>>

HijackFails(c) ==
    /\ pc[c] = "dialed"
    /\ CloseUpstream(c)
    /\ pc' = [pc EXCEPT ![c] = "done"]
    /\ UNCHANGED <<client, copies, hijacked, gateway>>

\* From here on the HTTP server no longer knows the connection.
Hijack(c) ==
    /\ pc[c] = "dialed"
    /\ pc' = [pc EXCEPT ![c] = "detached"]
    /\ UNCHANGED <<client, upstream, releases, copies, hijacked, gateway>>

TrackHijacked(c) ==
    /\ pc[c] = "detached"
    /\ hijacked' = hijacked \cup {c}
    /\ pc' = [pc EXCEPT ![c] = "tracked"]
    /\ UNCHANGED <<client, upstream, releases, copies, gateway>>

\* The 200 is written and relayConnect starts its two copies, or the write fails.
\* The server may have read something the copy to the cell can write at once.
WriteEstablished(c) ==
    /\ pc[c] = "tracked"
    /\ \/ /\ client[c] = "open"
          /\ \E up \in {"read", "write"} :
                copies' = [copies EXCEPT ![c] = [up |-> up, down |-> "read"]]
          /\ pc' = [pc EXCEPT ![c] = "relay"]
       \/ /\ pc' = [pc EXCEPT ![c] = "deferred"]
          /\ UNCHANGED copies
    /\ UNCHANGED <<client, upstream, releases, hijacked, gateway>>

\* The side a copy is reading from or writing to.
Side(c, d) ==
    IF (d = "up") = (copies[c][d] = "read") THEN client[c] ELSE upstream[c]

Copying(c, d) == copies[c][d] \in {"read", "write"}

\* copyHTTPProxyStream: a read or a write of a side that is still open succeeds,
\* if the peer sends something or takes what is sent.
CopyMoves(c, d) ==
    /\ Copying(c, d) /\ Side(c, d) = "open"
    /\ copies' = [copies EXCEPT ![c][d] = IF @ = "read" THEN "write" ELSE "read"]
    /\ UNCHANGED <<pc, client, upstream, releases, hijacked, gateway>>

\* It ends on an end of file or an error.
CopyEnds(c, d) ==
    /\ Copying(c, d)
    /\ copies' = [copies EXCEPT ![c][d] = "over"]
    /\ UNCHANGED <<pc, client, upstream, releases, hijacked, gateway>>

\* Mutant of RelayCloses: both copies have to end first.
PatientRelayCloses(c) ==
    /\ pc[c] = "relay" /\ \A d \in Directions : ~Copying(c, d)
    /\ client' = [client EXCEPT ![c] = "closed"]
    /\ CloseUpstream(c)
    /\ pc' = [pc EXCEPT ![c] = "draining"]
    /\ UNCHANGED <<copies, hijacked, gateway>>

\* relayConnect: the first copy to end makes it close both sides.
RelayCloses(c) ==
    /\ pc[c] = "relay" /\ \E d \in Directions : ~Copying(c, d)
    /\ client' = [client EXCEPT ![c] = "closed"]
    /\ CloseUpstream(c)
    /\ pc' = [pc EXCEPT ![c] = "draining"]
    /\ UNCHANGED <<copies, hijacked, gateway>>

\* relayConnect receives the second copy's result and returns.
RelayReturns(c) ==
    /\ pc[c] = "draining" /\ \A d \in Directions : ~Copying(c, d)
    /\ pc' = [pc EXCEPT ![c] = "deferred"]
    /\ UNCHANGED <<client, upstream, releases, copies, hijacked, gateway>>

\* closeConnectTunnels, deferred by handleConnect.
CloseConnectTunnels(c) ==
    /\ pc[c] = "deferred"
    /\ hijacked' = hijacked \ {c}
    /\ client' = [client EXCEPT ![c] = "closed"]
    /\ CloseUpstream(c)
    /\ pc' = [pc EXCEPT ![c] = "done"]
    /\ UNCHANGED <<copies, gateway>>

----------------------------------------------------------------------------
(* Close.                                                                   *)

\* One critical section takes the server and copies the set of tunnels.  Stop may
\* call Close before Start has run, the goroutine that Start leaves cannot.
CloseSnapshot(k) ==
    /\ k = "ctx" => listening # "unbound"
    /\ closer[k].pc = "idle"
    /\ closer' = [closer EXCEPT ![k] = [pc |-> "closing", server |-> server, list |-> hijacked]]
    /\ server' = "nil"
    /\ UNCHANGED <<listening, handlers>>

CloseOne(k, c) ==
    /\ closer[k].pc = "closing" /\ c \in closer[k].list
    /\ client' = [client EXCEPT ![c] = "closed"]
    /\ closer' = [closer EXCEPT ![k].list = @ \ {c}]
    /\ UNCHANGED <<pc, upstream, releases, copies, hijacked, server, listening>>

\* server.Shutdown closes the listener first; without a server Close returns.
ShutdownBegins(k) ==
    /\ closer[k].pc = "closing" /\ closer[k].list = {}
    /\ IF closer[k].server = "nil"
          THEN /\ closer' = [closer EXCEPT ![k].pc = "closed"]
               /\ UNCHANGED listening
          ELSE /\ closer' = [closer EXCEPT ![k].pc = "shutdown"]
               /\ listening' = "no"
    /\ UNCHANGED <<server, handlers>>

\* Shutdown returns once every connection the server knows of is done.
ShutdownReturns(k) ==
    /\ closer[k].pc = "shutdown"
    /\ \A c \in Conns : pc[c] \notin InServer
    /\ closer' = [closer EXCEPT ![k].pc = "closed"]
    /\ UNCHANGED <<server, listening, handlers>>

\* httpShutdownTimeout passes first.
ShutdownTimesOut(k) ==
    /\ closer[k].pc = "shutdown"
    /\ \E c \in Conns : pc[c] \in InServer
    /\ closer' = [closer EXCEPT ![k].pc = "failed"]
    /\ UNCHANGED <<server, listening, handlers>>

----------------------------------------------------------------------------
HandlerNext ==
    \E c \in Conns :
       \/ Accept(c) \/ Handle(c) \/ Abandon(c) \/ DialFails(c) \/ Dialed(c)
       \/ Forwarded(c) \/ TransportCloses(c) \/ HijackFails(c) \/ Hijack(c) \/ TrackHijacked(c) \/ WriteEstablished(c)
       \/ RelayCloses(c) \/ RelayReturns(c) \/ CloseConnectTunnels(c)
       \/ \E d \in Directions : CopyMoves(c, d) \/ CopyEnds(c, d)

\* Close goes on, once it was called.
CloseNext(k) ==
    \/ ShutdownBegins(k) \/ ShutdownReturns(k) \/ ShutdownTimesOut(k)
    \/ \E c \in Conns : CloseOne(k, c)

Next ==
    \/ Start \/ ServeFails \/ HandlerNext
    \/ \E k \in Closers : CloseSnapshot(k) \/ CloseNext(k)

Spec == Init /\ [][Next]_vars

(* A goroutine that can run does, and a read or write of a closed side       *)
(* returns.  Nothing makes a peer send anything or take what it is sent: a    *)
(* stream need not end, and a write may block for ever.                       *)
Fairness ==
    /\ \A c \in Conns :
          /\ WF_vars(client[c] = "closed" /\ WriteEstablished(c)) /\ WF_vars(RelayCloses(c))
          /\ WF_vars(RelayReturns(c)) /\ WF_vars(CloseConnectTunnels(c))
          /\ \A d \in Directions : WF_vars(Side(c, d) = "closed" /\ CopyEnds(c, d))
    /\ \A k \in Closers : WF_vars(CloseNext(k))

FairSpec == Spec /\ Fairness

----------------------------------------------------------------------------
(* Although the relay, the deferred cleanup and the error paths all close    *)
(* the cell connection, its reservation is released once: never twice, which *)
(* would take the reservation of another connection of the tunnel, and not   *)
(* zero times, which would keep the tunnel from ever being reaped            *)
(* (handleConnect, relayConnect, closeConnectTunnels, releaseConn.Close).    *)
ReleasedOnce ==
    \A c \in Conns :
       /\ releases[c] <= 1
       /\ pc[c] = "done" /\ upstream[c] # "none" => releases[c] = 1
       /\ upstream[c] = "open" => releases[c] = 0

\* The copy to the cell is in a write that the cell does not take.
Stalled(c) == copies[c].up = "write" /\ upstream[c] = "open"

(* A tunnel that Close found in g.hijacked gives its reservation back: the   *)
(* closed client ends one copy, relayConnect then closes the cell's side,    *)
(* which ends the other, and handleConnect returns (Close, relayConnect).    *)
(* The one exception: no deadline ends a write to a cell that takes nothing, *)
(* and while neither copy ends relayConnect closes nothing.                  *)
FoundTunnelsReleased ==
    \A c \in Conns :
       (\E k \in Closers : c \in closer[k].list)
          ~> ((pc[c] = "done" /\ releases[c] = 1) \/ []Stalled(c))

============================================================================
