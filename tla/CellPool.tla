------------------------------- MODULE CellPool -------------------------------
(***************************************************************************)
(* The controller's core: proxy requests that acquire or spawn the hot     *)
(* cell of a pool, gateway connections that reserve the cell of a lease,   *)
(* the idle, health and orphan loops of the reaper, the DELETE handler and *)
(* the shutdown, all running concurrently over one docker daemon.          *)
(*                                                                         *)
(* One action is one critical section of the code, or one docker call.     *)
(* Docker itself (create, boot, die, kill) is modelled from the calls      *)
(* spawner.go makes.  Durations are abstracted to the flags they drive:    *)
(* "idle" (IdleTimeout passed), "old" (older than SpawnTimeout plus the    *)
(* orphan grace period) and the expiry of failures.  A connection whose    *)
(* lease has expired is refused and changes nothing here.                  *)
(***************************************************************************)
EXTENDS PoolState, FiniteSets

CONSTANTS
  Pools,         \* pool names
  Configs,       \* the configurations of each pool
  FallbackPool,  \* the fallback of each pool, or NoPool
  NoPool,
  Requests,      \* POST /v1/proxies handlers
  Conns,         \* connections through the SOCKS5 and HTTP gateways
  Nobody,        \* a spawn mutex nobody holds
  Loops,         \* which of the loops "idle", "health" run
  Destroyers,    \* DELETE /v1/cells/{id} handlers
  OrphanLoop,    \* TRUE iff the orphan loop runs
  CanStop,       \* TRUE iff the service may be shut down
  CanRestart,    \* TRUE iff the process may crash or exit, and boot again
  Excludes,      \* TRUE iff requests may name an excluded proxy
  MarksFailed,   \* TRUE iff Manager.MarkFailed is called
  ProbesFail,    \* TRUE iff a probe of a live cell may fail
  KillsFail      \* TRUE iff docker may fail to list, stop or remove cells

ASSUME PoolsAssumption ==
  /\ NoPool \notin Pools
  /\ Configs \in [Pools -> SUBSET Confs]
  /\ FallbackPool \in [Pools -> Pools \cup {NoPool}]

ASSUME ActorsAssumption ==
  /\ IsFiniteSet(Requests) /\ IsFiniteSet(Conns)
  /\ Requests \cap Conns = {}
  /\ Nobody \notin Requests
  /\ Loops \subseteq {"idle", "health"}
  /\ Destroyers \cap {"idle", "health", "close"} = {}

ASSUME SwitchesAssumption ==
  {OrphanLoop, CanStop, CanRestart, Excludes, MarksFailed, ProbesFail, KillsFail}
    \subseteq BOOLEAN

VARIABLES
  tunnel,    \* PoolState.tunnel of every pool
  failed,    \* PoolState.failed of every pool, without its expired entries
  spawnMu,   \* Manager.spawnMu: the request that holds the pool's spawn mutex
  cell,      \* docker's view of every container
  leases,    \* cells a lease was issued for
  held,      \* the cell of the Acquisition a request or a connection holds
  req,       \* the request handlers
  conn,      \* the gateway connections
  killer,    \* the loops, the DELETE handlers and the shutdown
  orphan,    \* the orphan loop
  phase,     \* the process: booting, running, stopping, closing, closed, down
  closeTodo  \* the pools Manager.Close has not visited yet

vars == <<tunnel, failed, spawnMu, cell, leases, held, req, conn, killer,
          orphan, phase, closeTodo>>

clients == <<spawnMu, leases, held, req, conn>>

background == <<killer, orphan, phase, closeTodo>>

Holders == Requests \cup Conns

Killers == Loops \cup Destroyers \cup {"close"}

NewCell == [status |-> "absent", pool |-> NoPool, conf |-> NoConf, age |-> "young"]

IdleReq == [pc |-> "idle", pool |-> NoPool, fallback |-> NoPool,
            exclude |-> NoCell, skip |-> NoConf, conf |-> NoConf,
            cell |-> NoCell]

IdleKiller == [pc |-> "scan", pool |-> NoPool, cell |-> NoCell]

IdleOrphan == [pc |-> "scan", keep |-> {}, victims |-> {}]

\* Containers docker lists, with All set.
Existing == {c \in Cells : cell[c].status \in {"starting", "running"}}

\* Containers the in-memory pool state knows.
Tracked == {tunnel[p].cell : p \in Pools} \ {NoCell}

\* Containers some Spawn call has created and not yet published or given up.
Spawning == {req[r].cell : r \in Requests} \ {NoCell}

\* The open reservations on a cell.
HoldersOf(c) == {a \in Holders : held[a] = c}

Init ==
  /\ tunnel = [p \in Pools |-> NoTunnel]
  /\ failed = [p \in Pools |-> {}]
  /\ spawnMu = [p \in Pools |-> Nobody]
  /\ cell = [c \in Cells |-> NewCell]
  /\ leases = {}
  /\ held = [a \in Holders |-> NoCell]
  /\ req = [r \in Requests |-> IdleReq]
  /\ conn = [k \in Conns |-> "idle"]
  /\ killer = [k \in Killers |-> IdleKiller]
  /\ orphan = IdleOrphan
  /\ phase = "running"
  /\ closeTodo = {}

-----------------------------------------------------------------------------
(***************************************************************************)
(* POST /v1/proxies                                                        *)
(***************************************************************************)

\* Handlers may begin to work: those accepted before the listeners close may do
\* so during the shutdown.
Up == phase \in {"running", "stopping", "closing"}

\* Mutant of Acquisition: it names the fallback of the pool it was taken from.
MisnamedAcquisition(q) ==
  [IdleReq EXCEPT !.pc = "issue", !.pool = IF FallbackPool[q.pool] = NoPool
                                           THEN q.pool ELSE FallbackPool[q.pool]]

\* The request returns the tunnel it acquired: the rest of it no longer
\* depends on how the tunnel was found.
Acquisition(q) == [IdleReq EXCEPT !.pc = "issue", !.pool = q.pool]

\* The request r, about to acquire as q says, takes the hot tunnel.
Take(r, q) ==
  /\ tunnel' = [tunnel EXCEPT ![q.pool] = Acquired(@)]
  /\ held' = [held EXCEPT ![r] = tunnel[q.pool].cell]
  /\ req' = [req EXCEPT ![r] = Acquisition(q)]

\* acquireFromState before it takes the spawn mutex.
TryAcquire(r, q) ==
  \/ /\ CanAcquire(tunnel[q.pool], q.exclude)
     /\ Take(r, q)
  \/ /\ ~CanAcquire(tunnel[q.pool], q.exclude)
     /\ req' = [req EXCEPT ![r] = [q EXCEPT !.pc = "lock"]]
     /\ UNCHANGED <<tunnel, held>>

\* A caller names a pool (a country is routed to one), perhaps an excluded
\* proxy, whose lease ResolveExcludedProxy maps to its cell, and perhaps allows
\* the fallback pool, if one is configured.
Start(r) ==
  /\ Up
  /\ req[r].pc = "idle"
  /\ \E p \in Pools : \E f \in {NoPool, FallbackPool[p]},
                       x \in {NoCell} \cup {c \in leases : Excludes} :
       TryAcquire(r, [IdleReq EXCEPT !.pool = p, !.fallback = f, !.exclude = x])
  /\ UNCHANGED <<failed, spawnMu, cell, leases, conn, background>>

\* Mutant of Lock: the spawn mutex is not waited for.
UnlockedLock(r) ==
  LET q == req[r] IN
  /\ q.pc = "lock"
  /\ ~CanAcquire(tunnel[q.pool], q.exclude)
  /\ spawnMu' = [spawnMu EXCEPT ![q.pool] = r]
  /\ req' = [req EXCEPT ![r].pc = "pick"]
  /\ UNCHANGED <<tunnel, held, failed, cell, leases, conn, background>>

\* acquireFromState under the spawn mutex: re-check, else spawn.
Lock(r) ==
  LET q == req[r]
      t == tunnel[q.pool] IN
  /\ q.pc = "lock"
  /\ spawnMu[q.pool] = Nobody
  /\ \/ /\ CanAcquire(t, q.exclude)
        /\ Take(r, q)
        /\ UNCHANGED spawnMu
     \/ /\ ~CanAcquire(t, q.exclude)
        /\ spawnMu' = [spawnMu EXCEPT ![q.pool] = r]
        /\ req' = [req EXCEPT ![r].pc = IF q.exclude = NoCell THEN "pick" ELSE "skip"]
        /\ UNCHANGED <<tunnel, held>>
  /\ UNCHANGED <<failed, cell, leases, conn, background>>

\* excludeConfsFor: the configuration of the excluded proxy is skipped, if the
\* pool still holds that proxy.
Skip(r) ==
  LET q == req[r] IN
  /\ q.pc = "skip"
  /\ req' = [req EXCEPT
       ![r].pc = "pick",
       ![r].skip = ExcludedConf(tunnel[q.pool], q.exclude, cell[q.exclude].conf)]
  /\ UNCHANGED <<tunnel, failed, spawnMu, cell, leases, held, conn, background>>

\* Mutant of Fail: the error path leaves the mutex locked.
LockedFail(r) ==
  /\ req' = [req EXCEPT ![r] = IdleReq]
  /\ UNCHANGED spawnMu

\* acquireFromState fails: the mutex is unlocked, and acquireFromPool goes on
\* to the fallback pool or returns the error.
Fail(r) ==
  LET q == req[r] IN
  /\ spawnMu' = [spawnMu EXCEPT ![q.pool] = Nobody]
  /\ req' = [req EXCEPT ![r] =
       IF q.fallback = NoPool THEN IdleReq
       ELSE [IdleReq EXCEPT !.pc = "fallback", !.pool = q.fallback,
                            !.exclude = q.exclude]]

\* The one hop to the fallback pool, which may not escalate again.
Fallback(r) ==
  /\ req[r].pc = "fallback"
  /\ TryAcquire(r, req[r])
  /\ UNCHANGED <<failed, spawnMu, cell, leases, conn, background>>

\* pickConf: a random candidate, or ErrPoolExhausted.
Pick(r) ==
  LET q == req[r]
      candidates == Candidates(Configs[q.pool], failed[q.pool], q.skip) IN
  /\ q.pc = "pick"
  /\ \/ /\ candidates = {}
        /\ Fail(r)
     \/ /\ \E conf \in candidates :
             req' = [req EXCEPT ![r].pc = "create", ![r].conf = conf]
        /\ UNCHANGED spawnMu
  /\ UNCHANGED <<tunnel, failed, cell, leases, held, conn, background>>

\* createAndStart succeeds: docker runs a new container.
Create(r) ==
  /\ req[r].pc = "create"
  /\ \E c \in Cells :
       /\ cell[c].status = "absent"
       /\ cell' = [cell EXCEPT ![c] = [NewCell EXCEPT !.status = "starting",
                     !.pool = req[r].pool, !.conf = req[r].conf]]
       /\ req' = [req EXCEPT ![r].pc = "wait", ![r].cell = c]
  /\ UNCHANGED <<tunnel, failed, spawnMu, leases, held, conn, background>>

\* recordSpawnFailure, and the error returned.
RecordSpawnFailure(r) ==
  /\ failed' = [failed EXCEPT ![req[r].pool] = @ \cup {req[r].conf}]
  /\ Fail(r)

\* The image pull or the create call fails.  A create that docker carries out
\* although its call has timed out leaves a container nobody knows: what Create
\* leaves when SpawnFails follows and its kill fails.
CreateFails(r) ==
  /\ req[r].pc = "create"
  /\ RecordSpawnFailure(r)
  /\ UNCHANGED <<tunnel, cell, leases, held, conn, background>>

\* waitReady: a probe finds the cell's SOCKS5 listener.
Observe(r) ==
  /\ req[r].pc = "wait"
  /\ cell[req[r].cell].status = "running"
  /\ req' = [req EXCEPT ![r].pc = "publish"]
  /\ UNCHANGED <<tunnel, failed, spawnMu, cell, leases, held, conn, background>>

\* The container c is stopped and removed.
Removed(c) == [cell EXCEPT ![c].status = "gone", ![c].age = "young"]

\* docker stop and remove of c: done, or failed with the cell as it was.
KillCell(c, mayFail) == cell' = Removed(c) \/ (mayFail /\ UNCHANGED cell)

\* The start call fails, the spawn deadline passes or the caller goes away:
\* the container is killed on a best-effort basis.
SpawnFails(r) ==
  /\ req[r].pc = "wait"
  /\ KillCell(req[r].cell, KillsFail)
  /\ RecordSpawnFailure(r)
  /\ UNCHANGED <<tunnel, leases, held, conn, background>>

\* spawnFromState publishes the new tunnel over whatever the pool held.
Publish(r) ==
  LET q == req[r] IN
  /\ q.pc = "publish"
  /\ tunnel' = [tunnel EXCEPT ![q.pool] = HotTunnel(q.cell)]
  /\ held' = [held EXCEPT ![r] = q.cell]
  /\ spawnMu' = [spawnMu EXCEPT ![q.pool] = Nobody]
  /\ req' = [req EXCEPT ![r] = Acquisition(q)]
  /\ UNCHANGED <<failed, cell, leases, conn, background>>

\* IssueLease: the lease is registered and becomes the tunnel's latest URL.
Issue(r) ==
  LET c == held[r]
      p == req[r].pool IN
  /\ req[r].pc = "issue"
  /\ leases' = leases \cup {c}
  /\ tunnel' = [tunnel EXCEPT ![p] = WithLastURL(@, c)]
  /\ req' = [req EXCEPT ![r].pc = "respond"]
  /\ UNCHANGED <<failed, spawnMu, cell, held, conn, background>>

\* Manager.Release of the acquisition a holds in pool p.
Release(a, p) ==
  /\ tunnel' = [tunnel EXCEPT ![p] = Released(@)]
  /\ held' = [held EXCEPT ![a] = NoCell]

\* Mutant of IssueFails: the error path forgets to release.
LeakyIssueFails(r) ==
  /\ req[r].pc = "issue"
  /\ held' = [held EXCEPT ![r] = NoCell]
  /\ req' = [req EXCEPT ![r] = IdleReq]
  /\ UNCHANGED <<tunnel, failed, spawnMu, cell, leases, conn, background>>

\* The lease cannot be issued: release and answer 500.
IssueFails(r) ==
  /\ req[r].pc = "issue"
  /\ Release(r, req[r].pool)
  /\ req' = [req EXCEPT ![r] = IdleReq]
  /\ UNCHANGED <<failed, spawnMu, cell, leases, conn, background>>

\* The response is written, then the acquisition is released.
Respond(r) ==
  /\ req[r].pc = "respond"
  /\ Release(r, req[r].pool)
  /\ req' = [req EXCEPT ![r] = IdleReq]
  /\ UNCHANGED <<failed, spawnMu, cell, leases, conn, background>>

-----------------------------------------------------------------------------
(***************************************************************************)
(* Connections through the gateways                                        *)
(***************************************************************************)

\* AcquireForLease: reserve the tunnel if it is the leased cell.
Dial(k) ==
  /\ Up
  /\ conn[k] = "idle"
  /\ \E c \in leases :
       LET p == cell[c].pool IN
       /\ CanAcquireContainer(tunnel[p], c)
       /\ tunnel' = [tunnel EXCEPT ![p] = Acquired(@)]
       /\ held' = [held EXCEPT ![k] = tunnel[p].cell]
       /\ conn' = [conn EXCEPT ![k] = "dialing"]
  /\ UNCHANGED <<failed, spawnMu, cell, leases, req, background>>

\* The cell's SOCKS5 proxy connects to the destination.
Connect(k) ==
  /\ conn[k] = "dialing"
  /\ cell[held[k]].status = "running"
  /\ conn' = [conn EXCEPT ![k] = "open"]
  /\ UNCHANGED <<tunnel, failed, spawnMu, cell, leases, held, req, background>>

\* dialLease fails after the reservation, or the relayed connection ends.
Hangup(k) ==
  /\ conn[k] \in {"dialing", "open"}
  /\ Release(k, cell[held[k]].pool)
  /\ conn' = [conn EXCEPT ![k] = "idle"]
  /\ UNCHANGED <<failed, spawnMu, cell, leases, req, background>>

\* The active connections a cell reports in its /status.
ActiveConns(c) == {k \in Conns : conn[k] = "open" /\ held[k] = c}

-----------------------------------------------------------------------------
(***************************************************************************)
(* The idle and health loops                                               *)
(***************************************************************************)

\* A tick that has begun, or is due, when the run context is cancelled still
\* runs to its end.
LoopsRun == phase \in {"running", "stopping"}

\* reapIdle takes its snapshot of a pool: a tunnel untouched for IdleTimeout,
\* with nothing in flight, is a candidate.
IdleSnapshot(p) ==
  /\ "idle" \in Loops /\ LoopsRun
  /\ killer["idle"].pc = "scan"
  /\ tunnel[p].cell # NoCell
  /\ tunnel[p].lastUsed = "idle" /\ tunnel[p].inFlight = 0
  /\ killer' = [killer EXCEPT !["idle"] =
       [pc |-> "probe", pool |-> p, cell |-> tunnel[p].cell]]
  /\ UNCHANGED <<tunnel, failed, cell, clients, orphan, phase, closeTodo>>

\* hasLiveConnections: a cell that reports active connections is spared, one
\* that reports none, or does not answer, is killed.
IdleProbe ==
  LET c == killer["idle"].cell IN
  /\ "idle" \in Loops
  /\ killer["idle"].pc = "probe"
  /\ \/ /\ ActiveConns(c) # {} /\ cell[c].status = "running" /\ phase = "running"
        /\ killer' = [killer EXCEPT !["idle"] = IdleKiller]
     \/ /\ \/ ActiveConns(c) = {} \/ cell[c].status # "running"
           \/ ProbesFail \/ phase # "running"
        /\ killer' = [killer EXCEPT !["idle"].pc = "mark"]
  /\ UNCHANGED <<tunnel, failed, cell, clients, orphan, phase, closeTodo>>

\* checkHealth takes its snapshot of a pool: only hot tunnels are probed.
HealthSnapshot(p) ==
  /\ "health" \in Loops /\ LoopsRun
  /\ killer["health"].pc = "scan"
  /\ tunnel[p].state = "hot"
  /\ killer' = [killer EXCEPT !["health"] =
       [pc |-> "probe", pool |-> p, cell |-> tunnel[p].cell]]
  /\ UNCHANGED <<tunnel, failed, cell, clients, orphan, phase, closeTodo>>

\* probeHealthy: a live cell answers, unless the probe itself fails.  A cell
\* docker no longer lists, or any cell once the context is cancelled, is
\* judged by the age of HealthyAt, which may say either.  The configuration of
\* an unhealthy cell goes to the failed cache.
HealthProbe ==
  LET c == killer["health"].cell
      p == killer["health"].pool IN
  /\ "health" \in Loops
  /\ killer["health"].pc = "probe"
  /\ \/ /\ killer' = [killer EXCEPT !["health"] = IdleKiller]
        /\ UNCHANGED failed
     \/ /\ cell[c].status # "running" \/ ProbesFail \/ phase # "running"
        /\ failed' = [failed EXCEPT ![p] = @ \cup {cell[c].conf}]
        /\ killer' = [killer EXCEPT !["health"].pc = "mark"]
  /\ UNCHANGED <<tunnel, cell, clients, orphan, phase, closeTodo>>

\* killTunnel marks the tunnel it is about to kill.
Mark(k) ==
  /\ killer[k].pc = "mark"
  /\ tunnel' = [tunnel EXCEPT ![killer[k].pool] = Reaping(@, killer[k].cell)]
  /\ killer' = [killer EXCEPT ![k].pc = "kill"]
  /\ UNCHANGED <<failed, cell, clients, orphan, phase, closeTodo>>

\* Spawner.Kill, called by killTunnel, DestroyCell and Close.  It also fails
\* when its context is cancelled: that of the loops once the service stops,
\* that of a DELETE handler when its caller disconnects.
Kill(k) ==
  /\ killer[k].pc = "kill"
  /\ KillCell(killer[k].cell, KillsFail \/ k \in Destroyers
                                 \/ (k \in Loops /\ phase # "running"))
  /\ killer' = [killer EXCEPT ![k].pc = IF k \in Destroyers THEN "find" ELSE "clear"]
  /\ UNCHANGED <<tunnel, failed, clients, orphan, phase, closeTodo>>

\* setTunnel(nil) at the end of killTunnel, DestroyCell and one turn of Close.
Clear(k) ==
  /\ killer[k].pc = "clear"
  /\ tunnel' = [tunnel EXCEPT ![killer[k].pool] = NoTunnel]
  /\ killer' = [killer EXCEPT ![k] = IdleKiller]
  /\ UNCHANGED <<failed, cell, clients, orphan, phase, closeTodo>>

-----------------------------------------------------------------------------
(***************************************************************************)
(* The orphan loop                                                         *)
(***************************************************************************)

\* reapOrphans collects the containers the pools track.
OrphanKeep ==
  /\ OrphanLoop /\ LoopsRun
  /\ orphan.pc = "scan"
  /\ orphan' = [pc |-> "list", keep |-> Tracked, victims |-> {}]
  /\ UNCHANGED <<tunnel, failed, cell, clients, killer, phase, closeTodo>>

\* Mutant of OrphanList: the age of the containers is not looked at.
AgelessOrphanList ==
  /\ orphan.pc = "list"
  /\ orphan' = [pc |-> "kill", keep |-> {}, victims |-> Existing \ orphan.keep]
  /\ UNCHANGED <<tunnel, failed, cell, clients, killer, phase, closeTodo>>

\* Mutant of OrphanList: "running" is missing from shouldReapState.
SparingOrphanList ==
  /\ orphan.pc = "list"
  /\ orphan' = [pc |-> "kill", keep |-> {},
                victims |-> {c \in Existing \ orphan.keep : cell[c].status # "running"
                                                           /\ cell[c].age = "old"}]
  /\ UNCHANGED <<tunnel, failed, cell, clients, killer, phase, closeTodo>>

\* ReapOrphans lists docker's containers; the list call fails once the
\* service stops.  Containers to keep, and young ones, are skipped.  A pass
\* whose list fails before is one whose kills all fail.
OrphanList ==
  /\ orphan.pc = "list"
  /\ orphan' = IF phase = "running"
       THEN [pc |-> "kill", keep |-> {},
             victims |-> {c \in Existing : c \notin orphan.keep /\ cell[c].age = "old"}]
       ELSE IdleOrphan
  /\ UNCHANGED <<tunnel, failed, cell, clients, killer, phase, closeTodo>>

\* reapOne kills the next victim under a context of its own.
OrphanKill ==
  /\ orphan.pc = "kill"
  /\ \/ /\ orphan.victims = {}
        /\ orphan' = IdleOrphan
        /\ UNCHANGED cell
     \/ \E c \in orphan.victims :
          /\ KillCell(c, KillsFail)
          /\ orphan' = [orphan EXCEPT !.victims = @ \ {c}]
  /\ UNCHANGED <<tunnel, failed, clients, killer, phase, closeTodo>>

-----------------------------------------------------------------------------
(***************************************************************************)
(* DELETE /v1/cells/{id}                                                   *)
(***************************************************************************)

\* DestroyCell finds the container among docker's.
DestroyList(d) ==
  /\ Up
  /\ killer[d].pc = "scan"
  /\ \E c \in Existing :
       killer' = [killer EXCEPT ![d] = [IdleKiller EXCEPT !.pc = "kill", !.cell = c]]
  /\ UNCHANGED <<tunnel, failed, cell, clients, orphan, phase, closeTodo>>

\* stateForContainer: the pool that holds the killed container, if any.
DestroyFind(d) ==
  LET c == killer[d].cell IN
  /\ killer[d].pc = "find"
  /\ \/ \E p \in Pools :
          /\ tunnel[p].cell = c
          /\ killer' = [killer EXCEPT ![d].pc = "clear", ![d].pool = p]
     \/ /\ c \notin Tracked
        /\ killer' = [killer EXCEPT ![d] = IdleKiller]
  /\ UNCHANGED <<tunnel, failed, cell, clients, orphan, phase, closeTodo>>

-----------------------------------------------------------------------------
(***************************************************************************)
(* Shutdown                                                                *)
(***************************************************************************)

\* The run context is cancelled.  Handlers that were accepted before the
\* listeners close go on until the process exits, and some of them outlive the
\* listeners' shutdown timeout.
Stop ==
  /\ CanStop /\ phase = "running"
  /\ phase' = "stopping"
  /\ UNCHANGED <<tunnel, failed, cell, clients, killer, orphan, closeTodo>>

\* Service.Stop has closed the listeners and waited for the reaper's loops:
\* Manager.Close begins.
CloseBegin ==
  /\ phase = "stopping"
  /\ \A k \in Loops : killer[k].pc = "scan"
  /\ orphan.pc = "scan"
  /\ phase' = "closing"
  /\ closeTodo' = Pools
  /\ UNCHANGED <<tunnel, failed, cell, clients, killer, orphan>>

\* One turn of the loop in Close: a cold pool is skipped.
CloseSnapshot ==
  /\ phase = "closing"
  /\ killer["close"].pc = "scan"
  /\ \E p \in closeTodo :
       /\ closeTodo' = closeTodo \ {p}
       /\ killer' = [killer EXCEPT !["close"] =
            IF tunnel[p].cell = NoCell THEN IdleKiller
            ELSE [pc |-> "kill", pool |-> p, cell |-> tunnel[p].cell]]
  /\ UNCHANGED <<tunnel, failed, cell, clients, orphan, phase>>

\* Close has returned; the process exits.
CloseEnd ==
  /\ phase = "closing"
  /\ closeTodo = {} /\ killer["close"].pc = "scan"
  /\ phase' = "closed"
  /\ UNCHANGED <<tunnel, failed, cell, clients, killer, orphan, closeTodo>>

\* The process is gone, and its memory with it.
Exit ==
  /\ CanRestart /\ phase # "down"
  /\ tunnel' = [p \in Pools |-> NoTunnel]
  /\ failed' = [p \in Pools |-> {}]
  /\ spawnMu' = [p \in Pools |-> Nobody]
  /\ leases' = {}
  /\ held' = [a \in Holders |-> NoCell]
  /\ req' = [r \in Requests |-> IdleReq]
  /\ conn' = [k \in Conns |-> "idle"]
  /\ killer' = [k \in Killers |-> IdleKiller]
  /\ orphan' = IdleOrphan
  /\ closeTodo' = {}
  /\ phase' = "down"
  /\ UNCHANGED cell

\* Mutant of BootList: young containers are protected at boot too.
ProtectiveBootList ==
  /\ phase = "down"
  /\ phase' = "booting"
  /\ orphan' = [pc |-> "kill", keep |-> {}, victims |-> {c \in Existing : cell[c].age = "old"}]
  /\ UNCHANGED <<tunnel, failed, cell, clients, killer, closeTodo>>

\* Service.Run starts with ReapOrphans: everything docker lists is to go,
\* whatever its age; if the list call fails nothing is.
BootList ==
  /\ phase = "down"
  /\ phase' = "booting"
  /\ \/ orphan' = [pc |-> "kill", keep |-> {}, victims |-> Existing]
     \/ KillsFail /\ orphan' = [pc |-> "kill", keep |-> {}, victims |-> {}]
  /\ UNCHANGED <<tunnel, failed, cell, clients, killer, closeTodo>>

\* The victims are gone: the loops and the listeners start.
BootEnd ==
  /\ phase = "booting"
  /\ orphan.pc = "scan"
  /\ phase' = "running"
  /\ UNCHANGED <<tunnel, failed, cell, clients, killer, orphan, closeTodo>>

-----------------------------------------------------------------------------
(***************************************************************************)
(* Docker, time, and the operator                                          *)
(***************************************************************************)

\* The WireGuard handshake succeeds and the cell's SOCKS5 listener opens.
CellBoots(c) ==
  /\ cell[c].status = "starting"
  /\ cell' = [cell EXCEPT ![c].status = "running"]
  /\ UNCHANGED <<tunnel, failed, clients, background>>

\* A container exits by itself and is removed (AutoRemove).
CellDies(c) ==
  /\ c \in Existing
  /\ cell' = Removed(c)
  /\ UNCHANGED <<tunnel, failed, clients, background>>

\* SpawnTimeout plus the grace period pass since the container was created.
\* A spawn ends within SpawnTimeout, and the grace period outlasts the time
\* from the orphan loop's first snapshot to the end of its list call.  Only the
\* orphan loop looks at the age.
CellAges(c) ==
  /\ OrphanLoop
  /\ c \in Existing /\ cell[c].age = "young"
  /\ c \notin Spawning
  /\ orphan.pc = "list" => (c \in orphan.keep \/ c \notin Tracked)
  /\ cell' = [cell EXCEPT ![c].age = "old"]
  /\ UNCHANGED <<tunnel, failed, clients, background>>

\* IdleTimeout passes without the tunnel being handed out.  Only the idle loop
\* looks at it.
TunnelIdles(p) ==
  /\ "idle" \in Loops
  /\ tunnel[p].cell # NoCell /\ tunnel[p].lastUsed = "recent"
  /\ tunnel' = [tunnel EXCEPT ![p].lastUsed = "idle"]
  /\ UNCHANGED <<failed, cell, clients, background>>

\* FailureCacheTTL passes: cleanFailedLocked drops the entry.
FailureExpires(p) ==
  /\ \E conf \in failed[p] : failed' = [failed EXCEPT ![p] = @ \ {conf}]
  /\ UNCHANGED <<tunnel, cell, clients, background>>

\* Manager.MarkFailed, exported; only the tests of the repository call it.  Its
\* two critical sections are one step: a spawn of conf between them is one that
\* had begun before.
MarkFailed(p, conf) ==
  /\ MarksFailed /\ Up
  /\ tunnel' = [tunnel EXCEPT ![p].state =
       IF tunnel[p].cell # NoCell /\ cell[tunnel[p].cell].conf = conf
       THEN "unhealthy" ELSE @]
  /\ failed' = [failed EXCEPT ![p] = @ \cup {conf}]
  /\ UNCHANGED <<cell, clients, background>>

-----------------------------------------------------------------------------

RequestStep(r) ==
  \/ Start(r) \/ Fallback(r) \/ Lock(r) \/ Skip(r) \/ Pick(r)
  \/ Create(r) \/ CreateFails(r) \/ Observe(r) \/ SpawnFails(r) \/ Publish(r)
  \/ Issue(r) \/ IssueFails(r) \/ Respond(r)

ConnStep(k) == Dial(k) \/ Connect(k) \/ Hangup(k)

LoopStep ==
  \/ \E p \in Pools : IdleSnapshot(p) \/ HealthSnapshot(p)
  \/ IdleProbe \/ HealthProbe
  \/ OrphanKeep \/ OrphanList \/ OrphanKill

KillerStep(k) == Mark(k) \/ Kill(k) \/ Clear(k)

DestroyStep(d) == DestroyList(d) \/ DestroyFind(d)

Lifecycle ==
  \/ Stop \/ CloseBegin \/ CloseSnapshot \/ CloseEnd
  \/ Exit \/ BootList \/ BootEnd

Environment ==
  \/ \E c \in Cells : CellBoots(c) \/ CellDies(c) \/ CellAges(c)
  \/ \E p \in Pools : TunnelIdles(p) \/ FailureExpires(p)
  \/ \E p \in Pools, conf \in Confs : MarkFailed(p, conf)

Next ==
  \/ \E r \in Requests : RequestStep(r)
  \/ \E k \in Conns : ConnStep(k)
  \/ LoopStep
  \/ \E k \in Killers : KillerStep(k)
  \/ \E d \in Destroyers : DestroyStep(d)
  \/ Lifecycle
  \/ Environment

Spec == Init /\ [][Next]_vars

-----------------------------------------------------------------------------
(***************************************************************************)
(* Properties                                                              *)
(***************************************************************************)

\* Docker's view of a container.
CellInfo == [status : {"absent", "starting", "running", "gone"},
             pool   : Pools \cup {NoPool},
             conf   : Confs \cup {NoConf},
             age    : {"young", "old"}]

\* A request handler: what it was asked for and how far it is.
Request == [pc : {"idle", "fallback", "lock", "skip", "pick", "create", "wait",
                  "publish", "issue", "respond"},
            pool       : Pools \cup {NoPool},
            fallback   : Pools \cup {NoPool},
            exclude    : Cells \cup {NoCell},
            skip       : Confs \cup {NoConf},
            conf       : Confs \cup {NoConf},
            cell       : Cells \cup {NoCell}]

\* A loop, a DELETE handler or the shutdown, and the tunnel it works on.
Killer == [pc   : {"scan", "probe", "mark", "kill", "find", "clear"},
           pool : Pools \cup {NoPool},
           cell : Cells \cup {NoCell}]

Orphan == [pc : {"scan", "list", "kill"}, keep : SUBSET Cells, victims : SUBSET Cells]

\* Every variable keeps its shape: the slots, the failure caches and the
\* program counters of pool.go, reaper.go and cells.go.
TypeOK ==
  /\ tunnel \in [Pools -> Tunnel]
  /\ failed \in [Pools -> SUBSET Confs]
  /\ spawnMu \in [Pools -> Requests \cup {Nobody}]
  /\ cell \in [Cells -> CellInfo]
  /\ leases \subseteq Cells
  /\ held \in [Holders -> Cells \cup {NoCell}]
  /\ req \in [Requests -> Request]
  /\ conn \in [Conns -> {"idle", "dialing", "open"}]
  /\ killer \in [Killers -> Killer]
  /\ orphan \in Orphan
  /\ phase \in {"booting", "running", "stopping", "closing", "closed", "down"}
  /\ closeTodo \subseteq Pools

\* The critical section of acquireFromState, past the second acquire.
InSpawn(r) == req[r].pc \in {"skip", "pick", "create", "wait", "publish"}

\* "v1 guarantees at most one in-flight spawn per pool" (pool.go, Manager):
\* two requests never spawn for one pool at the same time, whichever of them
\* came by way of a fallback.  And no path out of acquireFromState leaves the
\* mutex locked: who holds it is in its critical section, where it waits for
\* docker and for no other mutex.
SpawnsExclusive ==
  /\ \A r, s \in Requests :
       InSpawn(r) /\ InSpawn(s) /\ req[r].pool = req[s].pool => r = s
  /\ \A p \in Pools :
       spawnMu[p] # Nobody => InSpawn(spawnMu[p]) /\ req[spawnMu[p]].pool = p

\* A tunnel never counts more reservations than are open on its cell, so a
\* count that release leaves behind can never shield an unused cell from the
\* idle loop: release works on whatever tunnel the slot holds by then, and is
\* skipped when the slot is empty.
ReservationsBounded ==
  \A p \in Pools : tunnel[p].inFlight <= Cardinality(HoldersOf(tunnel[p].cell))

\* The URL a pool reports as its latest lease (GET /v1/proxies) routes to the
\* cell the pool holds, even when a lease is issued for a cell that was
\* replaced or reaped between acquire and IssueLease.
LastURLCurrent ==
  \A p \in Pools : tunnel[p].lastURL \in {NoCell, tunnel[p].cell}

\* A reservation is given back to the pool of the cell it was taken on, also
\* when acquireFromPool went on to the fallback pool.
ReleasedWhereAcquired ==
  /\ \A r \in Requests : held[r] # NoCell => cell[held[r]].pool = req[r].pool
  /\ \A p \in Pools : tunnel[p].cell # NoCell => cell[tunnel[p].cell].pool = p

\* The orphan loop never decides to kill a cell some pool tracks or some
\* request is still spawning, although its keep set is older than its list.
OrphanSparesTracked == orphan.victims \cap (Tracked \cup Spawning) = {}

\* When docker answers, a process that boots after a crash or an exit starts
\* to serve with no cell of the process before it left.
BootStartsClean ==
  [][phase = "booting" /\ phase' = "running" => Existing' = {}]_vars

\* Where each cell is in its life, as the pools and the requests see it.
Stage(c) ==
  IF cell[c].status = "absent" THEN "new"
  ELSE IF c \in Spawning THEN "spawning"
  ELSE IF \E p \in Pools : tunnel[p].cell = c /\ tunnel[p].state = "hot" THEN "hot"
  ELSE IF c \in Tracked THEN "draining"
  ELSE "retired"

Abstract == INSTANCE CellLifecycle
  WITH stage <- [c \in Cells |-> Stage(c)],
       home <- [c \in Cells |-> cell[c].pool]

\* The pools keep the promises of CellLifecycle: with all the interleavings of
\* requests, loops, DELETE handlers and shutdown, a cell is published at most
\* once, one per pool, and is never handed out again after it left the slot
\* or the hot state.
ImplementsLifecycle == Abstract!LifecycleSpec

-----------------------------------------------------------------------------
(***************************************************************************)
(* What the documentation promises and the code does not keep              *)
(***************************************************************************)

\* "The controller gateway separately keeps the exact cell in-flight until its
\* relayed SOCKS5 connection closes, so idle reap cannot cut an active stream"
\* (README of the package): the idle loop kills no cell with open connections.
IdleReapCutsNoStream ==
  [][killer["idle"].pc = "kill" /\ killer'["idle"].pc = "clear"
       => ActiveConns(killer["idle"].cell) = {}]_vars

-----------------------------------------------------------------------------
(***************************************************************************)
(* Liveness                                                                *)
(***************************************************************************)

\* Every step of a handler that has begun ends: spawns, kills and probes carry
\* a deadline, and sync.Mutex hands a waiter the lock in bounded time (its
\* starvation mode), whence strong fairness for Lock.
FairRequests ==
  \A r \in Requests :
    /\ SF_vars(Lock(r))
    /\ WF_vars(Fallback(r)) /\ WF_vars(Skip(r)) /\ WF_vars(Pick(r))
    /\ WF_vars(Create(r) \/ CreateFails(r))
    /\ WF_vars(Observe(r) \/ SpawnFails(r))
    /\ WF_vars(Publish(r)) /\ WF_vars(Issue(r) \/ IssueFails(r)) /\ WF_vars(Respond(r))

\* The orphan loop ticks for ever, its docker calls end, and time passes.
FairOrphans ==
  /\ WF_vars(OrphanKeep) /\ WF_vars(OrphanList) /\ WF_vars(OrphanKill)
  /\ \A c \in Cells : WF_vars(CellAges(c))

\* Every killer that has begun goes on to clear the slot.
FairKillers ==
  /\ WF_vars(IdleProbe) /\ WF_vars(HealthProbe)
  /\ \A k \in Killers : WF_vars(KillerStep(k))
  /\ \A d \in Destroyers : WF_vars(DestroyFind(d))

FairSpec == Spec /\ FairRequests /\ FairOrphans /\ FairKillers

\* Every request is answered, although requests of two pools that are each
\* other's fallback wait for each other's spawn mutex, and the lock is held
\* across docker calls.
RequestsComplete == \A r \in Requests : req[r].pc # "idle" ~> req[r].pc = "idle"

\* A container that no pool tracks and no request is spawning (the residue of a
\* replaced tunnel, of a failed cleanup or of a DELETE that raced a spawn) is
\* removed in the end.
OrphansCollected ==
  \A c \in Cells : c \in Existing \ (Tracked \cup Spawning) ~> c \notin Existing

=============================================================================
