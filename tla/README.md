# pr0xteus: TLA+ models, model checks and proofs

pr0xteus is a controller that hands out proxy URLs. Every *pool* has at most one
hot *cell* (a container with a WireGuard tunnel and a SOCKS5 proxy), spawned on
demand and reaped when idle, unhealthy or orphaned. Callers get short-lived
*leases*, and the controller relays their traffic to the cell of the lease. A Go
client library retries through the pool, a service manager starts and stops the
process.

## 1. Inventory

| Part | Source | State | What makes it hard | Module |
|---|---|---|---|---|
| pool state, manager | `pool.go`, `types.go` | tunnel slot and failure cache per pool, spawn mutex per pool | snapshots used after unlock, mutex held over docker calls, mutual fallback | `PoolState`, `CellPool` |
| spawner, docker | `spawner.go` | containers with label, age, state | calls that fail half-way, cells nobody tracks | `CellPool`, `OrphanReap` |
| idle and health loops | `reaper.go`, `cellstatus.go` | none of their own | check, probe, kill and clear are separate steps | `CellPool`, `HealthMonitor`, `CellHealth` |
| orphan loop, boot reap | `reaper.go`, `spawner.go`, `service.go` | keep-set | keep-set older than the list; restart | `CellPool`, `OrphanReap` |
| control API | `api.go`, `cells.go` | none of their own | DELETE beside a spawn | `CellPool` |
| leases | `lease.go` | records with expiry | the clock is read before the mutex; a lease outlives its cell | `LeaseRegistry`, `EgressClient`, `CellPool` (the cell of a lease) |
| HTTP and SOCKS5 gateways | `http_proxy_gateway.go`, `proxy_gateway.go` | hijacked set, reservations | Close beside hijacks, several closes of one connection | `HTTPGateway`, `ServiceRun`, `EgressClient`, `CellPool` |
| service | `service.go` | servers, reaper, error channel | Stop beside a Run that still starts, servers that fail | `ServiceRun` |
| cell proxy, recorder | `internal/pkg/cellproxy` | two servers, counters | one server fails and the other answers; closes and bytes from two goroutines, the cap on destinations | `CellProxy`, `CellHealth` |
| service manager | `service_manager.go` | start groups, error channel, stop-once | failures, retries, Stop during startup | `ServiceManager` |
| start order | `service_manager.go` | in-degrees | duplicates, unknown names, cycles | `StartOrder` |
| application, runner | `app.go`, `runner.go` | cancel function, wait group | signal before the launch, deadline | `AppRunner` |
| egress client | `pkg/client` | attempt, last proxy, body | cancellation, rewinding, exclusion | `EgressClient` |
| preflight | `preflight.go` | answers of two polls | liars, endpoints that are down, retry of errors | `Preflight` |
| routing, configuration | `config.go`, `pool.go`, `routing.go`, `bootstrap.go` | pools, router | two places validate the same files with other inputs | `PoolConfig` |
| config init | `bootstrap.go` | the operator's files | cut short at any write, run again, upgraded between | `Bootstrap` |

Section 5 says what is not modelled. `PROJECT.json` lists every part with its
reason, and every hazard at its line.

## 2. Modules

- **`PoolState`**: the record of a slot and the pure operators on it (acquire,
  release, last URL, candidates).
- **`CellPool`**: the controller. One action is one critical section or one
  docker call: a request goes through acquire, the mutex, the pick of a
  configuration, create, wait, publish, lease and respond; a connection dials,
  connects and hangs up; the idle loop, the health loop, DELETE and Close are
  *killers* that snapshot, probe, mark, kill and clear; the orphan loop takes its
  keep-set, lists and kills; the process stops, crashes and boots. Docker is
  modelled from the calls the spawner makes. Durations are flags: idle, old.
- **`CellLifecycle`**: the abstract specification. A cell is new, spawning, hot,
  draining, retired, in this order, one spawn and one tunnel per pool.
  `CellPool!ImplementsLifecycle` is the refinement, with `Stage` as the mapping.
- **`CellPoolInv`**: the inductive invariant. **`CellPoolFacts`** (operators,
  frames, counting), **`CellPoolRequests`** (one lemma per action of a request or a
  connection) and **`CellPoolProofs`** (the other actions, the theorems) prove it;
  **`CellPoolLifecycle`** proves the refinement and the clean boot.
- **`HealthMonitor`** and **`OrphanReap`**: the two places where the result depends
  on clocks, with clocks.
- **`CellProxy`**: the program inside a cell: `Run` with its two servers and their
  error channel, the recorder and the counting connections. **`CellHealth`**
  composes it with `HealthMonitor`: what the loop's probe sees is the control
  server of the program, and a cell that is killed takes its program along.
- **`LeaseRegistry`**: issue, lookup and pruning, each split at the mutex, since the
  clock is read before it is taken. **`EgressClient`** extends it: one call of the
  client, the controller's handler that resolves the excluded lease, acquires and
  issues, and the gateway that looks the lease up twice, while cells are reaped
  and addresses used again. The lease of an attempt is named by the attempt. Whether
  the policy waits between attempts is chosen at the start; whether it uses the
  fallback pool is a constant. A lease that cannot be issued is a 500, which the
  client retries.
- **`HTTPGateway`**: connections, the hijacked set and `Close`. Each of the two copies
  of a tunnel is reading one side or writing the other, and may stay there. A forwarded
  request leaves its cell connection to a goroutine of its transport, which may also
  end a dial the handler no longer waits for. **`ServiceRun`**
  extends it with the rest of the service: `Run` starts the reaper and four
  servers in order, `Stop` may overtake it, every server may fail.
- **`ServiceManager`**, composed by **`AppRunner`** with the application and the
  runner.
- **`StartOrder`** (Kahn's algorithm against the definition of an order),
  **`Preflight`** (a host has one public address, so both polls leaving by different
  ones, IPv4 and IPv6 say, is not covered), **`PoolConfig`** (what `config check` and
  `New` accept, and the router they build) and **`Bootstrap`** (`config init`, one action per file
  operation). The token that `config check` asks for is the one in `.env`, the token of
  `New` the one in the environment; the environment names the files that were checked.
  These run before or beside the service and share no state;
  **`Procedures`** lets a behaviour be one of them, so that a single run covers
  the four.
- The other proofs: **`AppRunnerProofs`** (manager, application, runner),
  **`EgressAndOrderProofs`** (leases, client, start order), **`ServiceProofs`** (gateway,
  service, and the procedures other than the start order) and **`CellProofs`** (the
  cell's program and its recorder, the health loop, the orphan loop). Each extends the
  modules it is about.
- `MC*` modules give the constants their small values.

Definitions named as mutants (`UnlockedLock`, `LeakyIssueFails` and so on) are
plausible errors of the definition they are next to; no specification uses them.
They show that a property can fail.

## 3. Runs

Passing runs (module in brackets):

| Run | Shows |
|---|---|
| Reservations (MCCellPool) | the inductive invariant; counts bounded by open reservations; last URL current; docker calls and probes failing |
| Fallback (MCCellPool) | one spawn per pool, and no path that leaves the spawn mutex locked; reservations return to their pool; every request is answered, two pools falling back to each other |
| Orphans (MCCellPool) | the orphan loop spares tracked and spawning cells and removes the others, beside replacements and a DELETE |
| Restart (MCCellPool) | crash or shutdown at any step; the next process serves from a clean start; refinement of `CellLifecycle` |
| CellHealth (CellHealth) | the counters of the recorder add up whoever closes first; a cell with a failed server, or that hangs, is found; a cell that answers, or is not listed, is reaped by its age only when the loop is late |
| OrphanReap (OrphanReap) | the grace period is sufficient |
| Startup (MCAppRunner) | channels, start and stop order, failure reporting; hooks run beside no service, except where a signal made Stop overtake the launch; failures and signals end the application |
| HTTPGateway (MCHTTPGateway) | one release per reservation; tunnels found by Close end, except where a write to the cell blocks for ever |
| ServiceRun (ServiceRun) | the ports are released although Stop may overtake the start; a server's failure ends Run; nobody blocks on the error channel; no reaper pass beside Manager.Close |
| EgressClient (EgressClient) | later attempts never return to the cell that failed, with expiring leases and addresses used again; no response leaks; a cancellation costs one allocation at most where the policy waits between attempts; a refused lease stays refused and a lease lives its TTL |
| Procedures (MCProcedures) | config init keeps what is the operator's and repairs the rest, cut short anywhere; what boots can route, what is checked boots; start order and cycles for all dependency lists of three services; a leak never passes the preflight |

`IdleReapCutsNoStream` (MCCellPool) refutes a sentence of the package's README:
idle reap can cut an active stream, because `reapIdle` decides on a snapshot and
kills later (`findings` in `PROJECT.json` has the quotation).

Other places where the code, as modelled, does less than a comment says. They
limit what the properties can state, and no run is about them:

- `release` is keyed by the pool, so a late release lowers the count of the tunnel
  that replaced its own; counts are bounded above by the reservations, not exact.
- `killTunnel` clears the slot last and without looking, so it can drop a newer
  tunnel, which the orphan loop then removes.
- A spawn in flight publishes after `Close` has visited its pool; the next boot
  removes the cell.
- An excluded configuration can return once its tunnel has left the slot.
- The health loop skips tunnels in the unhealthy state; only `MarkFailed` leaves a
  tunnel in it, and nothing but the tests calls that.
- A dead cell that docker no longer lists looks fresh while the ticks are frequent
  (`ReapedByAgeOnlyLate`).
- "OnPostStop registers a function that runs after all services stop" (`app.go:62`):
  when a signal comes before App.Run has launched the manager, App.Stop finds nothing
  to stop, its wait group counts nobody, and the hooks run before the services start or
  beside them, since App.Run still launches the manager. `HooksAfterServices` says
  what is left: without a signal, and whenever Stop comes after the launch, no service
  is alive once the hooks begin. Also, a cancelled startup launches the next group;
  `GroupsStartReady` allows for it.
- "Close stops accepting new proxy connections and closes any hijacked CONNECT tunnels
  so their cell reservations are released" (`http_proxy_gateway.go:87-88`): a CONNECT
  hijacked after the snapshot of `Close` is not closed by it. Nor does closing the
  client end a tunnel whose copy to the cell is inside a write the cell does not take
  while the copy from the cell has nothing to read: no deadline ends the write, and
  `relayConnect` closes nothing before a copy ends. `FoundTunnelsReleased` excludes
  just this case.
- "ctx cancel/deadline = caller wants to stop; never retry" (`retry.go:128`): the pool
  client turns a cancellation into a retryable error, and only the wait before the next
  attempt notices it. A policy with a zero (or, by its jitter, negative) backoff does
  not wait, so a cancelled call uses up its attempts; `CancelStops` is about the
  policies that wait. It takes for granted that a timer does not fire between its
  creation and the `select` that follows.
- Client: a body without `GetBody` is refused at the first attempt, although the
  comment of `Do` says that the second one fails; only attempt 5 may use the fallback pool;
  public-first mode has dialled directly when it reports `ErrEgressUnavailable`.
  An excluded lease that has expired is answered with 400, and every later attempt
  names the same lease, so the call ends without another request; `RotatesCell`
  holds, at that price.
- Service: a metrics server that Run builds after `stopMetrics` has looked is closed
  by nobody; `PortsReleased` is about the other three ports.
- `HealthCheckInterval` is not validated; a value that is not positive makes
  `time.NewTicker` panic. The models assume a positive one.
- `config check` does not know the default pool of the environment, so files that
  pass may fail to boot; `CheckedBoots` says that this is the only such case apart
  from an environment that is invalid by itself.
- Two spellings of one country fold into one key, and the order of a map iteration
  decides; `BootedServes` holds for either outcome.
- A file that `config init` was cut short in counts as the operator's afterwards and
  is preserved, `.env` with half a token included; only generated files and
  `.env.example` are repaired (`InitDelivers`).
- Preflight: the pool's 503 and a transport error are not retried, and with two
  endpoints both have to answer.

**Bounds.** Two cells per run are enough for a cell and its replacement, two
requests for a race on the mutex and on the slot, one connection for a stream
beside a reap, two configurations for an exclusion, two pools for mutual
fallback. Three services, two in the first group and one in the second, give a race
within a group and an order between groups. Three echo
endpoints give a majority beside a liar. Retries are bounded by the code's own
limits, clocks by the durations in the cfg. Five attempts reach every strategy of
the client; two cells and two addresses give a replacement and an address that is
used again, a TTL of one and a clock up to two an expiry within a call. Two
connections, two destinations and a cap of one give the overflow bucket beside
another one. `ServiceRun` has no connections, since
one makes it too large for TLC: the HTTPGateway run has them, and
`ServiceRunsGateway` carries the safety of the gateway over. It has
one loop, since the loops are alike. Three managed files are one of the operator's
and two generated ones, two tokens two complete inits. The setups of `PoolConfig`
take one pool in every right and wrong form beside a correct one, and one
environment for each refusal of `LoadConfig`. Symmetry is declared only in runs
without liveness. A docker list that fails at boot is part of the model and of
the proof; the runs only fail docker calls where nothing restarts. Deadlock is not checked where the system may stop.

**Fairness.** Goroutines that can run do, tickers fire, and a service returns
once its context is done, which is the contract of `Run`. A read or write of a
connection that this process has closed returns; nothing makes a peer send anything
or take what it is sent. Spawns, kills and
probes carry a deadline in the code; the list calls of the loops carry only the
service's context, so that docker answers them is an assumption. Strong fairness
is assumed for the spawn mutex (`sync.Mutex` hands it to a waiter in bounded
time), for a loop of the reaper to see its cancelled context (Go's `select` chooses
at random between that and a tick), and for docker's list: among the calls of
the health loop some succeed. The manager stops a service whose `Run` has
returned. Nothing forces a client to hang up, a signal to come, a service to become ready or a
deadline to pass.

## 4. Proofs

TLAPS proves what follows for all values of the constants that satisfy the
assumptions at the end. TLC checked every inductive invariant on the instances of
the runs before it was proved.

**The pools** (`CellPoolFacts`, `CellPoolRequests`, `CellPoolProofs`): `Spec => []IInv`,
and from it type correctness, `SpawnsExclusive`, `ReservationsBounded`,
`ReleasedWhereAcquired`, `OrphanSparesTracked` and `LastURLCurrent`. The properties
are not inductive: that a spawn is exclusive needs the owner of the mutex in every
step of the critical section, and that no path leaves the mutex locked needs the
converse, that an owner is in such a step and for that pool (`MutexOK`); that a count
is bounded needs to know which requests and connections hold which cell
(`RequestsOK`, `ConnsOK`, `SlotsOK`) and that a new cell is held by nobody
(`SpawningOK`); that the orphan loop spares what is tracked needs that every old cell
that is tracked when docker lists was tracked when the keep-set was taken
(`OrphanOK`). One lemma per action shows which parts it keeps.

**The life of the cells** (`CellPoolLifecycle`): `Spec => ImplementsLifecycle`, the
refinement of `CellLifecycle` under the mapping `Stage`. A lemma per action says that
it leaves every cell in its stage, or moves one cell by one stage while the others
stay; `IInv` supplies that the cell of a spawn is in no slot and a cell in at most
one. `BootStartsClean` is proved where docker removes what it is asked to remove
(`~KillsFail`; where it does not, the property is false): while the process boots,
the cells that exist are the ones still to be killed, or none are left (`BootOK`).

**Leases and the client** (`EgressAndOrderProofs`): `RefusalIsFinal` and `LivesItsTTL`
hold of the registry alone, for any users and TTL and an unbounded clock. The
first needs that what was refused had been issued and that ids are not issued
twice; the second that the reading of a call in progress is not ahead of the clock.
`ClientUsesRegistry` shows that the composition implements the registry's
specification, so both hold in it. Of a call, for any number of attempts:
`RotatesCell`, from an invariant that ties `lastProxy` to the lease of the last cell
used, through the steps of the handler that resolves it (`RotateOK`);
`NoLeakedResponse` (`OpenOK`); `CancelStops`, from where the call can be once it has
asked after the cancellation (`CancelOK`), for the policies that wait.

**Manager, application and runner** (`AppRunnerProofs`): `NoSendAfterClose`,
`AppNoSendAfterClose`, `StopsInReverse`, `GroupsStartReady`, `FailureReported` and
`HooksAfterServices`, for any services, groups, retries and callers of
Stop. The invariant says which goroutines can exist at each point of `Run` and
`App.Run` (`RunOK`), which services are launched (`LaunchedOK`), that one caller is
inside `stopOnce` (`OnceOK`), which groups it has stopped (`HaltOK`), and, as long as
no signal came, who holds the error (`ErrorOK`). `HooksOK` adds that hooks that waited
for the manager find it returned for good, and that only a signal lets them begin
before the launch.

**The start order** (also `EgressAndOrderProofs`): `OrderRespected` and `CyclesFound`,
for any finite set of services and any lists of dependencies, with repeated names,
names outside the process and services that list themselves. A count is the number of
entries of a list, so it is the cardinality of a set of pairs (`Entries`) and needs no
recursive sum. The invariant `OrderInv` says that the count of a service is the number
of its entries whose service has no group yet and that the queue is exactly the
services without a group whose count is zero (`CountOK`), that every service with a
group comes after its dependencies and right after the last of them (`PlacedOK`), and
what the loop left over when it ended (`OutcomeOK`). Of `CyclesFound` one direction is
short: along the dependencies of services that have groups the group falls, so a walk
does not come back (`NoCycleDown`). For the other, every service that is left has a
dependency that is left, so walks of any length exist (`WalksExist`), and one with
more steps than there are services meets a service twice (`CycleExists`). The two
inductions are over numbers, by a least counterexample (`LeastNumber`, from the
well-foundedness of the order on the naturals). `GroupsFit`: what the sort
returns is what `GroupsAssumption` asks of the groups the manager starts, so the
theorems about the manager apply to it.

**Gateway and service** (`ServiceProofs`): `ReleasedOnce` for any connections and
concurrent Close calls, from the state of the reservation at every point of a
handler (`ReservationOK`). `ServiceRunsGateway` shows that the service implements the
gateway's specification, so it holds there too. `SendersNeverBlock` counts the
errors in the channel by the servers that have ended and have nothing left to send
(`SendersOK`); `NoPassAfterClose` rests on `LoopsOK`.

**config init** (also `ServiceProofs`): `InitDelivers` and the action property
`OperatorKept`, for every list of files. The files it has passed are as asked for
(`PassedOK`), it overwrites only where it replaces or has created the file itself
(`PlaceOK`), and `.env` has no token before it is written (`EnvOK`).

**Configuration, preflight, procedures** (also `ServiceProofs`):

- `BootedServes` and `CheckedBoots` for every set of configurations: the pools and
  the router of a booted service are those its loaded configuration gives, and a
  verdict stands for the conditions it was computed from. `BootedPoolsFit`: these pools
  are what `PoolsAssumption` asks for, so the theorems about the pools apply to every
  configuration that boots.
- `LeakNeverPasses` for every finite set of echo endpoints of which at most one lies:
  two votes for one address include one of an endpoint that does not lie
  (`QuorumIsHonest`), so both polls that succeed found the host's address (`LeakInv`).
- `ProceduresApart`: the composition of the procedures implements `config init`, the
  configuration, the start order and the preflight check, so what is proved of each
  holds in it; `ProceduresCorrect` states it for all but the start order, whose
  theorems are in another module.

**The cell and the loops** (`CellProofs`):

- `CountsAgree` of the recorder, for any connections, destinations and cap.
  `ActiveAgree`, the part about active connections and the cap on destinations, needs
  that an open connection's bucket is there and that only the overflow bucket is past
  the cap (`BucketsOK`). That the totals are the sums over the buckets (`TotalsAreSums`)
  needs that a chunk in flight has a bucket to be counted in, although its connection
  may be closed by then (`ChunksOK`). A sum is the number of counted units (`Units`);
  a step changes one bucket, so the sum changes by what that bucket does, and a new
  bucket starts at zero.
- `ReapedByAgeOnlyLate` of the health loop for all durations, from
  `RenewedEveryTick`, which bounds the age of `HealthyAt` by the time since the last
  tick. `WatchedCell` shows that the loop beside the cell's program implements the loop
  alone (to the loop, the program serves, hangs or dies), so it holds there too.
- `SparesLiveCells` of the orphan loop, from `LatencyAssumption`: the time from the
  keep-set to the reading of the clock, plus the second docker rounds away, is less
  than the grace period. The code does not enforce it; `CellPool` relies on it in
  `CellAges`.

Assumptions on constants: pools, configurations and fallbacks are what
`LoadPoolSpecs` validates (`BootedPoolsFit`); requests and connections are finite and
distinct; start groups are disjoint and cover the services, as `topoSort`
makes them (`GroupsFit`); the services of a process are finitely many; the managed
files are a list that does not name `.env.example`; durations, caps and numbers of
attempts are natural numbers; `NamesAssumption` only fixes how the client's leases
and cells are named.

Every invariant and every action property of a passing run is stated by a theorem.
Only model-checked is liveness (`RequestsComplete`, `OrphansCollected`,
`BrokenCellReaped`, `FailureEndsApp`, `SignalEndsApp`, `FoundTunnelsReleased`,
`PortsReleased`, `FailureEndsRun`): fairness and ENABLED are out of the prover's
reach.

## 5. Not modelled

- The GET handlers, paging, the operator view, metrics and status snapshots:
  projections of state that the models have, which nothing reads back.
- The command line, the construction of transports and dialers, and the cell
  proxy's configuration: they pass values on.
- Text: YAML, environment and header parsing, templates, URLs, the checks of paths
  and names in `bootstrap.go`. Where a conversion matters (country codes, the
  address check) it is modelled by what it tells apart.
- Docker, the SOCKS5 library and `net/http` are external and modelled from their
  use. Container options, networks and images are arguments of calls.
- An edit of `.env` by the operator during an init is lost if it falls between the
  read and the rename; the code cannot notice it, and the model excludes it.
- Steps of `CellPool` that are merged or left out because the states they lead to are
  reached anyway: the two critical sections of `MarkFailed`; the keep-set of the orphan
  loop, which the code collects pool by pool; a create that docker carries out after
  its call has timed out (what a failed cleanup leaves); a list that fails in the
  orphan loop of a running service (a pass whose kills all fail). The last two need
  docker to fail (`KillsFail`), so the liveness of the orphan loop is without them.
- Mocks, generated registration and test infrastructure.
