-------------------------- MODULE CellPoolRequests --------------------------
(***************************************************************************)
(* Every step of a request handler and of a proxied connection keeps the   *)
(* parts of IInv that it can disturb; Frames takes care of the others.     *)
(***************************************************************************)
EXTENDS CellPoolFacts

\* Every leaf may use the assumptions; the provers have 30 seconds for it.
USE CellsAssumption, ConfsAssumption, PoolsAssumption, ActorsAssumption, SMTT(30), ZenonT(20), SMTT(29)

\* acquireFromState returns its error: the request leaves its critical section,
\* whatever became of the container it may have created.
LEMMA FailInv ==
  ASSUME IInv, NEW r \in Requests, InSpawn(r), Fail(r), CellKept,
         failed' \in [Pools -> SUBSET Confs], UNCHANGED <<tunnel, leases, held, conn, background>>
  PROVE  IInv'
<1> USE DEF IInv
<1>1. PICK q \in Request : /\ req' = [req EXCEPT ![r] = q]
                           /\ q.pc \in {"idle", "fallback"} /\ q.cell = NoCell
                           /\ q.pc = "fallback" => q.pool \in Pools
  <2>1. CASE req[r].fallback = NoPool
    <3>1. IdleReq \in Request /\ IdleReq.pc = "idle" /\ IdleReq.cell = NoCell
      BY DEF IdleReq, Request
    <3> QED BY ZenonT(30), <2>1, <3>1 DEF Fail
  <2>2. CASE req[r].fallback # NoPool
    <3> DEFINE q == [IdleReq EXCEPT !.pc = "fallback", !.pool = req[r].fallback,
                                    !.exclude = req[r].exclude]
    <3>1. q \in Request /\ q.pc = "fallback" /\ q.cell = NoCell /\ q.pool \in Pools
      BY ZenonT(30), <2>2 DEF IdleReq, Request, TypeOK
    <3>2. req' = [req EXCEPT ![r] = q]
      BY <2>2 DEF Fail
    <3> QED BY ZenonT(30), <3>1, <3>2
  <2> QED BY <2>1, <2>2
<1>2. req[r].pool \in Pools /\ spawnMu[req[r].pool] = r /\ req[r].pc \notin {"idle", "issue", "respond"}
  BY DEF InSpawn, RequestsOK, MutexOK
<1>3. spawnMu' = [spawnMu EXCEPT ![req[r].pool] = Nobody]
  BY DEF Fail
<1>4. TypeOK'
  BY <1>1, <1>2, <1>3 DEF TypeOK, CellKept, background
<1>5. RequestsOK'
  BY <1>1, <1>2 DEF RequestsOK, TypeOK
<1>6. CreatedOK'
  <2>1. \A c \in Cells : /\ cell'[c].pool = cell[c].pool /\ cell'[c].conf = cell[c].conf
                         /\ cell'[c].status = "absent" <=> cell[c].status = "absent"
    BY DEF CellKept
  <2>2. /\ \A s \in Requests : req'[s].cell \in Cells => req'[s].cell = req[s].cell
        /\ UNCHANGED <<tunnel, held, leases, orphan>>
    BY <1>1 DEF TypeOK, background
  <2>3. \A c \in orphan.victims \cup leases : c \in Cells
    BY DEF TypeOK, Orphan
  <2> QED BY <2>1, <2>2, <2>3 DEF CreatedOK
<1>7. KillersOK'
  BY DEF KillersOK, CellKept, background
<1>8. MutexOK'
  BY <1>1, <1>2, <1>3 DEF MutexOK, TypeOK, InSpawn, RequestsOK
<1>9. SpawningOK'
  BY <1>1 DEF SpawningOK, TypeOK, CellKept
<1>10. OrphanOK'
  BY <1>1 DEF OrphanOK, TypeOK, CellKept, CellInfo, background
<1>11. DownOK'
  BY <1>1, <1>2 DEF DownOK, background
<1>12. ReleasedWhereAcquired'
  BY <1>1, <1>2 DEF ReleasedWhereAcquired, RequestsOK, TypeOK, CellKept, Tunnel, Holders
<1>13. OrphanSparesTracked'
  BY <1>1 DEF OrphanSparesTracked, Tracked, Spawning, TypeOK, background
<1> QED
  BY <1>4, <1>5, <1>6, <1>7, <1>8, <1>9, <1>10, <1>11, <1>12, <1>13, Frames

\* acquire succeeds for a request that is about to acquire as q says.
LEMMA TakeInv ==
  ASSUME IInv, NEW r \in Requests, NEW q \in Request, q.pool \in Pools,
         req[r].pc \in {"idle", "fallback", "lock"},
         CanAcquire(tunnel[q.pool], q.exclude), Take(r, q),
         UNCHANGED <<failed, spawnMu, cell, leases, conn, background>>
  PROVE  IInv'
<1> USE DEF IInv
<1> DEFINE t == Acquired(tunnel[q.pool])
           a == Acquisition(q)
<1>1. /\ tunnel[q.pool] \in Tunnel /\ tunnel[q.pool].state = "hot"
      /\ tunnel[q.pool].cell \in Cells
  BY DEF TypeOK, SlotsOK, CanAcquire, Tunnel
<1>2. /\ t \in Tunnel /\ t.cell = tunnel[q.pool].cell /\ t.state = "hot"
      /\ t.inFlight = tunnel[q.pool].inFlight + 1
  BY <1>1, AcquiredFacts
<1>3. a \in Request /\ a.pc = "issue" /\ a.pool = q.pool /\ a.cell = NoCell
  BY ZenonT(30) DEF Acquisition, IdleReq, Request
<1>4. /\ tunnel' = [tunnel EXCEPT ![q.pool] = t]
      /\ held' = [held EXCEPT ![r] = t.cell]
      /\ req' = [req EXCEPT ![r] = a]
  BY <1>2 DEF Take
<1>5. held[r] = NoCell /\ req[r].cell = NoCell /\ r \in Holders /\ r \notin Conns
  BY DEF TypeOK, RequestsOK, Holders, Request
<1> HIDE DEF t, a
<1>6. TypeOK'
  BY ZenonT(30), <1>1, <1>2, <1>3, <1>4, <1>5 DEF TypeOK, background
<1>7. RequestsOK'
  BY ZenonT(30), <1>1, <1>2, <1>3, <1>4, <1>5 DEF RequestsOK, TypeOK, Holders
<1>8. ConnsOK'
  BY <1>4, <1>5 DEF ConnsOK, TypeOK, Holders
<1>9. SlotsOK'
  BY ZenonT(30), <1>1, <1>2, <1>4 DEF SlotsOK, TypeOK
<1>10. CreatedOK'
  BY ZenonT(30), <1>1, <1>2, <1>3, <1>4 DEF CreatedOK, TypeOK, background
<1>11. MutexOK'
  <2>1. \A s \in Requests : req'[s] = IF s = r THEN a ELSE req[s]
    BY <1>4 DEF TypeOK
  <2>2. ~InSpawn(r) /\ ~InSpawn(r)' /\ \A s \in Requests : InSpawn(s)' => InSpawn(s)
    BY <1>3, <2>1 DEF InSpawn
  <2> QED
    BY <2>1, <2>2 DEF MutexOK, TypeOK, InSpawn
<1>12. SpawningOK'
  BY <1>1, <1>2, <1>3, <1>4 DEF SpawningOK, TypeOK
<1>13. OrphanOK'
  BY ZenonT(30), <1>1, <1>2, <1>3, <1>4 DEF OrphanOK, TypeOK, background
<1>14. DownOK'
  BY ZenonT(30), <1>1, <1>4 DEF DownOK, background
<1>15. ReleasedWhereAcquired'
  BY <1>1, <1>2, <1>3, <1>4 DEF ReleasedWhereAcquired, TypeOK, Holders
<1>16. ReservationsBounded'
  BY ZenonT(30), <1>1, <1>2, <1>4, <1>5, BoundedOpen
<1>17. OrphanSparesTracked'
  BY <1>1, <1>2, <1>3, <1>4 DEF OrphanSparesTracked, Tracked, Spawning, TypeOK, background
<1> QED
  BY ZenonT(30), <1>6, <1>7, <1>8, <1>9, <1>10, <1>11, <1>12, <1>13, <1>14, <1>15, <1>16, <1>17,
     Frames DEF background

\* acquire fails for such a request: it goes on to wait for the spawn mutex.
LEMMA QueueInv ==
  ASSUME IInv, NEW r \in Requests, NEW q \in Request, q.pool \in Pools, q.cell = NoCell,
         req[r].pc \in {"idle", "fallback"}, phase \notin {"down", "booting"},
         req' = [req EXCEPT ![r] = [q EXCEPT !.pc = "lock"]],
         UNCHANGED <<tunnel, held, failed, spawnMu, cell, leases, conn, background>>
  PROVE  IInv'
<1> USE DEF IInv
<1> DEFINE n == [q EXCEPT !.pc = "lock"]
<1>1. n \in Request /\ n.pc = "lock" /\ n.pool = q.pool /\ n.cell = NoCell
  BY DEF Request
<1>2. req' = [req EXCEPT ![r] = n]
  OBVIOUS
<1> HIDE DEF n
<1>3. TypeOK'
  BY <1>1, <1>2 DEF TypeOK, background
<1>4. RequestsOK'
  BY <1>1, <1>2 DEF RequestsOK, TypeOK
<1>5. CreatedOK'
  BY <1>1, <1>2 DEF CreatedOK, TypeOK, background
<1>6. MutexOK'
  BY <1>1, <1>2 DEF MutexOK, TypeOK, InSpawn
<1>7. SpawningOK'
  BY <1>1, <1>2 DEF SpawningOK, TypeOK
<1>8. OrphanOK'
  BY <1>1, <1>2 DEF OrphanOK, TypeOK, background
<1>9. DownOK'
  BY DEF DownOK, background
<1>10. ReleasedWhereAcquired'
  BY <1>1, <1>2 DEF ReleasedWhereAcquired, RequestsOK, TypeOK, Holders
<1>11. OrphanSparesTracked'
  BY <1>1, <1>2 DEF OrphanSparesTracked, Tracked, Spawning, TypeOK, background
<1> QED
  BY ZenonT(30), <1>3, <1>4, <1>5, <1>6, <1>7, <1>8, <1>9, <1>10, <1>11, Frames DEF background

\* acquireFromState before the mutex: the hot tunnel, or the queue.
LEMMA TryAcquireInv ==
  ASSUME IInv, NEW r \in Requests, NEW q \in Request, q.pool \in Pools, q.cell = NoCell,
         req[r].pc \in {"idle", "fallback"}, phase \notin {"down", "booting"},
         TryAcquire(r, q), UNCHANGED <<failed, spawnMu, cell, leases, conn, background>>
  PROVE  IInv'
<1>1. CASE CanAcquire(tunnel[q.pool], q.exclude) /\ Take(r, q)
  BY <1>1, TakeInv
<1>2. CASE /\ req' = [req EXCEPT ![r] = [q EXCEPT !.pc = "lock"]]
           /\ UNCHANGED <<tunnel, held>>
  BY ZenonT(30), <1>2, QueueInv DEF IInv, background
<1> QED BY <1>1, <1>2 DEF TryAcquire

\* A new request starts to acquire.
LEMMA StartInv ==
  ASSUME IInv, NEW r \in Requests, Start(r)
  PROVE  IInv'
<1>1. PICK p \in Pools : \E f \in {NoPool, FallbackPool[p]},
                            x \in {NoCell} \cup {c \in leases : Excludes} :
        TryAcquire(r, [IdleReq EXCEPT !.pool = p, !.fallback = f, !.exclude = x])
  BY ZenonT(30) DEF Start
<1>2. PICK f \in {NoPool, FallbackPool[p]},
           x \in {NoCell} \cup {c \in leases : Excludes} :
        TryAcquire(r, [IdleReq EXCEPT !.pool = p, !.fallback = f, !.exclude = x])
  BY ZenonT(30), <1>1
<1> DEFINE q == [IdleReq EXCEPT !.pool = p, !.fallback = f, !.exclude = x]
<1>3. q \in Request /\ q.pool \in Pools /\ q.cell = NoCell
  BY ZenonT(30) DEF IdleReq, Request, IInv, TypeOK
<1> HIDE DEF q
<1> QED BY ZenonT(30), <1>2, <1>3, TryAcquireInv DEF q, Start, Up

\* The request goes on to its fallback pool.
LEMMA FallbackInv ==
  ASSUME IInv, NEW r \in Requests, Fallback(r)
  PROVE  IInv'
<1>1. req[r] \in Request /\ req[r].pool \in Pools /\ req[r].cell = NoCell
  BY DEF Fallback, IInv, TypeOK, RequestsOK, Request
<1>2. phase \notin {"down", "booting"}
  BY DEF Fallback, IInv, DownOK
<1> QED BY <1>1, <1>2, TryAcquireInv DEF Fallback

\* The request takes the spawn mutex, and re-checks the slot.
LEMMA LockInv ==
  ASSUME IInv, NEW r \in Requests, Lock(r)
  PROVE  IInv'
<1> USE DEF IInv
<1> DEFINE q == req[r]
           n == IF q.exclude = NoCell THEN "pick" ELSE "skip"
<1>1. q \in Request /\ q.pc = "lock" /\ q.pool \in Pools /\ q.cell = NoCell
  BY DEF Lock, TypeOK, RequestsOK, Request
<1>2. CASE CanAcquire(tunnel[q.pool], q.exclude) /\ Take(r, q) /\ UNCHANGED spawnMu
  BY <1>1, <1>2, TakeInv DEF Lock
<1>3. CASE /\ spawnMu' = [spawnMu EXCEPT ![q.pool] = r]
           /\ req' = [req EXCEPT ![r].pc = n]
           /\ UNCHANGED <<tunnel, held>>
  <2>1. PICK m \in Request : /\ req' = [req EXCEPT ![r] = m] /\ m.pc \in {"pick", "skip"}
                             /\ m.pool = q.pool /\ m.cell = NoCell
                             /\ m.pc = "skip" => m.exclude \in Cells
    <3> DEFINE m == [q EXCEPT !.pc = n]
    <3>1. /\ m \in Request /\ m.pc \in {"pick", "skip"} /\ m.pool = q.pool /\ m.cell = NoCell
          /\ m.pc = "skip" => m.exclude \in Cells
      BY <1>1 DEF Request
    <3>2. req' = [req EXCEPT ![r] = m]
      BY <1>3
    <3> QED BY ZenonT(30), <3>1, <3>2
  <2>2. UNCHANGED <<failed, cell, leases, conn, background>>
    BY DEF Lock
  <2>3. spawnMu[q.pool] = Nobody
    BY DEF Lock
  <2>4. TypeOK'
    BY <1>1, <1>3, <2>1, <2>2 DEF TypeOK, background
  <2>5. RequestsOK'
    BY ZenonT(30), <1>1, <1>3, <2>1 DEF RequestsOK, TypeOK
  <2>6. CreatedOK'
    BY <1>3, <2>1, <2>2 DEF CreatedOK, TypeOK, background
  <2>7. MutexOK'
    BY <1>1, <1>3, <2>1, <2>3 DEF MutexOK, TypeOK, InSpawn, RequestsOK
  <2>8. SpawningOK'
    BY <1>3, <2>1, <2>2 DEF SpawningOK, TypeOK
  <2>9. OrphanOK'
    BY ZenonT(30), <1>3, <2>1, <2>2 DEF OrphanOK, TypeOK, background
  <2>10. DownOK'
    BY <1>1, <2>2 DEF DownOK, background
  <2>11. ReleasedWhereAcquired'
    BY ZenonT(30), <1>1, <1>3, <2>1, <2>2 DEF ReleasedWhereAcquired, TypeOK, Holders
  <2>12. OrphanSparesTracked'
    BY <1>3, <2>1, <2>2 DEF OrphanSparesTracked, Tracked, Spawning, TypeOK, background
  <2> QED
    BY ZenonT(30), <1>3, <2>2, <2>4, <2>5, <2>6, <2>7, <2>8, <2>9, <2>10, <2>11, <2>12, Frames
       DEF background
<1> QED BY <1>2, <1>3 DEF Lock

\* pickConf chooses a candidate, or the request fails.
LEMMA PickInv ==
  ASSUME IInv, NEW r \in Requests, Pick(r)
  PROVE  IInv'
<1> USE DEF IInv
<1>1. InSpawn(r) /\ req[r].pc = "pick"
  BY DEF Pick, InSpawn
<1>2. CASE Fail(r)
  <2>1. CellKept /\ failed' \in [Pools -> SUBSET Confs]
    BY DEF Pick, CellKept, TypeOK
  <2> QED BY <1>1, <1>2, <2>1, FailInv DEF Pick
<1>3. CASE /\ \E conf \in Candidates(Configs[req[r].pool], failed[req[r].pool], req[r].skip) :
                req' = [req EXCEPT ![r].pc = "create", ![r].conf = conf]
           /\ UNCHANGED spawnMu
  <2>1. PICK q \in Request : /\ req' = [req EXCEPT ![r] = q] /\ q.pc = "create"
                             /\ q.pool = req[r].pool /\ q.cell = NoCell /\ q.conf \in Confs
    <3>1. PICK conf \in Confs : req' = [req EXCEPT ![r].pc = "create", ![r].conf = conf]
      BY ZenonT(30), <1>1, <1>3 DEF Candidates, RequestsOK
    <3> DEFINE m == [req[r] EXCEPT !.pc = "create"]
               q == [m EXCEPT !.conf = conf]
    <3>2. m \in Request /\ m.pc = "create" /\ m.pool = req[r].pool /\ m.cell = NoCell
      BY <1>1 DEF TypeOK, RequestsOK, Request
    <3>3. req' = [req EXCEPT ![r] = q]
      BY ZenonT(30), <3>1 DEF TypeOK, Request
    <3> HIDE DEF m
    <3>4. /\ q \in Request /\ q.pc = "create" /\ q.pool = req[r].pool
          /\ q.cell = NoCell /\ q.conf \in Confs
      BY <3>2 DEF Request
    <3> QED BY ZenonT(30), <3>3, <3>4
  <2>2. UNCHANGED <<tunnel, failed, spawnMu, cell, leases, held, conn, background>>
    BY ZenonT(30), <1>3 DEF Pick
  <2>3. TypeOK'
    BY ZenonT(30), <2>1, <2>2 DEF TypeOK, background
  <2>4. RequestsOK'
    BY ZenonT(30), <1>1, <2>1, <2>2 DEF RequestsOK, TypeOK
  <2>5. CreatedOK'
    BY ZenonT(30), <2>1, <2>2 DEF CreatedOK, TypeOK, background
  <2>6. MutexOK'
    BY <1>1, <2>1, <2>2 DEF MutexOK, TypeOK, InSpawn
  <2>7. SpawningOK'
    BY ZenonT(30), <2>1, <2>2 DEF SpawningOK, TypeOK
  <2>8. OrphanOK'
    BY <2>1, <2>2 DEF OrphanOK, TypeOK, background
  <2>9. DownOK'
    BY ZenonT(30), <1>1, <2>2 DEF DownOK, background
  <2>10. ReleasedWhereAcquired'
    BY ZenonT(30), <1>1, <2>1, <2>2 DEF ReleasedWhereAcquired, RequestsOK, TypeOK, Holders
  <2>11. OrphanSparesTracked'
    <3>1. Tracked' = Tracked /\ orphan' = orphan
      BY <2>2 DEF Tracked, background
    <3>2. Spawning' \subseteq Spawning
      BY <2>1 DEF Spawning, TypeOK
    <3> QED BY <3>1, <3>2 DEF OrphanSparesTracked
  <2> QED
    BY ZenonT(30), <2>2, <2>3, <2>4, <2>5, <2>6, <2>7, <2>8, <2>9, <2>10, <2>11, Frames DEF background
<1> QED BY <1>2, <1>3 DEF Pick

\* The create call fails, with nothing created.
LEMMA CreateFailsInv ==
  ASSUME IInv, NEW r \in Requests, CreateFails(r)
  PROVE  IInv'
<1>1. InSpawn(r)
  BY ZenonT(30) DEF CreateFails, InSpawn
<1>2. CellKept /\ failed' \in [Pools -> SUBSET Confs]
  BY DEF CreateFails, RecordSpawnFailure, CellKept, IInv, TypeOK, RequestsOK
<1> QED BY <1>1, <1>2, FailInv DEF CreateFails, RecordSpawnFailure

\* The spawn fails, and its container is killed or left to the orphan loop.
LEMMA SpawnFailsInv ==
  ASSUME IInv, NEW r \in Requests, SpawnFails(r)
  PROVE  IInv'
<1>1. InSpawn(r)
  BY ZenonT(30) DEF SpawnFails, InSpawn
<1>2. CellKept
  BY ZenonT(30), KillCellFacts DEF SpawnFails, IInv, RequestsOK, CreatedOK
<1>3. failed' \in [Pools -> SUBSET Confs]
  BY DEF SpawnFails, RecordSpawnFailure, IInv, TypeOK, RequestsOK
<1> QED BY <1>1, <1>2, <1>3, FailInv DEF SpawnFails, RecordSpawnFailure

\* The handler of a request gives its reservation back and ends, with a lease
\* or with an error.
LEMMA AnswerInv ==
  ASSUME IInv, NEW r \in Requests, req[r].pc \in {"issue", "respond"},
         Release(r, req[r].pool), req' = [req EXCEPT ![r] = IdleReq],
         UNCHANGED <<failed, spawnMu, cell, leases, conn, background>>
  PROVE  IInv'
<1> USE DEF IInv
<1>1. /\ held[r] \in Cells /\ req[r].pool \in Pools /\ r \in Holders
      /\ cell[held[r]].pool = req[r].pool
  BY ZenonT(30) DEF RequestsOK, ReleasedWhereAcquired, Holders
<1>2. /\ TunnelsKept
      /\ held' \in [Holders -> Cells \cup {NoCell}] /\ held'[r] = NoCell
      /\ \A b \in Holders : b # r => held'[b] = held[b]
  BY ZenonT(30), <1>1, ReleaseFacts
<1>3. /\ req' \in [Requests -> Request] /\ req'[r] = IdleReq
      /\ \A s \in Requests : s # r => req'[s] = req[s]
      /\ IdleReq.pc = "idle" /\ IdleReq.cell = NoCell
  BY DEF TypeOK, IdleReq, Request
<1>4. ReservationsBounded'
  BY ZenonT(30), <1>1, BoundedClose
<1>5. TypeOK'
  BY ZenonT(30), <1>2, <1>3 DEF TypeOK, TunnelsKept, background
<1>6. RequestsOK'
  BY ZenonT(30), <1>2, <1>3 DEF RequestsOK, Holders
<1>7. ConnsOK'
  BY ZenonT(30), <1>2 DEF ConnsOK, Holders
<1>8. MutexOK'
  BY <1>3 DEF MutexOK, InSpawn
<1>9. DownOK'
  BY ZenonT(30), <1>2, <1>3 DEF DownOK, TunnelsKept, background
<1>10. /\ SlotsOK' /\ CreatedOK' /\ SpawningOK' /\ OrphanOK' /\ OrphanSparesTracked'
       /\ \A p \in Pools : tunnel'[p].cell # NoCell => cell'[tunnel'[p].cell].pool = p
  BY ZenonT(30), <1>2, <1>3, TunnelsKeptFrames DEF background
<1>11. ReleasedWhereAcquired'
  BY <1>2, <1>3, <1>10 DEF ReleasedWhereAcquired, Holders
<1> QED
  BY ZenonT(30), <1>4, <1>5, <1>6, <1>7, <1>8, <1>9, <1>10, <1>11, Frames DEF background

\* The error path of the lease gives the reservation back.
LEMMA IssueFailsInv ==
  ASSUME IInv, NEW r \in Requests, IssueFails(r)
  PROVE  IInv'
BY ZenonT(30), AnswerInv DEF IssueFails

\* The deferred release gives the reservation back.
LEMMA RespondInv ==
  ASSUME IInv, NEW r \in Requests, Respond(r)
  PROVE  IInv'
BY ZenonT(30), AnswerInv DEF Respond

\* A connection reserves a cell, or gives its reservation back.
LEMMA ConnInv ==
  ASSUME IInv, NEW k \in Conns, TunnelsKept, ReservationsBounded',
         NEW s \in {"idle", "dialing", "open"}, conn' = [conn EXCEPT ![k] = s],
         held' \in [Holders -> Cells \cup {NoCell}],
         s = "idle" <=> held'[k] = NoCell,
         held'[k] = NoCell \/ \E p \in Pools : held'[k] = tunnel[p].cell,
         \A b \in Holders : b # k => held'[b] = held[b],
         UNCHANGED <<failed, spawnMu, cell, leases, req, background>>
  PROVE  IInv'
<1> USE DEF IInv
<1>1. TypeOK'
  BY DEF TypeOK, TunnelsKept, background
<1>2. \A r \in Requests : r \in Holders /\ held'[r] = held[r]
  BY DEF Holders
<1>3. RequestsOK'
  BY <1>2 DEF RequestsOK
<1>4. ConnsOK'
  BY ZenonT(30) DEF ConnsOK, Holders, TypeOK
<1>5. DownOK'
  BY ZenonT(30) DEF DownOK, TunnelsKept, background
<1>6. /\ SlotsOK' /\ CreatedOK' /\ SpawningOK' /\ OrphanOK' /\ OrphanSparesTracked'
      /\ \A p \in Pools : tunnel'[p].cell # NoCell => cell'[tunnel'[p].cell].pool = p
  BY ZenonT(30), <1>1, TunnelsKeptFrames DEF TypeOK, background
<1>7. ReleasedWhereAcquired'
  BY <1>2, <1>6 DEF ReleasedWhereAcquired
<1> QED
  BY ZenonT(30), <1>1, <1>3, <1>4, <1>5, <1>6, <1>7, Frames DEF background

\* The end of a connection gives its reservation back.
LEMMA HangupInv ==
  ASSUME IInv, NEW k \in Conns, Hangup(k)
  PROVE  IInv'
<1> USE DEF IInv
<1>1. held[k] \in Cells /\ k \in Holders /\ cell[held[k]].pool \in Pools
  BY DEF Hangup, ConnsOK, CreatedOK, Holders
<1>2. Release(k, cell[held[k]].pool) /\ conn' = [conn EXCEPT ![k] = "idle"]
  BY DEF Hangup
<1>3. /\ TunnelsKept
      /\ held' \in [Holders -> Cells \cup {NoCell}] /\ held'[k] = NoCell
      /\ \A b \in Holders : b # k => held'[b] = held[b]
  BY <1>1, <1>2, ReleaseFacts
<1>4. ReservationsBounded'
  BY <1>1, <1>2, BoundedClose
<1>5. UNCHANGED <<failed, spawnMu, cell, leases, req, background>>
  BY DEF Hangup
<1> HIDE DEF IInv
<1> QED BY ZenonT(30), <1>2, <1>3, <1>4, <1>5, ConnInv

\* AcquireForLease reserves exactly the leased cell.
LEMMA DialInv ==
  ASSUME IInv, NEW k \in Conns, Dial(k)
  PROVE  IInv'
<1> USE DEF IInv
<1>1. PICK c \in leases :
        /\ CanAcquireContainer(tunnel[cell[c].pool], c)
        /\ tunnel' = [tunnel EXCEPT ![cell[c].pool] = Acquired(tunnel[cell[c].pool])]
        /\ held' = [held EXCEPT ![k] = tunnel[cell[c].pool].cell]
        /\ conn' = [conn EXCEPT ![k] = "dialing"]
  BY ZenonT(30) DEF Dial
<1>2. cell[c].pool \in Pools /\ c \in Cells
  BY ZenonT(30) DEF TypeOK, CreatedOK
<1> DEFINE p == cell[c].pool
           t == Acquired(tunnel[p])
<1>3. tunnel[p] \in Tunnel /\ tunnel[p].cell \in Cells
  BY ZenonT(30), <1>1, <1>2 DEF TypeOK, CanAcquireContainer
<1>4. /\ t \in Tunnel /\ t.cell = tunnel[p].cell /\ t.state = tunnel[p].state
      /\ t.inFlight = tunnel[p].inFlight + 1
  BY <1>3, AcquiredFacts
<1>5. tunnel' = [tunnel EXCEPT ![p] = t] /\ held' = [held EXCEPT ![k] = t.cell]
  BY ZenonT(30), <1>1, <1>4
<1>6. held[k] = NoCell /\ k \in Holders
  BY DEF Dial, ConnsOK, TypeOK, Holders
<1>7. p \in Pools
  BY <1>2
<1>8. UNCHANGED <<failed, spawnMu, cell, leases, req, background>>
  BY DEF Dial
<1> HIDE DEF p, t
<1>9. ReservationsBounded'
  BY ZenonT(30), <1>3, <1>4, <1>5, <1>6, <1>7, BoundedOpen
<1>10. TunnelsKept
  BY ZenonT(30), <1>3, <1>4, <1>5, <1>7 DEF TypeOK, TunnelsKept
<1>11. /\ held' \in [Holders -> Cells \cup {NoCell}] /\ held'[k] = tunnel[p].cell
       /\ held'[k] # NoCell /\ \A b \in Holders : b # k => held'[b] = held[b]
  BY ZenonT(30), <1>3, <1>4, <1>5, <1>6 DEF TypeOK
<1> HIDE DEF IInv
<1> QED BY ZenonT(30), <1>1, <1>7, <1>8, <1>9, <1>10, <1>11, ConnInv

\* excludeConfsFor reads the slot and the excluded cell, and changes neither.
LEMMA SkipInv ==
  ASSUME IInv, NEW r \in Requests, Skip(r)
  PROVE  IInv'
<1> USE DEF IInv
<1>1. TypeOK'
  <2> DEFINE x == ExcludedConf(tunnel[req[r].pool], req[r].exclude, cell[req[r].exclude].conf)
             m == [req[r] EXCEPT !.pc = "pick"]
             q == [m EXCEPT !.skip = x]
  <2>1. x \in Confs \cup {NoConf}
    BY DEF Skip, ExcludedConf, TypeOK, RequestsOK, CellInfo
  <2>2. m \in Request
    BY DEF TypeOK, Request
  <2>3. req' = [req EXCEPT ![r] = q]
    BY ZenonT(30) DEF Skip, TypeOK, Request
  <2> HIDE DEF x, m
  <2>4. q \in Request
    BY <2>1, <2>2 DEF Request
  <2>5. UNCHANGED <<tunnel, failed, spawnMu, cell, leases, held, conn, background>>
    BY DEF Skip
  <2> QED BY <2>3, <2>4, <2>5 DEF TypeOK, background
<1>2. RequestsOK'
  BY DEF Skip, RequestsOK, TypeOK, ExcludedConf, background
<1>3. CreatedOK'
  BY DEF Skip, CreatedOK, TypeOK, ExcludedConf, background
<1>4. MutexOK'
  BY DEF Skip, MutexOK, TypeOK, ExcludedConf, InSpawn, background
<1>5. SpawningOK'
  BY DEF Skip, SpawningOK, TypeOK, ExcludedConf, InSpawn, background
<1>6. OrphanOK'
  BY DEF Skip, OrphanOK, TypeOK, ExcludedConf, background
<1>7. DownOK'
  BY DEF Skip, DownOK, TypeOK, ExcludedConf, background
<1>8. ReleasedWhereAcquired'
  BY DEF Skip, ReleasedWhereAcquired, TypeOK, ExcludedConf, background
<1>9. OrphanSparesTracked'
  BY DEF Skip, OrphanSparesTracked, TypeOK, ExcludedConf, Tracked, Spawning,
     background
<1> QED
  BY ZenonT(30), <1>1, <1>2, <1>3, <1>4, <1>5, <1>6, <1>7, <1>8, <1>9, Frames DEF Skip,
     background

\* A new container belongs to the request that created it and to nobody else.
LEMMA CreateInv ==
  ASSUME IInv, NEW r \in Requests, Create(r)
  PROVE  IInv'
<1> USE DEF IInv
<1>1. TypeOK'
  BY DEF Create, TypeOK, RequestsOK, NewCell, Holders, Request, background
<1>2. RequestsOK'
  BY DEF Create, RequestsOK, TypeOK, NewCell, background
<1>3. CreatedOK'
  BY DEF Create, CreatedOK, TypeOK, NewCell, Request, background
<1>4. KillersOK'
  BY DEF Create, KillersOK, TypeOK, NewCell, background
<1>5. MutexOK'
  BY DEF Create, MutexOK, TypeOK, NewCell, InSpawn, background
<1>6. SpawningOK'
  BY DEF Create, SpawningOK, TypeOK, NewCell, InSpawn, Request, background
<1>7. OrphanOK'
  BY DEF Create, OrphanOK, TypeOK, NewCell, background
<1>8. DownOK'
  BY DEF Create, DownOK, TypeOK, NewCell, background
<1>9. ReleasedWhereAcquired'
  BY DEF Create, ReleasedWhereAcquired, SpawningOK, TypeOK, NewCell, Request,
     background
<1>10. OrphanSparesTracked'
  BY DEF Create, OrphanSparesTracked, TypeOK, NewCell, Tracked, Spawning,
     Request, background
<1> QED
  BY ZenonT(30), <1>1, <1>2, <1>3, <1>4, <1>5, <1>6, <1>7, <1>8, <1>9, <1>10, Frames DEF
     Create, background

\* waitReady's probe changes nothing but the request.
LEMMA ObserveInv ==
  ASSUME IInv, NEW r \in Requests, Observe(r)
  PROVE  IInv'
<1> USE DEF IInv
<1>1. TypeOK'
  BY DEF Observe, TypeOK, RequestsOK, KillersOK, ConnsOK, Holders, Killers,
     Request, background
<1>2. RequestsOK'
  BY DEF Observe, RequestsOK, TypeOK, background
<1>3. CreatedOK'
  BY DEF Observe, CreatedOK, TypeOK, background
<1>4. MutexOK'
  BY DEF Observe, MutexOK, TypeOK, InSpawn, background
<1>5. SpawningOK'
  BY DEF Observe, SpawningOK, TypeOK, InSpawn, background
<1>6. OrphanOK'
  BY DEF Observe, OrphanOK, TypeOK, background
<1>7. DownOK'
  BY DEF Observe, DownOK, TypeOK, background
<1>8. ReleasedWhereAcquired'
  BY DEF Observe, ReleasedWhereAcquired, TypeOK, background
<1>9. OrphanSparesTracked'
  BY DEF Observe, OrphanSparesTracked, TypeOK, Tracked, Spawning, background
<1> QED
  BY ZenonT(30), <1>1, <1>2, <1>3, <1>4, <1>5, <1>6, <1>7, <1>8, <1>9, Frames DEF Observe,
     background

\* The new tunnel, over whatever the slot held, counts its spawner's reservation.
LEMMA PublishInv ==
  ASSUME IInv, NEW r \in Requests, Publish(r)
  PROVE  IInv'
<1> USE DEF IInv
<1>1. TypeOK'
  BY ZenonT(30), HotTunnelFacts DEF Publish, TypeOK, RequestsOK, KillersOK, ConnsOK,
     Acquisition, IdleReq, Holders, Killers, Request, background
<1>2. RequestsOK'
  BY HotTunnelFacts DEF Publish, RequestsOK, TypeOK, Acquisition, IdleReq,
     Holders, background
<1>3. ConnsOK'
  BY HotTunnelFacts DEF Publish, ConnsOK, TypeOK, Acquisition, IdleReq,
     background
<1>4. SlotsOK'
  BY HotTunnelFacts DEF Publish, SlotsOK, RequestsOK, TypeOK, Acquisition,
     IdleReq, background
<1>5. CreatedOK'
  BY HotTunnelFacts DEF Publish, CreatedOK, RequestsOK, TypeOK, Acquisition,
     IdleReq, Request, background
<1>6. MutexOK'
  BY HotTunnelFacts DEF Publish, MutexOK, TypeOK, Acquisition, IdleReq,
     InSpawn, background
<1>7. SpawningOK'
  BY HotTunnelFacts DEF Publish, SpawningOK, RequestsOK, TypeOK, Acquisition,
     IdleReq, InSpawn, background
<1>8. OrphanOK'
  BY HotTunnelFacts DEF Publish, OrphanOK, RequestsOK, TypeOK, Acquisition,
     IdleReq, background
<1>9. DownOK'
  BY ZenonT(30), HotTunnelFacts DEF Publish, DownOK, TypeOK, Acquisition, IdleReq,
     background
<1>10. ReleasedWhereAcquired'
  BY HotTunnelFacts DEF Publish, ReleasedWhereAcquired, SpawningOK, RequestsOK,
     CreatedOK, SlotsOK, TypeOK, Acquisition, IdleReq, background
<1>11. ReservationsBounded'
  <2> DEFINE t == HotTunnel(req[r].cell)
  <2>1. held[r] = NoCell /\ req[r].pool \in Pools /\ req[r].cell \in Cells /\ r \in Holders
    BY ZenonT(30) DEF Publish, RequestsOK, TypeOK, Holders
  <2>2. t \in Tunnel /\ t.cell = req[r].cell /\ t.inFlight = 1
    BY ZenonT(30), <2>1, HotTunnelFacts
  <2>3. tunnel' = [tunnel EXCEPT ![req[r].pool] = t] /\ held' = [held EXCEPT ![r] = t.cell]
    BY <2>2 DEF Publish
  <2> HIDE DEF t
  <2> QED BY ZenonT(30), <2>1, <2>2, <2>3, BoundedOpen
<1>12. OrphanSparesTracked'
  BY HotTunnelFacts DEF Publish, OrphanSparesTracked, RequestsOK, TypeOK,
     Acquisition, IdleReq, Tracked, Spawning, background
<1> QED
  BY ZenonT(30), <1>1, <1>2, <1>3, <1>4, <1>5, <1>6, <1>7, <1>8, <1>9, <1>10, <1>11, <1>12,
     Frames DEF Publish, background

\* IssueLease stamps the tunnel and keeps its reservations.
LEMMA IssueInv ==
  ASSUME IInv, NEW r \in Requests, Issue(r)
  PROVE  IInv'
<1> USE DEF IInv
<1>1. TypeOK'
  <2>1. held[r] \in Cells /\ req[r].pool \in Pools
    BY DEF Issue, RequestsOK
  <2>2. tunnel' \in [Pools -> Tunnel]
    BY <2>1, WithLastURLFacts DEF Issue, TypeOK
  <2> QED BY <2>1, <2>2 DEF Issue, TypeOK, Request, background
<1>2. RequestsOK'
  BY WithLastURLFacts DEF Issue, RequestsOK, TypeOK, background
<1>3. SlotsOK'
  BY WithLastURLFacts DEF Issue, SlotsOK, RequestsOK, TypeOK, background
<1>4. CreatedOK'
  BY WithLastURLFacts DEF Issue, CreatedOK, RequestsOK, TypeOK, Holders,
     Request, background
<1>5. MutexOK'
  BY WithLastURLFacts DEF Issue, MutexOK, TypeOK, InSpawn, background
<1>6. SpawningOK'
  BY WithLastURLFacts DEF Issue, SpawningOK, RequestsOK, TypeOK, InSpawn,
     background
<1>7. OrphanOK'
  BY WithLastURLFacts DEF Issue, OrphanOK, RequestsOK, TypeOK, Request,
     background
<1>8. DownOK'
  BY ZenonT(30), WithLastURLFacts DEF Issue, DownOK, TypeOK, background
<1>9. ReleasedWhereAcquired'
  BY WithLastURLFacts DEF Issue, ReleasedWhereAcquired, RequestsOK, TypeOK,
     Holders, Request, background
<1>10. ReservationsBounded'
  <2>1. held[r] \in Cells /\ req[r].pool \in Pools
    BY DEF Issue, RequestsOK
  <2>2. \A p \in Pools : /\ tunnel'[p].cell = tunnel[p].cell
                          /\ tunnel'[p].inFlight = tunnel[p].inFlight
    BY <2>1, WithLastURLFacts DEF Issue, TypeOK
  <2>3. \A c : HoldersOf(c)' = HoldersOf(c)
    BY DEF Issue, HoldersOf
  <2> QED BY <2>2, <2>3 DEF ReservationsBounded
<1>11. OrphanSparesTracked'
  BY WithLastURLFacts DEF Issue, OrphanSparesTracked, RequestsOK, TypeOK,
     Tracked, Spawning, background
<1> QED
  BY ZenonT(30), <1>1, <1>2, <1>3, <1>4, <1>5, <1>6, <1>7, <1>8, <1>9, <1>10, <1>11, Frames
     DEF Issue, background

\* The relayed connection opens under its reservation.
LEMMA ConnectInv ==
  ASSUME IInv, NEW k \in Conns, Connect(k)
  PROVE  IInv'
<1> USE DEF IInv
<1>1. TypeOK'
  BY DEF Connect, TypeOK, background
<1>2. ConnsOK'
  BY DEF Connect, ConnsOK, TypeOK, background
<1> QED
  BY ZenonT(30), <1>1, <1>2, Frames DEF Connect, background

=============================================================================
