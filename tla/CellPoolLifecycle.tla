-------------------------- MODULE CellPoolLifecycle --------------------------
(***************************************************************************)
(* The life of the cells.  The pools implement CellLifecycle: every step   *)
(* of the controller moves at most one cell along its life cycle, one      *)
(* stage at a time.  And no cell outlives the boot of the next process.    *)
(***************************************************************************)
EXTENDS CellPoolProofs

\* Every leaf may use the assumptions; the provers have 30 seconds for it.
USE CellsAssumption, ConfsAssumption, PoolsAssumption, ActorsAssumption, SMTT(30), ZenonT(20), SMTT(29)

\* What Stage looks at: docker, the requests and the slots.
Absent(c) == cell[c].status = "absent"
BeingSpawned(c) == \E r \in Requests : req[r].cell = c
InSlot(c) == \E p \in Pools : tunnel[p].cell = c
InHotSlot(c) == \E p \in Pools : tunnel[p].cell = c /\ tunnel[p].state = "hot"

\* A step that leaves every cell in its stage: no cell is created or changes hands,
\* no slot changes its cell or its state.
SlotsSame ==
  \A p \in Pools : tunnel'[p].cell = tunnel[p].cell /\ tunnel'[p].state = tunnel[p].state
SpawnsSame == \A r \in Requests : req'[r].cell = req[r].cell
CellsSame == \A c \in Cells : cell'[c].pool = cell[c].pool /\ (Absent(c)' <=> Absent(c))
Quiet == SlotsSame /\ SpawnsSame /\ CellsSame

\* The stage of a cell (TunnelState), case by case.
LEMMA StageIs ==
  ASSUME NEW c \in Cells
  PROVE  Stage(c) = IF Absent(c) THEN "new"
                    ELSE IF BeingSpawned(c) THEN "spawning"
                    ELSE IF InHotSlot(c) THEN "hot"
                    ELSE IF InSlot(c) THEN "draining" ELSE "retired"
<1>1. c \in Spawning <=> BeingSpawned(c)
  BY DEF Spawning, BeingSpawned
<1>2. c \in Tracked <=> InSlot(c)
  BY DEF Tracked, InSlot
<1> QED
  BY <1>1, <1>2 DEF Stage, Absent, InHotSlot

\* The same in the next state.
LEMMA StageWillBe ==
  ASSUME NEW c \in Cells
  PROVE  Stage(c)' = IF Absent(c)' THEN "new"
                     ELSE IF BeingSpawned(c)' THEN "spawning"
                     ELSE IF InHotSlot(c)' THEN "hot"
                     ELSE IF InSlot(c)' THEN "draining" ELSE "retired"
<1>1. (c \in Spawning)' <=> BeingSpawned(c)'
  BY DEF Spawning, BeingSpawned
<1>2. (c \in Tracked)' <=> InSlot(c)'
  BY DEF Tracked, InSlot
<1> QED
  BY <1>1, <1>2 DEF Stage, Absent, InHotSlot

\* What the invariant says of the stages: a cell is in one slot at most, that of its
\* pool, and one that is being spawned is in none and spawned by one request.
LEMMA StageFacts ==
  ASSUME IInv, NEW c \in Cells
  PROVE  /\ InSlot(c) => ~Absent(c) /\ ~BeingSpawned(c)
         /\ BeingSpawned(c) => ~Absent(c) /\ ~InSlot(c)
         /\ InHotSlot(c) => InSlot(c)
         /\ \A p \in Pools : tunnel[p].cell = c => cell[c].pool = p
  BY DEF IInv, CreatedOK, SpawningOK, ReleasedWhereAcquired, Absent, BeingSpawned, InSlot,
         InHotSlot

\* Such a step is a stuttering step of CellLifecycle.
LEMMA QuietStutters ==
  ASSUME Quiet
  PROVE  UNCHANGED Abstract!lifecycleVars
<1>1. ASSUME NEW c \in Cells PROVE Stage(c)' = Stage(c) /\ cell'[c].pool = cell[c].pool
  <2>1. /\ Absent(c)' <=> Absent(c)
        /\ BeingSpawned(c)' <=> BeingSpawned(c)
        /\ InSlot(c)' <=> InSlot(c)
        /\ InHotSlot(c)' <=> InHotSlot(c)
    BY DEF Quiet, SlotsSame, SpawnsSame, CellsSame, BeingSpawned, InSlot, InHotSlot
  <2> QED
    BY <2>1, StageIs, StageWillBe DEF Quiet, CellsSame
<1> QED
  BY <1>1 DEF Abstract!lifecycleVars

\* A step that changes the stage of one cell changes one value of the mapped stages.
LEMMA OneStage ==
  ASSUME NEW c \in Cells, NEW v, Stage(c)' = v,
         \A d \in Cells : d # c => Stage(d)' = Stage(d)
  PROVE  /\ [d \in Cells |-> Stage(d)]' = [[d \in Cells |-> Stage(d)] EXCEPT ![c] = v]
         /\ [d \in Cells |-> Stage(d)][c] = Stage(c)
  BY ZenonT(30)

\* A step that keeps the pools of the cells keeps the mapped homes.
LEMMA PoolsSame ==
  ASSUME CellsSame
  PROVE  UNCHANGED [d \in Cells |-> cell[d].pool]
  BY DEF CellsSame

\* A slot whose cell stays but is no longer hot drains it (killTunnel, MarkFailed).
LEMMA DrainStep ==
  ASSUME IInv, NEW p \in Pools, NEW t, tunnel' = [tunnel EXCEPT ![p] = t],
         t.cell = tunnel[p].cell, t.state = tunnel[p].state \/ t.state # "hot",
         SpawnsSame, CellsSame
  PROVE  [Abstract!LifecycleNext]_Abstract!lifecycleVars
<1>1. tunnel \in [Pools -> Tunnel]
  BY DEF IInv, TypeOK
<1>2. CASE tunnel[p].state # "hot" \/ t.state = tunnel[p].state
  <2>1. ASSUME NEW c \in Cells
        PROVE  Stage(c)' = Stage(c) /\ cell'[c].pool = cell[c].pool
    <3>1. /\ Absent(c)' <=> Absent(c)
          /\ BeingSpawned(c)' <=> BeingSpawned(c)
          /\ InSlot(c)' <=> InSlot(c)
          /\ InHotSlot(c)' <=> InHotSlot(c)
      BY <1>1, <1>2 DEF SpawnsSame, CellsSame, BeingSpawned, InSlot, InHotSlot
    <3> QED
      BY <3>1, StageIs, StageWillBe DEF CellsSame
  <2> QED
    BY <2>1 DEF Abstract!lifecycleVars
<1>3. CASE tunnel[p].state = "hot" /\ t.state # "hot"
  <2>1. PICK c \in Cells : c = tunnel[p].cell
    BY <1>1, <1>3 DEF IInv, SlotsOK, Tunnel
  <2>2. Stage(c) = "hot" /\ Stage(c)' = "draining"
    <3>1. ~Absent(c) /\ ~BeingSpawned(c) /\ InHotSlot(c) /\ InSlot(c)
      BY <1>3, <2>1, StageFacts DEF InHotSlot, InSlot
    <3>2. ~Absent(c)' /\ ~BeingSpawned(c)' /\ InSlot(c)'
      BY <1>1, <2>1, <3>1 DEF SpawnsSame, CellsSame, BeingSpawned, InSlot
    <3>3. ~InHotSlot(c)'
      BY <1>1, <1>3, <2>1, StageFacts DEF InHotSlot
    <3> QED
      BY <3>1, <3>2, <3>3, StageIs, StageWillBe
  <2>3. ASSUME NEW d \in Cells, d # c PROVE Stage(d)' = Stage(d)
    <3>1. /\ Absent(d)' <=> Absent(d)
          /\ BeingSpawned(d)' <=> BeingSpawned(d)
          /\ InSlot(d)' <=> InSlot(d)
          /\ InHotSlot(d)' <=> InHotSlot(d)
      BY <1>1, <2>1, <2>3 DEF SpawnsSame, CellsSame, BeingSpawned, InSlot, InHotSlot
    <3> QED
      BY <3>1, StageIs, StageWillBe
  <2>4. Abstract!Drain(c)
    BY <2>2, <2>3, OneStage, PoolsSame DEF Abstract!Drain
  <2> QED
    BY <2>4 DEF Abstract!LifecycleNext
<1> QED
  BY <1>2, <1>3

\* setTunnel(nil) retires the cell of the slot, if it held one.
LEMMA ClearStep ==
  ASSUME IInv, NEW k \in Killers, Clear(k)
  PROVE  [Abstract!LifecycleNext]_Abstract!lifecycleVars
<1>1. PICK p \in Pools : p = killer[k].pool
  BY DEF Clear, IInv, KillersOK
<1>2. /\ tunnel \in [Pools -> Tunnel] /\ tunnel' = [tunnel EXCEPT ![p] = NoTunnel]
      /\ UNCHANGED <<cell, req>>
  BY <1>1 DEF IInv, TypeOK, Clear, clients
<1>3. CASE tunnel[p].cell = NoCell
  <2>1. Quiet
    BY ZenonT(30), <1>2, <1>3, NoTunnelFacts DEF Quiet, SlotsSame, SpawnsSame, CellsSame, Absent, IInv, SlotsOK
  <2> QED
    BY <2>1, QuietStutters
<1>4. CASE tunnel[p].cell # NoCell
  <2>1. PICK c \in Cells : c = tunnel[p].cell
    BY <1>2, <1>4 DEF Tunnel
  <2>2. Stage(c) \in {"hot", "draining"} /\ Stage(c)' = "retired"
    <3>1. ~Absent(c) /\ ~BeingSpawned(c) /\ InSlot(c)
      BY <2>1, StageFacts DEF InSlot
    <3>2. ~Absent(c)' /\ ~BeingSpawned(c)'
      BY <1>2, <3>1 DEF BeingSpawned, Absent
    <3>3. ~InSlot(c)' /\ ~InHotSlot(c)'
      BY <1>2, <2>1, StageFacts, NoTunnelFacts DEF InSlot, InHotSlot
    <3> QED
      BY ZenonT(30), <3>1, <3>2, <3>3, StageIs, StageWillBe
  <2>3. ASSUME NEW d \in Cells, d # c PROVE Stage(d)' = Stage(d)
    <3>1. /\ Absent(d)' <=> Absent(d)
          /\ BeingSpawned(d)' <=> BeingSpawned(d)
      BY <1>2 DEF Absent, BeingSpawned
    <3>2. /\ InSlot(d)' <=> InSlot(d)
          /\ InHotSlot(d)' <=> InHotSlot(d)
      BY <1>2, <2>1, <2>3, NoTunnelFacts DEF InSlot, InHotSlot
    <3> QED
      BY <3>1, <3>2, StageIs, StageWillBe
  <2>4. CellsSame
    BY <1>2 DEF CellsSame, Absent
  <2>5. Abstract!Retire(c)
    BY <2>2, <2>3, <2>4, OneStage, PoolsSame DEF Abstract!Retire
  <2> QED
    BY <2>5 DEF Abstract!LifecycleNext
<1> QED
  BY <1>3, <1>4

\* createAndStart begins the life of a cell: under the spawn mutex, so the pool has
\* no other spawn in flight.
LEMMA CreateStep ==
  ASSUME IInv, NEW r \in Requests, Create(r)
  PROVE  [Abstract!LifecycleNext]_Abstract!lifecycleVars
<1>1. PICK c \in Cells :
        /\ cell[c].status = "absent"
        /\ cell' = [cell EXCEPT ![c] = [NewCell EXCEPT !.status = "starting",
                      !.pool = req[r].pool, !.conf = req[r].conf]]
        /\ req' = [req EXCEPT ![r].pc = "wait", ![r].cell = c]
  BY ZenonT(30) DEF Create
<1>2. PICK p \in Pools : p = req[r].pool
  BY DEF Create, IInv, RequestsOK
<1>3. /\ req[r].pc = "create" /\ tunnel' = tunnel
      /\ req \in [Requests -> Request] /\ cell \in [Cells -> CellInfo]
  BY DEF Create, IInv, TypeOK
<1>4. req[r].cell = NoCell
  BY <1>3 DEF IInv, RequestsOK, Request
<1>5. cell'[c].pool = p /\ ~Absent(c)' /\ \A d \in Cells : d # c => cell'[d] = cell[d]
  BY <1>1, <1>2, <1>3 DEF NewCell, Absent
<1>6. req'[r].cell = c /\ \A s \in Requests : s # r => req'[s] = req[s]
  BY <1>1, <1>3 DEF Request
<1>7. Stage(c) = "new" /\ Stage(c)' = "spawning"
  <2>1. Absent(c)
    BY <1>1 DEF Absent
  <2>2. BeingSpawned(c)'
    BY ZenonT(30), <1>6 DEF BeingSpawned
  <2> QED
    BY <1>5, <2>1, <2>2, StageIs, StageWillBe
<1>8. ASSUME NEW d \in Cells, d # c PROVE Stage(d)' = Stage(d)
  <2>1. /\ Absent(d)' <=> Absent(d)
        /\ InSlot(d)' <=> InSlot(d)
        /\ InHotSlot(d)' <=> InHotSlot(d)
    BY <1>3, <1>5, <1>8 DEF Absent, InSlot, InHotSlot
  <2>2. BeingSpawned(d)' <=> BeingSpawned(d)
    BY ZenonT(30), <1>4, <1>6, <1>8 DEF BeingSpawned
  <2> QED
    BY <2>1, <2>2, StageIs, StageWillBe
<1>9. ASSUME NEW d \in Cells, cell[d].pool = p, Stage(d) = "spawning" PROVE FALSE
  <2>1. PICK s \in Requests : req[s].cell = d
    BY ZenonT(30), <1>9, StageIs DEF BeingSpawned
  <2>2. req[s].pool = p /\ InSpawn(s) /\ s # r
    BY ZenonT(30), <1>4, <1>9, <2>1 DEF IInv, SpawningOK, RequestsOK, InSpawn
  <2> QED
    BY <1>2, <1>3, <2>2 DEF IInv, MutexOK, InSpawn
<1>10. Abstract!BeginSpawn(c, p)
  <2>1. Abstract!In(p, {"spawning"}) = {}
    BY ZenonT(30), <1>9 DEF Abstract!In
  <2>2. [d \in Cells |-> cell[d].pool]' = [[d \in Cells |-> cell[d].pool] EXCEPT ![c] = p]
    BY ZenonT(30), <1>5
  <2>3. /\ [d \in Cells |-> Stage(d)]' = [[d \in Cells |-> Stage(d)] EXCEPT ![c] = "spawning"]
        /\ [d \in Cells |-> Stage(d)][c] = "new"
    BY <1>7, <1>8, OneStage
  <2> QED
    BY ZenonT(30), <2>1, <2>2, <2>3 DEF Abstract!BeginSpawn
<1> QED
  BY <1>10 DEF Abstract!LifecycleNext

\* A spawn that fails retires its cell, which no slot has seen (Spawn's error paths).
LEMMA SpawnFailsStep ==
  ASSUME IInv, NEW r \in Requests, SpawnFails(r)
  PROVE  [Abstract!LifecycleNext]_Abstract!lifecycleVars
<1>1. PICK c \in Cells : c = req[r].cell
  BY DEF SpawnFails, IInv, RequestsOK
<1>2. BeingSpawned(c)
  BY <1>1 DEF BeingSpawned
<1>3. CellsSame
  <2>1. CellKept
    BY ZenonT(30), <1>1, <1>2, StageFacts, KillCellFacts DEF SpawnFails, IInv, Absent
  <2> QED
    BY <2>1 DEF CellKept, CellsSame, Absent
<1>4. req'[r].cell = NoCell /\ \A s \in Requests : s # r => req'[s] = req[s]
  BY DEF SpawnFails, RecordSpawnFailure, Fail, IdleReq, IInv, TypeOK
<1>5. tunnel' = tunnel
  BY DEF SpawnFails
<1>6. Stage(c) = "spawning" /\ Stage(c)' = "retired"
  <2>1. ~Absent(c) /\ ~InSlot(c)
    BY <1>2, StageFacts
  <2>2. ~Absent(c)' /\ ~InSlot(c)' /\ ~InHotSlot(c)'
    BY ZenonT(30), <1>3, <1>5, <2>1 DEF CellsSame, InSlot, InHotSlot
  <2>3. ~BeingSpawned(c)'
    BY <1>1, <1>4 DEF BeingSpawned, IInv, SpawningOK
  <2> QED
    BY ZenonT(30), <1>2, <2>1, <2>2, <2>3, StageIs, StageWillBe
<1>7. ASSUME NEW d \in Cells, d # c PROVE Stage(d)' = Stage(d)
  <2>1. /\ Absent(d)' <=> Absent(d)
        /\ InSlot(d)' <=> InSlot(d)
        /\ InHotSlot(d)' <=> InHotSlot(d)
    BY <1>3, <1>5 DEF CellsSame, InSlot, InHotSlot
  <2>2. BeingSpawned(d)' <=> BeingSpawned(d)
    BY <1>1, <1>4, <1>7 DEF BeingSpawned
  <2> QED
    BY <2>1, <2>2, StageIs, StageWillBe
<1>8. Abstract!Retire(c)
  BY <1>3, <1>6, <1>7, OneStage, PoolsSame DEF Abstract!Retire
<1> QED
  BY <1>8 DEF Abstract!LifecycleNext

\* spawnFromState publishes its cell, and retires the one the slot held.
LEMMA PublishStep ==
  ASSUME IInv, NEW r \in Requests, Publish(r)
  PROVE  [Abstract!LifecycleNext]_Abstract!lifecycleVars
<1>1. PICK c \in Cells : c = req[r].cell
  BY ZenonT(30) DEF Publish, IInv, RequestsOK
<1>2. PICK p \in Pools : p = req[r].pool
  BY DEF Publish, IInv, RequestsOK
<1>3. /\ tunnel \in [Pools -> Tunnel] /\ tunnel' = [tunnel EXCEPT ![p] = HotTunnel(c)]
      /\ cell' = cell /\ req \in [Requests -> Request]
  BY ZenonT(30), <1>1, <1>2 DEF Publish, IInv, TypeOK
<1>4. req'[r].cell = NoCell /\ \A s \in Requests : s # r => req'[s] = req[s]
  BY ZenonT(30), <1>3 DEF Publish, Acquisition, IdleReq
<1>5. BeingSpawned(c) /\ cell[c].pool = p
  BY ZenonT(30), <1>1, <1>2 DEF BeingSpawned, IInv, SpawningOK
<1>6. Stage(c) = "spawning" /\ Stage(c)' = "hot"
  <2>1. ~Absent(c) /\ ~Absent(c)'
    BY ZenonT(30), <1>3, <1>5, StageFacts DEF Absent
  <2>2. ~BeingSpawned(c)'
    BY <1>1, <1>4 DEF BeingSpawned, IInv, SpawningOK
  <2>3. InHotSlot(c)'
    BY <1>3, HotTunnelFacts DEF InHotSlot
  <2> QED
    BY ZenonT(30), <1>5, <2>1, <2>2, <2>3, StageIs, StageWillBe
<1>7. ASSUME NEW d \in Cells, d # c
      PROVE  Stage(d)' = IF cell[d].pool = p /\ Stage(d) \in {"hot", "draining"}
                         THEN "retired" ELSE Stage(d)
  <2>1. Absent(d)' <=> Absent(d)
    BY <1>3 DEF Absent
  <2>2. BeingSpawned(d)' <=> BeingSpawned(d)
    BY ZenonT(30), <1>1, <1>4, <1>7 DEF BeingSpawned
  <2>3. CASE tunnel[p].cell = d
    <3>1. ~Absent(d) /\ ~BeingSpawned(d) /\ InSlot(d) /\ cell[d].pool = p
      BY ZenonT(30), <2>3, StageFacts DEF InSlot
    <3>2. ~InSlot(d)' /\ ~InHotSlot(d)'
      BY <1>3, <1>7, <2>3, StageFacts, HotTunnelFacts DEF InSlot, InHotSlot
    <3> QED
      BY ZenonT(30), <2>1, <2>2, <3>1, <3>2, StageIs, StageWillBe
  <2>4. CASE tunnel[p].cell # d
    <3>1. InSlot(d)' <=> InSlot(d)
      BY ZenonT(30), <1>3, <1>7, <2>4, HotTunnelFacts DEF InSlot
    <3>2. InHotSlot(d)' <=> InHotSlot(d)
      BY <1>3, <1>7, <2>4, HotTunnelFacts DEF InHotSlot
    <3>3. Stage(d)' = Stage(d)
      BY ZenonT(30), <2>1, <2>2, <3>1, <3>2, StageIs, StageWillBe
    <3>4. cell[d].pool = p => ~InSlot(d)
      BY <2>4, StageFacts DEF InSlot
    <3>5. InHotSlot(d) => InSlot(d)
      BY StageFacts
    <3> QED
      BY ZenonT(30), <3>3, <3>4, <3>5, StageIs
  <2> QED
    BY <2>3, <2>4
<1>8. Abstract!Promote(c)
  <2>1. CellsSame
    BY <1>3 DEF CellsSame, Absent
  <2>2. \A d \in Cells : d \in Abstract!In(p, {"hot", "draining"})
                           <=> cell[d].pool = p /\ Stage(d) \in {"hot", "draining"}
    BY ZenonT(30) DEF Abstract!In
  <2>3. \A d \in Cells : Stage(d)' = IF d = c THEN "hot"
                                     ELSE IF d \in Abstract!In(p, {"hot", "draining"})
                                     THEN "retired" ELSE Stage(d)
    BY <1>6, <1>7, <2>2
  <2>4. [d \in Cells |-> cell[d].pool][c] = p /\ [d \in Cells |-> Stage(d)][c] = "spawning"
    BY <1>5, <1>6
  <2> QED
    BY ZenonT(30), <2>1, <2>3, <2>4, PoolsSame DEF Abstract!Promote
<1> QED
  BY ZenonT(30), <1>8 DEF Abstract!LifecycleNext

\* With the process its slots and its spawns go: every cell that was created is
\* retired.
LEMMA ExitStep ==
  ASSUME IInv, Exit
  PROVE  [Abstract!LifecycleNext]_Abstract!lifecycleVars
<1>1. cell' = cell /\ tunnel' = [p \in Pools |-> NoTunnel] /\ req' = [r \in Requests |-> IdleReq]
  BY DEF Exit
<1>2. CellsSame
  BY <1>1 DEF CellsSame, Absent
<1>3. ASSUME NEW c \in Cells
      PROVE  Stage(c)' = IF Stage(c) = "new" THEN "new" ELSE "retired"
  <2>1. Absent(c)' <=> Absent(c)
    BY <1>1 DEF Absent
  <2>2. ~BeingSpawned(c)'
    BY <1>1 DEF BeingSpawned, IdleReq
  <2>3. ~InSlot(c)' /\ ~InHotSlot(c)'
    BY <1>1, NoTunnelFacts DEF InSlot, InHotSlot
  <2> QED
    BY ZenonT(30), <2>1, <2>2, <2>3, StageIs, StageWillBe
<1>4. Abstract!RetireAll
  BY <1>2, <1>3, PoolsSame DEF Abstract!RetireAll
<1> QED
  BY <1>4 DEF Abstract!LifecycleNext

\* Steps of a request that create, publish or give up no cell.
LEMMA RequestQuiet ==
  ASSUME IInv, NEW r \in Requests,
         \/ Start(r) \/ Fallback(r) \/ Lock(r) \/ Skip(r) \/ Pick(r) \/ CreateFails(r)
         \/ Observe(r) \/ Issue(r) \/ IssueFails(r) \/ Respond(r)
  PROVE  Quiet
<1>0. /\ tunnel \in [Pools -> Tunnel] /\ req \in [Requests -> Request]
      /\ req[r].pc \notin {"wait", "publish"} => req[r].cell = NoCell
      /\ req[r].pc # "idle" => req[r].pool \in Pools
  BY DEF IInv, TypeOK, RequestsOK, Request
<1>1. cell' = cell
  BY ZenonT(30)
     DEF Start, Fallback, Lock, Skip, Pick, CreateFails, Observe, Issue, IssueFails, Respond
<1>2. CellsSame
  BY <1>1 DEF CellsSame, Absent
<1>3. ASSUME UNCHANGED tunnel PROVE SlotsSame
  BY ZenonT(30), <1>3 DEF SlotsSame
<1>4. ASSUME NEW q, req' = [req EXCEPT ![r] = q], q.cell = req[r].cell PROVE SpawnsSame
  BY <1>0, <1>4 DEF SpawnsSame
<1>5. ASSUME NEW q, q.pool \in Pools, Take(r, q), req[r].pc \notin {"wait", "publish"} PROVE Quiet
  <2>1. SlotsSame
    BY <1>0, <1>5, AcquiredFacts DEF Take, SlotsSame
  <2>2. Acquisition(q).cell = NoCell
    BY DEF Acquisition, IdleReq
  <2>3. SpawnsSame
    BY ZenonT(30), <1>0, <1>4, <1>5, <2>2 DEF Take
  <2> QED
    BY ZenonT(30), <1>2, <2>1, <2>3 DEF Quiet
<1>6. ASSUME NEW q, q.pool \in Pools, q \in Request, q.cell = NoCell, TryAcquire(r, q),
             req[r].pc \notin {"wait", "publish"}
      PROVE  Quiet
  <2>1. CASE Take(r, q)
    BY <1>5, <1>6, <2>1
  <2>2. CASE req' = [req EXCEPT ![r] = [q EXCEPT !.pc = "lock"]] /\ tunnel' = tunnel
    <3>1. [q EXCEPT !.pc = "lock"].cell = NoCell
      BY <1>6 DEF Request
    <3>2. SpawnsSame
      BY ZenonT(30), <1>0, <1>4, <1>6, <2>2, <3>1
    <3> QED
      BY <1>2, <1>3, <2>2, <3>2 DEF Quiet
  <2> QED
    BY ZenonT(30), <1>6, <2>1, <2>2 DEF TryAcquire
<1>7. ASSUME Fail(r), UNCHANGED tunnel, req[r].pc \notin {"wait", "publish"} PROVE Quiet
  <2>1. SpawnsSame
    BY ZenonT(30), <1>0, <1>7 DEF Fail, IdleReq, SpawnsSame
  <2> QED
    BY <1>2, <1>3, <1>7, <2>1 DEF Quiet
<1>8. CASE Start(r)
  <2>1. PICK p \in Pools : \E f \in {NoPool, FallbackPool[p]},
                              x \in {NoCell} \cup {c \in leases : Excludes} :
          TryAcquire(r, [IdleReq EXCEPT !.pool = p, !.fallback = f, !.exclude = x])
    BY ZenonT(30), <1>8 DEF Start
  <2>2. PICK f \in {NoPool, FallbackPool[p]}, x \in {NoCell} \cup {c \in leases : Excludes} :
          TryAcquire(r, [IdleReq EXCEPT !.pool = p, !.fallback = f, !.exclude = x])
    BY ZenonT(30), <2>1
  <2> DEFINE q == [IdleReq EXCEPT !.pool = p, !.fallback = f, !.exclude = x]
  <2>3. q.pool \in Pools /\ q \in Request /\ q.cell = NoCell
    BY ZenonT(30) DEF IdleReq, Request, IInv, TypeOK
  <2>4. TryAcquire(r, q) /\ req[r].pc = "idle"
    BY ZenonT(30), <1>8, <2>2 DEF Start
  <2> HIDE DEF q
  <2> QED
    BY <1>6, <2>3, <2>4
<1>9. CASE Fallback(r)
  BY <1>0, <1>6, <1>9 DEF Fallback
<1>10. CASE Lock(r)
  <2>1. CASE Take(r, req[r])
    BY <1>0, <1>5, <1>10, <2>1 DEF Lock
  <2>2. CASE /\ req' = [req EXCEPT ![r].pc = IF req[r].exclude = NoCell THEN "pick" ELSE "skip"]
             /\ tunnel' = tunnel
    <3>1. SpawnsSame
      BY <1>0, <2>2 DEF SpawnsSame, Request
    <3> QED
      BY <1>2, <1>3, <2>2, <3>1 DEF Quiet
  <2> QED
    BY ZenonT(30), <1>10, <2>1, <2>2 DEF Lock
<1>11. CASE Skip(r)
  <2>1. SpawnsSame
    BY <1>0, <1>11 DEF Skip, SpawnsSame, Request
  <2> QED
    BY <1>2, <1>3, <1>11, <2>1 DEF Quiet, Skip
<1>12. CASE Pick(r)
  <2>1. CASE Fail(r)
    BY <1>7, <1>12, <2>1 DEF Pick
  <2>2. ASSUME NEW conf, req' = [req EXCEPT ![r].pc = "create", ![r].conf = conf] PROVE Quiet
    <3>1. SpawnsSame
      BY <1>0, <2>2 DEF SpawnsSame, Request
    <3> QED
      BY <1>2, <1>3, <1>12, <3>1 DEF Quiet, Pick
  <2> QED
    BY ZenonT(30), <1>12, <2>1, <2>2 DEF Pick
<1>13. CASE CreateFails(r)
  BY <1>7, <1>13 DEF CreateFails, RecordSpawnFailure
<1>14. CASE Observe(r)
  <2>1. SpawnsSame
    BY ZenonT(30), <1>0, <1>14 DEF Observe, SpawnsSame, Request
  <2> QED
    BY <1>2, <1>3, <1>14, <2>1 DEF Quiet, Observe
<1>15. CASE Issue(r)
  <2>1. held[r] \in Cells
    BY <1>15 DEF Issue, IInv, RequestsOK
  <2>2. SlotsSame
    BY <1>0, <1>15, <2>1, WithLastURLFacts DEF Issue, SlotsSame
  <2>3. SpawnsSame
    BY <1>0, <1>15 DEF Issue, SpawnsSame, Request
  <2> QED
    BY <1>2, <2>2, <2>3 DEF Quiet
<1>16. CASE IssueFails(r) \/ Respond(r)
  <2>1. TunnelsKept
    <3>1. Release(r, req[r].pool) /\ req[r].pc \in {"issue", "respond"}
      BY ZenonT(30), <1>16 DEF IssueFails, Respond
    <3>2. req[r].pool \in Pools /\ r \in Holders
      BY ZenonT(30), <3>1 DEF IInv, RequestsOK, Holders
    <3> QED
      BY ZenonT(30), <3>1, <3>2, ReleaseFacts DEF IInv
  <2>2. SpawnsSame
    BY <1>0, <1>16 DEF IssueFails, Respond, IdleReq, SpawnsSame
  <2> QED
    BY <1>2, <2>1, <2>2 DEF Quiet, TunnelsKept, SlotsSame
<1> QED
  BY ZenonT(30), <1>8, <1>9, <1>10, <1>11, <1>12, <1>13, <1>14, <1>15, <1>16

\* Connections count reservations, and change no cell.
LEMMA ConnQuiet ==
  ASSUME IInv, NEW k \in Conns, ConnStep(k)
  PROVE  Quiet
<1>1. CellsSame /\ SpawnsSame
  BY DEF ConnStep, Dial, Connect, Hangup, CellsSame, SpawnsSame, Absent
<1>2. CASE Dial(k)
  <2>1. PICK p \in Pools : tunnel' = [tunnel EXCEPT ![p] = Acquired(@)]
    BY ZenonT(30), <1>2 DEF Dial, IInv, TypeOK, CreatedOK
  <2>2. SlotsSame
    BY ZenonT(30), <2>1, AcquiredFacts DEF IInv, TypeOK, SlotsSame
  <2> QED
    BY ZenonT(30), <1>1, <2>2 DEF Quiet
<1>3. CASE Connect(k)
  BY <1>1, <1>3 DEF Connect, Quiet, SlotsSame
<1>4. CASE Hangup(k)
  <2>1. cell[held[k]].pool \in Pools
    BY ZenonT(30), <1>4 DEF Hangup, IInv, ConnsOK, CreatedOK, Holders
  <2>2. TunnelsKept
    BY <1>4, <2>1, ReleaseFacts DEF Hangup, IInv, Holders
  <2> QED
    BY ZenonT(30), <1>1, <2>2 DEF Quiet, TunnelsKept, SlotsSame
<1> QED
  BY ZenonT(30), <1>2, <1>3, <1>4 DEF ConnStep

\* Steps that only work on containers and on the loops' own state.
LEMMA BackgroundQuiet ==
  ASSUME IInv, UNCHANGED <<tunnel, req>>,
         \/ UNCHANGED cell
         \/ \E c \in Cells : /\ cell[c].status # "absent"
                             /\ \/ \E mayFail : KillCell(c, mayFail)
                                \/ CellBoots(c) \/ CellAges(c)
  PROVE  Quiet
<1>1. SlotsSame /\ SpawnsSame
  BY DEF SlotsSame, SpawnsSame
<1>2. CASE UNCHANGED cell
  BY <1>1, <1>2 DEF Quiet, CellsSame, Absent
<1>3. ASSUME NEW c \in Cells, cell[c].status # "absent", NEW mayFail, KillCell(c, mayFail)
      PROVE  Quiet
  <2>1. CellKept
    BY <1>3, KillCellFacts DEF IInv
  <2> QED
    BY ZenonT(30), <1>1, <2>1 DEF Quiet, CellsSame, CellKept, Absent
<1>4. ASSUME NEW c \in Cells, cell[c].status # "absent", CellBoots(c) \/ CellAges(c)
      PROVE  Quiet
  <2>1. CellsSame
    BY <1>4 DEF IInv, TypeOK, CellInfo, CellBoots, CellAges, CellsSame, Absent
  <2> QED
    BY ZenonT(30), <1>1, <2>1 DEF Quiet
<1> QED
  BY ZenonT(30), <1>2, <1>3, <1>4

\* Every step of the controller is a step of CellLifecycle or leaves all stages as
\* they are.
LEMMA LifecycleStep ==
  ASSUME IInv, [Next]_vars
  PROVE  [Abstract!LifecycleNext]_Abstract!lifecycleVars
<1> DEFINE Goal == [Abstract!LifecycleNext]_Abstract!lifecycleVars
<1>0. ASSUME Quiet PROVE Goal
  BY <1>0, QuietStutters
<1>a. ASSUME tunnel' = tunnel, req' = req, cell' = cell PROVE Goal
  BY ZenonT(30), <1>0, <1>a, BackgroundQuiet
<1> HIDE DEF Goal
<1>1. ASSUME NEW r \in Requests, RequestStep(r) PROVE Goal
  BY ZenonT(30), <1>0, <1>1, RequestQuiet, CreateStep, SpawnFailsStep, PublishStep DEF RequestStep, Goal
<1>2. ASSUME NEW k \in Conns, ConnStep(k) PROVE Goal
  BY <1>0, <1>2, ConnQuiet
<1>3. ASSUME LoopStep PROVE Goal
  <2>1. CASE OrphanKill
    <3>0. tunnel' = tunnel /\ req' = req
      BY <2>1 DEF OrphanKill, clients
    <3>1. ASSUME NEW c \in orphan.victims, KillCell(c, KillsFail) PROVE Goal
      <4>1. c \in Cells /\ cell[c].status # "absent"
        BY DEF IInv, TypeOK, Orphan, CreatedOK
      <4> QED
        BY ZenonT(30), <1>0, <3>0, <3>1, <4>1, BackgroundQuiet
    <3>2. UNCHANGED cell \/ \E c \in orphan.victims : KillCell(c, KillsFail)
      BY ZenonT(30), <2>1 DEF OrphanKill
    <3> QED
      BY ZenonT(30), <1>a, <3>0, <3>1, <3>2
  <2>2. CASE ~OrphanKill
    <3>1. tunnel' = tunnel /\ req' = req /\ cell' = cell
      BY <1>3, <2>2
         DEF LoopStep, IdleSnapshot, HealthSnapshot, IdleProbe, HealthProbe, OrphanKeep,
             OrphanList, clients
    <3> QED
      BY ZenonT(30), <1>a, <3>1
  <2> QED
    BY ZenonT(30), <2>1, <2>2
<1>4. ASSUME NEW k \in Killers, KillerStep(k) PROVE Goal
  <2>1. CASE Mark(k)
    <3>1. PICK p \in Pools : p = killer[k].pool
      BY ZenonT(30), <2>1 DEF Mark, IInv, KillersOK
    <3>2. killer[k].cell \in Cells /\ tunnel[p] \in Tunnel
      BY ZenonT(30), <2>1 DEF Mark, IInv, TypeOK, KillersOK
    <3>3. /\ tunnel' = [tunnel EXCEPT ![p] = Reaping(tunnel[p], killer[k].cell)]
          /\ UNCHANGED <<cell, req>>
      BY <2>1, <3>1 DEF Mark, clients
    <3>4. SpawnsSame /\ CellsSame
      BY ZenonT(30), <3>3 DEF SpawnsSame, CellsSame, Absent
    <3> DEFINE t == Reaping(tunnel[p], killer[k].cell)
    <3>5. t.cell = tunnel[p].cell /\ (t.state = tunnel[p].state \/ t.state # "hot")
      BY <3>2, ReapingFacts
    <3> HIDE DEF t
    <3> QED
      BY ZenonT(30), <3>3, <3>4, <3>5, DrainStep DEF t, Goal
  <2>2. CASE Kill(k)
    <3>1. killer[k].cell \in Cells /\ cell[killer[k].cell].status # "absent"
      BY <2>2 DEF Kill, IInv, KillersOK
    <3>2. UNCHANGED <<tunnel, req>>
      BY <2>2 DEF Kill, clients
    <3> QED
      BY ZenonT(30), <1>0, <2>2, <3>1, <3>2, BackgroundQuiet DEF Kill
  <2>3. CASE Clear(k)
    BY <2>3, ClearStep DEF Goal
  <2> QED
    BY <1>4, <2>1, <2>2, <2>3 DEF KillerStep
<1>5. ASSUME NEW d \in Destroyers, DestroyStep(d) PROVE Goal
  <2>1. tunnel' = tunnel /\ req' = req /\ cell' = cell
    BY ZenonT(30), <1>5 DEF DestroyStep, DestroyList, DestroyFind, clients
  <2> QED
    BY ZenonT(30), <1>a, <2>1
<1>6. ASSUME Lifecycle PROVE Goal
  <2>1. CASE Exit
    BY ZenonT(30), <2>1, ExitStep DEF Goal
  <2>2. CASE ~Exit
    <3>1. tunnel' = tunnel /\ req' = req /\ cell' = cell
      BY <1>6, <2>2
         DEF Lifecycle, Stop, CloseBegin, CloseSnapshot, CloseEnd, BootList, BootEnd, clients
    <3> QED
      BY ZenonT(30), <1>a, <3>1
  <2> QED
    BY ZenonT(30), <2>1, <2>2
<1>7. ASSUME Environment PROVE Goal
  <2>1. ASSUME NEW c \in Cells, CellBoots(c) \/ CellDies(c) \/ CellAges(c) PROVE Goal
    <3>1. cell[c].status # "absent" /\ UNCHANGED <<tunnel, req>>
      BY <2>1 DEF CellBoots, CellDies, CellAges, Existing, clients
    <3>2. CellDies(c) => KillCell(c, FALSE)
      BY DEF CellDies, KillCell
    <3> QED
      BY ZenonT(30), <1>0, <2>1, <3>1, <3>2, BackgroundQuiet
  <2>2. ASSUME NEW p \in Pools, TunnelIdles(p) PROVE Goal
    <3>1. Quiet
      BY <2>2 DEF TunnelIdles, IInv, TypeOK, Tunnel, Quiet, SlotsSame, SpawnsSame, CellsSame,
            Absent, clients
    <3> QED
      BY ZenonT(30), <1>0, <3>1
  <2>3. ASSUME NEW p \in Pools, NEW conf \in Confs, MarkFailed(p, conf) PROVE Goal
    <3> DEFINE s == IF tunnel[p].cell # NoCell /\ cell[tunnel[p].cell].conf = conf
                    THEN "unhealthy" ELSE tunnel[p].state
               t == [tunnel[p] EXCEPT !.state = s]
    <3>1. tunnel' = [tunnel EXCEPT ![p] = t] /\ UNCHANGED <<cell, req>>
      BY <2>3 DEF MarkFailed, clients
    <3>2. SpawnsSame /\ CellsSame
      BY ZenonT(30), <3>1 DEF SpawnsSame, CellsSame, Absent
    <3>3. s = tunnel[p].state \/ s # "hot"
      OBVIOUS
    <3> HIDE DEF s
    <3>4. t.cell = tunnel[p].cell /\ t.state = s
      BY DEF IInv, TypeOK, Tunnel
    <3> HIDE DEF t
    <3> QED
      BY ZenonT(30), <3>1, <3>2, <3>3, <3>4, DrainStep DEF Goal
  <2>4. ASSUME NEW p \in Pools, FailureExpires(p) PROVE Goal
    <3>1. tunnel' = tunnel /\ req' = req /\ cell' = cell
      BY <2>4 DEF FailureExpires, clients
    <3> QED
      BY ZenonT(30), <1>a, <3>1
  <2>5. \/ \E c \in Cells : CellBoots(c) \/ CellDies(c) \/ CellAges(c)
        \/ \E p \in Pools : TunnelIdles(p) \/ FailureExpires(p)
        \/ \E p \in Pools, conf \in Confs : MarkFailed(p, conf)
    BY ZenonT(30), <1>7 DEF Environment
  <2> QED
    BY ZenonT(30), <2>1, <2>2, <2>3, <2>4, <2>5
<1>8. ASSUME UNCHANGED vars PROVE Goal
  <2>1. tunnel' = tunnel /\ req' = req /\ cell' = cell
    BY <1>8 DEF vars
  <2> QED
    BY ZenonT(30), <1>a, <2>1
<1> QED
  BY ZenonT(30), <1>1, <1>2, <1>3, <1>4, <1>5, <1>6, <1>7, <1>8 DEF Next, Goal

\* The controller implements CellLifecycle: whatever requests, connections, loops,
\* DELETE handlers and restarts interleave, a cell is spawned for one pool and under
\* its mutex, is published at most once, and never comes back (pool.go, TunnelState).
THEOREM PoolsImplementLifecycle == Spec => ImplementsLifecycle
<1>1. Init => Abstract!LifecycleInit
  <2> SUFFICES ASSUME Init PROVE Abstract!LifecycleInit
    OBVIOUS
  <2>1. ASSUME NEW c \in Cells PROVE Stage(c) = "new" /\ cell[c].pool = NoPool
    <3>1. cell[c] = NewCell
      BY DEF Init
    <3> QED
      BY <3>1, StageIs DEF Absent, NewCell
  <2> QED
    BY <2>1 DEF Abstract!LifecycleInit
<1>2. IInv /\ [Next]_vars => [Abstract!LifecycleNext]_Abstract!lifecycleVars
  BY LifecycleStep
<1> QED
  BY <1>1, <1>2, Inductive, PTL DEF Spec, ImplementsLifecycle, Abstract!LifecycleSpec

-----------------------------------------------------------------------------
(***************************************************************************)
(* The reap at boot                                                        *)
(***************************************************************************)

\* While the process boots, what is left of the one before is still to be killed.
BootOK ==
  phase = "booting" => /\ orphan.pc = "kill" => Existing \subseteq orphan.victims
                       /\ orphan.pc = "scan" => Existing = {}

\* Only the process's own steps change its phase (Service.Run, Service.Stop).
LEMMA PhaseChanges ==
  ASSUME Next, phase' # phase
  PROVE  Lifecycle
<1>1. ASSUME NEW r \in Requests, RequestStep(r) PROVE phase' = phase
  BY ZenonT(30), <1>1
  DEF RequestStep, Start, Fallback, Lock, Skip, Pick, Create, CreateFails, Observe, SpawnFails,
      Publish, Issue, IssueFails, Respond, background
<1>2. ASSUME NEW k \in Conns, ConnStep(k) PROVE phase' = phase
  BY <1>2 DEF ConnStep, Dial, Connect, Hangup, background
<1>3. ASSUME LoopStep PROVE phase' = phase
  BY ZenonT(30), <1>3
  DEF LoopStep, IdleSnapshot, HealthSnapshot, IdleProbe, HealthProbe, OrphanKeep, OrphanList,
      OrphanKill
<1>4. ASSUME NEW k \in Killers, KillerStep(k) PROVE phase' = phase
  BY <1>4 DEF KillerStep, Mark, Kill, Clear
<1>5. ASSUME NEW d \in Destroyers, DestroyStep(d) PROVE phase' = phase
  BY ZenonT(30), <1>5 DEF DestroyStep, DestroyList, DestroyFind
<1>6. ASSUME Environment PROVE phase' = phase
  BY ZenonT(30), <1>6
  DEF Environment, CellBoots, CellDies, CellAges, TunnelIdles, FailureExpires, MarkFailed,
      background
<1> QED
  BY ZenonT(30), <1>1, <1>2, <1>3, <1>4, <1>5, <1>6 DEF Next

\* When docker answers, every step keeps that: nothing creates a cell before the
\* reap is over (Service.Run, ReapOrphans).
LEMMA BootStep ==
  ASSUME ~KillsFail, IInv, BootOK, [Next]_vars
  PROVE  BootOK'
<1>0. /\ phase \in {"down", "booting"} =>
           /\ \A r \in Requests : req[r].pc = "idle"
           /\ \A k \in Killers : killer[k].pc = "scan"
           /\ orphan.pc # "list"
      /\ orphan \in Orphan /\ cell \in [Cells -> CellInfo]
  BY DEF IInv, DownOK, TypeOK
<1>1. ASSUME phase' = phase, orphan' = orphan, Existing' \subseteq Existing PROVE BootOK'
  BY <1>1 DEF BootOK
<1>2. ASSUME phase' = phase, orphan' = orphan, cell' = cell PROVE BootOK'
  BY <1>1, <1>2 DEF Existing
<1>3. ASSUME phase' # "booting" PROVE BootOK'
  BY <1>3 DEF BootOK
<1>4. ASSUME phase' = phase, phase # "booting" PROVE BootOK'
  BY <1>3, <1>4
<1>5. ASSUME Lifecycle PROVE BootOK'
  <2>1. CASE BootList
    <3>1. orphan' = [pc |-> "kill", keep |-> {}, victims |-> Existing] /\ cell' = cell
      BY ZenonT(30), <2>1 DEF BootList
    <3>2. Existing' = Existing
      BY <3>1 DEF Existing
    <3> QED
      BY <3>1, <3>2 DEF BootOK
  <2>2. CASE CloseSnapshot
    BY ZenonT(30), <1>4, <2>2 DEF CloseSnapshot
  <2>3. CASE Stop \/ CloseBegin \/ CloseEnd \/ Exit \/ BootEnd
    BY <1>3, <2>3 DEF Stop, CloseBegin, CloseEnd, Exit, BootEnd
  <2> QED
    BY ZenonT(30), <1>5, <2>1, <2>2, <2>3 DEF Lifecycle
<1>6. ASSUME NEW r \in Requests, RequestStep(r) PROVE BootOK'
  <2>1. CASE Lifecycle
    BY <1>5, <2>1
  <2>2. phase # "booting"
    <3>1. Start(r) \/ req[r].pc # "idle"
      BY ZenonT(30), <1>6
      DEF RequestStep, Fallback, Lock, Skip, Pick, Create, CreateFails, Observe, SpawnFails,
          Publish, Issue, IssueFails, Respond
    <3> QED
      BY ZenonT(30), <1>0, <3>1 DEF Start, Up
  <2>3. CASE ~Lifecycle
    <3>1. phase' = phase
      BY ZenonT(30), <1>6, <2>3, PhaseChanges DEF Next
    <3> QED
      BY <1>4, <2>2, <3>1
  <2> QED
    BY <2>1, <2>3
<1>7. ASSUME NEW k \in Conns, ConnStep(k) PROVE BootOK'
  BY <1>2, <1>7 DEF ConnStep, Dial, Connect, Hangup, background
<1>8. ASSUME LoopStep PROVE BootOK'
  <2>1. CASE OrphanKill
    <3>1. ASSUME NEW c \in orphan.victims, KillCell(c, KillsFail),
                 orphan' = [orphan EXCEPT !.victims = @ \ {c}], phase' = phase
          PROVE  BootOK'
      <4>1. cell' = Removed(c) /\ c \in Cells
        BY <1>0, <3>1 DEF KillCell, Orphan
      <4>2. Existing' \subseteq Existing \ {c}
        BY <1>0, <4>1 DEF Existing, Removed, CellInfo
      <4>3. orphan'.pc = orphan.pc /\ orphan'.victims = orphan.victims \ {c}
        BY <1>0, <3>1 DEF Orphan
      <4>4. orphan.pc = "kill"
        BY ZenonT(30), <2>1 DEF OrphanKill
      <4> QED
        BY <3>1, <4>2, <4>3, <4>4 DEF BootOK
    <3>2. ASSUME orphan.victims = {}, orphan' = IdleOrphan, cell' = cell, phase' = phase
          PROVE  BootOK'
      <4>1. orphan.pc = "kill"
        BY <2>1 DEF OrphanKill
      <4>2. Existing' = Existing
        BY <3>2 DEF Existing
      <4> QED
        BY <3>2, <4>1, <4>2 DEF BootOK, IdleOrphan
    <3> QED
      BY ZenonT(30), <2>1, <3>1, <3>2 DEF OrphanKill
  <2>2. CASE OrphanKeep \/ OrphanList
    <3>1. phase' = phase /\ phase # "booting"
      BY ZenonT(30), <1>0, <2>2 DEF OrphanKeep, OrphanList, LoopsRun
    <3> QED
      BY ZenonT(30), <1>4, <3>1
  <2>3. CASE IdleProbe \/ HealthProbe \/ \E p \in Pools : IdleSnapshot(p) \/ HealthSnapshot(p)
    BY <1>2, <2>3 DEF IdleProbe, HealthProbe, IdleSnapshot, HealthSnapshot
  <2> QED
    BY ZenonT(30), <1>8, <2>1, <2>2, <2>3 DEF LoopStep
<1>9. ASSUME NEW k \in Killers, KillerStep(k) PROVE BootOK'
  <2>1. phase' = phase /\ phase # "booting"
    BY <1>0, <1>9 DEF KillerStep, Mark, Kill, Clear
  <2> QED
    BY <1>4, <2>1
<1>10. ASSUME NEW d \in Destroyers, DestroyStep(d) PROVE BootOK'
  BY ZenonT(30), <1>2, <1>10 DEF DestroyStep, DestroyList, DestroyFind
<1>11. ASSUME Environment PROVE BootOK'
  <2>1. ASSUME NEW c \in Cells, CellBoots(c) \/ CellDies(c) \/ CellAges(c) PROVE BootOK'
    <3>1. Existing' \subseteq Existing
      BY <1>0, <2>1 DEF CellBoots, CellDies, CellAges, Existing, Removed, CellInfo
    <3> QED
      BY <1>1, <2>1, <3>1 DEF CellBoots, CellDies, CellAges, background
  <2>2. ASSUME NEW p \in Pools, TunnelIdles(p) \/ FailureExpires(p) PROVE BootOK'
    BY <1>2, <2>2 DEF TunnelIdles, FailureExpires, background
  <2>3. ASSUME NEW p \in Pools, NEW conf \in Confs, MarkFailed(p, conf) PROVE BootOK'
    BY <1>2, <2>3 DEF MarkFailed, background
  <2> QED
    BY ZenonT(30), <1>11, <2>1, <2>2, <2>3 DEF Environment
<1>12. ASSUME UNCHANGED vars PROVE BootOK'
  BY <1>2, <1>12 DEF vars
<1> QED
  BY ZenonT(30), <1>5, <1>6, <1>7, <1>8, <1>9, <1>10, <1>11, <1>12 DEF Next

\* When docker answers, a process that was started again serves only after every
\* cell of the process before it is gone, however many there are and whatever they do
\* meanwhile (Service.Run, ReapOrphans).
THEOREM BootReapsAll ==
  ASSUME ~KillsFail
  PROVE  Spec => BootStartsClean
<1>1. Init => BootOK
  BY ZenonT(30) DEF Init, BootOK
<1>2. IInv /\ BootOK /\ [Next]_vars => BootOK'
  BY BootStep
<1>3. IInv /\ BootOK /\ [Next]_vars =>
        [phase = "booting" /\ phase' = "running" => Existing' = {}]_vars
  <2> SUFFICES ASSUME IInv, BootOK, Next, phase = "booting", phase' = "running"
               PROVE  Existing' = {}
    BY Zenon
  <2>1. Lifecycle
    BY ZenonT(30), PhaseChanges
  <2>2. BootEnd
    BY ZenonT(30), <2>1 DEF Lifecycle, Stop, CloseBegin, CloseSnapshot, CloseEnd, Exit, BootList
  <2> QED
    BY <2>2 DEF BootEnd, BootOK, Existing
<1> QED
  BY <1>1, <1>2, <1>3, Inductive, PTL DEF Spec, BootStartsClean

=============================================================================
