--------------------------- MODULE CellPoolProofs ---------------------------
(***************************************************************************)
(* Theorems about CellPool, for every set of pools, cells, requests,       *)
(* connections and DELETE handlers.  The steps of the reaper's loops, of   *)
(* the killers, of DELETE handlers, of the process's life cycle and of its *)
(* environment keep IInv of CellPoolInv, so do those of CellPoolRequests,  *)
(* and the safety properties follow from it.                               *)
(***************************************************************************)
EXTENDS CellPoolRequests

\* Every leaf may use the assumptions; the provers have 30 seconds for it.
USE CellsAssumption, ConfsAssumption, PoolsAssumption, ActorsAssumption, SMTT(30), ZenonT(20), SMTT(29)

-----------------------------------------------------------------------------
(***************************************************************************)
(* The steps of the loops and of the killers                               *)
(***************************************************************************)

\* killTunnel marks the tunnel it saw, if the slot still holds it.
LEMMA MarkInv ==
  ASSUME IInv, NEW k \in Killers, Mark(k)
  PROVE  IInv'
<1> USE DEF IInv
<1>1. killer[k].cell \in Cells /\ killer[k].pool \in Pools
  BY DEF Mark, KillersOK
<1>2. SlotsKept
  <2> DEFINE t == Reaping(tunnel[killer[k].pool], killer[k].cell)
  <2>1. tunnel' = [tunnel EXCEPT ![killer[k].pool] = t]
    BY DEF Mark
  <2>2. /\ t \in Tunnel /\ t.cell = tunnel[killer[k].pool].cell
        /\ t.inFlight = tunnel[killer[k].pool].inFlight
        /\ t.state = "none" <=> tunnel[killer[k].pool].state = "none"
    BY <1>1, ReapingFacts DEF TypeOK, SlotsOK
  <2> HIDE DEF t
  <2> QED BY ZenonT(30), <2>1, <2>2 DEF SlotsKept, TypeOK
<1>3. TypeOK'
  BY <1>2 DEF Mark, TypeOK, SlotsKept, Killer, clients
<1>4. KillersOK'
  BY DEF Mark, KillersOK, TypeOK, Killer
<1>5. DownOK'
  BY DEF Mark, DownOK
<1> QED BY <1>2, <1>3, <1>4, <1>5, SlotsKeptFrames, Frames DEF Mark, clients

\* Spawner.Kill, done or failed, touches no slot.
LEMMA KillInv ==
  ASSUME IInv, NEW k \in Killers, Kill(k)
  PROVE  IInv'
<1> USE DEF IInv
<1>1. CellKept
  BY KillCellFacts DEF Kill, KillersOK
<1>2. UNCHANGED <<tunnel, failed, clients, orphan, phase, closeTodo>>
  BY DEF Kill
<1>3. TypeOK'
  <2>1. PICK pc \in {"find", "clear"} : killer' = [killer EXCEPT ![k].pc = pc]
    BY Zenon DEF Kill
  <2>2. killer' \in [Killers -> Killer]
    BY <2>1 DEF TypeOK, Killer
  <2> QED BY <1>1, <1>2, <2>2 DEF TypeOK, CellKept, clients
<1>4. KillersOK'
  BY <1>1 DEF Kill, KillersOK, CellKept, TypeOK, Killer
<1>5. DownOK'
  BY <1>2 DEF Kill, DownOK, clients
<1> QED BY <1>1, <1>2, <1>3, <1>4, <1>5, CellKeptFrames, Frames DEF clients

\* reapOne, done or failed, touches no slot.
LEMMA OrphanKillInv ==
  ASSUME IInv, OrphanKill
  PROVE  IInv'
<1> USE DEF IInv
<1>1. CellKept
  <2>1. CASE cell' = cell
    BY <2>1 DEF CellKept, TypeOK
  <2>2. ASSUME NEW c \in orphan.victims, KillCell(c, KillsFail)
        PROVE  CellKept
    BY <2>2, KillCellFacts DEF TypeOK, Orphan, CreatedOK
  <2> QED BY <2>1, <2>2 DEF OrphanKill
<1>2. orphan' \in Orphan /\ orphan'.victims \subseteq orphan.victims /\ orphan'.pc # "list"
  BY DEF OrphanKill, IdleOrphan, TypeOK, Orphan
<1>3. UNCHANGED <<tunnel, failed, clients, killer, phase, closeTodo>>
  BY DEF OrphanKill
<1>4. TypeOK'
  BY <1>1, <1>2, <1>3 DEF TypeOK, CellKept, clients
<1>5. KillersOK'
  BY <1>1, <1>3 DEF KillersOK, CellKept
<1>6. DownOK'
  BY <1>2, <1>3 DEF DownOK, clients
<1> QED BY <1>1, <1>2, <1>3, <1>4, <1>5, <1>6, CellKeptFrames, Frames DEF clients

\* Containers boot and die on their own.
LEMMA CellStepInv ==
  ASSUME IInv, NEW c \in Cells, CellBoots(c) \/ CellDies(c)
  PROVE  IInv'
<1> USE DEF IInv
<1>1. CellKept
  <2>1. CASE CellBoots(c)
    BY <2>1 DEF CellBoots, CellKept, TypeOK, CellInfo
  <2>2. CASE CellDies(c)
    BY <2>2, RemovedFacts DEF CellDies, Existing
  <2> QED BY <2>1, <2>2
<1>2. UNCHANGED <<tunnel, failed, clients, background>>
  BY DEF CellBoots, CellDies
<1>3. TypeOK'
  BY <1>1, <1>2 DEF TypeOK, CellKept, clients, background
<1>4. KillersOK'
  BY <1>1, <1>2 DEF KillersOK, CellKept, background
<1>5. orphan' = orphan
  BY <1>2 DEF background
<1> QED BY <1>1, <1>2, <1>3, <1>4, <1>5, CellKeptFrames, Frames DEF clients, background

\* reapIdle remembers the tunnel it saw.
LEMMA IdleSnapshotInv ==
  ASSUME IInv, NEW p \in Pools, IdleSnapshot(p)
  PROVE  IInv'
<1> USE DEF IInv
<1>1. TypeOK'
  <2>1. killer' \in [Killers -> Killer]
    BY ZenonT(30) DEF IdleSnapshot, TypeOK, Tunnel, Killer, Killers
  <2> QED BY <2>1 DEF IdleSnapshot, TypeOK, clients
<1>2. KillersOK'
  BY DEF IdleSnapshot, KillersOK, CreatedOK, TypeOK, LoopsRun, Holders, Tunnel,
     Request, clients
<1>3. DownOK'
  BY DEF IdleSnapshot, DownOK, TypeOK, LoopsRun, clients
<1> QED
  BY <1>1, <1>2, <1>3, Frames DEF IdleSnapshot, clients

\* checkHealth remembers the tunnel it saw.
LEMMA HealthSnapshotInv ==
  ASSUME IInv, NEW p \in Pools, HealthSnapshot(p)
  PROVE  IInv'
<1> USE DEF IInv
<1>1. TypeOK'
  <2>1. killer' \in [Killers -> Killer]
    BY ZenonT(30) DEF HealthSnapshot, TypeOK, Tunnel, Killer, Killers
  <2> QED BY <2>1 DEF HealthSnapshot, TypeOK, clients
<1>2. KillersOK'
  <2>1. tunnel[p].cell \in Cells /\ cell[tunnel[p].cell].status # "absent"
    BY DEF HealthSnapshot, SlotsOK, CreatedOK, TypeOK, Tunnel
  <2> QED BY ZenonT(30), <2>1 DEF HealthSnapshot, KillersOK, TypeOK, Killers
<1>3. DownOK'
  BY DEF HealthSnapshot, DownOK, TypeOK, LoopsRun, clients
<1> QED
  BY ZenonT(30), <1>1, <1>2, <1>3, Frames DEF HealthSnapshot, clients

\* hasLiveConnections decides about the tunnel reapIdle saw.
LEMMA IdleProbeInv ==
  ASSUME IInv, IdleProbe
  PROVE  IInv'
<1> USE DEF IInv
<1>1. TypeOK'
  BY DEF IdleProbe, TypeOK, ActiveConns, IdleKiller, Killer, clients
<1>2. KillersOK'
  BY DEF IdleProbe, KillersOK, SlotsOK, TypeOK, ActiveConns, IdleKiller,
     Killers, Killer, TunnelStates, Request, clients
<1>3. DownOK'
  BY DEF IdleProbe, DownOK, TypeOK, ActiveConns, IdleKiller, clients
<1> QED
  BY ZenonT(30), <1>1, <1>2, <1>3, Frames DEF IdleProbe, clients

\* probeHealthy decides about the tunnel checkHealth saw.
LEMMA HealthProbeInv ==
  ASSUME IInv, HealthProbe
  PROVE  IInv'
<1> USE DEF IInv
<1>1. TypeOK'
  <2>1. killer' \in [Killers -> Killer]
    BY DEF HealthProbe, TypeOK, IdleKiller, Killer, Killers
  <2>2. failed' \in [Pools -> SUBSET Confs]
    BY DEF HealthProbe, TypeOK, KillersOK, CreatedOK, Killers
  <2> QED BY <2>1, <2>2 DEF HealthProbe, TypeOK, clients
<1>2. KillersOK'
  BY DEF HealthProbe, KillersOK, SlotsOK, TypeOK, IdleKiller, Killers, Killer,
     clients
<1>3. DownOK'
  BY DEF HealthProbe, DownOK, RequestsOK, TypeOK, IdleKiller, clients
<1> QED
  BY ZenonT(30), <1>1, <1>2, <1>3, Frames DEF HealthProbe, clients

\* The keep set is what the pools track at that moment.
LEMMA OrphanKeepInv ==
  ASSUME IInv, OrphanKeep
  PROVE  IInv'
<1> USE DEF IInv
<1>1. TypeOK'
  <2>1. Tracked \subseteq Cells
    BY DEF Tracked, TypeOK, Tunnel
  <2> QED BY ZenonT(30), <2>1 DEF OrphanKeep, TypeOK, Orphan, clients
<1>2. CreatedOK'
  BY ZenonT(30) DEF OrphanKeep, CreatedOK, RequestsOK, TypeOK, LoopsRun, Tracked, Request,
     clients
<1>3. OrphanOK'
  BY DEF OrphanKeep, OrphanOK, TypeOK, LoopsRun, Tracked, clients
<1>4. DownOK'
  BY DEF OrphanKeep, DownOK, TypeOK, LoopsRun, Tracked, clients
<1>5. OrphanSparesTracked'
  BY DEF OrphanKeep, OrphanSparesTracked, TypeOK, LoopsRun, Tracked, Spawning,
     clients
<1> QED
  BY ZenonT(30), <1>1, <1>2, <1>3, <1>4, <1>5, Frames DEF OrphanKeep, clients

\* No victim of the list is tracked or being spawned.
LEMMA OrphanListInv ==
  ASSUME IInv, OrphanList
  PROVE  IInv'
<1> USE DEF IInv
<1>1. TypeOK'
  BY ZenonT(30) DEF OrphanList, TypeOK, RequestsOK, Existing, IdleOrphan, Orphan, clients
<1>2. CreatedOK'
  BY ZenonT(30) DEF OrphanList, CreatedOK, TypeOK, Existing, IdleOrphan, clients
<1>3. OrphanOK'
  BY ZenonT(30) DEF OrphanList, OrphanOK, TypeOK, Existing, IdleOrphan, clients
<1>4. DownOK'
  BY DEF OrphanList, DownOK, RequestsOK, TypeOK, Existing, IdleOrphan, clients
<1>5. OrphanSparesTracked'
  <2>1. Tracked' = Tracked /\ Spawning' = Spawning
    BY DEF OrphanList, Tracked, Spawning, clients
  <2>2. \A c \in orphan'.victims : c \in Existing /\ cell[c].age = "old" /\ c \notin orphan.keep
    BY DEF OrphanList, IdleOrphan, TypeOK
  <2>3. orphan'.victims \cap Tracked = {}
    BY <2>2 DEF OrphanList, OrphanOK, Tracked, Existing
  <2>4. orphan'.victims \cap Spawning = {}
    BY <2>2 DEF OrphanOK, Spawning, Existing
  <2> QED BY <2>1, <2>3, <2>4 DEF OrphanSparesTracked
<1> QED
  BY ZenonT(30), <1>1, <1>2, <1>3, <1>4, <1>5, Frames DEF OrphanList, clients

\* setTunnel(nil) empties a slot, whatever it holds.
LEMMA ClearInv ==
  ASSUME IInv, NEW k \in Killers, Clear(k)
  PROVE  IInv'
<1> USE DEF IInv
<1>1. TypeOK'
  BY ZenonT(30), NoTunnelFacts DEF Clear, TypeOK, RequestsOK, KillersOK, ConnsOK,
     IdleKiller, Holders, Killer, clients
<1>2. SlotsOK'
  BY ZenonT(30), NoTunnelFacts DEF Clear, SlotsOK, TypeOK, IdleKiller, clients
<1>3. CreatedOK'
  BY ZenonT(30), NoTunnelFacts DEF Clear, CreatedOK, KillersOK, TypeOK, IdleKiller,
     TunnelStates, Request, clients
<1>4. KillersOK'
  BY ZenonT(30), NoTunnelFacts DEF Clear, KillersOK, CreatedOK, TypeOK, IdleKiller, clients
<1>5. SpawningOK'
  BY NoTunnelFacts DEF Clear, SpawningOK, TypeOK, IdleKiller, InSpawn, clients
<1>6. OrphanOK'
  BY ZenonT(30), NoTunnelFacts DEF Clear, OrphanOK, TypeOK, IdleKiller, clients
<1>7. DownOK'
  BY ZenonT(30), NoTunnelFacts DEF Clear, DownOK, TypeOK, IdleKiller, clients
<1>8. ReleasedWhereAcquired'
  BY ZenonT(30), NoTunnelFacts DEF Clear, ReleasedWhereAcquired, SpawningOK, TypeOK,
     IdleKiller, clients
<1>9. ReservationsBounded'
  BY ZenonT(30), NoTunnelFacts, BoundedEmpty DEF Clear, clients, TypeOK
<1>10. OrphanSparesTracked'
  <2>1. Tracked' \subseteq Tracked
    BY NoTunnelFacts DEF Clear, Tracked, TypeOK
  <2>2. Spawning' = Spawning /\ orphan' = orphan
    BY DEF Clear, Spawning, clients
  <2> QED BY ZenonT(30), <2>1, <2>2 DEF OrphanSparesTracked
<1> QED
  BY ZenonT(30), <1>1, <1>2, <1>3, <1>4, <1>5, <1>6, <1>7, <1>8, <1>9, <1>10, Frames DEF
     Clear, clients

-----------------------------------------------------------------------------
(***************************************************************************)
(* DELETE handlers, the life of the process and its environment            *)
(***************************************************************************)

\* A tunnel becomes idle.
LEMMA TunnelIdlesInv ==
  ASSUME IInv, NEW p \in Pools, TunnelIdles(p)
  PROVE  IInv'
<1> USE DEF IInv
<1>1. SlotsKept
  BY DEF TunnelIdles, SlotsKept, TypeOK, Tunnel
<1>2. TypeOK'
  BY <1>1 DEF TunnelIdles, TypeOK, SlotsKept, clients, background
<1>3. DownOK'
  BY DEF TunnelIdles, DownOK, clients, background
<1> QED BY ZenonT(30), <1>1, <1>2, <1>3, SlotsKeptFrames, Frames DEF TunnelIdles, clients, background

\* Manager.MarkFailed turns a tunnel unhealthy.
LEMMA MarkFailedInv ==
  ASSUME IInv, NEW p \in Pools, NEW conf \in Confs, MarkFailed(p, conf)
  PROVE  IInv'
<1> USE DEF IInv
<1>1. SlotsKept
  <2> DEFINE s == IF tunnel[p].cell # NoCell /\ cell[tunnel[p].cell].conf = conf
                  THEN "unhealthy" ELSE tunnel[p].state
             t == [tunnel[p] EXCEPT !.state = s]
  <2>1. tunnel' = [tunnel EXCEPT ![p] = t]
    BY ZenonT(30) DEF MarkFailed, TypeOK
  <2>2. s \in TunnelStates /\ (s = "none" <=> tunnel[p].state = "none")
    BY DEF TypeOK, SlotsOK, Tunnel, TunnelStates
  <2> HIDE DEF s
  <2>3. /\ t \in Tunnel /\ t.cell = tunnel[p].cell /\ t.inFlight = tunnel[p].inFlight
        /\ t.state = "none" <=> tunnel[p].state = "none"
    BY <2>2 DEF TypeOK, Tunnel
  <2> HIDE DEF t
  <2> QED BY ZenonT(30), <2>1, <2>3 DEF SlotsKept, TypeOK
<1>2. TypeOK'
  BY <1>1 DEF MarkFailed, TypeOK, SlotsKept, clients, background
<1>3. DownOK'
  BY DEF MarkFailed, Up, DownOK, clients, background
<1> QED BY ZenonT(30), <1>1, <1>2, <1>3, SlotsKeptFrames, Frames DEF MarkFailed, clients, background

\* The victims of the boot reap are tracked by nobody yet.
LEMMA BootListInv ==
  ASSUME IInv, BootList
  PROVE  IInv'
<1> USE DEF IInv
<1>1. PICK V \in SUBSET Existing : orphan' = [pc |-> "kill", keep |-> {}, victims |-> V]
  BY Zenon DEF BootList
<1>2. /\ phase = "down" /\ phase' = "booting"
      /\ UNCHANGED <<tunnel, failed, cell, clients, killer, closeTodo>>
  BY Zenon DEF BootList
<1>3. V \subseteq Cells /\ \A c \in V : cell[c].status # "absent"
  BY <1>1 DEF Existing
<1>4. orphan' \in Orphan /\ orphan'.pc = "kill" /\ orphan'.victims = V
  BY ZenonT(30), <1>1, <1>3 DEF Orphan
<1>5. TypeOK'
  BY ZenonT(30), <1>2, <1>4 DEF TypeOK, clients
<1>6. CreatedOK'
  BY ZenonT(30), <1>2, <1>3, <1>4 DEF CreatedOK, clients
<1>7. OrphanOK'
  BY ZenonT(30), <1>2, <1>4 DEF OrphanOK, clients
<1>8. DownOK'
  BY ZenonT(30), <1>2, <1>4 DEF DownOK, clients
<1>9. OrphanSparesTracked'
  <2>1. \A p \in Pools : tunnel[p].cell = NoCell
    BY ZenonT(30), <1>2 DEF DownOK
  <2>2. \A r \in Requests : req[r].cell \notin Cells
    BY <1>2 DEF DownOK, RequestsOK
  <2>3. (Tracked \cup Spawning)' \cap Cells = {}
    BY <1>2, <2>1, <2>2 DEF Tracked, Spawning, clients
  <2> QED BY ZenonT(30), <1>3, <1>4, <2>3 DEF OrphanSparesTracked
<1> QED
  BY ZenonT(30), <1>2, <1>5, <1>6, <1>7, <1>8, <1>9, Frames DEF clients

\* DestroyCell picks a container docker lists.
LEMMA DestroyListInv ==
  ASSUME IInv, NEW d \in Destroyers, DestroyList(d)
  PROVE  IInv'
<1> USE DEF IInv
<1>1. TypeOK'
  <2>1. PICK c \in Cells :
          killer' = [killer EXCEPT ![d] = [IdleKiller EXCEPT !.pc = "kill", !.cell = c]]
    BY ZenonT(30) DEF DestroyList, Existing
  <2>2. [IdleKiller EXCEPT !.pc = "kill", !.cell = c] \in Killer
    BY ZenonT(30) DEF IdleKiller, Killer
  <2> QED BY ZenonT(30), <2>1, <2>2 DEF DestroyList, TypeOK, clients
<1>2. KillersOK'
  BY DEF DestroyList, KillersOK, TypeOK, Up, Existing, IdleKiller, clients
<1>3. DownOK'
  BY DEF DestroyList, DownOK, TypeOK, Up, Existing, IdleKiller, clients
<1> QED
  BY ZenonT(30), <1>1, <1>2, <1>3, Frames DEF DestroyList, clients

\* stateForContainer finds the slot to clear.
LEMMA DestroyFindInv ==
  ASSUME IInv, NEW d \in Destroyers, DestroyFind(d)
  PROVE  IInv'
<1> USE DEF IInv
<1>1. TypeOK'
  BY DEF DestroyFind, TypeOK, Tracked, IdleKiller, Killers, Killer, clients
<1>2. KillersOK'
  BY DEF DestroyFind, KillersOK, SlotsOK, TypeOK, Tracked, IdleKiller, Killers,
     Killer, TunnelStates, clients
<1>3. DownOK'
  BY DEF DestroyFind, DownOK, TypeOK, Tracked, IdleKiller, clients
<1> QED
  BY ZenonT(30), <1>1, <1>2, <1>3, Frames DEF DestroyFind, clients

\* Cancelling the run context touches no pool.
LEMMA StopInv ==
  ASSUME IInv, Stop
  PROVE  IInv'
<1> USE DEF IInv
<1>1. TypeOK'
  BY ZenonT(30) DEF Stop, TypeOK, clients
<1>2. DownOK'
  BY ZenonT(30) DEF Stop, DownOK, TypeOK, clients
<1> QED
  BY ZenonT(30), <1>1, <1>2, Frames DEF Stop, clients

\* Close begins when the loops are done.
LEMMA CloseBeginInv ==
  ASSUME IInv, CloseBegin
  PROVE  IInv'
<1> USE DEF IInv
<1>1. TypeOK'
  BY ZenonT(30) DEF CloseBegin, TypeOK, clients
<1>2. DownOK'
  BY DEF CloseBegin, DownOK, TypeOK, clients
<1> QED
  BY ZenonT(30), <1>1, <1>2, Frames DEF CloseBegin, clients

\* A turn of Close picks the tunnel of a pool.
LEMMA CloseSnapshotInv ==
  ASSUME IInv, CloseSnapshot
  PROVE  IInv'
<1> USE DEF IInv
<1>1. PICK p \in Pools : killer' = [killer EXCEPT !["close"] =
           IF tunnel[p].cell = NoCell THEN IdleKiller
           ELSE [pc |-> "kill", pool |-> p, cell |-> tunnel[p].cell]]
  BY ZenonT(30) DEF CloseSnapshot, TypeOK
<1> DEFINE kl == IF tunnel[p].cell = NoCell THEN IdleKiller
                 ELSE [pc |-> "kill", pool |-> p, cell |-> tunnel[p].cell]
<1>2. killer' = [killer EXCEPT !["close"] = kl]
  BY ZenonT(30), <1>1
<1>3. /\ kl \in Killer /\ kl.pc \in {"scan", "kill"}
      /\ kl.pc = "kill" => /\ kl.pool \in Pools /\ kl.cell \in Cells
                           /\ cell[kl.cell].status # "absent"
  <2>1. CASE tunnel[p].cell = NoCell
    BY <2>1 DEF IdleKiller, Killer
  <2>2. CASE tunnel[p].cell # NoCell
    <3>1. tunnel[p].cell \in Cells /\ cell[tunnel[p].cell].status # "absent"
      BY <2>2 DEF TypeOK, Tunnel, CreatedOK
    <3>2. kl = [pc |-> "kill", pool |-> p, cell |-> tunnel[p].cell]
      BY ZenonT(30), <2>2
    <3> HIDE DEF kl
    <3> QED BY ZenonT(30), <3>1, <3>2 DEF Killer
  <2> QED BY ZenonT(30), <2>1, <2>2
<1> HIDE DEF kl
<1>4. UNCHANGED <<tunnel, failed, cell, clients, orphan, phase>> /\ phase = "closing"
  BY ZenonT(30) DEF CloseSnapshot
<1>5. closeTodo' \subseteq Pools
  BY ZenonT(30) DEF CloseSnapshot, TypeOK
<1>6. killer' \in [Killers -> Killer]
  BY ZenonT(30), <1>2, <1>3 DEF TypeOK
<1>7. TypeOK'
  BY ZenonT(30), <1>4, <1>5, <1>6 DEF TypeOK, clients
<1>8. KillersOK'
  BY ZenonT(30), <1>2, <1>3, <1>4 DEF KillersOK, TypeOK
<1>9. DownOK'
  BY ZenonT(30), <1>4 DEF DownOK
<1> QED
  BY ZenonT(30), <1>4, <1>7, <1>8, <1>9, Frames DEF clients

\* Close returns.
LEMMA CloseEndInv ==
  ASSUME IInv, CloseEnd
  PROVE  IInv'
<1> USE DEF IInv
<1>1. TypeOK'
  BY ZenonT(30) DEF CloseEnd, TypeOK, clients
<1>2. DownOK'
  BY DEF CloseEnd, DownOK, TypeOK, clients
<1> QED
  BY ZenonT(30), <1>1, <1>2, Frames DEF CloseEnd, clients

\* Nothing of the process's memory survives it.
LEMMA ExitInv ==
  ASSUME IInv, Exit
  PROVE  IInv'
<1> USE DEF IInv
<1>1. TypeOK'
  BY ZenonT(30), NoTunnelFacts DEF Exit, TypeOK, RequestsOK, IdleReq, IdleKiller,
     IdleOrphan, Request, Killer, Orphan
<1>2. RequestsOK'
  BY ZenonT(30), NoTunnelFacts DEF Exit, RequestsOK, SlotsOK, TypeOK, Holders, IdleReq,
     IdleKiller, IdleOrphan
<1>3. ConnsOK'
  BY ZenonT(30), NoTunnelFacts DEF Exit, ConnsOK, TypeOK, Holders, IdleReq, IdleKiller,
     IdleOrphan
<1>4. SlotsOK'
  BY ZenonT(30), NoTunnelFacts DEF Exit, SlotsOK, RequestsOK, TypeOK, IdleReq, IdleKiller,
     IdleOrphan
<1>5. CreatedOK'
  BY ZenonT(30), NoTunnelFacts DEF Exit, CreatedOK, RequestsOK, TypeOK, IdleReq,
     IdleKiller, IdleOrphan, TunnelStates, Request
<1>6. KillersOK'
  BY ZenonT(30), NoTunnelFacts DEF Exit, KillersOK, TypeOK, IdleReq, IdleKiller, IdleOrphan
<1>7. MutexOK'
  BY ZenonT(30), NoTunnelFacts DEF Exit, MutexOK, TypeOK, IdleReq, IdleKiller, IdleOrphan,
     InSpawn
<1>8. SpawningOK'
  BY ZenonT(30), NoTunnelFacts DEF Exit, SpawningOK, RequestsOK, TypeOK, IdleReq,
     IdleKiller, IdleOrphan, InSpawn
<1>9. OrphanOK'
  BY ZenonT(30), NoTunnelFacts DEF Exit, OrphanOK, TypeOK, IdleReq, IdleKiller, IdleOrphan
<1>10. DownOK'
  BY ZenonT(30), NoTunnelFacts DEF Exit, DownOK, TypeOK, IdleReq, IdleKiller, IdleOrphan
<1>11. ReleasedWhereAcquired'
  BY ZenonT(30), NoTunnelFacts DEF Exit, ReleasedWhereAcquired, TypeOK, Holders, IdleReq,
     IdleKiller, IdleOrphan
<1>12. ReservationsBounded'
  BY ZenonT(30), NoTunnelFacts, BoundedEmpty DEF Exit
<1>13. OrphanSparesTracked'
  BY ZenonT(30), NoTunnelFacts DEF Exit, OrphanSparesTracked, TypeOK, IdleReq, IdleKiller,
     IdleOrphan, Tracked, Spawning
<1> QED
  BY ZenonT(30), <1>1, <1>2, <1>3, <1>4, <1>5, <1>6, <1>7, <1>8, <1>9, <1>10, <1>11, <1>12,
     <1>13

\* The controller starts to serve.
LEMMA BootEndInv ==
  ASSUME IInv, BootEnd
  PROVE  IInv'
<1> USE DEF IInv
<1>1. TypeOK'
  BY ZenonT(30) DEF BootEnd, TypeOK, clients
<1>2. DownOK'
  BY DEF BootEnd, DownOK, TypeOK, clients
<1> QED
  BY ZenonT(30), <1>1, <1>2, Frames DEF BootEnd, clients

\* A container that grows old is tracked or nobody's.
LEMMA CellAgesInv ==
  ASSUME IInv, NEW c \in Cells, CellAges(c)
  PROVE  IInv'
<1> USE DEF IInv
<1>1. TypeOK'
  BY DEF CellAges, TypeOK, Existing, Spawning, Tracked, Killers, CellInfo,
     background, clients
<1>2. CreatedOK'
  BY DEF CellAges, CreatedOK, TypeOK, Existing, Spawning, Tracked, background,
     clients
<1>3. KillersOK'
  BY DEF CellAges, KillersOK, TypeOK, Existing, Spawning, Tracked, background,
     clients
<1>4. SpawningOK'
  BY DEF CellAges, SpawningOK, TypeOK, Existing, Spawning, Tracked, InSpawn,
     background, clients
<1>5. OrphanOK'
  BY DEF CellAges, OrphanOK, TypeOK, Existing, Spawning, Tracked, background,
     clients
<1>6. ReleasedWhereAcquired'
  BY DEF CellAges, ReleasedWhereAcquired, TypeOK, Existing, Spawning, Tracked,
     background, clients
<1> QED
  BY ZenonT(30), <1>1, <1>2, <1>3, <1>4, <1>5, <1>6, Frames DEF CellAges, background,
     clients

\* The failure cache forgets an entry.
LEMMA FailureExpiresInv ==
  ASSUME IInv, NEW p \in Pools, FailureExpires(p)
  PROVE  IInv'
<1> USE DEF IInv
<1>1. TypeOK'
  BY DEF FailureExpires, TypeOK, background, clients
<1> QED
  BY ZenonT(30), <1>1, Frames DEF FailureExpires, background, clients

-----------------------------------------------------------------------------
(***************************************************************************)
(* The invariant and the properties                                        *)
(***************************************************************************)

\* A controller that has just started holds nothing.
LEMMA InitInv == Init => IInv
<1> SUFFICES ASSUME Init PROVE IInv
  BY ZenonT(30)
<1>1. TypeOK
  <2>1. IdleReq \in Request /\ NewCell \in CellInfo /\ IdleKiller \in Killer /\ IdleOrphan \in Orphan
    BY DEF IdleReq, Request, NewCell, CellInfo, IdleKiller, Killer, IdleOrphan, Orphan
  <2> QED BY ZenonT(30), <2>1, NoTunnelFacts DEF Init, TypeOK
<1>2. RequestsOK
  BY DEF Init, RequestsOK, IdleReq, Holders
<1>3. ConnsOK
  BY ZenonT(30) DEF Init, ConnsOK, Holders
<1>4. SlotsOK
  BY ZenonT(30), NoTunnelFacts DEF Init, SlotsOK
<1>5. CreatedOK
  BY NoTunnelFacts DEF Init, CreatedOK, NewCell, IdleReq, IdleOrphan
<1>6. KillersOK
  BY DEF Init, KillersOK, IdleKiller
<1>7. MutexOK
  BY ZenonT(30) DEF Init, MutexOK, InSpawn, IdleReq
<1>8. SpawningOK
  BY DEF Init, SpawningOK, IdleReq
<1>9. OrphanOK
  BY DEF Init, OrphanOK, IdleReq, IdleOrphan
<1>10. DownOK
  BY ZenonT(30) DEF Init, DownOK
<1>11. ReleasedWhereAcquired
  BY NoTunnelFacts DEF Init, ReleasedWhereAcquired, Holders
<1>12. ReservationsBounded
  <2>1. ASSUME NEW p \in Pools PROVE Cardinality(HoldersOf(tunnel[p].cell)) \in Nat
    BY HoldersFinite DEF HoldersOf
  <2>2. \A p \in Pools : tunnel[p].inFlight = 0
    BY NoTunnelFacts DEF Init
  <2> QED BY <2>1, <2>2 DEF ReservationsBounded
<1>13. OrphanSparesTracked
  BY DEF Init, OrphanSparesTracked, IdleOrphan
<1> QED
  BY ZenonT(30), <1>1, <1>2, <1>3, <1>4, <1>5, <1>6, <1>7, <1>8, <1>9, <1>10, <1>11, <1>12, <1>13
     DEF IInv

\* Every step of every handler, loop and of the environment keeps the invariant.
LEMMA NextInv == IInv /\ [Next]_vars => IInv'
<1> SUFFICES ASSUME IInv, [Next]_vars PROVE IInv'
  OBVIOUS
<1>1. ASSUME NEW r \in Requests, RequestStep(r) PROVE IInv'
  BY ZenonT(30), <1>1, StartInv, FallbackInv, LockInv, SkipInv, PickInv, CreateInv, CreateFailsInv,
     ObserveInv, SpawnFailsInv, PublishInv, IssueInv, IssueFailsInv, RespondInv
     DEF RequestStep
<1>2. ASSUME NEW k \in Conns, ConnStep(k) PROVE IInv'
  BY <1>2, DialInv, ConnectInv, HangupInv DEF ConnStep
<1>3. ASSUME LoopStep PROVE IInv'
  BY <1>3, IdleSnapshotInv, HealthSnapshotInv, IdleProbeInv, HealthProbeInv,
     OrphanKeepInv, OrphanListInv, OrphanKillInv DEF LoopStep
<1>4. ASSUME NEW k \in Killers, KillerStep(k) PROVE IInv'
  BY <1>4, MarkInv, KillInv, ClearInv DEF KillerStep
<1>5. ASSUME NEW d \in Destroyers, DestroyStep(d) PROVE IInv'
  BY <1>5, DestroyListInv, DestroyFindInv DEF DestroyStep
<1>6. ASSUME Lifecycle PROVE IInv'
  BY <1>6, StopInv, CloseBeginInv, CloseSnapshotInv, CloseEndInv, ExitInv, BootListInv,
     BootEndInv DEF Lifecycle
<1>7. ASSUME Environment PROVE IInv'
  BY ZenonT(30), <1>7, CellStepInv, CellAgesInv, TunnelIdlesInv, FailureExpiresInv, MarkFailedInv
     DEF Environment
<1>8. ASSUME UNCHANGED vars PROVE IInv'
  <2>1. TypeOK'
    BY <1>8 DEF IInv, TypeOK, vars
  <2> QED BY ZenonT(30), <1>8, <2>1, Frames DEF IInv, vars
<1> QED BY <1>1, <1>2, <1>3, <1>4, <1>5, <1>6, <1>7, <1>8 DEF Next

\* The inductive invariant holds of every behaviour of the controller, for any
\* number of pools, cells, requests, connections and DELETE handlers.
THEOREM Inductive == Spec => []IInv
BY InitInv, NextInv, PTL DEF Spec

\* The variables keep their types: no counter goes below zero, no handler works
\* on a pool or a cell that does not exist.
THEOREM Types == Spec => []TypeOK
<1>1. IInv => TypeOK
  BY DEF IInv
<1> QED BY <1>1, Inductive, PTL

\* At most one spawn is in flight per pool (pool.go, Manager.spawnMu), fallback
\* hops, error paths and restarts included, and a mutex that is locked belongs to
\* a request inside the critical section.
THEOREM MutualExclusion == Spec => []SpawnsExclusive
<1>1. IInv => SpawnsExclusive
  BY DEF IInv, MutexOK, SpawnsExclusive
<1> QED BY <1>1, Inductive, PTL

\* No tunnel counts more reservations than are open on its cell (PoolState.acquire,
\* release and setTunnel).
THEOREM BoundedReservations == Spec => []ReservationsBounded
<1>1. IInv => ReservationsBounded
  BY DEF IInv
<1> QED BY <1>1, Inductive, PTL

\* Manager.Release always reaches the pool the reservation was taken in.
THEOREM ReleaseReachesPool == Spec => []ReleasedWhereAcquired
<1>1. IInv => ReleasedWhereAcquired
  BY DEF IInv
<1> QED BY <1>1, Inductive, PTL

\* reapOrphans never lists a tracked cell, or one being spawned, for killing.
THEOREM OrphanSafety == Spec => []OrphanSparesTracked
<1>1. IInv => OrphanSparesTracked
  BY ZenonT(30) DEF IInv
<1> QED BY <1>1, Inductive, PTL

\* A step that replaces the tunnel of pool p by t, which has the latest URL of
\* its own cell, none, or that of an unchanged cell, keeps URLs current.
LEMMA URLKept ==
  ASSUME TypeOK, LastURLCurrent, NEW p \in Pools, NEW t,
         tunnel' = [tunnel EXCEPT ![p] = t],
         t.lastURL \in {NoCell, t.cell} \/ (t.cell = tunnel[p].cell /\ t.lastURL = tunnel[p].lastURL)
  PROVE  LastURLCurrent'
BY DEF TypeOK, LastURLCurrent

\* No step makes a pool report a URL that routes to another cell than its own.
LEMMA NextURL == IInv /\ LastURLCurrent /\ [Next]_vars => LastURLCurrent'
<1> SUFFICES ASSUME IInv, LastURLCurrent, [Next]_vars PROVE LastURLCurrent'
  OBVIOUS
<1>0. TypeOK /\ RequestsOK /\ ConnsOK /\ CreatedOK /\ KillersOK
  BY DEF IInv
<1>a. ASSUME UNCHANGED tunnel PROVE LastURLCurrent'
  BY <1>a DEF LastURLCurrent
<1>b. ASSUME NEW p \in Pools, tunnel' = [tunnel EXCEPT ![p] = Acquired(@)]
      PROVE  LastURLCurrent'
  BY ZenonT(30), <1>0, <1>b, AcquiredFacts, URLKept DEF TypeOK
<1>c. ASSUME NEW p \in Pools, tunnel' = [tunnel EXCEPT ![p] = Released(@)]
      PROVE  LastURLCurrent'
  BY ZenonT(30), <1>0, <1>c, ReleasedFacts, URLKept DEF TypeOK
<1>1. ASSUME NEW r \in Requests, RequestStep(r) PROVE LastURLCurrent'
  <2>1. ASSUME NEW q, q.pool \in Pools, TryAcquire(r, q) PROVE LastURLCurrent'
    BY <1>a, <1>b, <2>1 DEF TryAcquire, Take
  <2>2. CASE Start(r)
    <3>1. PICK p \in Pools : \E f \in {NoPool, FallbackPool[p]},
                                x \in {NoCell} \cup {c \in leases : Excludes} :
            TryAcquire(r, [IdleReq EXCEPT !.pool = p, !.fallback = f, !.exclude = x])
      BY ZenonT(30), <2>2 DEF Start
    <3>2. PICK f \in {NoPool, FallbackPool[p]}, x \in {NoCell} \cup {c \in leases : Excludes} :
            TryAcquire(r, [IdleReq EXCEPT !.pool = p, !.fallback = f, !.exclude = x])
      BY ZenonT(30), <3>1
    <3>3. [IdleReq EXCEPT !.pool = p, !.fallback = f, !.exclude = x].pool = p
      BY DEF IdleReq
    <3> QED BY ZenonT(30), <2>1, <3>2, <3>3
  <2>3. CASE Fallback(r)
    BY <1>0, <2>1, <2>3 DEF Fallback, RequestsOK
  <2>4. CASE Lock(r)
    BY <1>0, <1>a, <1>b, <2>4 DEF Lock, Take, RequestsOK
  <2>5. CASE Publish(r)
    <3>1. req[r].pool \in Pools /\ req[r].cell \in Cells
      BY <1>0, <2>5 DEF Publish, RequestsOK
    <3>2. tunnel' = [tunnel EXCEPT ![req[r].pool] = HotTunnel(req[r].cell)]
      BY <2>5 DEF Publish
    <3>3. HotTunnel(req[r].cell).lastURL = NoCell
      BY <3>1, HotTunnelFacts
    <3> QED BY ZenonT(30), <1>0, <3>1, <3>2, <3>3, URLKept
  <2>6. CASE Issue(r)
    <3>1. req[r].pool \in Pools /\ held[r] \in Cells
      BY <1>0, <2>6 DEF Issue, RequestsOK
    <3>2. tunnel' = [tunnel EXCEPT ![req[r].pool] = WithLastURL(@, held[r])]
      BY ZenonT(30), <2>6 DEF Issue
    <3>3. WithLastURL(tunnel[req[r].pool], held[r]).lastURL
            \in {tunnel[req[r].pool].lastURL, tunnel[req[r].pool].cell}
      BY ZenonT(30), <1>0, <3>1, WithLastURLFacts DEF TypeOK
    <3> QED BY ZenonT(30), <1>0, <3>1, <3>2, <3>3, WithLastURLFacts, URLKept DEF TypeOK
  <2>7. CASE IssueFails(r) \/ Respond(r)
    BY ZenonT(30), <1>0, <1>c, <2>7 DEF IssueFails, Respond, Release, RequestsOK
  <2> QED
    BY ZenonT(30), <1>1, <1>a, <2>2, <2>3, <2>4, <2>5, <2>6, <2>7
       DEF RequestStep, Skip, Pick, Create, CreateFails, Observe, SpawnFails
<1>2. ASSUME NEW k \in Conns, ConnStep(k) PROVE LastURLCurrent'
  <2>1. CASE Dial(k)
    BY ZenonT(30), <1>0, <1>b, <2>1 DEF Dial, TypeOK, CreatedOK
  <2>2. CASE Hangup(k)
    BY ZenonT(30), <1>0, <1>c, <2>2 DEF Hangup, Release, ConnsOK, CreatedOK, Holders
  <2> QED BY <1>2, <1>a, <2>1, <2>2 DEF ConnStep, Connect
<1>3. ASSUME NEW k \in Killers, KillerStep(k) PROVE LastURLCurrent'
  <2>1. CASE Mark(k)
    <3> DEFINE p == killer[k].pool
               t == Reaping(tunnel[p], killer[k].cell)
    <3>1. p \in Pools /\ killer[k].cell \in Cells /\ tunnel[p] \in Tunnel
      BY <1>0, <2>1 DEF Mark, KillersOK, TypeOK
    <3>2. tunnel' = [tunnel EXCEPT ![p] = t]
      BY ZenonT(30), <2>1 DEF Mark
    <3>3. t.cell = tunnel[p].cell /\ t.lastURL = tunnel[p].lastURL
      BY <3>1, ReapingFacts
    <3> HIDE DEF p, t
    <3> QED BY ZenonT(30), <1>0, <3>1, <3>2, <3>3, URLKept
  <2>2. CASE Clear(k)
    BY ZenonT(30), <1>0, <2>2, NoTunnelFacts, URLKept DEF Clear, KillersOK
  <2> QED BY <1>3, <1>a, <2>1, <2>2 DEF KillerStep, Kill
<1>4. ASSUME Lifecycle PROVE LastURLCurrent'
  <2>1. CASE Exit
    BY <2>1, NoTunnelFacts DEF Exit, LastURLCurrent
  <2> QED
    BY ZenonT(30), <1>4, <1>a, <2>1
       DEF Lifecycle, Stop, CloseBegin, CloseSnapshot, CloseEnd, BootList, BootEnd
<1>5. ASSUME Environment PROVE LastURLCurrent'
  <2>1. ASSUME NEW p \in Pools, TunnelIdles(p) PROVE LastURLCurrent'
    <3> DEFINE t == [tunnel[p] EXCEPT !.lastUsed = "idle"]
    <3>1. tunnel' = [tunnel EXCEPT ![p] = t]
      BY <2>1 DEF TunnelIdles
    <3>2. t.cell = tunnel[p].cell /\ t.lastURL = tunnel[p].lastURL
      BY <1>0 DEF TypeOK, Tunnel
    <3> HIDE DEF t
    <3> QED BY ZenonT(30), <1>0, <3>1, <3>2, URLKept
  <2>2. ASSUME NEW p \in Pools, NEW conf \in Confs, MarkFailed(p, conf)
        PROVE  LastURLCurrent'
    <3> DEFINE s == IF tunnel[p].cell # NoCell /\ cell[tunnel[p].cell].conf = conf
                    THEN "unhealthy" ELSE tunnel[p].state
               t == [tunnel[p] EXCEPT !.state = s]
    <3>1. tunnel' = [tunnel EXCEPT ![p] = t]
      BY <2>2 DEF MarkFailed
    <3> HIDE DEF s
    <3>2. t.cell = tunnel[p].cell /\ t.lastURL = tunnel[p].lastURL
      BY <1>0 DEF TypeOK, Tunnel
    <3> HIDE DEF t
    <3> QED BY ZenonT(30), <1>0, <3>1, <3>2, URLKept
  <2> QED
    BY <1>5, <1>a, <2>1, <2>2 DEF Environment, CellBoots, CellDies, CellAges, FailureExpires
<1> QED
  BY ZenonT(30), <1>1, <1>2, <1>3, <1>4, <1>5, <1>a
     DEF Next, vars, LoopStep, IdleSnapshot, HealthSnapshot, IdleProbe, HealthProbe,
         OrphanKeep, OrphanList, OrphanKill, DestroyStep, DestroyList, DestroyFind

\* The latest URL a pool reports always routes to the cell it holds
\* (PoolState.setLastURL and its container check).
THEOREM CurrentURLs == Spec => []LastURLCurrent
<1>1. Init => LastURLCurrent
  BY NoTunnelFacts DEF Init, LastURLCurrent
<1> QED BY <1>1, Inductive, NextURL, PTL DEF Spec

=============================================================================
