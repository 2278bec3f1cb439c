---------------------------- MODULE CellPoolFacts ----------------------------
(***************************************************************************)
(* Lemmas behind the proofs about CellPool: what the operations on a       *)
(* tunnel and on a container keep, which parts of IInv a step leaves alone *)
(* because of what it leaves unchanged, and why the count of reservations  *)
(* stays bounded when one opens, closes, or its tunnel goes.               *)
(***************************************************************************)
EXTENDS CellPoolInv, TLAPS, FiniteSetTheorems

\* Every leaf may use the assumptions; the provers have 30 seconds for it.
USE CellsAssumption, ConfsAssumption, PoolsAssumption, ActorsAssumption, SMTT(30), ZenonT(20), SMTT(29)

\* acquire and acquireContainer count one reservation on the same cell.
LEMMA AcquiredFacts ==
  ASSUME NEW t \in Tunnel
  PROVE  /\ Acquired(t) \in Tunnel
         /\ Acquired(t).cell = t.cell /\ Acquired(t).state = t.state
         /\ Acquired(t).lastURL = t.lastURL
         /\ Acquired(t).inFlight = t.inFlight + 1
<1> DEFINE u == [t EXCEPT !.inFlight = @ + 1]
<1>1. /\ u \in Tunnel /\ u.cell = t.cell /\ u.state = t.state
      /\ u.lastURL = t.lastURL /\ u.inFlight = t.inFlight + 1
  BY DEF Tunnel
<1>2. Acquired(t) = [u EXCEPT !.lastUsed = "recent"]
  BY DEF Acquired
<1> HIDE DEF u
<1> QED BY <1>1, <1>2 DEF Tunnel

\* release gives at most one reservation back and touches nothing else.
LEMMA ReleasedFacts ==
  ASSUME NEW t \in Tunnel
  PROVE  /\ Released(t) \in Tunnel
         /\ Released(t).cell = t.cell /\ Released(t).state = t.state
         /\ Released(t).lastURL = t.lastURL
         /\ Released(t).inFlight = IF t.cell = NoCell \/ t.inFlight = 0
                                   THEN t.inFlight ELSE t.inFlight - 1
BY DEF Released, Tunnel

\* setLastURL changes nothing but the latest URL, to the cell itself.
LEMMA WithLastURLFacts ==
  ASSUME NEW t \in Tunnel, NEW c \in Cells
  PROVE  /\ WithLastURL(t, c) \in Tunnel
         /\ WithLastURL(t, c).cell = t.cell /\ WithLastURL(t, c).state = t.state
         /\ WithLastURL(t, c).inFlight = t.inFlight
         /\ WithLastURL(t, c).lastURL \in {t.lastURL, t.cell}
BY DEF WithLastURL, Tunnel

\* killTunnel's mark changes nothing but the state of a tunnel.
LEMMA ReapingFacts ==
  ASSUME NEW t \in Tunnel, NEW c \in Cells
  PROVE  /\ Reaping(t, c) \in Tunnel
         /\ Reaping(t, c).cell = t.cell
         /\ Reaping(t, c).state \in {t.state, "reaping"}
         /\ t.cell = NoCell => Reaping(t, c) = t
         /\ Reaping(t, c).lastURL = t.lastURL
         /\ Reaping(t, c).inFlight = t.inFlight
BY DEF Reaping, Tunnel, TunnelStates

\* A published tunnel is hot and counts its spawner's reservation.
LEMMA HotTunnelFacts ==
  ASSUME NEW c \in Cells
  PROVE  /\ HotTunnel(c) \in Tunnel
         /\ HotTunnel(c).cell = c /\ HotTunnel(c).state = "hot"
         /\ HotTunnel(c).lastURL = NoCell /\ HotTunnel(c).inFlight = 1
BY DEF HotTunnel, Tunnel, TunnelStates

\* An empty slot counts nothing.
LEMMA NoTunnelFacts ==
  /\ NoTunnel \in Tunnel
  /\ NoTunnel.cell = NoCell /\ NoTunnel.state = "none"
  /\ NoTunnel.lastURL = NoCell /\ NoTunnel.inFlight = 0
BY DEF NoTunnel, Tunnel, TunnelStates

\* What a step that boots, stops or removes containers keeps of them.
CellKept ==
  /\ cell' \in [Cells -> CellInfo]
  /\ \A c \in Cells : /\ cell'[c].pool = cell[c].pool
                      /\ cell'[c].conf = cell[c].conf
                      /\ cell'[c].status = "absent" <=> cell[c].status = "absent"
                      /\ cell'[c].age = "old" => cell[c].age = "old"

\* Removing a container keeps its pool and configuration.
LEMMA RemovedFacts ==
  ASSUME TypeOK, NEW c \in Cells, cell[c].status # "absent", cell' = Removed(c)
  PROVE  CellKept
<1> DEFINE i == [cell[c] EXCEPT !.status = "gone"]
           j == [i EXCEPT !.age = "young"]
<1>1. i \in CellInfo /\ i.pool = cell[c].pool /\ i.conf = cell[c].conf /\ i.status = "gone"
  BY DEF TypeOK, CellInfo
<1>2. cell' = [cell EXCEPT ![c] = j]
  BY ZenonT(30) DEF TypeOK, Removed, CellInfo
<1> HIDE DEF i
<1>3. /\ j \in CellInfo /\ j.pool = i.pool /\ j.conf = i.conf
      /\ j.status = "gone" /\ j.age = "young"
  BY <1>1 DEF CellInfo
<1> HIDE DEF j
<1> QED BY <1>1, <1>2, <1>3 DEF TypeOK, CellKept

\* docker's stop and remove, done or failed, keeps what CellKept says.
LEMMA KillCellFacts ==
  ASSUME TypeOK, NEW c \in Cells, cell[c].status # "absent", NEW mayFail, KillCell(c, mayFail)
  PROVE  CellKept
<1>1. CASE cell' = Removed(c) BY <1>1, RemovedFacts
<1>2. CASE cell' = cell BY <1>2 DEF TypeOK, CellInfo, CellKept
<1> QED BY <1>1, <1>2 DEF KillCell

\* Each part of the invariant depends on a few variables.
LEMMA Frames ==
  /\ RequestsOK /\ UNCHANGED <<req, held>> => RequestsOK'
  /\ ConnsOK /\ UNCHANGED <<conn, held>> => ConnsOK'
  /\ SlotsOK /\ UNCHANGED <<tunnel>> => SlotsOK'
  /\ CreatedOK /\ UNCHANGED <<cell, tunnel, held, req, leases, orphan>> => CreatedOK'
  /\ KillersOK /\ UNCHANGED <<killer, cell>> => KillersOK'
  /\ MutexOK /\ UNCHANGED <<req, spawnMu>> => MutexOK'
  /\ SpawningOK /\ UNCHANGED <<req, cell, tunnel, held>> => SpawningOK'
  /\ OrphanOK /\ UNCHANGED <<req, cell, orphan, tunnel>> => OrphanOK'
  /\ DownOK /\ UNCHANGED <<phase, tunnel, req, killer, orphan>> => DownOK'
  /\ ReleasedWhereAcquired /\ UNCHANGED <<held, cell, req, tunnel>> => ReleasedWhereAcquired'
  /\ ReservationsBounded /\ UNCHANGED <<tunnel, held>> => ReservationsBounded'
  /\ OrphanSparesTracked /\ UNCHANGED <<orphan, tunnel, req>> => OrphanSparesTracked'
<1>1. RequestsOK /\ UNCHANGED <<req, held>> => RequestsOK'
  BY DEF RequestsOK
<1>2. ConnsOK /\ UNCHANGED <<conn, held>> => ConnsOK'
  BY DEF ConnsOK
<1>3. SlotsOK /\ UNCHANGED <<tunnel>> => SlotsOK'
  BY DEF SlotsOK
<1>4. CreatedOK /\ UNCHANGED <<cell, tunnel, held, req, leases, orphan>> => CreatedOK'
  BY DEF CreatedOK
<1>5. KillersOK /\ UNCHANGED <<killer, cell>> => KillersOK'
  BY DEF KillersOK
<1>6. MutexOK /\ UNCHANGED <<req, spawnMu>> => MutexOK'
  BY DEF MutexOK, InSpawn
<1>7. SpawningOK /\ UNCHANGED <<req, cell, tunnel, held>> => SpawningOK'
  BY DEF SpawningOK
<1>8. OrphanOK /\ UNCHANGED <<req, cell, orphan, tunnel>> => OrphanOK'
  BY DEF OrphanOK
<1>9. DownOK /\ UNCHANGED <<phase, tunnel, req, killer, orphan>> => DownOK'
  BY DEF DownOK
<1>10. ReleasedWhereAcquired /\ UNCHANGED <<held, cell, req, tunnel>> => ReleasedWhereAcquired'
  BY DEF ReleasedWhereAcquired
<1>11. ReservationsBounded /\ UNCHANGED <<tunnel, held>> => ReservationsBounded'
  BY DEF ReservationsBounded, HoldersOf
<1>12. OrphanSparesTracked /\ UNCHANGED <<orphan, tunnel, req>> => OrphanSparesTracked'
  BY DEF OrphanSparesTracked, Tracked, Spawning
<1> QED BY <1>1, <1>2, <1>3, <1>4, <1>5, <1>6, <1>7, <1>8, <1>9, <1>10, <1>11, <1>12

\* What a step that only marks or stamps tunnels keeps of them.
SlotsKept ==
  /\ tunnel' \in [Pools -> Tunnel]
  /\ \A p \in Pools : /\ tunnel'[p].cell = tunnel[p].cell
                      /\ tunnel'[p].inFlight = tunnel[p].inFlight
                      /\ tunnel'[p].state = "none" <=> tunnel[p].state = "none"

\* Containers that boot, stop or are removed disturb nothing else.
LEMMA CellKeptFrames ==
  ASSUME IInv, CellKept, UNCHANGED <<tunnel, held, req, leases>>,
         orphan'.victims \subseteq orphan.victims, orphan'.pc = "list" => orphan' = orphan
  PROVE  CreatedOK' /\ SpawningOK' /\ OrphanOK' /\ ReleasedWhereAcquired' /\ OrphanSparesTracked'
<1> USE DEF IInv, CellKept
<1>1. CreatedOK'
  BY ZenonT(30) DEF TypeOK, CreatedOK, Orphan
<1>2. SpawningOK'
  BY DEF SpawningOK
<1>3. OrphanOK'
  BY DEF OrphanOK, CellInfo
<1>4. ReleasedWhereAcquired'
  BY DEF TypeOK, ReleasedWhereAcquired, RequestsOK, Tunnel, Holders
<1>5. OrphanSparesTracked'
  BY DEF OrphanSparesTracked, Tracked, Spawning
<1> QED BY <1>1, <1>2, <1>3, <1>4, <1>5

\* Nor do tunnels that are marked or stamped.
LEMMA SlotsKeptFrames ==
  ASSUME IInv, SlotsKept, UNCHANGED <<cell, held, req, leases, orphan>>
  PROVE  /\ SlotsOK' /\ CreatedOK' /\ SpawningOK' /\ OrphanOK'
         /\ ReleasedWhereAcquired' /\ ReservationsBounded' /\ OrphanSparesTracked'
<1> USE DEF IInv, SlotsKept
<1>1. SlotsOK'
  BY DEF SlotsOK
<1>2. CreatedOK'
  BY DEF CreatedOK
<1>3. SpawningOK'
  BY DEF SpawningOK
<1>4. OrphanOK'
  BY DEF OrphanOK
<1>5. ReleasedWhereAcquired'
  BY DEF ReleasedWhereAcquired
<1>6. ReservationsBounded'
  <2>1. \A c : HoldersOf(c)' = HoldersOf(c)
    BY DEF HoldersOf
  <2> QED BY <2>1 DEF ReservationsBounded
<1>7. OrphanSparesTracked'
  BY DEF OrphanSparesTracked, Tracked, Spawning
<1> QED BY <1>1, <1>2, <1>3, <1>4, <1>5, <1>6, <1>7

\* Sets of reservations are finite.
LEMMA HoldersFinite ==
  ASSUME NEW S \in SUBSET Holders
  PROVE  IsFiniteSet(S) /\ Cardinality(S) \in Nat
<1>1. IsFiniteSet(Holders)
  BY ZenonT(30), FS_Union DEF Holders
<1> QED BY <1>1, FS_Subset, FS_CardinalityType

\* A step that opens the reservation of a on the cell of pool p, and counts it
\* once there, keeps the counts bounded.
LEMMA BoundedOpen ==
  ASSUME TypeOK, SlotsOK, ReservationsBounded,
         NEW a \in Holders, NEW p \in Pools, NEW t \in Tunnel, held[a] = NoCell,
         tunnel' = [tunnel EXCEPT ![p] = t], held' = [held EXCEPT ![a] = t.cell],
         t.cell \in Cells,
         \/ t.inFlight = 1
         \/ t.cell = tunnel[p].cell /\ t.inFlight = tunnel[p].inFlight + 1
  PROVE  ReservationsBounded'
<1> DEFINE H(c) == {b \in Holders : held[b] = c}
           J(c) == {b \in Holders : held'[b] = c}
<1>1. ASSUME NEW c PROVE /\ IsFiniteSet(H(c)) /\ Cardinality(H(c)) \in Nat
                         /\ IsFiniteSet(J(c)) /\ Cardinality(J(c)) \in Nat
  BY HoldersFinite, H(c) \subseteq Holders, J(c) \subseteq Holders
<1>2. J(t.cell) = H(t.cell) \cup {a} /\ a \notin H(t.cell)
  BY DEF TypeOK
<1>3. Cardinality(J(t.cell)) = Cardinality(H(t.cell)) + 1
  <2> HIDE DEF H, J
  <2> QED BY ZenonT(30), <1>1, <1>2, FS_AddElement
<1>4. ASSUME NEW o \in Pools, o # p
      PROVE  tunnel'[o].inFlight <= Cardinality(J(tunnel'[o].cell))
  <2>1. tunnel'[o] = tunnel[o] /\ tunnel[o].inFlight <= Cardinality(H(tunnel[o].cell))
    BY <1>4 DEF TypeOK, ReservationsBounded, HoldersOf
  <2>2. CASE tunnel[o].cell = NoCell
    <3> HIDE DEF H, J
    <3> QED BY <2>1, <2>2, <1>1 DEF SlotsOK
  <2>3. CASE tunnel[o].cell # NoCell
    <3>1. H(tunnel[o].cell) \subseteq J(tunnel[o].cell)
      BY <2>3 DEF TypeOK
    <3> HIDE DEF H, J
    <3>2. Cardinality(H(tunnel[o].cell)) <= Cardinality(J(tunnel[o].cell))
      BY <3>1, <1>1, FS_Subset
    <3> QED BY <2>1, <3>2, <1>1 DEF TypeOK, Tunnel
  <2> QED BY <2>2, <2>3
<1>5. tunnel'[p].inFlight <= Cardinality(J(tunnel'[p].cell))
  <2>1. tunnel'[p] = t /\ tunnel[p].inFlight <= Cardinality(H(tunnel[p].cell))
    BY DEF TypeOK, ReservationsBounded, HoldersOf
  <2> HIDE DEF H, J
  <2> QED BY <2>1, <1>1, <1>3 DEF TypeOK, Tunnel
<1> QED BY ZenonT(30), <1>4, <1>5 DEF ReservationsBounded, HoldersOf

\* A step that closes the reservation of a on a cell of pool p, and releases it
\* there, keeps the counts bounded.
LEMMA BoundedClose ==
  ASSUME TypeOK, SlotsOK, ReservationsBounded, ReleasedWhereAcquired,
         NEW a \in Holders, NEW p \in Pools, held[a] \in Cells, cell[held[a]].pool = p,
         Release(a, p)
  PROVE  ReservationsBounded'
<1> DEFINE H(c) == {b \in Holders : held[b] = c}
           J(c) == {b \in Holders : held'[b] = c}
<1>1. ASSUME NEW c PROVE /\ IsFiniteSet(H(c)) /\ Cardinality(H(c)) \in Nat
                         /\ IsFiniteSet(J(c)) /\ Cardinality(J(c)) \in Nat
  BY HoldersFinite, H(c) \subseteq Holders, J(c) \subseteq Holders
<1>2. J(held[a]) = H(held[a]) \ {a} /\ a \in H(held[a])
  BY DEF TypeOK, Release
<1>3. Cardinality(J(held[a])) = Cardinality(H(held[a])) - 1
  <2> HIDE DEF H, J
  <2>1. ASSUME NEW S, NEW x \in S, IsFiniteSet(S)
        PROVE  Cardinality(S \ {x}) = Cardinality(S) - 1
    BY ZenonT(30), <2>1, FS_RemoveElement
  <2>2. IsFiniteSet(H(held[a]))
    BY ZenonT(30), <1>1
  <2> QED BY ZenonT(30), <1>2, <2>1, <2>2
<1>4. ASSUME NEW c \in Cells, c # held[a] PROVE J(c) = H(c)
  BY <1>4 DEF TypeOK, Release
<1>5. ASSUME NEW o \in Pools
      PROVE  tunnel'[o].inFlight <= Cardinality(J(tunnel'[o].cell))
  <2>1. /\ tunnel[o] \in Tunnel /\ tunnel'[o] = IF o = p THEN Released(tunnel[o]) ELSE tunnel[o]
        /\ tunnel[o].inFlight <= Cardinality(H(tunnel[o].cell))
    BY DEF TypeOK, Release, ReservationsBounded, HoldersOf
  <2>2. tunnel[o].cell = held[a] => o = p
    BY DEF ReleasedWhereAcquired
  <2>3. tunnel[o].cell = NoCell => tunnel[o].inFlight = 0
    BY DEF SlotsOK
  <2> HIDE DEF H, J
  <2> QED BY <2>1, <2>2, <2>3, <1>1, <1>3, <1>4, ReleasedFacts DEF Tunnel
<1> QED BY <1>5 DEF ReservationsBounded, HoldersOf

\* A step that empties slots keeps the counts bounded.
LEMMA BoundedEmpty ==
  ASSUME TypeOK, ReservationsBounded,
         \A p \in Pools : \/ tunnel'[p].inFlight = 0
                          \/ tunnel'[p] = tunnel[p] /\ UNCHANGED held
  PROVE  ReservationsBounded'
<1> DEFINE J(c) == {b \in Holders : held'[b] = c}
<1>1. ASSUME NEW c PROVE Cardinality(J(c)) \in Nat
  BY HoldersFinite, J(c) \subseteq Holders
<1>2. ASSUME NEW p \in Pools PROVE tunnel'[p].inFlight <= Cardinality(J(tunnel'[p].cell))
  <2>1. CASE tunnel'[p].inFlight = 0
    <3> HIDE DEF J
    <3> QED BY <2>1, <1>1
  <2>2. CASE tunnel'[p] = tunnel[p] /\ UNCHANGED held
    BY <2>2 DEF ReservationsBounded, HoldersOf
  <2> QED BY <2>1, <2>2
<1> QED BY <1>2 DEF ReservationsBounded, HoldersOf

\* What a step that only counts reservations keeps of the tunnels.
TunnelsKept ==
  /\ tunnel' \in [Pools -> Tunnel]
  /\ \A p \in Pools : /\ tunnel'[p].cell = tunnel[p].cell
                      /\ tunnel'[p].state = tunnel[p].state
                      /\ tunnel[p].cell = NoCell => tunnel'[p].inFlight = tunnel[p].inFlight

\* A step that opens or closes reservations on tracked cells, and lets go of
\* no more than its own request, disturbs nothing else.
LEMMA TunnelsKeptFrames ==
  ASSUME IInv, TunnelsKept, UNCHANGED <<cell, leases, orphan>>,
         held' \in [Holders -> Cells \cup {NoCell}], req' \in [Requests -> Request],
         \A a \in Holders : \/ held'[a] \in {NoCell, held[a]}
                            \/ \E p \in Pools : held'[a] = tunnel[p].cell,
         \A r \in Requests : req'[r].cell \in Cells =>
                               req'[r].cell = req[r].cell /\ req'[r].pool = req[r].pool
  PROVE  /\ SlotsOK' /\ CreatedOK' /\ SpawningOK' /\ OrphanOK' /\ OrphanSparesTracked'
         /\ \A p \in Pools : tunnel'[p].cell # NoCell => cell'[tunnel'[p].cell].pool = p
<1> USE DEF IInv, TunnelsKept
<1>1. SlotsOK'
  BY DEF SlotsOK
<1>2. CreatedOK'
  <2>1. \A a \in Holders : held'[a] \in Cells => cell'[held'[a]].status # "absent"
    BY DEF CreatedOK
  <2>2. \A p \in Pools : tunnel'[p].cell \in Cells => cell'[tunnel'[p].cell].status # "absent"
    BY DEF CreatedOK
  <2>3. \A r \in Requests : req'[r].cell \in Cells => cell'[req'[r].cell].status # "absent"
    BY DEF CreatedOK
  <2> QED BY <2>1, <2>2, <2>3 DEF CreatedOK
<1>3. SpawningOK'
  BY DEF SpawningOK
<1>4. OrphanOK'
  BY DEF OrphanOK
<1>5. OrphanSparesTracked'
  <2>1. Tracked' = Tracked
    BY DEF Tracked
  <2>2. Spawning' \subseteq Spawning
    BY DEF Spawning, Request
  <2> QED BY <2>1, <2>2 DEF OrphanSparesTracked
<1>6. \A p \in Pools : tunnel'[p].cell # NoCell => cell'[tunnel'[p].cell].pool = p
  BY DEF ReleasedWhereAcquired
<1> QED BY <1>1, <1>2, <1>3, <1>4, <1>5, <1>6

\* Manager.Release lowers one count and ends one reservation.
LEMMA ReleaseFacts ==
  ASSUME TypeOK, NEW a \in Holders, NEW p \in Pools, Release(a, p)
  PROVE  /\ TunnelsKept
         /\ held' \in [Holders -> Cells \cup {NoCell}] /\ held'[a] = NoCell
         /\ \A b \in Holders : b # a => held'[b] = held[b]
<1>1. tunnel[p] \in Tunnel /\ tunnel' = [tunnel EXCEPT ![p] = Released(tunnel[p])]
  BY DEF TypeOK, Release
<1>2. TunnelsKept
  BY <1>1, ReleasedFacts DEF TypeOK, TunnelsKept
<1>3. held' = [held EXCEPT ![a] = NoCell]
  BY DEF Release
<1> QED BY <1>2, <1>3 DEF TypeOK

=============================================================================
