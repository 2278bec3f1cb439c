----------------------------- MODULE CellPoolInv -----------------------------
(***************************************************************************)
(* The inductive invariant of CellPool, in named parts.  TLC checks it on  *)
(* small instances; CellPoolProofs proves it for all of them.              *)
(***************************************************************************)
EXTENDS CellPool

\* A request handler has the fields its next step uses, and holds a reservation
\* exactly between the acquisition and the release.
RequestsOK ==
  \A r \in Requests :
    /\ req[r].pc # "idle" => req[r].pool \in Pools
    /\ req[r].pc = "skip" => req[r].exclude \in Cells
    /\ req[r].pc \in {"create", "wait", "publish"} => req[r].conf \in Confs
    /\ req[r].pc \in {"wait", "publish"} <=> req[r].cell \in Cells
    /\ req[r].pc \in {"issue", "respond"} <=> held[r] \in Cells

\* A connection holds a reservation exactly while it exists.
ConnsOK == \A k \in Conns : conn[k] # "idle" <=> held[k] \in Cells

\* A slot without a cell counts nothing; one with a cell is in some state.
SlotsOK ==
  \A p \in Pools :
    /\ tunnel[p].cell = NoCell => tunnel[p].state = "none" /\ tunnel[p].inFlight = 0
    /\ tunnel[p].cell # NoCell => tunnel[p].state # "none"

\* What has been created belongs to a pool and a configuration, and only what
\* has been created is tracked, held, leased, or about to be killed.
CreatedOK ==
  /\ \A c \in Cells : cell[c].status # "absent" => cell[c].pool \in Pools /\ cell[c].conf \in Confs
  /\ \A p \in Pools : tunnel[p].cell \in Cells => cell[tunnel[p].cell].status # "absent"
  /\ \A a \in Holders : held[a] \in Cells => cell[held[a]].status # "absent"
  /\ \A r \in Requests : req[r].cell \in Cells => cell[req[r].cell].status # "absent"
  /\ \A c \in leases : cell[c].status # "absent"
  /\ \A c \in orphan.victims : cell[c].status # "absent"

\* A killer past its scan works on a created cell, in a pool if it will clear.
KillersOK ==
  \A k \in Killers :
    /\ killer[k].pc # "scan" => /\ killer[k].cell \in Cells
                                /\ cell[killer[k].cell].status # "absent"
    /\ killer[k].pc \in {"probe", "mark", "clear"} => killer[k].pool \in Pools
    /\ killer[k].pc = "kill" => k \in Destroyers \/ killer[k].pool \in Pools

\* The spawn mutex is held by the request in its critical section, and by no other.
MutexOK ==
  /\ \A r \in Requests : InSpawn(r) => spawnMu[req[r].pool] = r
  /\ \A p \in Pools : spawnMu[p] # Nobody => InSpawn(spawnMu[p]) /\ req[spawnMu[p]].pool = p

\* A cell being spawned belongs to one request, for its pool, and nobody else
\* has seen it.
SpawningOK ==
  \A r \in Requests : req[r].cell \in Cells =>
    /\ cell[req[r].cell].pool = req[r].pool
    /\ \A p \in Pools : tunnel[p].cell # req[r].cell
    /\ \A a \in Holders : held[a] # req[r].cell
    /\ \A s \in Requests : req[s].cell = req[r].cell => s = r

\* Between its snapshots and its list the orphan loop meets no old cell that is
\* being spawned or was published meanwhile.
OrphanOK ==
  /\ \A r \in Requests : req[r].cell \in Cells => cell[req[r].cell].age = "young"
  /\ orphan.pc = "list" =>
       \A p \in Pools : tunnel[p].cell \in Cells /\ cell[tunnel[p].cell].age = "old"
                          => tunnel[p].cell \in orphan.keep

\* A process that is not up has no memory.
DownOK ==
  phase \in {"down", "booting"} =>
    /\ \A p \in Pools : tunnel[p].cell = NoCell
    /\ \A r \in Requests : req[r].pc = "idle"
    /\ \A k \in Killers : killer[k].pc = "scan"
    /\ orphan.pc # "list"

\* The inductive invariant behind the safety theorems of CellPoolProofs: who
\* holds what, seen from every handler and loop of the controller.
IInv ==
  /\ TypeOK /\ RequestsOK /\ ConnsOK /\ SlotsOK /\ CreatedOK /\ KillersOK
  /\ MutexOK /\ SpawningOK /\ OrphanOK /\ DownOK
  /\ ReleasedWhereAcquired /\ ReservationsBounded /\ OrphanSparesTracked

=============================================================================
