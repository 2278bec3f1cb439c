---------------------------- MODULE CellLifecycle ----------------------------
(***************************************************************************)
(* What the pools promise about cells, whatever requests, loops, handlers  *)
(* and restarts do: a cell is spawned for one pool, is published at most   *)
(* once, is handed out only while it is hot, and never comes back.  This   *)
(* is the cycle documented at TunnelState: spawning, hot, unhealthy or     *)
(* reaping (here "draining"), gone (here "retired": no pool holds it).     *)
(* CellPool implements this specification.                                 *)
(***************************************************************************)
CONSTANTS Cells, Pools, NoPool

VARIABLES stage,  \* where in its life each cell is
          home    \* the pool each cell was spawned for

lifecycleVars == <<stage, home>>

Stages == {"new", "spawning", "hot", "draining", "retired"}

LifecycleInit ==
  /\ stage = [c \in Cells |-> "new"]
  /\ home = [c \in Cells |-> NoPool]

\* The cells that are in one of the given stages for pool p.
In(p, stages) == {c \in Cells : home[c] = p /\ stage[c] \in stages}

\* docker creates a cell: the pool has no other spawn in flight.
BeginSpawn(c, p) ==
  /\ stage[c] = "new"
  /\ In(p, {"spawning"}) = {}
  /\ stage' = [stage EXCEPT ![c] = "spawning"]
  /\ home' = [home EXCEPT ![c] = p]

\* The cell becomes the pool's tunnel, in place of the one it had.
Promote(c) ==
  /\ stage[c] = "spawning"
  /\ stage' = [d \in Cells |->
                 IF d = c THEN "hot"
                 ELSE IF d \in In(home[c], {"hot", "draining"}) THEN "retired"
                 ELSE stage[d]]
  /\ UNCHANGED home

\* The tunnel is found unhealthy or is about to be killed.
Drain(c) ==
  /\ stage[c] = "hot"
  /\ stage' = [stage EXCEPT ![c] = "draining"]
  /\ UNCHANGED home

\* The spawn fails, or the slot is cleared.
Retire(c) ==
  /\ stage[c] \in {"spawning", "hot", "draining"}
  /\ stage' = [stage EXCEPT ![c] = "retired"]
  /\ UNCHANGED home

\* The process ends: no cell is in any slot any more.
RetireAll ==
  /\ stage' = [c \in Cells |-> IF stage[c] = "new" THEN "new" ELSE "retired"]
  /\ UNCHANGED home

LifecycleNext ==
  \/ \E c \in Cells : \/ \E p \in Pools : BeginSpawn(c, p)
                      \/ Promote(c) \/ Drain(c) \/ Retire(c)
  \/ RetireAll

LifecycleSpec == LifecycleInit /\ [][LifecycleNext]_lifecycleVars

=============================================================================
