------------------------------ MODULE OrphanReap ------------------------------
(***************************************************************************)
(* The orphan loop against the clock.  reapOrphans collects the containers *)
(* to keep, asks docker for its list, reads the clock and kills what is    *)
(* not to be kept and at least SpawnTimeout plus Grace old; meanwhile      *)
(* requests create, publish and replace cells.  The module says how slow   *)
(* the list call may be: CellPool's CellAges relies on it.                 *)
(***************************************************************************)
EXTENDS Naturals

CONSTANTS
  Cells,
  SpawnTimeout,  \* the deadline of a spawn
  Grace,         \* orphanInFlightGrace
  Latency        \* from the first snapshot of the pools to the clock reading

ASSUME OrphanTimesAssumption ==
  /\ SpawnTimeout \in Nat /\ Grace \in Nat /\ Latency \in Nat

\* docker reports creation times in whole seconds, so an age can come out one
\* second too high; the list call must end within the rest of the grace period.
ASSUME LatencyAssumption == Latency + 1 < Grace

VARIABLES
  stage,    \* of each cell: absent, spawning, tracked, untracked, gone
  cellAge,  \* of each cell
  pass,     \* the loop: between passes, keep set taken, list taken, killing
  keep,     \* keepIDs
  seen,     \* the containers docker listed
  victims,  \* the containers still to kill
  elapsed   \* time since the keep set was taken

orphanVars == <<stage, cellAge, pass, keep, seen, victims, elapsed>>

\* minAge: below it a container may still be a spawn in flight.
MinAge == SpawnTimeout + Grace

Existing == {c \in Cells : stage[c] \in {"spawning", "tracked", "untracked"}}

OrphanInit ==
  /\ stage = [c \in Cells |-> "absent"]
  /\ cellAge = [c \in Cells |-> 0]
  /\ pass = "idle"
  /\ keep = {} /\ seen = {} /\ victims = {}
  /\ elapsed = 0

\* createAndStart.
Create(c) ==
  /\ stage[c] = "absent"
  /\ stage' = [stage EXCEPT ![c] = "spawning"]
  /\ UNCHANGED <<cellAge, pass, keep, seen, victims, elapsed>>

\* setTunnel: the pool tracks the cell.
Publish(c) ==
  /\ stage[c] = "spawning"
  /\ stage' = [stage EXCEPT ![c] = "tracked"]
  /\ UNCHANGED <<cellAge, pass, keep, seen, victims, elapsed>>

\* A spawn whose cleanup failed, or a slot that was cleared or overwritten.
Untrack(c) ==
  /\ stage[c] \in {"spawning", "tracked"}
  /\ stage' = [stage EXCEPT ![c] = "untracked"]
  /\ UNCHANGED <<cellAge, pass, keep, seen, victims, elapsed>>

\* reapOrphans collects the containers of every pool.
TakeKeep ==
  /\ pass = "idle"
  /\ pass' = "keep"
  /\ keep' = {c \in Cells : stage[c] = "tracked"}
  /\ elapsed' = 0
  /\ UNCHANGED <<stage, cellAge, seen, victims>>

\* The list docker makes of the containers.
TakeList ==
  /\ pass = "keep"
  /\ pass' = "list"
  /\ seen' = Existing
  /\ UNCHANGED <<stage, cellAge, keep, victims, elapsed>>

\* Mutant of Reapable: the grace period left out.
EagerReapable(c, skew) == c \in seen \ keep /\ cellAge[c] + skew >= SpawnTimeout

\* A listed container the loop may kill: not kept, and its age, which is
\* rounded up by skew, not below the minimum.
Reapable(c, skew) == c \in seen \ keep /\ cellAge[c] + skew >= MinAge

\* The clock is read after the list; the containers are then killed in turn.
Decide ==
  /\ pass = "list"
  /\ pass' = "kill"
  /\ \E skew \in [Cells -> {0, 1}] : victims' = {c \in Cells : Reapable(c, skew[c])}
  /\ UNCHANGED <<stage, cellAge, keep, seen, elapsed>>

ReapOne(c) ==
  /\ pass = "kill" /\ c \in victims
  /\ victims' = victims \ {c}
  /\ stage' = [stage EXCEPT ![c] = "gone"]
  /\ UNCHANGED <<cellAge, pass, keep, seen, elapsed>>

EndPass ==
  /\ pass = "kill" /\ victims = {}
  /\ pass' = "idle"
  /\ keep' = {} /\ seen' = {} /\ elapsed' = 0
  /\ UNCHANGED <<stage, cellAge, victims>>

\* Time passes: a spawn ends by its deadline, the list call by Latency.  Ages
\* beyond MinAge are all alike.
OrphanTick ==
  /\ \A c \in Cells : stage[c] = "spawning" => cellAge[c] < SpawnTimeout
  /\ pass \in {"keep", "list"} => elapsed < Latency
  /\ cellAge' = [c \in Cells |-> IF c \in Existing /\ cellAge[c] < MinAge
                                 THEN cellAge[c] + 1 ELSE cellAge[c]]
  /\ elapsed' = IF pass \in {"keep", "list"} THEN elapsed + 1 ELSE elapsed
  /\ UNCHANGED <<stage, pass, keep, seen, victims>>

OrphanNext ==
  \/ \E c \in Cells : Create(c) \/ Publish(c) \/ Untrack(c) \/ ReapOne(c)
  \/ TakeKeep \/ TakeList \/ Decide \/ EndPass \/ OrphanTick

OrphanSpec == OrphanInit /\ [][OrphanNext]_orphanVars

\* The variables of the orphan loop keep their types.
OrphanTypeOK ==
  /\ stage \in [Cells -> {"absent", "spawning", "tracked", "untracked", "gone"}]
  /\ cellAge \in [Cells -> Nat]
  /\ pass \in {"idle", "keep", "list", "kill"}
  /\ keep \subseteq Cells /\ seen \subseteq Cells /\ victims \subseteq Cells
  /\ elapsed \in Nat

\* What the orphan loop is about to kill is neither being spawned nor tracked
\* by a pool, although the pools change between the snapshot of the pools, the
\* list and the kill.
SparesLiveCells == \A c \in victims : stage[c] \notin {"spawning", "tracked"}

\* Why: no spawn outlives its deadline, and a tracked cell the keep set misses
\* was still spawning when that set was taken.
AgesBounded ==
  /\ \A c \in Cells : stage[c] = "absent" => cellAge[c] = 0
  /\ \A c \in Cells : stage[c] = "spawning" => cellAge[c] <= SpawnTimeout
  /\ pass \in {"keep", "list"} =>
       /\ elapsed <= Latency
       /\ \A c \in Cells :
            stage[c] = "tracked" /\ c \notin keep => cellAge[c] <= SpawnTimeout + elapsed

\* The loop works on containers that were created.
ListsOnlyCreated == \A c \in seen \cup victims : stage[c] # "absent"

\* The inductive invariant behind SparesLiveCells.
OrphanInv == OrphanTypeOK /\ AgesBounded /\ ListsOnlyCreated /\ SparesLiveCells

=============================================================================
