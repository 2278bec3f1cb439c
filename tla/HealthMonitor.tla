----------------------------- MODULE HealthMonitor -----------------------------
(***************************************************************************)
(* The health loop against the clock: one pool, one cell at a time.        *)
(* checkHealth probes a cell through the control URL docker reports for    *)
(* it; without one, probeHealthy compares the age of HealthyAt with        *)
(* HealthHandshakeMaxAge.  Whatever probe says "healthy" renews HealthyAt. *)
(***************************************************************************)
EXTENDS Naturals

CONSTANTS
  Interval,    \* HealthCheckInterval
  Delay,       \* how late a tick of the loop can be
  MaxAge,      \* HealthHandshakeMaxAge
  CellNetwork  \* TRUE iff cells have a control address (not smoke mode)

ASSUME TimesAssumption ==
  /\ Interval \in Nat \ {0} /\ Delay \in Nat /\ MaxAge \in Nat

ASSUME ModeAssumption == CellNetwork \in BOOLEAN

VARIABLES
  slot,     \* "hot" or "empty"
  serving,  \* the cell answers on its control port
  listed,   \* docker lists the cell with an address
  age,      \* time since HealthyAt, up to MaxAge + 1
  since,    \* time since the last check
  url       \* the tick's control URL for the cell: "unread", "has" or "lacks"

vars == <<slot, serving, listed, age, since, url>>

Init == slot = "empty" /\ serving = FALSE /\ listed = FALSE /\ age = 0
        /\ since = 0 /\ url = "unread"

\* A request spawns a cell: waitReady sets HealthyAt.
Spawn ==
  /\ slot = "empty"
  /\ slot' = "hot" /\ serving' = TRUE /\ listed' = TRUE /\ age' = 0
  /\ UNCHANGED <<since, url>>

\* The container exits; AutoRemove takes it off docker's list.
Dies ==
  /\ slot = "hot" /\ listed
  /\ serving' = FALSE /\ listed' = FALSE
  /\ UNCHANGED <<slot, age, since, url>>

\* The container runs on without answering.
Hangs ==
  /\ slot = "hot" /\ serving
  /\ serving' = FALSE
  /\ UNCHANGED <<slot, listed, age, since, url>>

\* A tick begins: childControlURLs has an address for the cell if docker lists it
\* and ListChildren reached docker.
ListsCells(reached) ==
  /\ since >= Interval /\ url = "unread"
  /\ url' = IF CellNetwork /\ listed /\ reached THEN "has" ELSE "lacks"
  /\ UNCHANGED <<slot, serving, listed, age, since>>

\* probeHealthy: /healthz through the control URL, else the age of HealthyAt.
ProbeHealthy == IF url = "has" THEN serving ELSE age <= MaxAge

Reaps == slot' = "empty" /\ serving' = FALSE /\ listed' = FALSE /\ age' = 0

\* Mutant of CheckHealth: a healthy probe does not renew HealthyAt.
ForgetfulCheck ==
  /\ url # "unread"
  /\ since' = 0 /\ url' = "unread"
  /\ \/ slot = "hot" /\ ~ProbeHealthy /\ Reaps
     \/ ~(slot = "hot" /\ ~ProbeHealthy) /\ UNCHANGED <<slot, serving, listed, age>>

\* The rest of the tick: checkHealth renews HealthyAt of a cell that is healthy by
\* the probe, or killTunnel clears the slot.
CheckHealth ==
  /\ url # "unread"
  /\ since' = 0 /\ url' = "unread"
  /\ \/ slot = "hot" /\ ~ProbeHealthy /\ Reaps
     \/ slot = "hot" /\ ProbeHealthy /\ age' = 0 /\ UNCHANGED <<slot, serving, listed>>
     \/ slot = "empty" /\ UNCHANGED <<slot, serving, listed, age>>

\* Time passes; the loop's ticker is never later than Delay.
Clock ==
  /\ since < Interval + Delay
  /\ since' = since + 1
  /\ age' = IF slot = "hot" /\ age <= MaxAge THEN age + 1 ELSE age
  /\ UNCHANGED <<slot, serving, listed, url>>

Next == Spawn \/ Dies \/ Hangs \/ CheckHealth \/ Clock
        \/ \E reached \in BOOLEAN : ListsCells(reached)

Spec == Init /\ [][Next]_vars

\* The variables of the health loop keep their types.
TypeOK ==
  /\ slot \in {"hot", "empty"}
  /\ serving \in BOOLEAN /\ listed \in BOOLEAN
  /\ age \in 0 .. MaxAge + 1
  /\ since \in 0 .. Interval + Delay
  /\ url \in {"unread", "has", "lacks"}

\* HealthyAt of a hot tunnel is never older than the last check of the loop: the
\* healthy branch of checkHealth renews it, whether a cell answered or not.
RenewedEveryTick == slot = "hot" => age <= since

\* A cell that answers, or for which the tick has no control URL, loses its slot to
\* the loop only when the loop is late: while the checks come within
\* HealthHandshakeMaxAge of each other, neither a failing ListChildren nor a missing
\* address costs a cell its slot, were it dead or not (checkHealth, probeHealthy).
ReapedByAgeOnlyLate ==
  [][slot = "hot" /\ slot' = "empty" /\ (serving \/ url = "lacks") => since > MaxAge]_vars

=============================================================================
