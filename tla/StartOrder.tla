------------------------------ MODULE StartOrder ------------------------------
(***************************************************************************)
(* resolveOrder of the service manager: buildDepGraph counts the           *)
(* dependencies of every service, topoSort peels off the services without  *)
(* open dependencies, group by group.  One step is one round of its loop.  *)
(* A dependency may be listed more than once, name a service that is not   *)
(* in the process, or the service itself.                                  *)
(***************************************************************************)
EXTENDS Naturals, FiniteSets

CONSTANTS
  Services,    \* the enabled services
  External,    \* names of services that are not in the process
  MaxListed    \* how often a name may be listed among the dependencies

ASSUME ListedAssumption ==
  MaxListed \in Nat /\ IsFiniteSet(Services) /\ Services \cap External = {}

VARIABLES
  dependencies,  \* how often Dependencies of a service lists a name
  inDegree,      \* the open dependencies of every service
  queue,         \* the services of the next group
  groupOf,       \* the group of every service, 0 if it has none yet
  groups,        \* how many groups there are
  processed,     \* how many services they have
  outcome        \* "none" while the loop runs, then "groups" or ErrCyclicDependency

orderVars == <<dependencies, inDegree, queue, groupOf, groups, processed, outcome>>

\* The entries of the list of s that name a service of T: the name, and which of
\* its entries it is.
Entries(d, s, T) == UNION {{t} \X (1..d[s][t]) : t \in T}

\* Mutant of InDegree: dependencies outside the process are counted too.
ExternalInDegree(d, s) == Cardinality(Entries(d, s, Services \cup External))

\* Mutant of InDegree: a dependency listed twice is counted once.
SingleInDegree(d, s) == Cardinality({t \in Services : d[s][t] > 0})

\* buildDepGraphContext: the dependencies of s that are in the process.
InDegree(d, s) == Cardinality(Entries(d, s, Services))

OrderInit ==
  /\ dependencies \in [Services -> [Services \cup External -> 0..MaxListed]]
  /\ inDegree = [s \in Services |-> InDegree(dependencies, s)]
  /\ queue = {s \in Services : inDegree[s] = 0}
  /\ groupOf = [s \in Services |-> 0]
  /\ groups = 0 /\ processed = 0 /\ outcome = "none"

\* How much the queue lowers the count of s: one for every entry of dependents.
Opened(s) == Cardinality(Entries(dependencies, s, queue))

\* One round: the queue becomes a group, and the services whose count reaches
\* zero become the next queue.
Round ==
  /\ outcome = "none" /\ queue # {}
  /\ groups' = groups + 1 /\ processed' = processed + Cardinality(queue)
  /\ groupOf' = [s \in Services |-> IF s \in queue THEN groups + 1 ELSE groupOf[s]]
  /\ inDegree' = [s \in Services |-> inDegree[s] - Opened(s)]
  /\ queue' = {s \in Services : Opened(s) > 0 /\ inDegree'[s] = 0}
  /\ UNCHANGED <<dependencies, outcome>>

\* The queue is empty: the order is complete, or there is a cycle.
Finish ==
  /\ outcome = "none" /\ queue = {}
  /\ outcome' = IF processed = Cardinality(Services) THEN "groups" ELSE "cyclic"
  /\ UNCHANGED <<dependencies, inDegree, queue, groupOf, groups, processed>>

OrderNext == Round \/ Finish

OrderSpec == OrderInit /\ [][OrderNext]_orderVars

-----------------------------------------------------------------------------

\* s depends on t, and t is in the process.
DependsOn == {st \in Services \X Services : dependencies[st[1]][st[2]] > 0}

\* Every service starts after each of its dependencies in the process, and no
\* later than the group after the last of them.
OrderRespected ==
  outcome = "groups" =>
    \A s \in Services :
      LET before == {t \in Services : <<s, t>> \in DependsOn}
      IN  /\ \A t \in before : groupOf[t] < groupOf[s]
          /\ groupOf[s] = 1 \/ \E t \in before : groupOf[t] = groupOf[s] - 1

\* A walk of n steps along the dependencies that comes back to where it began.
IsCycle(p, n) == p[0] = p[n] /\ \A i \in 1..n : <<p[i - 1], p[i]>> \in DependsOn

\* ErrCyclicDependency is returned exactly when some service depends on itself,
\* directly or through others.
CyclesFound ==
  outcome # "none" =>
    (outcome = "cyclic" <=>
       \E n \in 1..Cardinality(Services) : \E p \in [0..n -> Services] : IsCycle(p, n))

=============================================================================
