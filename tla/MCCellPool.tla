------------------------------ MODULE MCCellPool ------------------------------
(* Instances of CellPool for TLC. *)
EXTENDS CellPoolInv, TLC

CONSTANTS c1, c2, p1, p2, w1, w2, r1, r2, k1

\* One pool with two configurations and no fallback.
OnePool == {p1}

OnePoolConfigs == (p1 :> {w1, w2})

OnePoolFallback == (p1 :> NoPool)

\* Two pools that are each other's fallback and share a configuration.
TwoPools == {p1, p2}

TwoPoolsConfigs == (p1 :> {w1}) @@ (p2 :> {w1, w2})

TwoPoolsFallback == (p1 :> p2) @@ (p2 :> p1)

\* Cells, requests and connections are interchangeable.
ActorSymmetry == Permutations(Cells) \cup Permutations(Requests) \cup Permutations(Conns)

\* So are configurations, where every pool has them all.
ConfSymmetry == ActorSymmetry \cup Permutations(Confs)
=============================================================================
