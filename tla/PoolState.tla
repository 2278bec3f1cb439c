------------------------------ MODULE PoolState ------------------------------
(***************************************************************************)
(* The state of one pool and what the methods of PoolState do to it:       *)
(* Go's *Tunnel is a record, a nil *Tunnel is NoTunnel.  Every operator    *)
(* is the body of one method, which runs under PoolState.mu.               *)
(*                                                                         *)
(* A container ID, a SOCKS5 address and a controller URL that routes to a  *)
(* cell are all represented by the cell itself: container names carry a    *)
(* timestamp, so no two cells share one.  LastUsedAt is "idle" once       *)
(* IdleTimeout has passed since the tunnel was last handed out.            *)
(***************************************************************************)
EXTENDS Naturals

CONSTANTS Cells,   \* containers the docker daemon can create, each used once
          Confs,   \* basenames of WireGuard configurations
          NoCell,  \* no container: the nil tunnel, the empty URL
          NoConf   \* no configuration

ASSUME CellsAssumption == NoCell \notin Cells

ASSUME ConfsAssumption == NoConf \notin Confs

\* TunnelState; "none" marks the nil tunnel.  "spawning" is declared in the
\* code and never assigned.
TunnelStates == {"none", "hot", "unhealthy", "reaping"}

Tunnel == [cell     : Cells \cup {NoCell},
           state    : TunnelStates,
           inFlight : Nat,
           lastUsed : {"recent", "idle"},
           lastURL  : Cells \cup {NoCell}]

NoTunnel == [cell |-> NoCell, state |-> "none", inFlight |-> 0,
             lastUsed |-> "recent", lastURL |-> NoCell]

\* The tunnel spawnFromState publishes: hot, with the spawning request's own
\* reservation already counted.
HotTunnel(c) == [cell |-> c, state |-> "hot", inFlight |-> 1,
                 lastUsed |-> "recent", lastURL |-> NoCell]

\* acquire succeeds: a hot tunnel whose URL is not the excluded one.
CanAcquire(t, exclude) == t.state = "hot" /\ t.cell # exclude

\* acquireContainer succeeds: the hot tunnel is the exact leased cell.
CanAcquireContainer(t, c) == t.state = "hot" /\ t.cell = c

\* What acquire and acquireContainer do to the tunnel they return.
Acquired(t) == [t EXCEPT !.inFlight = @ + 1, !.lastUsed = "recent"]

\* Mutant of Released: the counter is decremented without looking at it.
UncheckedReleased(t) == IF t.cell = NoCell THEN t ELSE [t EXCEPT !.inFlight = @ - 1]

\* release: whatever tunnel the pool holds now gives one reservation back.
Released(t) == IF t.cell = NoCell \/ t.inFlight = 0
               THEN t
               ELSE [t EXCEPT !.inFlight = @ - 1]

\* Mutant of WithLastURL: recorded on whatever tunnel the pool holds.
BlindWithLastURL(t, c) == IF t.cell # NoCell THEN [t EXCEPT !.lastURL = c] ELSE t

\* setLastURL: recorded only while the pool still holds the leased container.
WithLastURL(t, c) == IF t.cell = c THEN [t EXCEPT !.lastURL = c] ELSE t

\* The locked section at the start of killTunnel.
Reaping(t, c) == IF t.cell = c THEN [t EXCEPT !.state = "reaping"] ELSE t

\* excludeConfsFor: the configuration a replacement must not use again.
ExcludedConf(t, exclude, conf) ==
  IF exclude # NoCell /\ t.cell = exclude THEN conf ELSE NoConf

\* The candidates pickConf draws from.  The failed cache is the set of its
\* unexpired entries.
Candidates(configs, failed, skip) == configs \ (failed \cup {skip})

=============================================================================
