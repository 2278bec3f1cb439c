---------------------------- MODULE LeaseRegistry ----------------------------
(***************************************************************************)
(* The registry of proxy leases (lease.go).  Issue and Lookup read the      *)
(* clock first and take the mutex later, so a critical section may work     *)
(* with a reading older than that of one that ran before it; each of them   *)
(* prunes what has expired at its own reading.                              *)
(***************************************************************************)
EXTENDS Naturals

CONSTANTS
  Leases,  \* lease ids: random, so never handed out twice
  Cells,   \* what a lease names: the cell it was issued for
  Users,   \* goroutines that call the registry
  TTL      \* proxyLeaseTTL

ASSUME TTLAssumption == TTL \in Nat

VARIABLES
  now,      \* the clock
  leases,   \* the records in the registry, by id: the cell and ExpiresAt
  call,     \* of every user: the call it is in, with its reading of the clock
  issued,   \* history: ids handed out
  refused   \* history: ids that a lookup did not find

leaseVars == <<now, leases, call, issued, refused>>

Idle == [op |-> "none"]

Calls ==
  {Idle} \cup [op : {"issue"}, cell : Cells, at : Nat]
         \cup [op : {"lookup"}, id : Leases, at : Nat]

Records == [cell : Cells, expires : Nat]

Known == DOMAIN leases

LeaseInit ==
  /\ now = 0
  /\ leases = [id \in {} |-> Idle]
  /\ call = [u \in Users |-> Idle]
  /\ issued = {} /\ refused = {}

\* Mutant of Kept: a lease is dropped one time unit early.
HastyKept(at) == {id \in Known : at + 1 < leases[id].expires}

\* pruneExpiredLocked: the ids that are left at a reading of the clock.
Kept(at) == {id \in Known : at < leases[id].expires}

-----------------------------------------------------------------------------
\* Issue, up to its reading of the clock.
IssueReads(u, c) ==
  /\ call[u] = Idle
  /\ call' = [call EXCEPT ![u] = [op |-> "issue", cell |-> c, at |-> now]]
  /\ UNCHANGED <<now, leases, issued, refused>>

\* Its critical section: prune, then store the new record.
IssueStores(u, id) ==
  /\ call[u].op = "issue" /\ id \notin issued
  /\ leases' = [i \in Kept(call[u].at) \cup {id} |->
                  IF i = id THEN [cell |-> call[u].cell, expires |-> call[u].at + TTL]
                            ELSE leases[i]]
  /\ issued' = issued \cup {id}
  /\ call' = [call EXCEPT ![u] = Idle]
  /\ UNCHANGED <<now, refused>>

\* Lookup of an id its caller was given, up to its reading of the clock.
LookupReads(u, id) ==
  /\ call[u] = Idle /\ id \in issued
  /\ call' = [call EXCEPT ![u] = [op |-> "lookup", id |-> id, at |-> now]]
  /\ UNCHANGED <<now, leases, issued, refused>>

\* Mutant of Prunes: a lookup compares the expiry and deletes nothing.
LazyPrunes(u) == leases' = leases

\* Its critical section prunes, whatever it answers.
Prunes(u) == leases' = [id \in Kept(call[u].at) |-> leases[id]]

LookupAccepts(u) ==
  /\ call[u].op = "lookup" /\ call[u].id \in Kept(call[u].at)
  /\ Prunes(u)
  /\ call' = [call EXCEPT ![u] = Idle]
  /\ UNCHANGED <<now, issued, refused>>

LookupRefuses(u) ==
  /\ call[u].op = "lookup" /\ call[u].id \notin Kept(call[u].at)
  /\ Prunes(u)
  /\ refused' = refused \cup {call[u].id}
  /\ call' = [call EXCEPT ![u] = Idle]
  /\ UNCHANGED <<now, issued>>

\* The secret does not match the record's digest.
LookupMismatch(u) ==
  /\ call[u].op = "lookup" /\ call[u].id \in Kept(call[u].at)
  /\ Prunes(u)
  /\ call' = [call EXCEPT ![u] = Idle]
  /\ UNCHANGED <<now, issued, refused>>

Tick ==
  /\ now' = now + 1
  /\ UNCHANGED <<leases, call, issued, refused>>

LeaseNext ==
  \/ \E u \in Users :
        \/ \E c \in Cells : IssueReads(u, c)
        \/ \E id \in Leases : IssueStores(u, id)
        \/ \E id \in Leases : LookupReads(u, id)
        \/ LookupAccepts(u) \/ LookupRefuses(u) \/ LookupMismatch(u)
  \/ Tick

LeaseSpec == LeaseInit /\ [][LeaseNext]_leaseVars

-----------------------------------------------------------------------------
\* A lease that a lookup did not find any more is never found again, not by one
\* that read the clock earlier but takes the mutex later (Lookup,
\* pruneExpiredLocked).
RefusalIsFinal == refused \cap Known = {}

\* A lease leaves the registry only when its time is over, whatever the readings
\* of the calls that prune it (Issue, Lookup, pruneExpiredLocked).
LivesItsTTL ==
  [][\A id \in Known : id \in Known' \/ leases[id].expires <= now]_leaseVars

=============================================================================
