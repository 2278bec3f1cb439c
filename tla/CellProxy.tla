------------------------------ MODULE CellProxy ------------------------------
(***************************************************************************)
(* The program of a cell (internal/pkg/cellproxy): Server.Run with its     *)
(* SOCKS5 and control servers, and the Recorder that the connections of    *)
(* the SOCKS5 server report to.  Every method of the Recorder is one       *)
(* critical section; what a connection does before and after it is not.    *)
(***************************************************************************)
EXTENDS Naturals, FiniteSets

CONSTANTS
  Conns,       \* proxied connections of one life of the program
  Dests,       \* destinations, host:port
  MaxTracked,  \* maxTrackedDestinations
  ErrCapacity, \* serverErrorChannelSize
  MaxChunks    \* bound on the chunks that the connections copy

ASSUME ConnsAssumption == IsFiniteSet(Conns) /\ MaxTracked \in Nat

Servers == {"socks5", "control"}
Other == "(other)"
Zero == [requests |-> 0, up |-> 0, down |-> 0, active |-> 0]

VARIABLES
  run,       \* Run: "off", "serving", "stopping", "returned", "hung"
  server,    \* of each server: "off", "up", "failed" (not yet reported), "down"
  errs,      \* errors in errCh
  dests,     \* Recorder.dests: the statistics of every bucket
  totals,    \* Recorder's own counters
  failures,  \* Recorder.dialFailures
  conn       \* the connections: progress, bucket, and a chunk being copied

recorder == <<dests, totals, failures>>
cellVars == <<run, server, errs, recorder, conn>>

NoConn == [state |-> "free", key |-> Other, chunk |-> "none"]

NoServer == [s \in Servers |-> "off"]
NoDests == [d \in {} |-> Zero]
NoConns == [c \in Conns |-> NoConn]

CellInit ==
  /\ run = "off" /\ server = NoServer /\ errs = 0
  /\ dests = NoDests /\ totals = Zero /\ failures = 0
  /\ conn = NoConns

\* The program is gone, and all its state with it.
CellGone ==
  /\ run' = "off" /\ server' = NoServer /\ errs' = 0
  /\ dests' = NoDests /\ totals' = Zero /\ failures' = 0
  /\ conn' = NoConns

-----------------------------------------------------------------------------
(* Server.Run.                                                             *)

\* Both servers listen: a cell that waitReady found answering.
RunListens ==
  /\ run = "off"
  /\ run' = "serving"
  /\ server' = [s \in Servers |-> "up"]
  /\ UNCHANGED <<errs, recorder, conn>>

\* A server returns an error or panics.
ServerFails(s) ==
  /\ run # "hung" /\ server[s] = "up"
  /\ server' = [server EXCEPT ![s] = "failed"]
  /\ UNCHANGED <<run, errs, recorder, conn>>

\* serve: the goroutine sends the error.
ServerReports(s) ==
  /\ run # "hung" /\ server[s] = "failed" /\ errs < ErrCapacity
  /\ server' = [server EXCEPT ![s] = "down"]
  /\ errs' = errs + 1
  /\ UNCHANGED <<run, recorder, conn>>

\* Mutant of RunSelects: only the context ends the wait.
DeafSelects(signal) ==
  /\ run = "serving" /\ signal
  /\ run' = "stopping"
  /\ UNCHANGED <<errs, server, recorder, conn>>

\* Run waits for the signal's context or for an error.
RunSelects(signal) ==
  /\ run = "serving"
  /\ \/ signal /\ UNCHANGED errs
     \/ ~signal /\ errs > 0 /\ errs' = errs - 1
  /\ run' = "stopping"
  /\ UNCHANGED <<server, recorder, conn>>

\* shutdown closes both servers; neither reports that.  Run returns.
Shutdown ==
  /\ run = "stopping"
  /\ run' = "returned"
  /\ server' = [s \in Servers |-> IF server[s] = "up" THEN "down" ELSE server[s]]
  /\ UNCHANGED <<errs, recorder, conn>>

-----------------------------------------------------------------------------
(* The connections and the Recorder.                                       *)
Serving == run \in {"serving", "stopping"}

\* The dialer connects for a CONNECT or a datagram, or does not.
Dial(c, d) ==
  /\ Serving /\ server["socks5"] = "up" /\ conn[c] = NoConn
  /\ \/ conn' = [conn EXCEPT ![c].state = "dialed", ![c].key = d] /\ UNCHANGED failures
     \/ conn' = [conn EXCEPT ![c].state = "closed"] /\ failures' = failures + 1
  /\ UNCHANGED <<run, server, errs, dests, totals>>

\* bucket: a destination past the cap is folded into the overflow bucket.
Bucket(d) ==
  IF d \in DOMAIN dests \/ Cardinality(DOMAIN dests) < MaxTracked THEN d ELSE Other

\* A method of the Recorder: the counters of a bucket, if there is one, and the
\* totals change alike.
Adds(b, F(_)) ==
  /\ dests' = [x \in DOMAIN dests |-> IF x = b THEN F(dests[x]) ELSE dests[x]]
  /\ totals' = F(totals)

\* Open, with the bucket it may have to create; the connection keeps its key.
Opens(c) ==
  LET b == Bucket(conn[c].key)
      Opened(s) == [s EXCEPT !.requests = @ + 1, !.active = @ + 1] IN
  /\ Serving /\ conn[c].state = "dialed"
  /\ dests' = [x \in DOMAIN dests \cup {b} |->
                 IF x # b THEN dests[x]
                 ELSE Opened(IF b \in DOMAIN dests THEN dests[b] ELSE Zero)]
  /\ totals' = Opened(totals)
  /\ conn' = [conn EXCEPT ![c].state = "open", ![c].key = b]
  /\ UNCHANGED <<run, server, errs, failures>>

\* Read or Write of the connection moved bytes (the bound: MaxChunks in all).
Copies(c, dir) ==
  /\ Serving /\ conn[c].state = "open" /\ conn[c].chunk = "none"
  /\ Cardinality({k \in Conns : conn[k].chunk # "none"}) < MaxChunks
  /\ conn' = [conn EXCEPT ![c].chunk = dir]
  /\ UNCHANGED <<run, server, errs, recorder>>

\* Up or Down counts them, if the connection was closed meanwhile or not.
Counts(c) ==
  LET Moved(s) == [s EXCEPT ![conn[c].chunk] = @ + 1] IN
  /\ Serving /\ conn[c].chunk \in {"up", "down"}
  /\ Adds(conn[c].key, Moved)
  /\ conn' = [conn EXCEPT ![c].chunk = "counted"]
  /\ UNCHANGED <<run, server, errs, failures>>

\* Close of the Recorder never counts below zero.
Closed(s) == IF s.active > 0 THEN [s EXCEPT !.active = @ - 1] ELSE s

\* Mutant of Closes: every Close is reported.
RepeatedCloses(c) ==
  /\ Serving /\ conn[c].state \in {"open", "closed"}
  /\ Adds(conn[c].key, Closed)
  /\ conn' = [conn EXCEPT ![c].state = "closed"]
  /\ UNCHANGED <<run, server, errs, failures>>

\* The library may close a connection from two goroutines; the first reports it.
Closes(c) ==
  /\ Serving /\ conn[c].state \in {"open", "closed"}
  /\ \/ conn[c].state = "open" /\ Adds(conn[c].key, Closed)
     \/ conn[c].state = "closed" /\ UNCHANGED <<dests, totals>>
  /\ conn' = [conn EXCEPT ![c].state = "closed"]
  /\ UNCHANGED <<run, server, errs, failures>>

Traffic ==
  \E c \in Conns :
    \/ \E d \in Dests : Dial(c, d)
    \/ Opens(c) \/ Counts(c) \/ Closes(c)
    \/ \E dir \in {"up", "down"} : Copies(c, dir)

-----------------------------------------------------------------------------
Open(keys) == {c \in Conns : conn[c].state = "open" /\ conn[c].key \in keys}

\* The active connections, in total and by destination, are the ones opened and
\* not yet closed, and the destinations stay within the cap and one overflow
\* bucket (Open, Close and bucket of the Recorder).
ActiveAgree ==
  /\ \A b \in DOMAIN dests : dests[b].active = Cardinality(Open({b}))
  /\ totals.active = Cardinality(Open(Dests \cup {Other}))
  /\ Cardinality(DOMAIN dests) <= MaxTracked + 1

\* What g counts, one by one: as many pairs with b as g[b] says.
Units(g) == UNION {{b} \X (1..g[b]) : b \in DOMAIN g}

\* A counter of the buckets.
Counter(f) == [b \in DOMAIN dests |-> dests[b][f]]

\* What /status reports adds up at every moment: the active connections are right,
\* and the totals are the sums over the buckets, whatever was folded into the
\* overflow bucket, closed twice or counted after its close (Recorder, countingConn).
CountsAgree ==
  /\ ActiveAgree
  /\ \A f \in DOMAIN Zero : totals[f] = Cardinality(Units(Counter(f)))

=============================================================================
