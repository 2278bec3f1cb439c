----------------------------- MODULE CellProofs ------------------------------
(***************************************************************************)
(* Theorems about a cell, for every value of the constants: the counters of*)
(* its program and their sums, for any connections and destinations; and the*)
(* health and orphan loops that watch it, against the clock.               *)
(***************************************************************************)
EXTENDS CellHealth, OrphanReap, TLAPS, FiniteSetTheorems

\* The provers have 30 seconds for a leaf; SMT is tried again after Zenon.
USE SMTT(30), ZenonT(20), SMTT(29)

-----------------------------------------------------------------------------
(***************************************************************************)
(* The counters of the cell's program                                      *)
(***************************************************************************)

Stats == [requests : Nat, up : Nat, down : Nat, active : Nat]

ConnStates == [state : {"free", "dialed", "open", "closed"}, key : Dests \cup {Other},
               chunk : {"none", "up", "down", "counted"}]

CountTypes ==
  /\ IsFiniteSet(DOMAIN dests)
  /\ \A b \in DOMAIN dests : dests[b] \in Stats
  /\ totals \in Stats
  /\ conn \in [Conns -> ConnStates]

\* A connection is open in a bucket that is there, and the overflow bucket is the
\* only one past the cap.
BucketsOK ==
  /\ \A c \in Conns : conn[c].state = "open" => conn[c].key \in DOMAIN dests
  /\ Cardinality(DOMAIN dests \ {Other}) <= MaxTracked

ActiveOK ==
  /\ \A b \in DOMAIN dests : dests[b].active = Cardinality(Open({b}))
  /\ totals.active = Cardinality(Open(Dests \cup {Other}))

\* The inductive invariant of the counters.
CountInv == CountTypes /\ BucketsOK /\ ActiveOK

\* The open connections are finitely many, in any buckets.
LEMMA OpenFinite ==
  ASSUME NEW K
  PROVE  IsFiniteSet(Open(K)) /\ Cardinality(Open(K)) \in Nat
<1>1. Open(K) \in SUBSET Conns
  BY DEF Open
<1>2. IsFiniteSet(Open(K))
  BY <1>1, ConnsAssumption, FS_Subset
<1> QED
  BY <1>2, FS_CardinalityType

\* A step that opens and closes no connection leaves the open ones.
LEMMA OpenSame ==
  ASSUME NEW K, conn \in [Conns -> ConnStates],
         \A c \in Conns : /\ conn'[c].state = "open" <=> conn[c].state = "open"
                          /\ conn[c].state = "open" => conn'[c].key = conn[c].key
  PROVE  Open(K)' = Open(K)
BY DEF Open

\* A connection that is opened is one more in its bucket.
LEMMA OpenMore ==
  ASSUME NEW K, NEW c \in Conns, conn[c].state # "open", conn'[c].state = "open",
         \A k \in Conns : k # c => conn'[k] = conn[k]
  PROVE  Cardinality(Open(K)') =
           IF conn'[c].key \in K THEN Cardinality(Open(K)) + 1 ELSE Cardinality(Open(K))
<1>1. IsFiniteSet(Open(K)) /\ c \notin Open(K)
  BY OpenFinite DEF Open
<1>2. CASE conn'[c].key \in K
  <2>1. Open(K)' = Open(K) \cup {c}
    BY <1>2 DEF Open
  <2>2. Cardinality(Open(K) \cup {c}) = Cardinality(Open(K)) + 1
    BY ZenonT(30), <1>1, FS_AddElement
  <2> QED
    BY <1>2, <2>1, <2>2
<1>3. CASE conn'[c].key \notin K
  <2>1. Open(K)' = Open(K)
    BY <1>3 DEF Open
  <2> QED
    BY <1>3, <2>1
<1> QED
  BY <1>2, <1>3

\* A connection that is closed is one less in its bucket, where there was one.
LEMMA OpenLess ==
  ASSUME NEW K, NEW c \in Conns, conn[c].state = "open", conn'[c].state # "open",
         \A k \in Conns : k # c => conn'[k] = conn[k]
  PROVE  /\ conn[c].key \in K => /\ Cardinality(Open(K)') = Cardinality(Open(K)) - 1
                                 /\ Cardinality(Open(K)) > 0
         /\ conn[c].key \notin K => Cardinality(Open(K)') = Cardinality(Open(K))
<1>1. IsFiniteSet(Open(K)) /\ Cardinality(Open(K)) \in Nat
  BY OpenFinite
<1>2. CASE conn[c].key \in K
  <2>1. Open(K)' = Open(K) \ {c} /\ c \in Open(K)
    BY <1>2 DEF Open
  <2>2. Cardinality(Open(K)) # 0
    BY <1>1, <2>1, FS_EmptySet
  <2>3. Cardinality(Open(K) \ {c}) = Cardinality(Open(K)) - 1
    BY ZenonT(30), <1>1, <2>1, FS_RemoveElement
  <2> QED
    BY <1>1, <1>2, <2>1, <2>2, <2>3
<1>3. CASE conn[c].key \notin K
  <2>1. Open(K)' = Open(K)
    BY <1>3 DEF Open
  <2> QED
    BY <1>3, <2>1
<1> QED
  BY <1>2, <1>3

\* The buckets stay as many as the cap allows.
LEMMA BucketRoom ==
  ASSUME CountInv, NEW d \in Dests \cup {Other}
  PROVE  LET D == DOMAIN dests \cup {Bucket(d)}
         IN  /\ Bucket(d) \in Dests \cup {Other}
             /\ IsFiniteSet(D) /\ Cardinality(D \ {Other}) <= MaxTracked
<1> DEFINE B == Bucket(d)
           D0 == DOMAIN dests
           D1 == DOMAIN dests \cup {B}
<1>1. /\ IsFiniteSet(D0) /\ Cardinality(D0 \ {Other}) <= MaxTracked /\ MaxTracked \in Nat
      /\ IsFiniteSet(D0 \ {Other})
  BY ConnsAssumption, FS_RemoveElement DEF CountInv, CountTypes, BucketsOK
<1>2. B \in {d, Other} /\ (B \in D0 \/ B = Other \/ Cardinality(D0) < MaxTracked)
  BY DEF Bucket
<1>3. IsFiniteSet(D1)
  BY <1>1, FS_AddElement
<1>4. CASE B \in D0 \/ B = Other
  <2>1. D1 \ {Other} = D0 \ {Other}
    BY <1>4
  <2> QED
    BY <1>1, <1>2, <1>3, <2>1
<1>5. CASE B \notin D0 /\ B # Other
  <2>1. Cardinality(D0) < MaxTracked /\ Cardinality(D0) \in Nat
    BY <1>1, <1>2, <1>5, FS_CardinalityType
  <2>2. Cardinality(D1) = Cardinality(D0) + 1
    BY <1>1, <1>5, FS_AddElement
  <2>3. Cardinality(D1 \ {Other}) <= Cardinality(D1)
    BY <1>3, FS_Subset
  <2>4. Cardinality(D1 \ {Other}) \in Nat
    BY <1>3, FS_RemoveElement, FS_CardinalityType
  <2>5. Cardinality(D1 \ {Other}) <= MaxTracked
    BY <1>1, <2>1, <2>2, <2>3, <2>4
  <2> QED
    BY <1>2, <1>3, <2>5
<1> QED
  BY <1>4, <1>5

\* A step of the Recorder's that keeps its invariant, seen from the buckets.
LEMMA CountsKept ==
  ASSUME CountInv, conn' \in [Conns -> ConnStates], totals' \in Stats,
         DOMAIN dests' = DOMAIN dests, \A b \in DOMAIN dests : dests'[b] \in Stats,
         \A c \in Conns : conn'[c].state = "open" =>
                            conn[c].state = "open" /\ conn'[c].key = conn[c].key,
         \A b \in DOMAIN dests : dests'[b].active = Cardinality(Open({b})'),
         totals'.active = Cardinality(Open(Dests \cup {Other})')
  PROVE  CountInv'
<1>1. CountTypes'
  BY DEF CountInv, CountTypes
<1>2. BucketsOK'
  BY DEF CountInv, BucketsOK
<1>3. ActiveOK'
  BY DEF ActiveOK
<1> QED
  BY <1>1, <1>2, <1>3 DEF CountInv

\* A step that neither opens nor closes a connection.
LEMMA QuietStep ==
  ASSUME CountInv, conn' \in [Conns -> ConnStates],
         \A c \in Conns : /\ conn'[c].state = "open" <=> conn[c].state = "open"
                          /\ conn[c].state = "open" => conn'[c].key = conn[c].key,
         totals' \in Stats, totals'.active = totals.active, DOMAIN dests' = DOMAIN dests,
         \A b \in DOMAIN dests : dests'[b] \in Stats /\ dests'[b].active = dests[b].active
  PROVE  CountInv'
<1>1. \A K : Open(K)' = Open(K)
  BY OpenSame DEF CountInv, CountTypes
<1>2. \A b \in DOMAIN dests : dests'[b].active = Cardinality(Open({b})')
  BY <1>1 DEF CountInv, ActiveOK
<1>3. totals'.active = Cardinality(Open(Dests \cup {Other})')
  BY <1>1 DEF CountInv, ActiveOK
<1> QED
  BY <1>2, <1>3, CountsKept

\* A connection moves on, and gets the bucket it is in.
LEMMA ConnMoves ==
  ASSUME NEW c \in Conns, conn \in [Conns -> ConnStates],
         NEW st \in {"free", "dialed", "open", "closed"}, NEW key \in Dests \cup {Other}
  PROVE  conn' = [conn EXCEPT ![c].state = st, ![c].key = key] =>
           /\ conn' \in [Conns -> ConnStates]
           /\ conn'[c].state = st /\ conn'[c].key = key
           /\ \A k \in Conns : k # c => conn'[k] = conn[k]
<1> DEFINE m == [conn EXCEPT ![c].state = st]
           Moves == conn' = [conn EXCEPT ![c].state = st, ![c].key = key]
           Rekeyed == [m[c] EXCEPT !.key = key]
<1>1. m \in [Conns -> ConnStates] /\ m[c].state = st /\ \A k \in Conns : k # c => m[k] = conn[k]
  BY DEF ConnStates
<1>2. Moves => conn' = [m EXCEPT ![c] = Rekeyed]
  BY ZenonT(30)
<1> HIDE DEF m, Moves
<1>3. Rekeyed \in ConnStates /\ Rekeyed.state = st /\ Rekeyed.key = key
  BY <1>1 DEF ConnStates
<1> HIDE DEF Rekeyed
<1>4. Moves => /\ conn' \in [Conns -> ConnStates] /\ conn'[c] = Rekeyed
               /\ \A k \in Conns : k # c => conn'[k] = conn[k]
  BY <1>1, <1>2, <1>3
<1> QED
  BY ZenonT(30), <1>3, <1>4 DEF Moves

\* A connection is dialed, or copies a chunk.
LEMMA DialStep ==
  ASSUME CountInv, NEW c \in Conns,
         \/ \E d \in Dests : Dial(c, d)
         \/ \E dir \in {"up", "down"} : Copies(c, dir)
  PROVE  CountInv'
<1>0. conn \in [Conns -> ConnStates] /\ totals \in Stats
  BY DEF CountInv, CountTypes
<1>1. UNCHANGED <<dests, totals>>
  BY ZenonT(30) DEF Dial, Copies, recorder
<1>2. ASSUME conn' \in [Conns -> ConnStates], \A k \in Conns : k # c => conn'[k] = conn[k],
             \/ conn[c].state # "open" /\ conn'[c].state # "open"
             \/ conn'[c].state = conn[c].state /\ conn'[c].key = conn[c].key
      PROVE  CountInv'
  <2>1. \A k \in Conns : /\ conn'[k].state = "open" <=> conn[k].state = "open"
                         /\ conn[k].state = "open" => conn'[k].key = conn[k].key
    BY <1>2
  <2> QED
    BY <1>0, <1>1, <1>2, <2>1, QuietStep DEF CountInv, CountTypes
<1>3. ASSUME NEW d \in Dests, Dial(c, d) PROVE CountInv'
  <2>1. conn[c].state # "open"
    BY <1>3 DEF Dial, NoConn
  <2>2. \/ conn' = [conn EXCEPT ![c].state = "dialed", ![c].key = d]
        \/ conn' = [conn EXCEPT ![c].state = "closed"]
    BY ZenonT(30), <1>3 DEF Dial
  <2>3. CASE conn' = [conn EXCEPT ![c].state = "dialed", ![c].key = d]
    <3>1. /\ conn' \in [Conns -> ConnStates] /\ conn'[c].state # "open"
          /\ \A k \in Conns : k # c => conn'[k] = conn[k]
      <4>1. d \in Dests \cup {Other} /\ "dialed" \in {"free", "dialed", "open", "closed"}
        OBVIOUS
      <4>2. "dialed" # "open"
        OBVIOUS
      <4> QED
        BY ZenonT(30), <1>0, <2>3, <4>1, <4>2, ConnMoves
    <3> QED
      BY ZenonT(30), <1>2, <2>1, <3>1
  <2>4. CASE conn' = [conn EXCEPT ![c].state = "closed"]
    <3>1. /\ conn' \in [Conns -> ConnStates] /\ conn'[c].state # "open"
          /\ \A k \in Conns : k # c => conn'[k] = conn[k]
      BY <1>0, <2>4 DEF ConnStates
    <3> QED
      BY ZenonT(30), <1>2, <2>1, <3>1
  <2> QED
    BY <2>2, <2>3, <2>4
<1>4. ASSUME NEW dir \in {"up", "down"}, Copies(c, dir) PROVE CountInv'
  <2>1. conn' = [conn EXCEPT ![c].chunk = dir]
    BY <1>4 DEF Copies
  <2>2. /\ conn' \in [Conns -> ConnStates]
        /\ conn'[c].state = conn[c].state /\ conn'[c].key = conn[c].key
        /\ \A k \in Conns : k # c => conn'[k] = conn[k]
    BY <1>0, <2>1 DEF ConnStates
  <2> QED
    BY ZenonT(30), <1>2, <2>2
<1> QED
  BY ZenonT(30), <1>3, <1>4

\* Counting a chunk changes no count of connections.
LEMMA MovedStats ==
  ASSUME NEW s \in Stats, NEW dir \in {"up", "down"}
  PROVE  LET n == [s EXCEPT ![dir] = @ + 1] IN n \in Stats /\ n.active = s.active
<1>1. CASE dir = "up"
  <2>1. [s EXCEPT !.up = s.up + 1] \in Stats /\ [s EXCEPT !.up = s.up + 1].active = s.active
    BY DEF Stats
  <2> QED
    BY ZenonT(30), <1>1, <2>1
<1>2. CASE dir = "down"
  <2>1. [s EXCEPT !.down = s.down + 1] \in Stats /\ [s EXCEPT !.down = s.down + 1].active = s.active
    BY DEF Stats
  <2> QED
    BY ZenonT(30), <1>2, <2>1
<1> QED
  BY <1>1, <1>2

\* Up and Down of the Recorder.
LEMMA CountStep ==
  ASSUME CountInv, NEW c \in Conns, Counts(c)
  PROVE  CountInv'
<1> DEFINE dir == conn[c].chunk
           Moved(s) == [s EXCEPT ![dir] = @ + 1]
<1>1. /\ conn \in [Conns -> ConnStates] /\ totals \in Stats
      /\ \A b \in DOMAIN dests : dests[b] \in Stats
  BY DEF CountInv, CountTypes
<1>2. /\ dir \in {"up", "down"} /\ conn' = [conn EXCEPT ![c].chunk = "counted"]
      /\ dests' = [x \in DOMAIN dests |-> IF x = conn[c].key THEN Moved(dests[x]) ELSE dests[x]]
      /\ totals' = Moved(totals)
  BY ZenonT(30) DEF Counts, Adds
<1> HIDE DEF dir
<1>3. \A s \in Stats : Moved(s) \in Stats /\ Moved(s).active = s.active
  BY ZenonT(30), <1>2, MovedStats
<1> HIDE DEF Moved
<1>4. /\ totals' \in Stats /\ totals'.active = totals.active /\ DOMAIN dests' = DOMAIN dests
      /\ \A b \in DOMAIN dests : dests'[b] \in Stats /\ dests'[b].active = dests[b].active
  BY <1>1, <1>2, <1>3
<1>5. /\ conn' \in [Conns -> ConnStates]
      /\ \A k \in Conns : conn'[k].state = conn[k].state /\ conn'[k].key = conn[k].key
  BY <1>1, <1>2 DEF ConnStates
<1>6. \A k \in Conns : /\ conn'[k].state = "open" <=> conn[k].state = "open"
                       /\ conn[k].state = "open" => conn'[k].key = conn[k].key
  BY <1>5
<1> QED
  BY <1>4, <1>5, <1>6, QuietStep

\* Close of the Recorder, by the first goroutine that closes the connection, and by
\* one after it.
LEMMA CloseStep ==
  ASSUME CountInv, NEW c \in Conns, Closes(c)
  PROVE  CountInv'
<1>1. /\ conn \in [Conns -> ConnStates] /\ totals \in Stats
      /\ \A b \in DOMAIN dests : dests[b] \in Stats
  BY DEF CountInv, CountTypes
<1>2. conn' = [conn EXCEPT ![c].state = "closed"]
  BY DEF Closes
<1>3. /\ conn' \in [Conns -> ConnStates] /\ conn'[c].state = "closed"
      /\ \A k \in Conns : k # c => conn'[k] = conn[k]
  BY <1>1, <1>2 DEF ConnStates
<1>4. CASE conn[c].state = "closed"
  <2>1. UNCHANGED <<dests, totals>>
    BY <1>4 DEF Closes
  <2>2. \A k \in Conns : /\ conn'[k].state = "open" <=> conn[k].state = "open"
                         /\ conn[k].state = "open" => conn'[k].key = conn[k].key
    BY <1>3, <1>4
  <2> QED
    BY <1>1, <1>3, <2>1, <2>2, QuietStep
<1>5. CASE conn[c].state = "open"
  <2> DEFINE b0 == conn[c].key
  <2>1. /\ dests' = [x \in DOMAIN dests |-> IF x = b0 THEN Closed(dests[x]) ELSE dests[x]]
        /\ totals' = Closed(totals)
    BY <1>5 DEF Closes, Adds
  <2>2. b0 \in DOMAIN dests /\ b0 \in Dests \cup {Other}
    BY <1>1, <1>5 DEF CountInv, BucketsOK, ConnStates
  <2> HIDE DEF b0
  <2>3. \A s \in Stats : /\ Closed(s) \in Stats
                         /\ s.active > 0 => Closed(s).active = s.active - 1
    BY DEF Stats, Closed
  <2>4. totals' \in Stats /\ totals'.active = Cardinality(Open(Dests \cup {Other})')
    <3>1. /\ Cardinality(Open(Dests \cup {Other})') = Cardinality(Open(Dests \cup {Other})) - 1
          /\ Cardinality(Open(Dests \cup {Other})) > 0
      BY <1>3, <1>5, <2>2, OpenLess DEF b0
    <3>2. totals.active = Cardinality(Open(Dests \cup {Other}))
      BY DEF CountInv, ActiveOK
    <3> QED
      BY <1>1, <2>1, <2>3, <3>1, <3>2
  <2>5. ASSUME NEW b \in DOMAIN dests
        PROVE  dests'[b] \in Stats /\ dests'[b].active = Cardinality(Open({b})')
    <3>1. dests[b].active = Cardinality(Open({b})) /\ dests[b] \in Stats
      BY <1>1 DEF CountInv, ActiveOK
    <3>2. CASE b = b0
      <4>1. /\ Cardinality(Open({b})') = Cardinality(Open({b})) - 1
            /\ Cardinality(Open({b})) > 0
        BY <1>3, <1>5, <3>2, OpenLess DEF b0
      <4> QED
        BY <2>1, <2>3, <3>1, <3>2, <4>1
    <3>3. CASE b # b0
      <4>1. Cardinality(Open({b})') = Cardinality(Open({b}))
        BY <1>3, <1>5, <3>3, OpenLess DEF b0
      <4> QED
        BY <2>1, <3>1, <3>3, <4>1
    <3> QED
      BY <3>2, <3>3
  <2>6. DOMAIN dests' = DOMAIN dests
    BY <2>1
  <2>7. \A k \in Conns : conn'[k].state = "open" =>
                           conn[k].state = "open" /\ conn'[k].key = conn[k].key
    BY <1>3
  <2> QED
    BY ZenonT(30), <1>3, <2>4, <2>5, <2>6, <2>7, CountsKept
<1> QED
  BY <1>4, <1>5 DEF Closes

\* Open of the Recorder, in a bucket that is there, in a new one, or in the
\* overflow bucket.
LEMMA OpenStep ==
  ASSUME CountInv, NEW c \in Conns, Opens(c)
  PROVE  CountInv'
<1> DEFINE b0 == Bucket(conn[c].key)
           All == Dests \cup {Other}
           More(s) == [s EXCEPT !.requests = @ + 1, !.active = @ + 1]
           Before(b) == IF b \in DOMAIN dests THEN dests[b] ELSE Zero
<1>1. /\ conn \in [Conns -> ConnStates] /\ totals \in Stats
      /\ \A b \in DOMAIN dests : dests[b] \in Stats
  BY DEF CountInv, CountTypes
<1>2. /\ conn[c].state = "dialed"
      /\ conn' = [conn EXCEPT ![c].state = "open", ![c].key = b0]
      /\ dests' = [x \in DOMAIN dests \cup {b0} |->
                     IF x # b0 THEN dests[x] ELSE More(Before(b0))]
      /\ totals' = More(totals)
  BY DEF Opens
<1>3. /\ b0 \in All
      /\ IsFiniteSet(DOMAIN dests \cup {b0})
      /\ Cardinality((DOMAIN dests \cup {b0}) \ {Other}) <= MaxTracked
  <2>1. conn[c].key \in All
    BY <1>1 DEF ConnStates
  <2> QED
    BY ZenonT(30), <2>1, BucketRoom
<1>4. ASSUME NEW s \in Stats PROVE More(s) \in Stats /\ More(s).active = s.active + 1
  <2> DEFINE m == [s EXCEPT !.requests = s.requests + 1]
  <2>1. m \in Stats /\ m.active = s.active
    BY DEF Stats
  <2>2. More(s) = [m EXCEPT !.active = m.active + 1]
    BY ZenonT(30)
  <2> HIDE DEF m, More
  <2> QED
    BY <2>1, <2>2 DEF Stats
<1> HIDE DEF b0, All, More
<1>5. /\ conn' \in [Conns -> ConnStates] /\ conn'[c].state = "open" /\ conn'[c].key = b0
      /\ \A k \in Conns : k # c => conn'[k] = conn[k]
  BY ZenonT(30), <1>1, <1>2, <1>3, ConnMoves DEF All
<1>6. ASSUME NEW K
      PROVE  Cardinality(Open(K)') =
               IF b0 \in K THEN Cardinality(Open(K)) + 1 ELSE Cardinality(Open(K))
  BY <1>2, <1>5, OpenMore
<1>7. totals' \in Stats /\ totals'.active = Cardinality(Open(All)')
  <2>1. totals.active = Cardinality(Open(All))
    BY DEF CountInv, ActiveOK, All
  <2>2. Cardinality(Open(All)') = Cardinality(Open(All)) + 1
    BY <1>3, <1>6
  <2> QED
    BY <1>1, <1>2, <1>4, <2>1, <2>2
<1>8. Before(b0) \in Stats /\ Before(b0).active = Cardinality(Open({b0}))
  <2>1. CASE b0 \in DOMAIN dests
    BY <1>1, <2>1 DEF CountInv, ActiveOK
  <2>2. CASE b0 \notin DOMAIN dests
    <3>1. Open({b0}) = {}
      BY <2>2 DEF CountInv, BucketsOK, Open
    <3> QED
      BY <2>2, <3>1, FS_EmptySet DEF Zero, Stats
  <2> QED
    BY <2>1, <2>2
<1> HIDE DEF Before
<1>9. ASSUME NEW b \in DOMAIN dests \cup {b0}
      PROVE  dests'[b] \in Stats /\ dests'[b].active = Cardinality(Open({b})')
  <2>1. CASE b = b0
    <3>1. Cardinality(Open({b})') = Cardinality(Open({b})) + 1
      BY <1>6, <2>1
    <3> QED
      BY <1>2, <1>4, <1>8, <2>1, <3>1
  <2>2. CASE b # b0
    <3>1. Cardinality(Open({b})') = Cardinality(Open({b}))
      BY <1>6, <2>2
    <3> QED
      BY <1>1, <1>2, <2>2, <3>1 DEF CountInv, ActiveOK
  <2> QED
    BY <2>1, <2>2
<1>10. DOMAIN dests' = DOMAIN dests \cup {b0}
  BY <1>2
<1>11. CountTypes'
  BY ZenonT(30), <1>3, <1>5, <1>7, <1>9, <1>10 DEF CountTypes
<1>12. BucketsOK'
  BY <1>3, <1>5, <1>10 DEF CountInv, BucketsOK
<1>13. ActiveOK'
  BY <1>7, <1>9, <1>10 DEF ActiveOK, All
<1> QED
  BY <1>11, <1>12, <1>13 DEF CountInv

\* The program is gone, and its counters with it, or has not begun.
LEMMA CountFresh ==
  /\ CellInit => CountInv
  /\ CellGone => CountInv'
<1>1. ASSUME NEW K
      PROVE  Cardinality({c \in Conns : NoConns[c].state = "open" /\ NoConns[c].key \in K}) = 0
  <2>1. {c \in Conns : NoConns[c].state = "open" /\ NoConns[c].key \in K} = {}
    BY DEF NoConns, NoConn
  <2>2. Cardinality({}) = 0
    BY FS_EmptySet
  <2> QED
    BY ZenonT(30), <2>1, <2>2
<1>2. /\ NoConns \in [Conns -> ConnStates] /\ Zero \in Stats /\ Zero.active = 0
      /\ DOMAIN NoDests = {} /\ \A c \in Conns : NoConns[c].state # "open"
  BY DEF NoConns, NoConn, ConnStates, Zero, Stats, NoDests
<1>3. {} \ {Other} = {} /\ IsFiniteSet({}) /\ Cardinality({}) <= MaxTracked
  BY ConnsAssumption, FS_EmptySet
<1>4. ASSUME CellInit PROVE CountInv
  <2>1. dests = NoDests /\ totals = Zero /\ conn = NoConns
    BY <1>4 DEF CellInit
  <2>2. \A K : Cardinality(Open(K)) = 0
    BY <1>1, <2>1 DEF Open
  <2> QED
    BY <1>2, <1>3, <2>1, <2>2 DEF CountInv, CountTypes, BucketsOK, ActiveOK
<1>5. ASSUME CellGone PROVE CountInv'
  <2>1. dests' = NoDests /\ totals' = Zero /\ conn' = NoConns
    BY <1>5 DEF CellGone
  <2>2. \A K : Cardinality(Open(K)') = 0
    BY <1>1, <2>1 DEF Open
  <2> QED
    BY <1>2, <1>3, <2>1, <2>2 DEF CountInv, CountTypes, BucketsOK, ActiveOK
<1> QED
  BY <1>4, <1>5

\* Every step of the health loop with the program keeps the counters right.
LEMMA CountNext ==
  ASSUME CountInv, [CNext]_cvars
  PROVE  CountInv'
<1>0. ASSUME UNCHANGED <<dests, totals, conn>> PROVE CountInv'
  BY <1>0 DEF CountInv, CountTypes, BucketsOK, ActiveOK, Open
<1>1. ASSUME NEW s \in Servers, CFails(s) \/ CReports(s) PROVE CountInv'
  BY ZenonT(30), <1>0, <1>1 DEF CFails, CReports, ServerFails, ServerReports, recorder
<1>2. ASSUME NEW signal \in BOOLEAN, CSelects(signal) PROVE CountInv'
  BY ZenonT(30), <1>0, <1>2 DEF CSelects, RunSelects, recorder
<1>3. ASSUME CShutdown \/ CSpawn \/ CHangs PROVE CountInv'
  BY ZenonT(30), <1>0, <1>3 DEF CShutdown, Shutdown, CSpawn, RunListens, CHangs, recorder
<1>4. ASSUME CTraffic PROVE CountInv'
  BY ZenonT(30), <1>4, DialStep, OpenStep, CountStep, CloseStep DEF CTraffic, Traffic
<1>5. ASSUME UNCHANGED cellVars PROVE CountInv'
  BY ZenonT(30), <1>0, <1>5 DEF cellVars, recorder
<1>6. ASSUME CDies \/ CCheckHealth PROVE CountInv'
  BY ZenonT(30), <1>5, <1>6, CountFresh DEF CDies, CCheckHealth
<1>7. ASSUME CClock \/ \E reached \in BOOLEAN : CListsCells(reached) PROVE CountInv'
  BY ZenonT(30), <1>5, <1>7 DEF CClock, CListsCells
<1>8. ASSUME UNCHANGED cvars PROVE CountInv'
  BY ZenonT(30), <1>5, <1>8 DEF cvars
<1> QED
  BY ZenonT(30), <1>1, <1>2, <1>3, <1>4, <1>6, <1>7, <1>8 DEF CNext

\* Whatever the connections of a cell do, by how many goroutines each is closed and
\* however many destinations they have, the active connections /status reports, in
\* total and by destination, are the ones that are open, and the destinations stay
\* within the cap and one overflow bucket.
THEOREM ActiveCounts == CSpec => []ActiveAgree
<1>1. CInit => CountInv
  BY CountFresh DEF CInit
<1>2. CountInv => ActiveAgree
  <2> SUFFICES ASSUME CountInv PROVE ActiveAgree
    OBVIOUS
  <2> DEFINE D == DOMAIN dests
  <2>1. /\ IsFiniteSet(D) /\ Cardinality(D \ {Other}) <= MaxTracked /\ MaxTracked \in Nat
    BY ConnsAssumption DEF CountInv, CountTypes, BucketsOK
  <2>2. Cardinality(D) \in Nat
    BY <2>1, FS_CardinalityType
  <2>3. Cardinality(D \ {Other}) = IF Other \in D THEN Cardinality(D) - 1 ELSE Cardinality(D)
    BY <2>1, FS_RemoveElement
  <2>4. Cardinality(D) <= MaxTracked + 1
    BY <2>1, <2>2, <2>3
  <2> QED
    BY <2>4 DEF CountInv, ActiveOK, ActiveAgree
<1> QED
  BY <1>1, <1>2, CountNext, PTL DEF CSpec

-----------------------------------------------------------------------------
(***************************************************************************)
(* The sums of the counters                                                *)
(***************************************************************************)

\* The totals are the sums over the buckets.
SumsOK ==
  \A f \in DOMAIN Zero :
    IsFiniteSet(Units(Counter(f))) /\ totals[f] = Cardinality(Units(Counter(f)))

\* What g counts for b, and everything else it counts.
At(g, b) == IF b \in DOMAIN g THEN g[b] ELSE 0

Rest(g, b) == [x \in DOMAIN g \ {b} |-> g[x]]

\* n pairs with b.
LEMMA UnitsOfOne ==
  ASSUME NEW b, NEW n \in Nat
  PROVE  IsFiniteSet({b} \X (1..n)) /\ Cardinality({b} \X (1..n)) = n
<1>1. IsFiniteSet({b}) /\ Cardinality({b}) = 1
  BY FS_Singleton, ZenonT(30)
<1>2. IsFiniteSet(1..n) /\ Cardinality(1..n) = n
  BY FS_Interval
<1>3. /\ IsFiniteSet({b} \X (1..n))
      /\ Cardinality({b} \X (1..n)) = Cardinality({b}) * Cardinality(1..n)
  BY <1>1, <1>2, FS_Product, ZenonT(30)
<1> QED
  BY <1>1, <1>2, <1>3

\* What g counts is what it counts for b and the rest.
LEMMA UnitsSplit ==
  ASSUME NEW g, NEW b, At(g, b) \in Nat, IsFiniteSet(Units(Rest(g, b)))
  PROVE  /\ IsFiniteSet(Units(g))
         /\ Cardinality(Units(g)) = Cardinality(Units(Rest(g, b))) + At(g, b)
<1> DEFINE one == {b} \X (1..At(g, b))
           rest == Units(Rest(g, b))
<1>1. IsFiniteSet(one) /\ Cardinality(one) = At(g, b)
  BY UnitsOfOne, ZenonT(30)
<1>2. Units(g) = rest \cup one
  <2>1. ASSUME NEW e \in Units(g) PROVE e \in rest \cup one
    <3>1. PICK x \in DOMAIN g : e \in {x} \X (1..g[x])
      BY DEF Units
    <3>2. CASE x = b
      BY <3>1, <3>2 DEF At
    <3>3. CASE x # b
      BY <3>1, <3>3 DEF Rest, Units
    <3> QED
      BY <3>2, <3>3
  <2>2. ASSUME NEW e \in rest PROVE e \in Units(g)
    BY <2>2 DEF Rest, Units
  <2>3. ASSUME NEW e \in one PROVE e \in Units(g)
    <3>1. CASE b \in DOMAIN g
      BY <2>3, <3>1, ZenonT(30) DEF Units, At
    <3>2. CASE b \notin DOMAIN g
      BY <2>3, <3>2 DEF At
    <3> QED
      BY <3>1, <3>2
  <2> QED
    BY <2>1, <2>2, <2>3
<1>3. rest \cap one = {}
  BY DEF Rest, Units
<1> HIDE DEF one, rest
<1>4. /\ IsFiniteSet(rest \cup one)
      /\ Cardinality(rest \cup one) = Cardinality(rest) + Cardinality(one) - Cardinality(rest \cap one)
  BY <1>1, FS_Union DEF rest
<1>5. Cardinality(rest \cap one) = 0
  BY <1>3, FS_EmptySet
<1>6. Cardinality(rest) \in Nat
  BY FS_CardinalityType DEF rest
<1> QED
  BY <1>1, <1>2, <1>4, <1>5, <1>6 DEF rest

\* A count that changes for one b only changes in all as it changes there.
LEMMA UnitsMove ==
  ASSUME NEW g, NEW h, NEW b, Rest(g, b) = Rest(h, b), IsFiniteSet(Units(g)),
         At(g, b) \in Nat, At(h, b) \in Nat
  PROVE  /\ IsFiniteSet(Units(h)) /\ Cardinality(Units(h)) \in Nat
         /\ Cardinality(Units(h)) - Cardinality(Units(g)) = At(h, b) - At(g, b)
<1>1. Units(Rest(g, b)) \in SUBSET Units(g)
  BY DEF Rest, Units
<1>2. IsFiniteSet(Units(Rest(g, b))) /\ Cardinality(Units(Rest(g, b))) \in Nat
  BY <1>1, FS_Subset, FS_CardinalityType
<1>3. Cardinality(Units(g)) = Cardinality(Units(Rest(g, b))) + At(g, b)
  BY <1>2, UnitsSplit
<1>4. /\ IsFiniteSet(Units(h))
      /\ Cardinality(Units(h)) = Cardinality(Units(Rest(g, b))) + At(h, b)
  BY <1>2, UnitsSplit
<1> QED
  BY <1>2, <1>3, <1>4

\* A counter is a number.
LEMMA Numbers ==
  ASSUME NEW s \in Stats, NEW f \in DOMAIN Zero
  PROVE  s[f] \in Nat
<1>1. f \in {"requests", "up", "down", "active"}
  BY DEF Zero
<1> QED
  BY <1>1 DEF Stats

\* The statistics a bucket had, zero if it was not there.
Had(b) == IF b \in DOMAIN dests THEN dests[b] ELSE Zero

\* A step that changes one bucket, and the totals as much.
LEMMA SumsStep ==
  ASSUME SumsOK, NEW b, DOMAIN dests' = DOMAIN dests \cup {b},
         \A x \in DOMAIN dests : x # b => dests'[x] = dests[x],
         totals \in Stats, totals' \in Stats, Had(b) \in Stats, dests'[b] \in Stats,
         \A f \in DOMAIN Zero : totals'[f] - totals[f] = dests'[b][f] - Had(b)[f]
  PROVE  SumsOK'
<1> SUFFICES ASSUME NEW f \in DOMAIN Zero
             PROVE  /\ IsFiniteSet(Units(Counter(f)'))
                    /\ totals'[f] = Cardinality(Units(Counter(f)'))
  BY DEF SumsOK
<1> DEFINE g == Counter(f)
           h == Counter(f)'
<1>1. /\ totals[f] \in Nat /\ totals'[f] \in Nat
      /\ Had(b)[f] \in Nat /\ dests'[b][f] \in Nat
  BY Numbers
<1>2. At(g, b) = Had(b)[f] /\ At(h, b) = dests'[b][f]
  <2>1. Zero[f] = 0
    BY DEF Zero
  <2> QED
    BY <2>1 DEF At, Had, Counter
<1>3. Rest(g, b) = Rest(h, b)
  BY DEF Rest, Counter
<1>4. IsFiniteSet(Units(g)) /\ totals[f] = Cardinality(Units(g))
  BY DEF SumsOK
<1>5. totals'[f] - totals[f] = dests'[b][f] - Had(b)[f]
  OBVIOUS
<1> HIDE DEF g, h
<1>6. /\ IsFiniteSet(Units(h)) /\ Cardinality(Units(h)) \in Nat
      /\ Cardinality(Units(h)) - Cardinality(Units(g)) = At(h, b) - At(g, b)
  BY ZenonT(30), <1>1, <1>2, <1>3, <1>4, UnitsMove
<1>7. totals'[f] = Cardinality(Units(h))
  BY <1>1, <1>2, <1>4, <1>5, <1>6
<1> QED
  BY <1>6, <1>7, ZenonT(30) DEF h

\* What Open of the Recorder adds to a counter.
LEMMA OpenAdds ==
  ASSUME NEW s \in Stats, NEW f \in DOMAIN Zero
  PROVE  LET n == [s EXCEPT !.requests = @ + 1, !.active = @ + 1]
         IN  n \in Stats /\ n[f] = s[f] + (IF f \in {"requests", "active"} THEN 1 ELSE 0)
<1> DEFINE m == [s EXCEPT !.requests = s.requests + 1]
           n == [m EXCEPT !.active = m.active + 1]
<1>1. f \in {"requests", "up", "down", "active"}
  BY DEF Zero
<1>2. m \in Stats /\ m[f] = s[f] + (IF f = "requests" THEN 1 ELSE 0)
  BY <1>1 DEF Stats
<1>3. [s EXCEPT !.requests = @ + 1, !.active = @ + 1] = n
  BY ZenonT(30)
<1> HIDE DEF m
<1>4. n \in Stats /\ n[f] = m[f] + (IF f = "active" THEN 1 ELSE 0)
  BY <1>1, <1>2 DEF Stats
<1> HIDE DEF n
<1>5. n[f] = s[f] + (IF f \in {"requests", "active"} THEN 1 ELSE 0)
  BY <1>1, <1>2, <1>4 DEF Stats
<1> QED
  BY <1>3, <1>4, <1>5, ZenonT(30)

\* What Up and Down add.
LEMMA MoveAdds ==
  ASSUME NEW s \in Stats, NEW f \in DOMAIN Zero, NEW dir \in {"up", "down"}
  PROVE  LET n == [s EXCEPT ![dir] = @ + 1]
         IN  n \in Stats /\ n[f] = s[f] + (IF f = dir THEN 1 ELSE 0)
<1>1. f \in {"requests", "up", "down", "active"}
  BY DEF Zero
<1>2. CASE dir = "up"
  BY <1>1, <1>2 DEF Stats
<1>3. CASE dir = "down"
  BY <1>1, <1>3 DEF Stats
<1> QED
  BY <1>2, <1>3

\* What Close takes away.
LEMMA CloseTakes ==
  ASSUME NEW s \in Stats, NEW f \in DOMAIN Zero, s.active > 0
  PROVE  Closed(s) \in Stats /\ Closed(s)[f] = s[f] - (IF f = "active" THEN 1 ELSE 0)
<1>1. f \in {"requests", "up", "down", "active"}
  BY DEF Zero
<1> QED
  BY <1>1 DEF Stats, Closed

\* Every connection that copies has its bucket, so that what it copies is counted
\* there and in the totals, or nowhere.
ChunksOK == \A c \in Conns : conn[c].chunk # "none" => conn[c].key \in DOMAIN dests

SumInv == ChunksOK /\ SumsOK

\* A step that leaves the counters.
LEMMA SumsSame ==
  ASSUME SumInv, UNCHANGED <<dests, totals>>, ChunksOK'
  PROVE  SumInv'
BY DEF SumInv, SumsOK, Counter

\* A connection is dialed, or copies a chunk.
LEMMA SumDial ==
  ASSUME CountInv, SumInv, NEW c \in Conns,
         \/ \E d \in Dests : Dial(c, d)
         \/ \E dir \in {"up", "down"} : Copies(c, dir)
  PROVE  SumInv'
<1>0. conn \in [Conns -> ConnStates]
  BY DEF CountInv, CountTypes
<1>1. UNCHANGED <<dests, totals>>
  BY ZenonT(30) DEF Dial, Copies, recorder
<1>2. ASSUME NEW d \in Dests, Dial(c, d) PROVE ChunksOK'
  <2>1. \/ conn' = [conn EXCEPT ![c].state = "dialed", ![c].key = d]
        \/ conn' = [conn EXCEPT ![c].state = "closed"]
    BY ZenonT(30), <1>2 DEF Dial
  <2>2. conn[c].chunk = "none"
    BY <1>2 DEF Dial, NoConn
  <2>3. conn'[c].chunk = "none" /\ \A k \in Conns : k # c => conn'[k] = conn[k]
    BY <1>0, <2>1, <2>2 DEF ConnStates
  <2> QED
    BY <1>1, <2>3 DEF SumInv, ChunksOK
<1>3. ASSUME NEW dir \in {"up", "down"}, Copies(c, dir) PROVE ChunksOK'
  <2>1. conn[c].state = "open" /\ conn' = [conn EXCEPT ![c].chunk = dir]
    BY <1>3 DEF Copies
  <2>2. \A k \in Conns : conn'[k].key = conn[k].key /\ (k # c => conn'[k].chunk = conn[k].chunk)
    BY <1>0, <2>1 DEF ConnStates
  <2>3. conn[c].key \in DOMAIN dests
    BY <2>1 DEF CountInv, BucketsOK
  <2> QED
    BY <1>1, <2>2, <2>3 DEF SumInv, ChunksOK
<1> QED
  BY <1>1, <1>2, <1>3, SumsSame, ZenonT(30)

\* Open of the Recorder.
LEMMA SumOpen ==
  ASSUME CountInv, SumInv, NEW c \in Conns, Opens(c)
  PROVE  SumInv'
<1> DEFINE b == Bucket(conn[c].key)
           More(s) == [s EXCEPT !.requests = @ + 1, !.active = @ + 1]
<1>1. /\ conn \in [Conns -> ConnStates] /\ totals \in Stats
      /\ \A x \in DOMAIN dests : dests[x] \in Stats
  BY DEF CountInv, CountTypes
<1>2. /\ dests' = [x \in DOMAIN dests \cup {b} |-> IF x # b THEN dests[x] ELSE More(Had(b))]
      /\ totals' = More(totals)
      /\ conn' = [conn EXCEPT ![c].state = "open", ![c].key = b]
  BY DEF Opens, Had
<1>3. ASSUME NEW s \in Stats, NEW f \in DOMAIN Zero
      PROVE  More(s) \in Stats /\ More(s)[f] = s[f] + (IF f \in {"requests", "active"} THEN 1 ELSE 0)
  BY OpenAdds, ZenonT(30)
<1>4. \A s \in Stats : More(s) \in Stats
  <2>1. "up" \in DOMAIN Zero
    BY DEF Zero
  <2> QED
    BY <1>3, <2>1, ZenonT(30)
<1> HIDE DEF b, More
<1>5. Had(b) \in Stats
  BY <1>1 DEF Had, Stats, Zero
<1>6. /\ DOMAIN dests' = DOMAIN dests \cup {b} /\ dests'[b] = More(Had(b))
      /\ \A x \in DOMAIN dests : x # b => dests'[x] = dests[x]
  BY <1>2
<1>7. SumsOK'
  <2>1. \A f \in DOMAIN Zero : totals'[f] - totals[f] = dests'[b][f] - Had(b)[f]
    <3> TAKE f \in DOMAIN Zero
    <3>1. totals[f] \in Nat /\ Had(b)[f] \in Nat
      BY <1>1, <1>5, Numbers
    <3>2. /\ totals'[f] = totals[f] + (IF f \in {"requests", "active"} THEN 1 ELSE 0)
          /\ dests'[b][f] = Had(b)[f] + (IF f \in {"requests", "active"} THEN 1 ELSE 0)
      BY <1>1, <1>2, <1>3, <1>5, <1>6
    <3> QED
      BY <3>1, <3>2
  <2>2. totals' \in Stats /\ dests'[b] \in Stats
    BY <1>1, <1>2, <1>4, <1>5, <1>6
  <2> QED
    BY ZenonT(30), <1>1, <1>5, <1>6, <2>1, <2>2, SumsStep DEF SumInv
<1>8. ChunksOK'
  <2>1. conn'[c].key = b /\ \A k \in Conns : k # c => conn'[k] = conn[k]
    BY <1>1, <1>2 DEF ConnStates
  <2> QED
    BY <1>6, <2>1 DEF SumInv, ChunksOK
<1> QED
  BY <1>7, <1>8 DEF SumInv

\* A method that counts in a bucket that is there, and in the totals.
LEMMA SumAdds ==
  ASSUME CountInv, SumInv, NEW b \in DOMAIN dests, NEW s \in Stats, NEW t \in Stats,
         dests' = [x \in DOMAIN dests |-> IF x = b THEN s ELSE dests[x]], totals' = t,
         \A f \in DOMAIN Zero : t[f] - totals[f] = s[f] - dests[b][f],
         \A k \in Conns : conn'[k].key = conn[k].key /\ (conn'[k].chunk # "none" => conn[k].chunk # "none")
  PROVE  SumInv'
<1>1. totals \in Stats /\ dests[b] \in Stats
  BY DEF CountInv, CountTypes
<1>2. /\ DOMAIN dests' = DOMAIN dests \cup {b} /\ dests'[b] = s /\ Had(b) = dests[b]
      /\ \A x \in DOMAIN dests : x # b => dests'[x] = dests[x]
  BY ZenonT(30) DEF Had
<1>3. SumsOK'
  BY <1>1, <1>2, SumsStep DEF SumInv
<1>4. ChunksOK'
  BY <1>2 DEF SumInv, ChunksOK
<1> QED
  BY <1>3, <1>4 DEF SumInv

\* Up and Down of the Recorder, also of a connection closed meanwhile: its bucket is
\* still there.
LEMMA SumCount ==
  ASSUME CountInv, SumInv, NEW c \in Conns, Counts(c)
  PROVE  SumInv'
<1> DEFINE dir == conn[c].chunk
           b == conn[c].key
           Moved(s) == [s EXCEPT ![dir] = @ + 1]
<1>1. conn \in [Conns -> ConnStates] /\ totals \in Stats
  BY DEF CountInv, CountTypes
<1>2. /\ dir \in {"up", "down"} /\ conn' = [conn EXCEPT ![c].chunk = "counted"]
      /\ dests' = [x \in DOMAIN dests |-> IF x = b THEN Moved(dests[x]) ELSE dests[x]]
      /\ totals' = Moved(totals)
  BY ZenonT(30) DEF Counts, Adds
<1>3. b \in DOMAIN dests
  BY <1>2 DEF SumInv, ChunksOK
<1>4. dests[b] \in Stats
  BY <1>3 DEF CountInv, CountTypes
<1>5. \A k \in Conns : conn'[k].key = conn[k].key /\ (conn'[k].chunk # "none" => conn[k].chunk # "none")
  BY <1>1, <1>2 DEF ConnStates
<1> HIDE DEF dir, b
<1>6. ASSUME NEW s \in Stats, NEW f \in DOMAIN Zero
      PROVE  Moved(s) \in Stats /\ Moved(s)[f] = s[f] + (IF f = dir THEN 1 ELSE 0)
  BY <1>2, MoveAdds, ZenonT(30)
<1> HIDE DEF Moved
<1>7. Moved(totals) \in Stats /\ Moved(dests[b]) \in Stats
  <2>1. "up" \in DOMAIN Zero
    BY DEF Zero
  <2> QED
    BY <1>1, <1>4, <1>6, <2>1, ZenonT(30)
<1>8. \A f \in DOMAIN Zero : Moved(totals)[f] - totals[f] = Moved(dests[b])[f] - dests[b][f]
  <2> TAKE f \in DOMAIN Zero
  <2>1. totals[f] \in Nat /\ dests[b][f] \in Nat
    BY <1>1, <1>4, Numbers
  <2>2. /\ Moved(totals)[f] = totals[f] + (IF f = dir THEN 1 ELSE 0)
        /\ Moved(dests[b])[f] = dests[b][f] + (IF f = dir THEN 1 ELSE 0)
    BY <1>1, <1>4, <1>6, ZenonT(30)
  <2> QED
    BY <2>1, <2>2
<1>9. dests' = [x \in DOMAIN dests |-> IF x = b THEN Moved(dests[b]) ELSE dests[x]]
  BY <1>2
<1> QED
  BY <1>2, <1>3, <1>5, <1>7, <1>8, <1>9, SumAdds

\* Close of the Recorder: the counts it takes one away from are above zero.
LEMMA SumClose ==
  ASSUME CountInv, SumInv, NEW c \in Conns, Closes(c)
  PROVE  SumInv'
<1> DEFINE b == conn[c].key
           All == Dests \cup {Other}
<1>1. conn \in [Conns -> ConnStates] /\ totals \in Stats
  BY DEF CountInv, CountTypes
<1>2. \A k \in Conns : conn'[k].key = conn[k].key /\ conn'[k].chunk = conn[k].chunk
  BY <1>1 DEF Closes, ConnStates
<1>3. CASE conn[c].state = "closed"
  <2>1. UNCHANGED <<dests, totals>>
    BY <1>3 DEF Closes
  <2>2. ChunksOK'
    BY <1>2, <2>1 DEF SumInv, ChunksOK
  <2> QED
    BY <2>1, <2>2, SumsSame
<1>4. CASE conn[c].state = "open"
  <2>1. /\ dests' = [x \in DOMAIN dests |-> IF x = b THEN Closed(dests[x]) ELSE dests[x]]
        /\ totals' = Closed(totals)
    BY <1>4 DEF Closes, Adds
  <2>2. b \in DOMAIN dests /\ b \in All
    BY <1>1, <1>4 DEF CountInv, BucketsOK, ConnStates
  <2>3. dests[b] \in Stats
    BY <2>2 DEF CountInv, CountTypes
  <2>4. totals.active > 0 /\ dests[b].active > 0
    <3>1. c \in Open(All) /\ c \in Open({b})
      BY <1>4, <2>2 DEF Open
    <3>2. Cardinality(Open(All)) # 0 /\ Cardinality(Open({b})) # 0
      BY <3>1, OpenFinite, FS_EmptySet
    <3>3. totals.active = Cardinality(Open(All)) /\ dests[b].active = Cardinality(Open({b}))
      BY <2>2 DEF CountInv, ActiveOK
    <3> QED
      BY <1>1, <2>3, <3>2, <3>3 DEF Stats
  <2> HIDE DEF b, All
  <2>5. Closed(totals) \in Stats /\ Closed(dests[b]) \in Stats
    <3>1. "up" \in DOMAIN Zero
      BY DEF Zero
    <3> QED
      BY ZenonT(30), <1>1, <2>3, <2>4, <3>1, CloseTakes
  <2>6. \A f \in DOMAIN Zero : Closed(totals)[f] - totals[f] = Closed(dests[b])[f] - dests[b][f]
    <3> TAKE f \in DOMAIN Zero
    <3>1. totals[f] \in Nat /\ dests[b][f] \in Nat
      BY <1>1, <2>3, Numbers
    <3>2. /\ Closed(totals)[f] = totals[f] - (IF f = "active" THEN 1 ELSE 0)
          /\ Closed(dests[b])[f] = dests[b][f] - (IF f = "active" THEN 1 ELSE 0)
      BY <1>1, <2>3, <2>4, CloseTakes
    <3> QED
      BY <3>1, <3>2
  <2>7. dests' = [x \in DOMAIN dests |-> IF x = b THEN Closed(dests[b]) ELSE dests[x]]
    BY <2>1
  <2> QED
    BY <1>2, <2>1, <2>2, <2>5, <2>6, <2>7, SumAdds
<1> QED
  BY <1>3, <1>4 DEF Closes

\* The program is gone, and its counters with it, or has not begun.
LEMMA SumFresh ==
  /\ CellInit => SumInv
  /\ CellGone => SumInv'
<1>1. ASSUME NEW f \in DOMAIN Zero
      PROVE  LET none == Units([b \in DOMAIN NoDests |-> NoDests[b][f]])
             IN  IsFiniteSet(none) /\ Zero[f] = Cardinality(none)
  <2>1. Units([b \in DOMAIN NoDests |-> NoDests[b][f]]) = {}
    BY DEF Units, NoDests
  <2>2. Zero[f] = 0
    BY DEF Zero
  <2> QED
    BY <2>1, <2>2, FS_EmptySet, ZenonT(30)
<1>2. \A c \in Conns : NoConns[c].chunk = "none"
  BY DEF NoConns, NoConn
<1>3. ASSUME CellInit PROVE SumInv
  BY <1>1, <1>2, <1>3, ZenonT(30) DEF CellInit, SumInv, ChunksOK, SumsOK, Counter
<1>4. ASSUME CellGone PROVE SumInv'
  BY <1>1, <1>2, <1>4, ZenonT(30) DEF CellGone, SumInv, ChunksOK, SumsOK, Counter
<1> QED
  BY <1>3, <1>4

\* Every step of the health loop with the program keeps the sums right.
LEMMA SumNext ==
  ASSUME CountInv, SumInv, [CNext]_cvars
  PROVE  SumInv'
<1>0. ASSUME UNCHANGED <<dests, totals, conn>> PROVE SumInv'
  <2>1. ChunksOK'
    BY <1>0 DEF SumInv, ChunksOK
  <2> QED
    BY <1>0, <2>1, SumsSame
<1>1. ASSUME NEW s \in Servers, CFails(s) \/ CReports(s) PROVE SumInv'
  BY ZenonT(30), <1>0, <1>1 DEF CFails, CReports, ServerFails, ServerReports, recorder
<1>2. ASSUME NEW signal \in BOOLEAN, CSelects(signal) PROVE SumInv'
  BY ZenonT(30), <1>0, <1>2 DEF CSelects, RunSelects, recorder
<1>3. ASSUME CShutdown \/ CSpawn \/ CHangs PROVE SumInv'
  BY ZenonT(30), <1>0, <1>3 DEF CShutdown, Shutdown, CSpawn, RunListens, CHangs, recorder
<1>4. ASSUME CTraffic PROVE SumInv'
  BY ZenonT(30), <1>4, SumDial, SumOpen, SumCount, SumClose DEF CTraffic, Traffic
<1>5. ASSUME UNCHANGED cellVars PROVE SumInv'
  BY ZenonT(30), <1>0, <1>5 DEF cellVars, recorder
<1>6. ASSUME CDies \/ CCheckHealth PROVE SumInv'
  BY ZenonT(30), <1>5, <1>6, SumFresh DEF CDies, CCheckHealth
<1>7. ASSUME CClock \/ \E reached \in BOOLEAN : CListsCells(reached) PROVE SumInv'
  BY ZenonT(30), <1>5, <1>7 DEF CClock, CListsCells
<1>8. ASSUME UNCHANGED cvars PROVE SumInv'
  BY ZenonT(30), <1>5, <1>8 DEF cvars
<1> QED
  BY ZenonT(30), <1>1, <1>2, <1>3, <1>4, <1>6, <1>7, <1>8 DEF CNext

\* What /status reports adds up at every moment: the active connections are right,
\* and every total is the sum over the buckets, for any number of connections and
\* destinations, those folded into the overflow bucket included, and whenever a
\* connection is closed or its last bytes are counted.
THEOREM TotalsAreSums == CSpec => []CountsAgree
<1>1. CInit => CountInv /\ SumInv
  BY CountFresh, SumFresh DEF CInit
<1>2. SumInv /\ ActiveAgree => CountsAgree
  BY DEF SumInv, SumsOK, CountsAgree
<1> QED
  BY <1>1, <1>2, ActiveCounts, CountNext, SumNext, PTL DEF CSpec

-----------------------------------------------------------------------------
(***************************************************************************)
(* The health loop                                                         *)
(***************************************************************************)

\* The variables of the health loop keep their types.
THEOREM HealthTypes == Spec => []TypeOK
<1> USE TimesAssumption, ModeAssumption DEF TypeOK
<1>1. Init => TypeOK
  <2> SUFFICES ASSUME Init PROVE TypeOK
    OBVIOUS
  <2>1. serving \in BOOLEAN /\ listed \in BOOLEAN /\ slot \in {"hot", "empty"}
       /\ url \in {"unread", "has", "lacks"}
    BY Zenon DEF Init
  <2>2. age \in 0 .. MaxAge + 1 /\ since \in 0 .. Interval + Delay
    BY SMT DEF Init
  <2> QED BY <2>1, <2>2
<1>2. TypeOK /\ [Next]_vars => TypeOK'
  <2> SUFFICES ASSUME TypeOK, [Next]_vars PROVE TypeOK'
    OBVIOUS
  <2>1. serving' \in BOOLEAN /\ listed' \in BOOLEAN /\ slot' \in {"hot", "empty"}
       /\ url' \in {"unread", "has", "lacks"}
    BY Zenon DEF Next, Spawn, Dies, Hangs, ListsCells, CheckHealth, Reaps, Clock, vars
  <2>2. age' \in 0 .. MaxAge + 1
    BY SMT DEF Next, Spawn, Dies, Hangs, ListsCells, CheckHealth, Reaps, Clock, vars
  <2>3. since' \in 0 .. Interval + Delay
    BY SMT DEF Next, Spawn, Dies, Hangs, ListsCells, CheckHealth, Reaps, Clock, vars
  <2> QED BY <2>1, <2>2, <2>3
<1> QED BY <1>1, <1>2, PTL DEF Spec

\* HealthyAt of a hot tunnel is at least as recent as the loop's last tick.
THEOREM HealthRenewed == Spec => []RenewedEveryTick
<1> USE TimesAssumption, ModeAssumption DEF TypeOK, RenewedEveryTick
<1>1. Init => RenewedEveryTick
  BY DEF Init
<1>2. TypeOK /\ RenewedEveryTick /\ [Next]_vars => RenewedEveryTick'
  BY DEF Next, Spawn, Dies, Hangs, ListsCells, CheckHealth, Reaps, Clock, vars
<1> QED BY <1>1, <1>2, HealthTypes, PTL DEF Spec

\* A cell that answers, or that the tick has no control URL for, loses its slot to the health loop
\* only at a tick that comes later than HealthHandshakeMaxAge after the one before,
\* whether docker answered ListChildren or not.
THEOREM HealthReapedOnlyLate == Spec => ReapedByAgeOnlyLate
<1>1. TypeOK /\ RenewedEveryTick /\ [Next]_vars
        => [slot = "hot" /\ slot' = "empty" /\ (serving \/ url = "lacks")
              => since > MaxAge]_vars
  BY TimesAssumption
  DEF TypeOK, RenewedEveryTick, Next, Spawn, Dies, Hangs, ListsCells, CheckHealth, Reaps, Clock,
      ProbeHealthy
<1> QED BY <1>1, HealthTypes, HealthRenewed, PTL DEF Spec, ReapedByAgeOnlyLate

-----------------------------------------------------------------------------
(***************************************************************************)
(* The health loop beside the program of its cell                          *)
(***************************************************************************)

\* The loop sees of the cell what the program is: a cell in the slot and on docker's
\* list answers iff its control server does, unless it hangs.
WatchInv ==
  /\ slot \in {"hot", "empty"} /\ serving \in BOOLEAN /\ listed \in BOOLEAN
  /\ slot = "empty" => ~listed
  /\ ~listed => run = "off" /\ ~serving
  /\ listed /\ run # "hung" => (serving <=> Answering)
  /\ run = "hung" => ~serving

\* A step of the program: to the loop, nothing happened or the cell stopped answering.
LEMMA InCellStep ==
  ASSUME WatchInv, InCell, run # "hung", run' # "hung", Answering' => Answering,
         Answering' \in BOOLEAN
  PROVE  WatchInv' /\ (Hangs \/ UNCHANGED vars)
<1>1. listed /\ slot = "hot" /\ (serving <=> Answering)
  BY ZenonT(30) DEF WatchInv, InCell
<1>2. (serving' <=> Answering') /\ serving' \in BOOLEAN
  BY ZenonT(30) DEF InCell
<1>3. UNCHANGED <<slot, listed, age, since, url>>
  BY DEF InCell
<1>4. WatchInv'
  BY ZenonT(30), <1>1, <1>2, <1>3 DEF WatchInv
<1>5. CASE serving /\ ~serving'
  <2>1. serving' = FALSE
    BY ZenonT(30), <1>2, <1>5
  <2> QED
    BY ZenonT(30), <1>1, <1>3, <1>4, <1>5, <2>1 DEF Hangs
<1>6. CASE ~(serving /\ ~serving')
  <2>1. serving' = serving
    <3>1. serving' <=> serving
      BY ZenonT(30), <1>1, <1>2, <1>6
    <3>2. serving = TRUE \/ serving = FALSE
      BY ZenonT(30) DEF WatchInv
    <3>3. serving' = TRUE \/ serving' = FALSE
      BY ZenonT(30), <1>2
    <3> QED
      BY ZenonT(30), <3>1, <3>2, <3>3
  <2> QED
    BY ZenonT(30), <1>3, <1>4, <2>1 DEF vars
<1> QED
  BY <1>5, <1>6

\* Every step of the two together is a step of the loop's own specification.
LEMMA WatchStep ==
  ASSUME WatchInv, [CNext]_cvars
  PROVE  WatchInv' /\ [Next]_vars
<1> DEFINE Goal == WatchInv' /\ [Next]_vars
<1>0. ASSUME WatchInv', Hangs \/ UNCHANGED vars PROVE Goal
  BY ZenonT(30), <1>0 DEF Next
<1> HIDE DEF Goal
<1>1. ASSUME NEW s \in Servers, CFails(s) PROVE Goal
  <2>1. run # "hung" /\ run' = run /\ InCell
    BY <1>1 DEF CFails, ServerFails
  <2>2. server' = [server EXCEPT ![s] = "failed"]
    BY <1>1 DEF CFails, ServerFails
  <2> QED
    BY <1>0, <2>1, <2>2, InCellStep DEF Answering
<1>2. ASSUME NEW s \in Servers, CReports(s) PROVE Goal
  <2>1. run # "hung" /\ run' = run /\ InCell
    BY <1>2 DEF CReports, ServerReports
  <2>2. server' = [server EXCEPT ![s] = "down"]
    BY <1>2 DEF CReports, ServerReports
  <2> QED
    BY <1>0, <2>1, <2>2, InCellStep DEF Answering
<1>3. ASSUME NEW signal \in BOOLEAN, CSelects(signal) PROVE Goal
  <2>1. run = "serving" /\ run' = "stopping" /\ server' = server /\ InCell
    BY ZenonT(30), <1>3 DEF CSelects, RunSelects
  <2> QED
    BY <1>0, <2>1, InCellStep DEF Answering
<1>4. ASSUME CShutdown PROVE Goal
  <2>1. run = "stopping" /\ run' = "returned" /\ InCell
    BY <1>4 DEF CShutdown, Shutdown
  <2> QED
    BY <1>0, <2>1, InCellStep DEF Answering
<1>5. ASSUME CTraffic PROVE Goal
  <2>1. run' = run /\ server' = server /\ InCell
    BY ZenonT(30), <1>5 DEF CTraffic, Traffic, Dial, Opens, Counts, Closes, Copies
  <2>2. run \in {"serving", "stopping"}
    BY ZenonT(30), <1>5 DEF CTraffic, Traffic, Dial, Opens, Counts, Closes, Copies, Serving
  <2> QED
    BY <1>0, <2>1, <2>2, InCellStep DEF Answering
<1>6. ASSUME CSpawn PROVE Goal
  <2>1. slot' = "hot" /\ serving' = TRUE /\ listed' = TRUE /\ run' = "serving"
    BY <1>6 DEF CSpawn, Spawn, RunListens
  <2>2. server'["control"] = "up"
    BY <1>6 DEF CSpawn, RunListens, Servers
  <2>3. WatchInv'
    BY ZenonT(30), <2>1, <2>2 DEF WatchInv, Answering
  <2> QED
    BY ZenonT(30), <1>6, <2>3 DEF Goal, CSpawn, Next
<1>7. ASSUME CHangs PROVE Goal
  <2>1. WatchInv'
    BY ZenonT(30), <1>7 DEF WatchInv, CHangs, Hangs
  <2> QED
    BY ZenonT(30), <1>7, <2>1 DEF Goal, CHangs, Next
<1>8. ASSUME CDies PROVE Goal
  <2>1. WatchInv'
    BY ZenonT(30), <1>8 DEF WatchInv, CDies, Dies, CellGone
  <2> QED
    BY ZenonT(30), <1>8, <2>1 DEF Goal, CDies, Next
<1>9. ASSUME UNCHANGED cellVars, UNCHANGED <<slot, serving, listed>> PROVE WatchInv'
  BY ZenonT(30), <1>9 DEF WatchInv, cellVars, Answering
<1>10. ASSUME CCheckHealth PROVE Goal
  <2>1. WatchInv'
    <3>1. CASE slot' = "empty"
      <4>1. CellGone /\ (Reaps \/ (slot = "empty" /\ UNCHANGED <<slot, serving, listed, age>>))
        BY ZenonT(30), <1>10, <3>1 DEF CCheckHealth, CheckHealth
      <4>2. listed' = FALSE /\ serving' = FALSE /\ run' = "off"
        BY ZenonT(30), <4>1 DEF Reaps, CellGone, WatchInv
      <4> QED
        BY ZenonT(30), <3>1, <4>2 DEF WatchInv
    <3>2. CASE slot' # "empty"
      BY ZenonT(30), <1>9, <1>10, <3>2 DEF CCheckHealth, CheckHealth, Reaps
    <3> QED
      BY <3>1, <3>2
  <2> QED
    BY ZenonT(30), <1>10, <2>1 DEF Goal, CCheckHealth, Next
<1>11. ASSUME NEW reached \in BOOLEAN, CListsCells(reached) PROVE Goal
  <2>1. WatchInv'
    BY ZenonT(30), <1>9, <1>11 DEF CListsCells, ListsCells
  <2> QED
    BY ZenonT(30), <1>11, <2>1 DEF Goal, CListsCells, Next
<1>12. ASSUME CClock PROVE Goal
  <2>1. WatchInv'
    BY ZenonT(30), <1>9, <1>12 DEF CClock, Clock
  <2> QED
    BY ZenonT(30), <1>12, <2>1 DEF Goal, CClock, Next
<1>13. ASSUME UNCHANGED cvars PROVE Goal
  <2>1. WatchInv' /\ UNCHANGED vars
    BY ZenonT(30), <1>9, <1>13 DEF cvars, vars
  <2> QED
    BY ZenonT(30), <1>0, <2>1
<1>14. Goal
  BY ZenonT(30), <1>1, <1>2, <1>3, <1>4, <1>5, <1>6, <1>7, <1>8, <1>10, <1>11, <1>12, <1>13
  DEF CNext
<1> QED
  BY ZenonT(30), <1>14 DEF Goal

\* The health loop with the program of its cell implements the loop alone: whatever
\* the cell's servers and connections do, to the loop a cell serves, hangs or dies.
THEOREM WatchedCell == CSpec => Spec
<1>1. CInit => WatchInv /\ Init
  BY ZenonT(30) DEF CInit, Init, CellInit, WatchInv
<1>2. WatchInv /\ [CNext]_cvars => WatchInv' /\ [Next]_vars
  BY WatchStep
<1> QED
  BY <1>1, <1>2, PTL DEF CSpec, Spec

\* So a cell that answers, or that docker does not list, loses its slot to the loop
\* only at a late tick, whatever its program does.
THEOREM WatchedCellReapedOnlyLate == CSpec => []RenewedEveryTick /\ ReapedByAgeOnlyLate
BY WatchedCell, HealthRenewed, HealthReapedOnlyLate, PTL

-----------------------------------------------------------------------------
(***************************************************************************)
(* The orphan loop                                                         *)
(***************************************************************************)

\* The initial state of the orphan loop satisfies the inductive invariant.
LEMMA InitOrphanInv == OrphanInit => OrphanInv
BY OrphanTimesAssumption DEF OrphanInit, OrphanInv, OrphanTypeOK, AgesBounded, ListsOnlyCreated,
   SparesLiveCells

\* A request's steps keep the invariant: a cell becomes tracked only while it
\* is young, and a victim never becomes tracked.
LEMMA CellStep ==
  ASSUME OrphanInv, NEW c \in Cells, Create(c) \/ Publish(c) \/ Untrack(c) \/ ReapOne(c)
  PROVE  OrphanInv'
<1> USE OrphanTimesAssumption DEF OrphanInv, OrphanTypeOK, AgesBounded, ListsOnlyCreated,
        SparesLiveCells
<1>1. CASE Create(c)
  BY <1>1 DEF Create
<1>2. CASE Publish(c)
  BY <1>2 DEF Publish
<1>3. CASE Untrack(c)
  BY <1>3 DEF Untrack
<1>4. CASE ReapOne(c)
  BY <1>4 DEF ReapOne
<1> QED BY <1>1, <1>2, <1>3, <1>4

\* Every step keeps the invariant.  Decide is where the bound on the latency is
\* needed.
LEMMA NextOrphanInv == OrphanInv /\ [OrphanNext]_orphanVars => OrphanInv'
<1> SUFFICES ASSUME OrphanInv, [OrphanNext]_orphanVars PROVE OrphanInv'
  OBVIOUS
<1> USE OrphanTimesAssumption, LatencyAssumption
<1>1. CASE \E c \in Cells : Create(c) \/ Publish(c) \/ Untrack(c) \/ ReapOne(c)
  BY <1>1, CellStep
<1>2. CASE TakeKeep
  BY <1>2 DEF TakeKeep, OrphanInv, OrphanTypeOK, AgesBounded, ListsOnlyCreated,
     SparesLiveCells
<1>3. CASE TakeList
  BY <1>3 DEF TakeList, Existing, OrphanInv, OrphanTypeOK, AgesBounded,
     ListsOnlyCreated, SparesLiveCells
<1>4. CASE Decide
  <2>1. PICK skew \in [Cells -> {0, 1}] : victims' = {c \in Cells : Reapable(c, skew[c])}
    BY <1>4 DEF Decide
  <2>2. SparesLiveCells'
    <3> SUFFICES ASSUME NEW c \in victims', stage[c] \in {"spawning", "tracked"}
                 PROVE  FALSE
      BY <1>4 DEF Decide, SparesLiveCells
    <3>1. c \in Cells /\ c \notin keep /\ cellAge[c] + skew[c] >= SpawnTimeout + Grace
      BY <2>1 DEF Reapable, MinAge
    <3>2. skew[c] \in {0, 1} /\ cellAge[c] \in Nat /\ elapsed \in Nat
      BY <3>1 DEF OrphanInv, OrphanTypeOK
    <3>3. cellAge[c] <= SpawnTimeout + elapsed /\ elapsed <= Latency
      BY <1>4, <3>1, <3>2 DEF Decide, OrphanInv, OrphanTypeOK, AgesBounded
    <3> QED BY <3>1, <3>2, <3>3
  <2>3. OrphanTypeOK' /\ ListsOnlyCreated'
    BY <1>4, <2>1 DEF Decide, Reapable, OrphanInv, OrphanTypeOK, ListsOnlyCreated
  <2>4. AgesBounded'
    BY <1>4 DEF Decide, OrphanInv, OrphanTypeOK, AgesBounded
  <2> QED BY <2>2, <2>3, <2>4 DEF OrphanInv
<1>5. CASE EndPass
  BY <1>5 DEF EndPass, OrphanInv, OrphanTypeOK, AgesBounded, ListsOnlyCreated,
     SparesLiveCells
<1>6. CASE OrphanTick
  <2>1. OrphanTypeOK'
    BY <1>6 DEF OrphanTick, OrphanInv, OrphanTypeOK
  <2>2. AgesBounded'
    BY <1>6 DEF OrphanTick, OrphanInv, OrphanTypeOK, AgesBounded, Existing, MinAge
  <2>3. ListsOnlyCreated' /\ SparesLiveCells'
    BY <1>6 DEF OrphanTick, OrphanInv, ListsOnlyCreated, SparesLiveCells
  <2> QED BY <2>1, <2>2, <2>3 DEF OrphanInv
<1>7. CASE UNCHANGED orphanVars
  BY <1>7 DEF orphanVars, OrphanInv, OrphanTypeOK, AgesBounded, ListsOnlyCreated,
     SparesLiveCells
<1> QED BY <1>1, <1>2, <1>3, <1>4, <1>5, <1>6, <1>7 DEF OrphanNext

\* ReapOrphans never kills a cell that is being spawned or that a pool tracks,
\* as long as the list call is faster than the grace period.
THEOREM OrphanSafety == OrphanSpec => []SparesLiveCells
<1>1. OrphanInv => SparesLiveCells
  BY DEF OrphanInv
<1> QED BY InitOrphanInv, NextOrphanInv, <1>1, PTL DEF OrphanSpec

=============================================================================
