--------------------- MODULE AgentStateBroadcast_proofs ---------------------
(***************************************************************************)
(* For every number of pages, agents and faults, and every size of pages,  *)
(* queues and buffers: a page that takes its state for complete shows a    *)
(* tracked one, and the broadcast implements StateFollower.  Two facts     *)
(* carry the argument: what is under way to a page names states that were  *)
(* tracked, in an order in which no snapshot is older than what was sent   *)
(* before it, and an unfinished snapshot is right as far as it goes.       *)
(***************************************************************************)
EXTENDS Followers, FiniteSetTheorems, SequenceTheorems, WellFoundedInduction, TLAPS

(* A connection when k states are tracked.                                 *)
Message(k) == [type : {"delta"}, seq : 1 .. k - 1]
              \cup [type : {"page"}, seq : 0 .. k - 1, offset : Int, size : Int]
Connection(k) ==
  [open : BOOLEAN, sent : BOOLEAN, busy : BOOLEAN, want : BOOLEAN,
   over : BOOLEAN, done : BOOLEAN, seq : Nat, offset : Int,
   clogged : BOOLEAN, queue : Seq(1 .. k - 1), wire : Seq(Message(k))]

(* No snapshot page is older than what was sent before it, nor than the    *)
(* state "at" that the page of the browser has reached.                    *)
InOrder(c, at) ==
  /\ \A j \in DOMAIN c.wire : c.wire[j].type = "page" =>
       at <= c.wire[j].seq /\ \A i \in 1 .. j : c.wire[i].seq <= c.wire[j].seq
  /\ c.busy /\ ~c.done =>
       at <= c.seq /\ \A j \in DOMAIN c.wire : c.wire[j].seq <= c.seq

Good(c, k, at) ==
  /\ c \in Connection(k) /\ InOrder(c, at)
  /\ c.busy => c.seq < k

LEMMA MessagesGrow ==
  ASSUME NEW k \in Nat, NEW n \in Nat, k <= n
  PROVE  /\ Message(k) \subseteq Message(n)
         /\ Seq(Message(k)) \subseteq Seq(Message(n))
         /\ Seq(1 .. k - 1) \subseteq Seq(1 .. n - 1)
<1>1. Message(k) \subseteq Message(n)
  BY DEF Message
<1>2. 1 .. k - 1 \subseteq 1 .. n - 1
  OBVIOUS
<1> QED
  BY <1>1, <1>2, SeqMonotonic

LEMMA GoodGrows ==
  ASSUME NEW k \in Nat, NEW n \in Nat, k <= n, NEW c, NEW at \in Int,
         Good(c, k, at)
  PROVE  Good(c, n, at)
BY MessagesGrow DEF Good, Connection

(* A message is appended.                                                  *)
LEMMA PutGood ==
  ASSUME NEW k \in Nat, NEW at \in Int, NEW c, Good(c, k, at), NEW m \in Message(k),
         m.type = "page" => at <= m.seq /\ \A j \in DOMAIN c.wire : c.wire[j].seq <= m.seq,
         c.busy /\ ~c.done => m.seq <= c.seq
  PROVE  Good(Put(c, m), k, at) /\ Put(c, m).done = c.done
<1> DEFINE d == Put(c, m)
<1>1. c.wire \in Seq(Message(k)) /\ c \in Connection(k)
  BY DEF Good, Connection
<1>2. /\ Append(c.wire, m) \in Seq(Message(k))
      /\ Len(Append(c.wire, m)) = Len(c.wire) + 1
      /\ \A i \in 1 .. Len(c.wire) : Append(c.wire, m)[i] = c.wire[i]
      /\ Append(c.wire, m)[Len(c.wire) + 1] = m
  BY <1>1, AppendProperties
<1>3. /\ d \in Connection(k) /\ d.wire = Append(c.wire, m)
      /\ d.busy = c.busy /\ d.done = c.done /\ d.seq = c.seq
  BY <1>1, <1>2 DEF Put, Connection
<1>4. \A i \in 1 .. Len(c.wire) + 1 : d.wire[i].seq \in Nat
  <2>1. \A i \in 1 .. Len(c.wire) + 1 : d.wire[i] \in Message(k)
    BY <1>2, <1>3, ElementOfSeq
  <2> QED
    BY <2>1 DEF Message
<1>5. ASSUME NEW j \in DOMAIN d.wire, d.wire[j].type = "page"
      PROVE  at <= d.wire[j].seq /\ \A i \in 1 .. j : d.wire[i].seq <= d.wire[j].seq
  <2>1. DOMAIN d.wire = 1 .. Len(c.wire) + 1 /\ DOMAIN c.wire = 1 .. Len(c.wire) /\ Len(c.wire) \in Nat
    BY <1>1, <1>2, <1>3, LenProperties
  <2>2. CASE j = Len(c.wire) + 1
    <3>1. d.wire[j] = m
      BY <1>2, <1>3, <2>2
    <3>2. ASSUME NEW i \in 1 .. j PROVE d.wire[i].seq <= d.wire[j].seq
      <4>1. CASE i = j
        BY <4>1, <1>4, <2>1
      <4>2. CASE i # j
        <5>1. i \in 1 .. Len(c.wire)
          BY <4>2, <2>2, <2>1
        <5> QED
          BY <5>1, <3>1, <1>2, <1>3, <1>5, <2>1
      <4> QED
        BY <4>1, <4>2
    <3> QED
      BY <3>1, <3>2, <1>5
  <2>3. CASE j # Len(c.wire) + 1
    <3>1. j \in 1 .. Len(c.wire) /\ 1 .. j \subseteq 1 .. Len(c.wire)
      BY <2>3, <2>1
    <3> QED
      BY <3>1, <2>1, <1>2, <1>3, <1>5 DEF Good, InOrder
  <2> QED
    BY <2>2, <2>3
<1>6. ASSUME d.busy, ~d.done
      PROVE  at <= d.seq /\ \A j \in DOMAIN d.wire : d.wire[j].seq <= d.seq
  <2>1. DOMAIN d.wire = 1 .. Len(c.wire) + 1 /\ DOMAIN c.wire = 1 .. Len(c.wire) /\ Len(c.wire) \in Nat
    BY <1>1, <1>2, <1>3, LenProperties
  <2> QED
    BY <2>1, <1>2, <1>3, <1>6 DEF Good, InOrder
<1> QED
  BY <1>3, <1>5, <1>6 DEF Good, InOrder

(* Only the flags of a connection change.                                  *)
LEMMA FlagsGood ==
  ASSUME NEW k \in Nat, NEW at \in Int, NEW c, Good(c, k, at), NEW d \in Connection(k),
         d.wire = c.wire,
         d.busy => d.seq = c.seq /\ c.busy /\ (c.done => d.done)
  PROVE  Good(d, k, at)
BY DEF Good, InOrder

LEMMA DeferGood ==
  ASSUME NEW k \in Nat, NEW at \in Int, NEW c, Good(c, k, at), NEW n \in 1 .. k - 1
  PROVE  Good(Defer(c, n), k, at)
<1>1. c \in Connection(k) /\ c.queue \in Seq(1 .. k - 1)
  BY DEF Good, Connection
<1>2. Append(c.queue, n) \in Seq(1 .. k - 1) /\ <<>> \in Seq(1 .. k - 1)
  BY <1>1, AppendProperties
<1>3. CASE c.want
  BY <1>3 DEF Defer
<1>4. CASE ~c.want /\ Len(c.queue) < MaxQueue
  <2>1. Defer(c, n) = [c EXCEPT !.queue = Append(@, n)]
    BY <1>4 DEF Defer
  <2>2. Defer(c, n) \in Connection(k)
    BY <2>1, <1>1, <1>2 DEF Connection
  <2> QED
    BY <2>1, <2>2, <1>1, FlagsGood DEF Connection
<1>5. CASE ~c.want /\ ~(Len(c.queue) < MaxQueue)
  <2>1. Defer(c, n) = [c EXCEPT !.queue = <<>>, !.want = TRUE, !.over = TRUE]
    BY <1>5 DEF Defer
  <2>2. Defer(c, n) \in Connection(k)
    BY <2>1, <1>1, <1>2 DEF Connection
  <2> QED
    BY <2>1, <2>2, <1>1, FlagsGood DEF Connection
<1> QED
  BY <1>3, <1>4, <1>5

LEMMA PutDeltaGood ==
  ASSUME NEW k \in Nat, NEW at \in Int, NEW c, Good(c, k, at), NEW n \in 1 .. k - 1,
         ~c.busy \/ c.done
  PROVE  Good(PutDelta(c, n), k, at)
<1>1. [type |-> "delta", seq |-> n] \in Message(k)
  BY DEF Message
<1> QED
  BY <1>1, PutGood DEF PutDelta

LEMMA DrainGood ==
  ASSUME NEW k \in Nat, NEW at \in Int, NEW c, Good(c, k, at), ~c.busy \/ c.done
  PROVE  Good(Drain(c), k, at)
<1>1. c \in Connection(k) /\ c.queue \in Seq(1 .. k - 1)
  BY DEF Good, Connection
<1>2. CASE Congested(c)
  BY <1>2 DEF Drain
<1>3. CASE ~Congested(c) /\ c.queue = <<>>
  <2>1. Drain(c) = [c EXCEPT !.busy = FALSE]
    BY <1>3 DEF Drain
  <2>2. Drain(c) \in Connection(k)
    BY <2>1, <1>1 DEF Connection
  <2> QED
    BY <2>1, <2>2, <1>1, FlagsGood DEF Connection
<1>4. CASE ~Congested(c) /\ c.queue # <<>>
  <2> DEFINE d == [c EXCEPT !.queue = Tail(@)]
  <2>1. Drain(c) = PutDelta(d, Head(c.queue))
    BY <1>4 DEF Drain
  <2>2. Head(c.queue) \in 1 .. k - 1 /\ Tail(c.queue) \in Seq(1 .. k - 1)
    BY <1>1, <1>4, HeadTailProperties
  <2>3. d \in Connection(k) /\ d.wire = c.wire /\ d.busy = c.busy /\ d.done = c.done /\ d.seq = c.seq
    BY <1>1, <2>2 DEF Connection
  <2>4. Good(d, k, at)
    BY <2>3, FlagsGood
  <2> QED
    BY <2>1, <2>2, <2>3, <2>4, PutDeltaGood
<1> QED
  BY <1>2, <1>3, <1>4

-----------------------------------------------------------------------------
(* Snapshots.                                                              *)
LEMMA AgentsFinite == IsFiniteSet(Agent) /\ Agent \subseteq Item
BY FS_Interval, BroadcastAssumption DEF Agent, Item

LEMMA PresentCounts ==
  ASSUME NEW s
  PROVE  /\ IsFiniteSet(Present(s)) /\ Cardinality(Present(s)) \in Nat
         /\ \A a \in Present(s) : /\ Place(s, a) \in Nat
                                 /\ Place(s, a) < Cardinality(Present(s))
<1>1. IsFiniteSet(Present(s))
  BY AgentsFinite, FS_Subset DEF Present
<1>2. Cardinality(Present(s)) \in Nat
  BY <1>1, FS_CardinalityType
<1>3. ASSUME NEW a \in Present(s)
      PROVE  Place(s, a) \in Nat /\ Place(s, a) < Cardinality(Present(s))
  <2> DEFINE below == {b \in Present(s) : b < a}
  <2>1. below \in SUBSET Present(s) /\ a \notin below
    BY BroadcastAssumption DEF Present, Agent
  <2>2. /\ IsFiniteSet(below) /\ Cardinality(below) <= Cardinality(Present(s))
        /\ Cardinality(Present(s)) = Cardinality(below) => Present(s) = below
    BY <1>1, <2>1, FS_Subset
  <2>3. Cardinality(below) \in Nat
    BY <2>2, FS_CardinalityType
  <2> HIDE DEF below
  <2>4. Cardinality(below) < Cardinality(Present(s))
    BY <1>2, <2>1, <2>2, <2>3
  <2> QED
    BY <2>3, <2>4 DEF below, Place
<1> QED
  BY <1>1, <1>2, <1>3

LEMMA MinOfTwo ==
  ASSUME NEW x \in Int, NEW y \in Int
  PROVE  Min({x, y}) \in Int /\ Min({x, y}) <= y
<1>1. \E z \in {x, y} : \A w \in {x, y} : z <= w
  BY x <= y \/ y <= x
<1> QED
  BY <1>1 DEF Min

LEMMA PutPageGood ==
  ASSUME NEW k \in Nat, NEW at \in Int, NEW c, Good(c, k, at),
         NEW n \in 0 .. k - 1, NEW from \in Int, NEW size \in Int,
         at <= n /\ \A j \in DOMAIN c.wire : c.wire[j].seq <= n,
         c.busy /\ ~c.done => n <= c.seq
  PROVE  /\ Good(PutPage(c, n, from, size), k, at)
         /\ PutPage(c, n, from, size).done = c.done
<1> DEFINE m == [type |-> "page", seq |-> n, offset |-> from, size |-> size]
<1>1. m \in Message(k) /\ m.seq = n
  BY DEF Message
<1> QED
  BY <1>1, PutGood DEF PutPage

LEMMA SnapshotGood ==
  ASSUME NEW k \in Nat \ {0}, NEW at \in Int, at < k, NEW c, Good(c, k, at),
         NEW l \in Seq(State), Len(l) = k
  PROVE  Good(Snapshot(c, l), k, at)
<1> DEFINE total == Cardinality(Present(l[Len(l)]))
           size == IF c.over THEN total ELSE Min({PageSize, total})
           last == size = total
           d == [c EXCEPT !.sent = TRUE, !.busy = TRUE, !.want = FALSE,
                          !.over = FALSE, !.queue = <<>>, !.done = last,
                          !.seq = Len(l) - 1, !.offset = size]
           cut == PutPage(d, Len(l) - 1, 0, size)
<1>1. total \in Nat
  BY PresentCounts
<1>2. size \in Int /\ size <= total
  BY <1>1, MinOfTwo, BroadcastAssumption
<1>3. c \in Connection(k) /\ c.wire \in Seq(Message(k)) /\ <<>> \in Seq(1 .. k - 1)
  BY DEF Good, Connection
<1>3a. last \in BOOLEAN
  OBVIOUS
<1> HIDE DEF size, total, last
<1>4. d \in Connection(k) /\ d.wire = c.wire /\ d.seq = k - 1 /\ d.done = last
  <2> DEFINE n == Len(l) - 1
             e == [c EXCEPT !.sent = TRUE, !.busy = TRUE, !.want = FALSE, !.over = FALSE]
  <2>1. n = k - 1 /\ n \in Nat
    OBVIOUS
  <2>2. e \in Connection(k) /\ e.wire = c.wire
    BY <1>3 DEF Connection
  <2>3. d = [e EXCEPT !.queue = <<>>, !.done = last, !.seq = n, !.offset = size]
    OBVIOUS
  <2> HIDE DEF e, n, d
  <2> QED
    BY <2>1, <2>2, <2>3, <1>2, <1>3, <1>3a DEF Connection
<1>5. \A j \in DOMAIN c.wire : c.wire[j].seq <= k - 1
  <2>1. \A j \in DOMAIN c.wire : c.wire[j] \in Message(k)
    BY <1>3, ElementOfSeq, LenProperties
  <2> QED
    BY <2>1 DEF Message
<1>6. Good(d, k, at)
  BY <1>4, <1>5 DEF Good, InOrder
<1> HIDE DEF d
<1>7. Good(cut, k, at) /\ cut.done = d.done
  BY <1>2, <1>4, <1>5, <1>6, PutPageGood
<1>8. cut \in Connection(k)
  BY <1>7 DEF Good
<1> HIDE DEF cut
<1>9. CASE size < total
  <2>1. Snapshot(c, l) = cut
    BY <1>9 DEF Snapshot, cut, d, last, size, total
  <2> QED
    BY <2>1, <1>7
<1>10. CASE ~(size < total) /\ c.over
  <2> DEFINE e == [cut EXCEPT !.busy = FALSE]
  <2>1. Snapshot(c, l) = e
    BY <1>10 DEF Snapshot, cut, d, last, size, total
  <2>2. e \in Connection(k) /\ e.wire = cut.wire /\ ~e.busy
    BY <1>8 DEF Connection
  <2> QED
    BY <2>1, <2>2, <1>7, FlagsGood
<1>11. CASE ~(size < total) /\ ~c.over
  <2>1. Snapshot(c, l) = Drain(cut)
    BY <1>11 DEF Snapshot, cut, d, last, size, total
  <2>2. size = total
    BY <1>1, <1>2, <1>11
  <2>3. cut.done
    BY <2>2, <1>4, <1>7 DEF last
  <2> QED
    BY <2>1, <2>3, <1>7, DrainGood
<1> QED
  BY <1>9, <1>10, <1>11

LEMMA NextPageGood ==
  ASSUME NEW k \in Nat \ {0}, NEW at \in Int, NEW c, Good(c, k, at),
         NEW l \in Seq(State), Len(l) = k, c.busy, ~c.done
  PROVE  Good(NextPage(c, l), k, at)
<1> DEFINE left == Cardinality(Present(l[c.seq + 1])) - c.offset
           size == Min({PageSize, left})
           last == size = left
           d == [c EXCEPT !.offset = @ + size, !.done = last]
           next == PutPage(d, c.seq, c.offset, size)
<1>1. c \in Connection(k) /\ c.offset \in Int /\ c.seq \in 0 .. k - 1
  BY DEF Good, Connection
<1>2. Cardinality(Present(l[c.seq + 1])) \in Nat
  BY PresentCounts
<1>2a. left \in Int
  BY <1>1, <1>2
<1> HIDE DEF left
<1>2b. size \in Int
  <2>1. PageSize \in Int
    BY BroadcastAssumption
  <2> QED
    BY <2>1, <1>2a, MinOfTwo
<1>2c. last \in BOOLEAN
  OBVIOUS
<1> HIDE DEF size, last
<1>2d. c.offset + size \in Int
  BY <1>1, <1>2b
<1>3. /\ d \in Connection(k) /\ d.wire = c.wire /\ d.seq = c.seq /\ d.busy = c.busy
      /\ d.done = last
  BY <1>1, <1>2c, <1>2d DEF Connection
<1>4. Good(d, k, at)
  BY <1>3, FlagsGood
<1>5. at <= c.seq /\ \A j \in DOMAIN c.wire : c.wire[j].seq <= c.seq
  BY DEF Good, InOrder
<1> HIDE DEF d
<1>6. Good(next, k, at) /\ next.done = d.done
  BY <1>1, <1>2b, <1>3, <1>4, <1>5, PutPageGood
<1> HIDE DEF next
<1>7. CASE size = left
  <2>1. NextPage(c, l) = Drain(next)
    BY <1>7 DEF NextPage, next, d, last, size, left
  <2>2. next.done
    BY <1>3, <1>6, <1>7 DEF last
  <2> QED
    BY <2>1, <2>2, <1>6, DrainGood
<1>8. CASE size # left
  <2>1. NextPage(c, l) = next
    BY <1>8 DEF NextPage, next, d, last, size, left
  <2> QED
    BY <2>1, <1>6
<1> QED
  BY <1>7, <1>8

LEMMA DeliverGood ==
  ASSUME NEW k \in Nat \ {0}, NEW at \in Int, at < k, NEW c, Good(c, k, at),
         NEW l \in Seq(State), Len(l) = k, NEW n \in 1 .. k - 1
  PROVE  Good(Deliver(c, n, l), k, at)
<1>1. CASE ~c.open
  BY <1>1 DEF Deliver
<1>2. CASE c.open /\ c.busy
  BY <1>2, DeferGood DEF Deliver
<1>3. CASE c.open /\ ~c.busy /\ Congested(c)
  <2> DEFINE d == [c EXCEPT !.want = TRUE]
  <2>1. d \in Connection(k) /\ d.wire = c.wire /\ d.busy = c.busy
    BY DEF Good, Connection
  <2> QED
    BY <1>3, <2>1, FlagsGood DEF Deliver
<1>4. CASE c.open /\ ~c.busy /\ ~Congested(c) /\ c.want
  BY <1>4, SnapshotGood DEF Deliver
<1>5. CASE c.open /\ ~c.busy /\ ~Congested(c) /\ ~c.want
  BY <1>5, PutDeltaGood DEF Deliver
<1> QED
  BY <1>1, <1>2, <1>3, <1>4, <1>5

LEMMA TailGood ==
  ASSUME NEW k \in Nat, NEW at \in Int, NEW c, Good(c, k, at), c.wire # <<>>
  PROVE  LET m == Head(c.wire)
             d == [c EXCEPT !.wire = Tail(@)]
         IN /\ m \in Message(k) /\ Good(d, k, at) /\ Good(d, k, m.seq)
            /\ m.type = "page" => at <= m.seq
<1> DEFINE d == [c EXCEPT !.wire = Tail(@)]
<1>1. c \in Connection(k) /\ c.wire \in Seq(Message(k))
  BY DEF Good, Connection
<1>2. /\ Head(c.wire) \in Message(k) /\ Tail(c.wire) \in Seq(Message(k))
      /\ Len(Tail(c.wire)) = Len(c.wire) - 1 /\ Head(c.wire) = c.wire[1]
      /\ \A i \in 1 .. Len(Tail(c.wire)) : Tail(c.wire)[i] = c.wire[i + 1]
  BY <1>1, HeadTailProperties, LenProperties
<1>3. /\ Len(c.wire) \in Nat /\ Len(c.wire) >= 1 /\ DOMAIN c.wire = 1 .. Len(c.wire)
      /\ DOMAIN Tail(c.wire) = 1 .. Len(c.wire) - 1
  BY <1>1, <1>2, LenProperties, EmptySeq
<1>4. /\ d \in Connection(k) /\ d.wire = Tail(c.wire)
      /\ d.busy = c.busy /\ d.done = c.done /\ d.seq = c.seq
  BY <1>1, <1>2 DEF Connection
<1> HIDE DEF d
<1>5. c.wire[1].seq \in Int /\ (c.wire[1].type = "page" => at <= c.wire[1].seq)
  BY <1>2, <1>3 DEF Good, InOrder, Message
<1>6. ASSUME NEW j \in DOMAIN d.wire
      PROVE  /\ d.wire[j] = c.wire[j + 1] /\ j + 1 \in DOMAIN c.wire /\ 1 \in 1 .. j + 1
             /\ \A i \in 1 .. j : i + 1 \in 1 .. j + 1 /\ d.wire[i] = c.wire[i + 1]
  BY <1>2, <1>3, <1>4
<1>7. ASSUME NEW j \in DOMAIN d.wire, d.wire[j].type = "page"
      PROVE  /\ at <= d.wire[j].seq /\ c.wire[1].seq <= d.wire[j].seq
             /\ \A i \in 1 .. j : d.wire[i].seq <= d.wire[j].seq
  BY <1>6, <1>7 DEF Good, InOrder
<1>8. ASSUME d.busy, ~d.done
      PROVE  /\ at <= d.seq /\ c.wire[1].seq <= d.seq
             /\ \A j \in DOMAIN d.wire : d.wire[j].seq <= d.seq
  BY <1>3, <1>4, <1>6, <1>8 DEF Good, InOrder
<1>9. Good(d, k, at)
  BY <1>4, <1>7, <1>8 DEF Good, InOrder
<1>10. Good(d, k, c.wire[1].seq)
  BY <1>4, <1>7, <1>8 DEF Good, InOrder
<1> QED
  BY <1>2, <1>5, <1>9, <1>10 DEF d

-----------------------------------------------------------------------------
(* The inductive invariant.                                                *)
Types ==
  /\ truth \in State /\ log \in Seq(State)
  /\ cursor \in [Viewer -> Int] /\ partial \in [Viewer -> {<<>>} \cup (Nat \X Int)]
  /\ resync \in [Viewer -> BOOLEAN] /\ whole \in [Viewer -> BOOLEAN]
  /\ view \in [Viewer -> State]

Clients ==
  /\ client = [v \in Viewer |-> client[v]]
  /\ \A v \in Viewer : Good(client[v], Len(log), cursor[v])

(* A page's snapshot is right as far as it goes.                           *)
Gathered(v) ==
  LET s == log[partial[v][1] + 1] IN
  /\ view[v][Metadata] = s[Metadata]
  /\ \A a \in Present(s) : Place(s, a) < partial[v][2] => view[v][a] = s[a]

PageRight(v) ==
  /\ -1 <= cursor[v] /\ cursor[v] < Len(log)
  /\ partial[v] # <<>> => /\ ~whole[v] /\ cursor[v] <= partial[v][1]
                          /\ partial[v][1] < Len(log) /\ Gathered(v)
  /\ cursor[v] # -1 /\ ~whole[v] => partial[v] # <<>> \/ resync[v]
  /\ whole[v] /\ cursor[v] # -1 => view[v] = log[cursor[v] + 1]

Pages == \A v \in Viewer : PageRight(v)

BInv == Types /\ Clients /\ Pages

LEMMA NewConnectionsGood ==
  ASSUME NEW k \in Nat, NEW at \in Int
  PROVE  Good(Fresh, k, at) /\ Good(Closed, k, at)
<1>1. <<>> \in Seq(Message(k)) /\ <<>> \in Seq(1 .. k - 1) /\ DOMAIN <<>> = {}
  BY EmptySeq
<1>2. Fresh \in Connection(k) /\ Fresh.wire = <<>> /\ ~Fresh.busy
  BY <1>1 DEF Fresh, Connection
<1>3. Closed \in Connection(k) /\ Closed.wire = <<>> /\ ~Closed.busy
  BY <1>2 DEF Closed, Connection
<1> QED
  BY <1>1, <1>2, <1>3 DEF Good, InOrder

LEMMA InitBInv == Init => BInv
<1> SUFFICES ASSUME Init PROVE BInv
  OBVIOUS
<1>1. truth \in State
  <2>1. Item = 0 .. NumAgents
    BY BroadcastAssumption DEF Item, Agent, Metadata
  <2> QED
    BY <2>1, BroadcastAssumption DEF Init, State
<1>2. Types
  BY <1>1, BroadcastAssumption, EmptySeq DEF Init, Types, State
<1>3. Good(Closed, 0, -1)
  BY NewConnectionsGood
<1>4. Clients
  BY <1>3, EmptySeq DEF Init, Clients
<1>5. Pages
  BY EmptySeq DEF Init, Pages, PageRight
<1> QED
  BY <1>2, <1>4, <1>5 DEF BInv

(* What the server does: the log grows and connections stay good.          *)
Grows ==
  /\ log' \in Seq(State) /\ Len(log) <= Len(log')
  /\ \A i \in 1 .. Len(log) : log'[i] = log[i]
Connected ==
  /\ client' = [v \in Viewer |-> client'[v]]
  /\ \A v \in Viewer : Good(client'[v], Len(log'), cursor[v])

LEMMA PagesKept ==
  ASSUME BInv, Grows, UNCHANGED pageVars
  PROVE  Pages'
<1> SUFFICES ASSUME NEW v \in Viewer PROVE PageRight(v)'
  BY DEF Pages
<1>1. /\ PageRight(v) /\ cursor[v] \in Int /\ Len(log) \in Nat /\ Len(log') \in Nat
      /\ partial[v] # <<>> => partial[v][1] \in Nat
  BY LenProperties DEF BInv, Pages, Types, Grows
<1>2. cursor[v] # -1 => log'[cursor[v] + 1] = log[cursor[v] + 1]
  BY <1>1 DEF PageRight, Grows
<1>3. partial[v] # <<>> => log'[partial[v][1] + 1] = log[partial[v][1] + 1]
  BY <1>1 DEF PageRight, Grows
<1>4. partial[v] # <<>> => Gathered(v)'
  BY <1>1, <1>3 DEF PageRight, Gathered, pageVars
<1> QED
  BY <1>1, <1>2, <1>4 DEF PageRight, pageVars, Grows

-----------------------------------------------------------------------------
(* The server's steps.                                                     *)
LEMMA AppendState ==
  ASSUME NEW l \in Seq(State), NEW s \in State
  PROVE  /\ Append(l, s) \in Seq(State) /\ Len(Append(l, s)) = Len(l) + 1
         /\ \A i \in 1 .. Len(l) : Append(l, s)[i] = l[i]
         /\ Len(l) \in Nat /\ (l # <<>> => l[Len(l)] \in State /\ Len(l) >= 1)
BY AppendProperties, LenProperties, ElementOfSeq, EmptySeq

LEMMA CheckpointConnects ==
  ASSUME BInv, NEW v \in Viewer, NEW cs,
         \A w \in Viewer : Good(cs[w], Len(log), cursor[w]), Checkpoint(v, cs)
  PROVE  Grows /\ Connected
<1> DEFINE l == IF log = <<>> \/ log[Len(log)] # truth THEN Append(log, truth) ELSE log
           k == Len(l)
<1>1. /\ log' = l /\ client' = [w \in Viewer |->
            IF w = v THEN Snapshot(cs[w], l)
            ELSE IF log # <<>> /\ l # log THEN Deliver(cs[w], Len(log), l) ELSE cs[w]]
  BY DEF Checkpoint
<1>2. log \in Seq(State) /\ truth \in State
  BY DEF BInv, Types
<1>3. /\ l \in Seq(State) /\ Len(log) \in Nat /\ k \in Nat \ {0} /\ Len(log) <= k
      /\ \A i \in 1 .. Len(log) : l[i] = log[i]
      /\ log # <<>> /\ l # log => Len(log) \in 1 .. k - 1
  <2>1. CASE log = <<>> \/ log[Len(log)] # truth
    BY <1>2, <2>1, AppendState
  <2>2. CASE ~(log = <<>> \/ log[Len(log)] # truth)
    BY <1>2, <2>2, AppendState
  <2> QED
    BY <2>1, <2>2
<1> HIDE DEF l, k
<1>4. Grows
  BY <1>1, <1>3 DEF Grows, k
<1>5. ASSUME NEW w \in Viewer
      PROVE  /\ cursor[w] \in Int /\ cursor[w] < k /\ Good(cs[w], k, cursor[w])
  BY <1>3, GoodGrows DEF BInv, Types, Pages, PageRight
<1>6. ASSUME NEW w \in Viewer PROVE Good(client'[w], k, cursor[w])
  <2>1. CASE w = v
    BY <1>1, <1>3, <1>5, <2>1, SnapshotGood DEF k
  <2>2. CASE w # v /\ log # <<>> /\ l # log
    BY <1>1, <1>3, <1>5, <2>2, DeliverGood DEF k
  <2>3. CASE w # v /\ ~(log # <<>> /\ l # log)
    BY <1>1, <1>5, <2>3
  <2> QED
    BY <2>1, <2>2, <2>3
<1>7. client' = [w \in Viewer |-> client'[w]]
  BY <1>1
<1> QED
  BY <1>1, <1>4, <1>6, <1>7 DEF Connected, k

(* One connection changes and the log does not.                            *)
LEMMA OneConnects ==
  ASSUME BInv, NEW v \in Viewer, NEW d, client' = [client EXCEPT ![v] = d], log' = log,
         Good(d, Len(log), cursor[v])
  PROVE  Grows /\ Connected
<1>1. log \in Seq(State) /\ Len(log) \in Nat
  BY LenProperties DEF BInv, Types
<1>2. Grows
  BY <1>1 DEF Grows
<1>3. client' = [w \in Viewer |-> IF w = v THEN d ELSE client[w]]
  BY DEF BInv, Clients
<1> QED
  BY <1>2, <1>3 DEF Connected, BInv, Clients

LEMMA WantGood ==
  ASSUME NEW k \in Nat, NEW at \in Int, NEW c, Good(c, k, at)
  PROVE  /\ Good([c EXCEPT !.want = TRUE], k, at)
         /\ Good([c EXCEPT !.busy = FALSE], k, at)
         /\ \A b \in BOOLEAN : Good([c EXCEPT !.clogged = b], k, at)
<1>1. c \in Connection(k)
  BY DEF Good
<1>2. LET d == [c EXCEPT !.want = TRUE]
      IN d \in Connection(k) /\ d.wire = c.wire /\ d.busy = c.busy /\ d.done = c.done /\ d.seq = c.seq
  BY <1>1 DEF Connection
<1>3. LET d == [c EXCEPT !.busy = FALSE]
      IN d \in Connection(k) /\ d.wire = c.wire /\ ~d.busy
  BY <1>1 DEF Connection
<1>4. \A b \in BOOLEAN : LET d == [c EXCEPT !.clogged = b]
      IN d \in Connection(k) /\ d.wire = c.wire /\ d.busy = c.busy /\ d.done = c.done /\ d.seq = c.seq
  BY <1>1 DEF Connection
<1>5. \A b \in BOOLEAN : Good([c EXCEPT !.clogged = b], k, at)
  BY <1>4, FlagsGood
<1> QED
  BY <1>2, <1>3, <1>5, FlagsGood

LEMMA SendStateConnects ==
  ASSUME BInv, NEW v \in Viewer, SendState(v)
  PROVE  Grows /\ Connected
<1>1. /\ Good(client[v], Len(log), cursor[v]) /\ Len(log) \in Nat /\ cursor[v] \in Int
  BY LenProperties DEF BInv, Clients, Types
<1>2. CASE client[v].busy
  <2>1. client' = [client EXCEPT ![v] = [client[v] EXCEPT !.want = TRUE]] /\ log' = log
    BY <1>2 DEF SendState
  <2> QED
    BY <1>1, <2>1, OneConnects, WantGood
<1>3. CASE ~client[v].busy
  BY <1>3, CheckpointConnects DEF SendState, BInv, Clients
<1> QED
  BY <1>2, <1>3

LEMMA FlushConnects ==
  ASSUME BInv, NEW announced, NEW now \in State, Flush(announced, now)
  PROVE  Grows /\ Connected
<1> DEFINE m == [i \in Item |-> IF i \in announced THEN now[i] ELSE log[Len(log)][i]]
           n == Len(log)
           ready == {v \in Viewer : LET c == client[v] IN c.open /\ c.want /\ ~c.busy /\ ~Congested(c)}
<1>1. /\ log \in Seq(State) /\ n \in Nat
      /\ \A w \in Viewer : /\ Good(client[w], n, cursor[w]) /\ cursor[w] \in Int
                            /\ cursor[w] < n
  BY LenProperties DEF BInv, Types, Clients, Pages, PageRight
<1>2. CASE log = <<>> \/ m = log[Len(log)]
  <2>1. log' = log /\ client' = client
    BY <1>2 DEF Flush
  <2> QED
    BY <1>1, <2>1 DEF Grows, Connected, BInv, Clients
<1>3. ASSUME log # <<>>
      PROVE  /\ m \in State /\ n >= 1
             /\ Append(log, m) \in Seq(State) /\ Len(Append(log, m)) = n + 1
             /\ \A i \in 1 .. n : Append(log, m)[i] = log[i]
  <2>1. log[Len(log)] \in State /\ n >= 1
    BY <1>1, <1>3, AppendState
  <2>2. m \in State
    BY <2>1 DEF State
  <2> HIDE DEF m
  <2> QED
    BY <1>1, <2>1, <2>2, AppendState
<1> HIDE DEF m
<1>4. CASE log # <<>> /\ m # log[Len(log)] /\ ready = {}
  <2>1. /\ log' = Append(log, m)
        /\ client' = [w \in Viewer |-> Deliver(client[w], n, log')]
    BY <1>4 DEF Flush, m
  <2>2. Grows /\ Len(log') = n + 1
    BY <1>1, <1>3, <1>4, <2>1 DEF Grows
  <2>3. ASSUME NEW w \in Viewer PROVE Good(client'[w], n + 1, cursor[w])
    <3>1. n + 1 \in Nat \ {0} /\ n \in 1 .. (n + 1) - 1 /\ n <= n + 1 /\ cursor[w] < n + 1
      BY <1>1, <1>3, <1>4
    <3>2. Good(client[w], n + 1, cursor[w])
      BY <1>1, <3>1, GoodGrows
    <3>3. client'[w] = Deliver(client[w], n, log')
      BY <2>1
    <3> HIDE DEF n
    <3> QED
      BY <1>1, <2>2, <3>1, <3>2, <3>3, DeliverGood DEF Grows
  <2> QED
    BY <2>1, <2>2, <2>3 DEF Connected
<1>5. CASE log # <<>> /\ m # log[Len(log)] /\ ready # {}
  <2> DEFINE more == IF m = now THEN <<>> ELSE <<now>>
             k == n + 1 + Len(more)
             two(d) == IF m = now THEN d ELSE Deliver(d, n + 1, log')
  <2>1. PICK first \in ready, before \in SUBSET (Viewer \ ready) :
          /\ log' = Append(log, m) \o more
          /\ client' = [w \in Viewer |->
               IF w = first THEN Snapshot(client[w], log')
               ELSE IF w \in before THEN two(Deliver(client[w], n, log'))
               ELSE Deliver(two(client[w]), n, log')]
    BY <1>5 DEF Flush, m
  <2>2. more \in Seq(State) /\ Len(more) \in {0, 1} /\ (m # now => Len(more) = 1)
    OBVIOUS
  <2> HIDE DEF more
  <2>3. /\ log' \in Seq(State) /\ Len(log') = k /\ k \in Nat \ {0}
        /\ \A i \in 1 .. n + 1 : log'[i] = Append(log, m)[i]
    BY <1>1, <1>3, <1>5, <2>1, <2>2, ConcatProperties
  <2>4. Grows
    BY <1>1, <1>3, <1>5, <2>2, <2>3 DEF Grows
  <2>5. /\ n \in 1 .. k - 1 /\ n <= k /\ n \in Nat /\ (m # now => n + 1 \in 1 .. k - 1)
    <3>1. n \in Nat /\ n >= 1
      BY <1>1, <1>3, <1>5
    <3> DEFINE added == Len(more)
    <3>2. (added = 0 \/ added = 1) /\ (m # now => added = 1) /\ k = n + 1 + added
      BY <2>2
    <3> HIDE DEF k, n, added
    <3>3. (k = n + 1 \/ k = n + 2) /\ (m # now => k = n + 2)
      BY <3>1, <3>2
    <3> QED
      BY <3>1, <3>3
  <2>6. ASSUME NEW w \in Viewer
        PROVE  Good(client[w], k, cursor[w]) /\ cursor[w] \in Int /\ cursor[w] < k
    BY <1>1, <2>3, <2>5, GoodGrows
  <2> HIDE DEF k, n
  <2>7. ASSUME NEW w \in Viewer, NEW d, Good(d, k, cursor[w])
        PROVE  Good(two(d), k, cursor[w]) /\ Good(Deliver(d, n, log'), k, cursor[w])
    BY <2>3, <2>5, <2>6, <2>7, DeliverGood
  <2>8. ASSUME NEW w \in Viewer PROVE Good(client'[w], k, cursor[w])
    <3>1. CASE w = first
      BY <2>1, <2>3, <2>6, <3>1, SnapshotGood
    <3>2. CASE w # first /\ w \in before
      <4>1. client'[w] = two(Deliver(client[w], n, log'))
        BY <2>1, <3>2
      <4> HIDE DEF two
      <4> QED
        BY <4>1, <2>6, <2>7
    <3>3. CASE w # first /\ w \notin before
      <4>1. client'[w] = Deliver(two(client[w]), n, log')
        BY <2>1, <3>3
      <4> HIDE DEF two
      <4> QED
        BY <4>1, <2>6, <2>7
    <3> QED
      BY <3>1, <3>2, <3>3
  <2> QED
    BY <2>1, <2>3, <2>4, <2>8 DEF Connected
<1> QED
  BY <1>2, <1>4, <1>5

-----------------------------------------------------------------------------
(* The page's steps: each keeps the page right, and does to what the page  *)
(* shows what StateFollower allows.                                        *)
Outcome(v, at) ==
  /\ Types' /\ PageRight(v)' /\ cursor'[v] = at
  /\ \A w \in Viewer \ {v} : /\ cursor'[w] = cursor[w] /\ partial'[w] = partial[w]
                             /\ resync'[w] = resync[w] /\ whole'[w] = whole[w]
                             /\ view'[w] = view[w]
  /\ Follower!Show(v) \/ Follower!Blur(v) \/ Follower!Leave(v) \/ UNCHANGED Follower!vars

(* A step that changes the page of v alone, and only clears what it shows. *)
LEMMA ResyncKeeps ==
  ASSUME BInv, NEW v \in Viewer, Resync(v), UNCHANGED serverVars
  PROVE  Outcome(v, cursor[v])
<1>1. Types'
  BY DEF BInv, Types, Resync, serverVars
<1>2. PageRight(v) /\ log' = log
  BY DEF BInv, Pages, serverVars
<1>3. partial'[v] = <<>> /\ resync'[v] = TRUE /\ cursor' = cursor /\ view' = view /\ whole' = whole
  BY DEF BInv, Types, Resync
<1>4. PageRight(v)'
  BY <1>2, <1>3 DEF PageRight
<1>5. UNCHANGED Follower!vars
  BY <1>2, <1>3 DEF Follower!vars, Attached
<1>6. \A w \in Viewer \ {v} : partial'[w] = partial[w] /\ resync'[w] = resync[w]
  BY DEF BInv, Types, Resync
<1> QED
  BY <1>1, <1>3, <1>4, <1>5, <1>6 DEF Outcome

LEMMA NothingKeeps ==
  ASSUME BInv, NEW v \in Viewer, UNCHANGED <<serverVars, pageVars>>
  PROVE  Outcome(v, cursor[v])
<1>1. /\ log' = log /\ truth' = truth /\ cursor' = cursor /\ partial' = partial
      /\ resync' = resync /\ view' = view /\ whole' = whole
  BY DEF serverVars, pageVars
<1>2. Types'
  BY <1>1 DEF BInv, Types
<1>3. PageRight(v)'
  BY <1>1 DEF BInv, Pages, PageRight, Gathered
<1>4. UNCHANGED Follower!vars
  BY <1>1 DEF Follower!vars, Attached
<1> QED
  BY <1>1, <1>2, <1>3, <1>4 DEF Outcome

(* v comes to show state at, or goes on to show it.                        *)
LEMMA ShowFollows ==
  ASSUME BInv, NEW v \in Viewer, log' = log, NEW at \in Int, cursor[v] <= at, -1 < at,
         at < Len(log), cursor' = [cursor EXCEPT ![v] = at],
         whole' = [whole EXCEPT ![v] = TRUE],
         view' = [view EXCEPT ![v] = log[at + 1]]
  PROVE  Follower!Show(v)
<1>1. /\ -1 <= cursor[v] /\ cursor \in [Viewer -> Int] /\ whole \in [Viewer -> BOOLEAN]
      /\ view \in [Viewer -> State] /\ Len(log) \in Nat
  BY LenProperties DEF BInv, Types, Pages, PageRight
<1>2. at + 1 \in (cursor[v] + 1 .. Len(log)) \ {0}
  BY <1>1
<1>3. [w \in Viewer |-> cursor'[w] + 1]
        = [[w \in Viewer |-> cursor[w] + 1] EXCEPT ![v] = at + 1]
  BY <1>1
<1>4. Attached' = Attached \cup {v}
  <2>1. ASSUME NEW w \in Viewer, w # v PROVE whole'[w] = whole[w] /\ cursor'[w] = cursor[w]
    BY <1>1, <2>1
  <2>2. whole'[v] /\ cursor'[v] # -1
    BY <1>1
  <2> QED
    BY <2>1, <2>2 DEF Attached
<1> QED
  BY <1>2, <1>3, <1>4 DEF Follower!Show

LEMMA TakePageKeeps ==
  ASSUME BInv, NEW v \in Viewer, NEW m \in Message(Len(log)), m.type = "page",
         cursor[v] <= m.seq, TakePage(v, m), UNCHANGED serverVars
  PROVE  Outcome(v, cursor[v]) \/ Outcome(v, m.seq)
<1> DEFINE s == log[m.seq + 1]
           next == m.offset + m.size
           complete == next = Cardinality(Present(s))
           gathered == Carried(m) \cup (IF complete THEN Agent \ Present(s) ELSE {})
           seen == [i \in Item |-> IF i \in gathered \/ (i = Metadata /\ m.offset = 0)
                                   THEN s[i] ELSE view[v][i]]
<1>1. CASE resync[v] /\ m.offset # 0
  BY <1>1, NothingKeeps DEF TakePage
<1>2. CASE ~(resync[v] /\ m.offset # 0) /\ m.offset # 0 /\ partial[v] # <<m.seq, m.offset>>
  BY <1>2, ResyncKeeps DEF TakePage
<1>3. CASE m.offset = 0 \/ (~resync[v] /\ partial[v] = <<m.seq, m.offset>>)
  <2>1. /\ partial' = [partial EXCEPT ![v] = IF complete THEN <<>> ELSE <<m.seq, next>>]
        /\ cursor' = [cursor EXCEPT ![v] = IF complete THEN m.seq ELSE @]
        /\ whole' = [whole EXCEPT ![v] = complete]
        /\ resync' = [resync EXCEPT ![v] = FALSE]
        /\ view' = [view EXCEPT ![v] = seen]
    BY <1>3 DEF TakePage
  <2>2. /\ m.seq \in Nat /\ m.seq < Len(log) /\ m.offset \in Int /\ m.size \in Int /\ next \in Int
        /\ Len(log) \in Nat /\ s \in State /\ Types /\ PageRight(v) /\ log' = log /\ truth' = truth
        /\ cursor[v] \in Int
    <3>1. Len(log) \in Nat /\ log \in Seq(State)
      BY LenProperties DEF BInv, Types
    <3>2. m.seq \in 0 .. Len(log) - 1 /\ m.offset \in Int /\ m.size \in Int
      BY <3>1 DEF Message
    <3>3. s \in State
      BY <3>1, <3>2, ElementOfSeq
    <3> QED
      BY <3>1, <3>2, <3>3, SMTT(60) DEF BInv, Pages, serverVars, Types
  <2>3. /\ \A a \in Present(s) : Place(s, a) \in Nat /\ Place(s, a) < Cardinality(Present(s))
        /\ Cardinality(Present(s)) \in Nat
    BY PresentCounts
  <2>4. view[v] \in State /\ seen \in State
    BY <2>2 DEF State, Types
  (* What has come of the snapshot is shown.                               *)
  <2>5. ASSUME NEW a \in Present(s), Place(s, a) < next
        PROVE  seen[a] = s[a]
    <3>1. a \in Item
      BY AgentsFinite DEF Present
    <3>2. CASE m.offset <= Place(s, a)
      BY <2>5, <3>1, <3>2 DEF Carried
    <3>3. CASE ~(m.offset <= Place(s, a))
      <4>1. Place(s, a) \in Nat
        BY <2>3
      <4>2. partial[v] = <<m.seq, m.offset>>
        BY <1>3, <3>3, <4>1
      <4>3. view[v][a] = s[a]
        BY <2>2, <3>3, <4>1, <4>2, SMTT(60) DEF PageRight, Gathered
      <4> QED
        BY <3>1, <4>3
    <3> QED
      BY <3>2, <3>3
  <2>6. seen[Metadata] = s[Metadata]
    <3>1. Metadata \in Item
      BY DEF Item
    <3>2. CASE m.offset = 0
      BY <3>1, <3>2
    <3>3. CASE m.offset # 0
      <4>1. partial[v] = <<m.seq, m.offset>>
        BY <1>3, <3>3
      <4>2. view[v][Metadata] = s[Metadata]
        BY <2>2, <4>1 DEF PageRight, Gathered
      <4> QED
        BY <3>1, <4>2
    <3> QED
      BY <3>2, <3>3
  <2>7. CASE complete
    <3>1. seen = s
      <4>1. ASSUME NEW i \in Item PROVE seen[i] = s[i]
        <5>1. CASE i = Metadata
          BY <5>1, <2>6
        <5>2. CASE i \in Present(s)
          BY <5>2, <2>3, <2>5, <2>7
        <5>3. CASE i \in Agent \ Present(s)
          BY <5>3, <2>7, <4>1
        <5> QED
          BY <4>1, <5>1, <5>2, <5>3 DEF Item
      <4> HIDE DEF seen, s
      <4> QED
        BY <2>2, <2>4, <4>1 DEF State
    <3> HIDE DEF seen
    <3>2. /\ partial' = [partial EXCEPT ![v] = <<>>] /\ cursor' = [cursor EXCEPT ![v] = m.seq]
          /\ whole' = [whole EXCEPT ![v] = TRUE] /\ view' = [view EXCEPT ![v] = s]
      BY <2>1, <2>7, <3>1
    <3>3. /\ partial'[v] = <<>> /\ cursor'[v] = m.seq /\ whole'[v] = TRUE /\ view'[v] = s
          /\ resync'[v] = FALSE
      BY <2>1, <2>2, <3>2 DEF Types
    <3>4. Types'
      BY <2>1, <2>2, <3>2 DEF Types
    <3>5. PageRight(v)'
      BY <2>2, <3>3 DEF PageRight
    <3>6. Follower!Show(v)
      <4>1. m.seq \in Int /\ -1 < m.seq /\ m.seq < Len(log) /\ log' = log
        BY <2>2
      <4>2. view' = [view EXCEPT ![v] = log[m.seq + 1]]
        BY <3>2
      <4> QED
        BY <3>2, <4>1, <4>2, ShowFollows
    <3>7. \A w \in Viewer \ {v} : /\ cursor'[w] = cursor[w] /\ partial'[w] = partial[w]
                                /\ resync'[w] = resync[w] /\ whole'[w] = whole[w]
                                /\ view'[w] = view[w]
      BY <2>1, <2>2, <3>2 DEF Types
    <3> QED
      BY <3>3, <3>4, <3>5, <3>6, <3>7 DEF Outcome
  <2>8. CASE ~complete
    <3>1. /\ partial' = [partial EXCEPT ![v] = <<m.seq, next>>] /\ cursor' = cursor
          /\ whole' = [whole EXCEPT ![v] = FALSE] /\ resync' = [resync EXCEPT ![v] = FALSE]
          /\ view' = [view EXCEPT ![v] = seen]
      BY <2>1, <2>2, <2>8 DEF Types
    <3> HIDE DEF seen, complete, next
    <3>2. /\ partial'[v] = <<m.seq, next>> /\ whole'[v] = FALSE /\ view'[v] = seen
      BY <2>1, <2>2, <3>1 DEF Types
    <3>3. Types'
      <4>1. <<m.seq, next>> \in Nat \X Int
        BY <2>2
      <4> QED
        BY <2>2, <2>4, <3>1, <4>1 DEF Types
    <3>4. Gathered(v)'
      <4>1. \A a \in Present(s) : Place(s, a) < next => seen[a] = s[a]
        BY <2>5
      <4>2. partial'[v][1] = m.seq /\ partial'[v][2] = next
        BY <3>2
      <4> QED
        BY <2>2, <2>6, <3>2, <4>1, <4>2 DEF Gathered
    <3>5. PageRight(v)'
      <4>1. /\ partial'[v] # <<>> /\ partial'[v][1] = m.seq /\ cursor'[v] = cursor[v]
            /\ -1 <= cursor[v] /\ cursor[v] < Len(log)
        BY <2>2, <3>1, <3>2 DEF PageRight
      <4> QED
        BY <2>2, <3>2, <3>4, <4>1 DEF PageRight
    <3>6. Follower!Blur(v)
      <4>1. Attached' = Attached \ {v}
        BY <2>2, <3>1 DEF Attached, Types
      <4> QED
        BY <2>1, <2>2, <2>4, <3>1, <4>1 DEF Follower!Blur
    <3>7. \A w \in Viewer \ {v} : /\ cursor'[w] = cursor[w] /\ partial'[w] = partial[w]
                                /\ resync'[w] = resync[w] /\ whole'[w] = whole[w]
                                /\ view'[w] = view[w]
      BY <2>1, <2>2, <3>1 DEF Types
    <3> QED
      BY <3>1, <3>3, <3>5, <3>6, <3>7 DEF Outcome
  <2> QED
    BY <2>7, <2>8
<1> QED
  BY <1>1, <1>2, <1>3

LEMMA TakeDeltaKeeps ==
  ASSUME BInv, NEW v \in Viewer, NEW n \in 1 .. Len(log) - 1, TakeDelta(v, n),
         UNCHANGED serverVars
  PROVE  Outcome(v, cursor[v]) \/ Outcome(v, n)
<1>1. /\ Types /\ PageRight(v) /\ log' = log /\ truth' = truth /\ cursor[v] \in Int
      /\ Len(log) \in Nat /\ log \in Seq(State) /\ n \in Nat /\ n < Len(log) /\ n >= 1
  BY LenProperties DEF BInv, Types, Pages, serverVars
<1>2. CASE resync[v] \/ (partial[v] = <<>> /\ Disposition(v, n) = "ignore")
  BY <1>2, NothingKeeps DEF TakeDelta
<1>3. CASE ~resync[v] /\ (partial[v] # <<>> \/ Disposition(v, n) = "resync")
  BY <1>3, ResyncKeeps DEF TakeDelta
<1>4. CASE ~resync[v] /\ partial[v] = <<>> /\ Disposition(v, n) = "apply"
  <2> DEFINE seen == [i \in Item |-> IF log[n + 1][i] # log[n][i] THEN log[n + 1][i] ELSE view[v][i]]
  <2>1. n = cursor[v] + 1 /\ cursor[v] # -1
    BY <1>4 DEF Disposition
  <2>2. whole[v] = TRUE
    BY <1>1, <1>4, <2>1 DEF PageRight, Types
  <2>3. /\ cursor' = [cursor EXCEPT ![v] = n] /\ view' = [view EXCEPT ![v] = seen]
        /\ partial' = partial /\ resync' = resync /\ whole' = whole
    BY <1>4 DEF TakeDelta
  <2>4. view[v] = log[n]
    BY <1>1, <2>1, <2>2 DEF PageRight
  <2>5. log[n + 1] \in State /\ log[n] \in State
    BY <1>1, ElementOfSeq
  <2>6. seen = log[n + 1]
    <3>1. \A i \in Item : seen[i] = log[n + 1][i]
      BY <2>4
    <3> HIDE DEF seen
    <3>2. seen = [i \in Item |-> seen[i]]
      BY DEF seen
    <3> QED
      BY <2>5, <3>1, <3>2 DEF State
  <2> HIDE DEF seen
  <2>7. whole' = [whole EXCEPT ![v] = TRUE] /\ view' = [view EXCEPT ![v] = log[n + 1]]
    BY <1>1, <2>2, <2>3, <2>6 DEF Types
  <2>8. Follower!Show(v)
    <3>1. n \in Int /\ cursor[v] <= n /\ -1 < n
      BY <1>1, <2>1
    <3> QED
      BY <1>1, <2>3, <2>7, <3>1, ShowFollows
  <2>9. Types'
    BY <1>1, <2>3, <2>5, <2>7 DEF Types
  <2>10. /\ cursor'[v] = n /\ view'[v] = log[n + 1] /\ partial'[v] = <<>> /\ whole'[v] = TRUE
    BY <1>1, <1>4, <2>2, <2>3, <2>7 DEF Types
  <2>11. PageRight(v)'
    BY <1>1, <2>10 DEF PageRight
  <2>12. \A w \in Viewer \ {v} : cursor'[w] = cursor[w] /\ view'[w] = view[w]
    BY <1>1, <2>3 DEF Types
  <2> QED
    BY <2>3, <2>8, <2>9, <2>10, <2>11, <2>12 DEF Outcome
<1> QED
  <2>1. Disposition(v, n) \in {"ignore", "resync", "apply"}
    BY DEF Disposition
  <2> QED
    BY <1>2, <1>3, <1>4, <2>1

LEMMA CloseKeeps ==
  ASSUME BInv, NEW v \in Viewer, Close(v), UNCHANGED serverVars
  PROVE  Outcome(v, -1)
<1>1. /\ Types /\ PageRight(v) /\ log' = log /\ truth' = truth /\ Len(log) \in Nat
  BY LenProperties DEF BInv, Types, Pages, serverVars
<1>2. /\ cursor' = [cursor EXCEPT ![v] = -1] /\ partial' = [partial EXCEPT ![v] = <<>>]
      /\ resync' = [resync EXCEPT ![v] = FALSE] /\ view' = view /\ whole' = whole
  BY DEF Close
<1>3. Types'
  BY <1>1, <1>2 DEF Types
<1>4. cursor'[v] = -1 /\ partial'[v] = <<>>
  BY <1>1, <1>2 DEF Types
<1>5. PageRight(v)'
  BY <1>1, <1>4 DEF PageRight
<1>6. \A w \in Viewer \ {v} : /\ cursor'[w] = cursor[w] /\ partial'[w] = partial[w]
                            /\ resync'[w] = resync[w]
  BY <1>1, <1>2 DEF Types
<1>7. Follower!Leave(v)
  <2>1. Attached' = Attached \ {v}
    BY <1>2, <1>4, <1>6 DEF Attached
  <2>2. [w \in Viewer |-> cursor'[w] + 1]
          = [[w \in Viewer |-> cursor[w] + 1] EXCEPT ![v] = 0]
    <3>1. cursor'[v] + 1 = 0
      BY <1>4
    <3> QED
      BY <1>6, <3>1
  <2> QED
    BY <1>1, <1>2, <2>1, <2>2 DEF Follower!Leave
<1> QED
  BY <1>2, <1>3, <1>4, <1>5, <1>6, <1>7 DEF Outcome

-----------------------------------------------------------------------------
(* Every step keeps the invariant and is one that StateFollower allows.    *)
Kept == BInv' /\ [Follower!Next]_Follower!vars

LEMMA ServerKeeps ==
  ASSUME BInv, Grows, Connected, UNCHANGED pageVars, truth' \in State
  PROVE  Kept
<1>1. /\ cursor' = cursor /\ partial' = partial /\ resync' = resync /\ view' = view
      /\ whole' = whole
  BY DEF pageVars
<1>2. Types'
  BY <1>1 DEF BInv, Types, Grows
<1>3. Clients'
  BY <1>1 DEF Connected, Clients
<1>4. Pages'
  BY PagesKept
<1>5. Follower!IsPrefix(log, log')
  <2>1. log \in Seq(State) /\ log' \in Seq(State) /\ Len(log) \in Nat /\ Len(log') \in Nat
    BY LenProperties DEF BInv, Types, Grows
  <2>2. SubSeq(log, 1, Len(log)) = SubSeq(log', 1, Len(log))
    <3> DEFINE a == SubSeq(log, 1, Len(log))
               b == SubSeq(log', 1, Len(log))
    <3>1. /\ a \in Seq(State) /\ Len(a) = Len(log)
          /\ \A i \in 1 .. Len(log) : a[i] = log[i]
      BY <2>1, SubSeqFull
    <3>2. /\ b \in Seq(State) /\ Len(b) = Len(log)
          /\ \A i \in 1 .. Len(log) : b[i] = log'[i]
      BY <2>1 DEF Grows
    <3> HIDE DEF a, b
    <3>3. Len(a) = Len(b) /\ \A i \in 1 .. Len(a) : a[i] = b[i]
      BY <3>1, <3>2 DEF Grows
    <3>4. a = b
      BY <3>1, <3>2, <3>3, SeqEqual
    <3> QED
      BY <3>4 DEF a, b
  <2> QED
    BY <2>2 DEF Follower!IsPrefix, Grows
<1>6. Follower!Publish
  BY <1>1, <1>5 DEF Follower!Publish, Grows, Attached
<1> QED
  BY <1>2, <1>3, <1>4, <1>6 DEF Kept, BInv, Follower!Next

LEMMA PageKeeps ==
  ASSUME BInv, NEW v \in Viewer, NEW at \in Int, Outcome(v, at), UNCHANGED serverVars,
         NEW d, client' = [client EXCEPT ![v] = d], Good(d, Len(log), at)
  PROVE  Kept
<1>1. log' = log /\ cursor'[v] = at
  BY DEF serverVars, Outcome
<1>2. client' = [w \in Viewer |-> IF w = v THEN d ELSE client[w]]
  BY DEF BInv, Clients
<1>3. Clients'
  BY <1>1, <1>2 DEF BInv, Clients, Outcome
<1>4. ASSUME NEW w \in Viewer PROVE PageRight(w)'
  <2>1. CASE w = v
    BY <2>1 DEF Outcome
  <2>2. CASE w # v
    <3>1. /\ cursor'[w] = cursor[w] /\ partial'[w] = partial[w] /\ resync'[w] = resync[w]
          /\ whole'[w] = whole[w] /\ view'[w] = view[w] /\ PageRight(w)
      BY <2>2 DEF Outcome, BInv, Pages
    <3> QED
      BY <1>1, <3>1 DEF PageRight, Gathered
  <2> QED
    BY <2>1, <2>2
<1> QED
  BY <1>3, <1>4 DEF Kept, BInv, Outcome, Pages, Follower!Next

LEMMA ReceiveKeeps ==
  ASSUME BInv, NEW v \in Viewer, Receive(v)
  PROVE  Kept
<1> DEFINE c == client[v]
           m == Head(c.wire)
           d == [c EXCEPT !.wire = Tail(@)]
           k == Len(log)
<1>1. /\ c.wire # <<>> /\ client' = [client EXCEPT ![v] = d] /\ UNCHANGED serverVars
      /\ IF m.type = "page" THEN TakePage(v, m) ELSE TakeDelta(v, m.seq)
  BY DEF Receive
<1>2. k \in Nat /\ cursor[v] \in Int /\ Good(c, k, cursor[v])
  BY LenProperties DEF BInv, Types, Clients
<1>3. /\ m \in Message(k) /\ Good(d, k, cursor[v]) /\ Good(d, k, m.seq)
      /\ m.type = "page" => cursor[v] <= m.seq
  BY <1>1, <1>2, TailGood
<1>4. m.seq \in Int /\ (m.type # "page" => m.seq \in 1 .. k - 1)
  BY <1>3 DEF Message
<1>5. Outcome(v, cursor[v]) \/ Outcome(v, m.seq)
  <2>1. CASE m.type = "page"
    <3>1. TakePage(v, m) /\ m \in Message(Len(log)) /\ cursor[v] <= m.seq
      BY <1>1, <1>3, <2>1
    <3> HIDE DEF m
    <3> QED
      BY <1>1, <2>1, <3>1, TakePageKeeps
  <2>2. CASE m.type # "page"
    <3>1. TakeDelta(v, m.seq) /\ m.seq \in 1 .. Len(log) - 1
      BY <1>1, <1>4, <2>2
    <3> HIDE DEF m
    <3> QED
      BY <1>1, <3>1, TakeDeltaKeeps
  <2> QED
    BY <2>1, <2>2
<1> HIDE DEF m, d
<1> QED
  BY <1>1, <1>2, <1>3, <1>4, <1>5, PageKeeps

(* A step of the connection alone.                                         *)
LEMMA ConnectionKeeps ==
  ASSUME BInv, NEW v \in Viewer, NEW d, client' = [client EXCEPT ![v] = d],
         Good(d, Len(log), cursor[v]), UNCHANGED <<serverVars, pageVars>>
  PROVE  Kept
<1>1. log' = log /\ truth' = truth /\ truth \in State
  BY DEF serverVars, BInv, Types
<1>2. Grows /\ Connected
  BY <1>1, OneConnects
<1> QED
  BY <1>1, <1>2, ServerKeeps

LEMMA NextKeeps ==
  ASSUME BInv, [Next]_vars
  PROVE  Kept
<1> USE DEF pageVars, serverVars
<1>1. /\ truth \in State /\ Len(log) \in Nat /\ log \in Seq(State)
      /\ \A v \in Viewer : cursor[v] \in Int
      /\ \A v \in Viewer : Good(client[v], Len(log), cursor[v])
  BY LenProperties DEF BInv, Types, Clients
<1>2. CASE QuietChange
  <2>1. truth' \in State /\ log' = log /\ client' = client
    BY <1>1, <1>2 DEF QuietChange, State
  <2>2. Grows /\ Connected
    BY <1>1, <2>1 DEF Grows, Connected, BInv, Clients
  <2> QED
    BY <1>2, <2>1, <2>2, ServerKeeps DEF QuietChange
<1>3. ASSUME NEW i \in Changing, Announce(i) PROVE Kept
  <2>1. truth' \in State
    BY <1>1, <1>3 DEF Announce, State
  <2>2. CASE Flush(pending \cup {i}, truth')
    BY <1>3, <2>1, <2>2, FlushConnects, ServerKeeps DEF Announce
  <2>3. CASE UNCHANGED <<log, client>>
    <3>1. Grows /\ Connected
      BY <1>1, <2>3 DEF Grows, Connected, BInv, Clients
    <3> QED
      BY <1>3, <2>1, <3>1, ServerKeeps DEF Announce
  <2> QED
    BY <1>3, <2>2, <2>3 DEF Announce
<1>4. CASE FlushTimer
  BY <1>1, <1>4, FlushConnects, ServerKeeps DEF FlushTimer
<1>5. ASSUME NEW v \in Viewer, FirstState(v) \/ StateResync(v) \/ Recover(v) PROVE Kept
  <2>1. SendState(v) /\ UNCHANGED <<truth, pageVars>>
    BY <1>5 DEF FirstState, StateResync, Recover
  <2> QED
    BY <1>1, <2>1, SendStateConnects, ServerKeeps
<1>6. ASSUME NEW v \in Viewer, SnapshotTimer(v) PROVE Kept
  <2> DEFINE c == client[v]
  <2>1. c.open /\ c.busy /\ UNCHANGED <<truth, pageVars>>
    BY <1>6 DEF SnapshotTimer
  <2>2. CASE c.want
    <3> DEFINE cs == [client EXCEPT ![v].busy = FALSE]
    <3>1. Checkpoint(v, cs)
      BY <1>6, <2>2 DEF SnapshotTimer
    <3>2. cs = [w \in Viewer |-> IF w = v THEN [c EXCEPT !.busy = FALSE] ELSE client[w]]
      BY DEF BInv, Clients
    <3> HIDE DEF cs
    <3>3. \A w \in Viewer : Good(cs[w], Len(log), cursor[w])
      <4>1. Good([c EXCEPT !.busy = FALSE], Len(log), cursor[v])
        BY ONLY <1>1, WantGood
      <4> QED
        BY <1>1, <3>2, <4>1
    <3>4. Grows /\ Connected
      BY <3>1, <3>3, CheckpointConnects
    <3> QED
      BY <1>1, <2>1, <3>4, ServerKeeps
  <2>3. CASE ~c.want
    <3>1. /\ client' = [client EXCEPT ![v] = IF c.done THEN Drain(c) ELSE NextPage(c, log)]
          /\ log' = log
      BY <1>6, <2>3 DEF SnapshotTimer
    <3>1a. Len(log) \in Nat \ {0}
      BY <1>1, <2>1 DEF Good, Connection
    <3>2. Good(IF c.done THEN Drain(c) ELSE NextPage(c, log), Len(log), cursor[v])
      <4>1. CASE c.done
        <5>1. Good(Drain(c), Len(log), cursor[v])
          BY <1>1, <4>1, DrainGood
        <5> QED
          BY <4>1, <5>1
      <4>2. CASE ~c.done
        <5>1. Good(NextPage(c, log), Len(log), cursor[v])
          BY <1>1, <2>1, <3>1a, <4>2, NextPageGood
        <5> QED
          BY <4>2, <5>1
      <4> QED
        BY <4>1, <4>2
    <3>3. Grows /\ Connected
      BY <3>1, <3>2, OneConnects
    <3> QED
      BY <1>1, <2>1, <3>3, ServerKeeps
  <2> QED
    BY <2>2, <2>3
<1>7. ASSUME NEW v \in Viewer, Receive(v) PROVE Kept
  BY <1>7, ReceiveKeeps
<1>8. ASSUME NEW v \in Viewer, Disconnect(v) \/ Deadline(v) PROVE Kept
  <2>1. CASE Close(v) /\ UNCHANGED serverVars
    <3>1. client' = [client EXCEPT ![v] = Closed] /\ Good(Closed, Len(log), -1) /\ -1 \in Int
      BY <1>1, <2>1, NewConnectionsGood DEF Close
    <3>2. Outcome(v, -1)
      BY <2>1, CloseKeeps
    <3> QED
      BY <2>1, <3>1, <3>2, PageKeeps
  <2>2. CASE Resync(v) /\ UNCHANGED <<client, serverVars>>
    <3>1. client' = [client EXCEPT ![v] = client[v]]
      BY <2>2 DEF BInv, Clients
    <3>2. Outcome(v, cursor[v])
      BY <2>2, ResyncKeeps
    <3>3. Good(client[v], Len(log), cursor[v]) /\ cursor[v] \in Int
      BY <1>1
    <3> QED
      BY <2>2, <3>1, <3>2, <3>3, PageKeeps
  <2> QED
    BY <1>8, <2>1, <2>2 DEF Disconnect, Deadline
<1>9. ASSUME NEW v \in Viewer, Clog(v) \/ Unclog(v) PROVE Kept
  <2>1. PICK b \in BOOLEAN : /\ client' = [client EXCEPT ![v] = [client[v] EXCEPT !.clogged = b]]
                             /\ UNCHANGED <<serverVars, pageVars>>
    BY <1>9 DEF Clog, Unclog
  <2>2. Good([client[v] EXCEPT !.clogged = b], Len(log), cursor[v])
    BY <1>1, WantGood
  <2> QED
    BY <2>1, <2>2, ConnectionKeeps
<1>10. ASSUME NEW v \in Viewer, Connect(v) PROVE Kept
  <2>1. client' = [client EXCEPT ![v] = Fresh] /\ UNCHANGED <<serverVars, pageVars>>
    BY <1>10 DEF Connect
  <2>2. Good(Fresh, Len(log), cursor[v])
    BY <1>1, NewConnectionsGood
  <2> QED
    BY <2>1, <2>2, ConnectionKeeps
<1>11. CASE UNCHANGED vars
  <2>1. truth' \in State /\ log' = log /\ client' = client /\ UNCHANGED pageVars
    BY <1>1, <1>11 DEF vars
  <2>2. Grows /\ Connected
    BY <1>1, <2>1 DEF Grows, Connected, BInv, Clients
  <2> QED
    BY <2>1, <2>2, ServerKeeps
<1> QED
  BY <1>2, <1>3, <1>4, <1>5, <1>6, <1>7, <1>8, <1>9, <1>10, <1>11 DEF Next, Server

-----------------------------------------------------------------------------
LEMMA InvariantHolds == Spec => []BInv
<1>1. Init => BInv
  BY InitBInv
<1>2. BInv /\ [Next]_vars => BInv'
  BY NextKeeps DEF Kept
<1> QED
  BY <1>1, <1>2, PTL DEF Spec

(* Whatever is lost, delayed or overtaken on its way to a page, what the   *)
(* page takes for complete is the tracked state of its sequence number:    *)
(* no delta is skipped, repeated or applied to the wrong snapshot.         *)
THEOREM ViewsAreTracked == Spec => []ViewIsTracked
<1>1. BInv => ViewIsTracked
  BY DEF BInv, Pages, PageRight, ViewIsTracked, Attached
<1> QED
  BY <1>1, InvariantHolds, PTL

(* The broadcast implements StateFollower: a page shows states of the log  *)
(* and goes only forward while its connection lasts.                       *)
THEOREM BroadcastFollows == Spec => Follows
<1>1. Init => Follower!Init
  <2> SUFFICES ASSUME Init PROVE Follower!Init
    OBVIOUS
  <2>1. BInv
    BY InitBInv
  <2>2. [v \in Viewer |-> cursor[v] + 1] = [v \in Viewer |-> 0] /\ Attached = {} /\ log = <<>>
    BY DEF Init, Attached
  <2> QED
    BY <2>1, <2>2 DEF Follower!Init, BInv, Types
<1>2. BInv /\ [Next]_vars => [Follower!Next]_Follower!vars
  BY NextKeeps DEF Kept
<1> QED
  BY <1>1, <1>2, InvariantHolds, PTL DEF Spec, Follows, Follower!Spec

-----------------------------------------------------------------------------
(* The server's mirror of its runtime host.  The argument: while the       *)
(* connection is open the host is the one that the client was registered   *)
(* with, so sequence numbers mean entries of one stretch of the log, in    *)
(* which every event leads from one entry to the next.  An event is        *)
(* applied only behind its predecessor, and a recovery's answer is no      *)
(* older than the copy that it completes, since the copy stands still      *)
(* while the one recovery runs.                                            *)
HostEvent == [type : {"binding", "binding-patch"}, epoch : Mirror!Epoch, text : Text]
             \cup [type : {"prompt-operation", "operation-pruned", "binding-removed"},
                   epoch : Mirror!Epoch]
Question == {Mirror!None} \cup [type : {"register", "read"}]
            \cup [type : {"recover"}, after : Nat]
Reply == [type : {"registered"}]
         \cup [type : {"recovered"}, seq : Nat, first : Nat, replace : BOOLEAN]
         \cup [type : {"session"}, epoch : {0} \cup Mirror!Epoch, text : Text]
HostMessage == Reply \cup [type : {"event"}, seq : Nat]

HostConn == [open : BOOLEAN, active : BOOLEAN, asked : Question,
             answer : Reply \cup {Mirror!None}, wire : Seq(HostMessage)]
MirrorClient == [stage : Mirror!Stages, resolved : Reply \cup {Mirror!None},
                 recovering : BOOLEAN, full : BOOLEAN, base : Nat, seq : Nat,
                 mirror : Mirror!State, buffer : Seq(Nat), mixed : BOOLEAN, overlaid : BOOLEAN]

MirrorTypes ==
  /\ hostLog \in Seq(Mirror!State)
  /\ news \in Seq(HostEvent \cup {Mirror!None}) /\ Len(news) = Len(hostLog)
  /\ host \in [up : BOOLEAN, base : Nat, first : Nat] /\ used \in 0 .. MaxBindings
  /\ conn \in HostConn /\ hostClient \in MirrorClient
  /\ facade \in Mirror!State

(* The host that runs: its stretch of the log starts with nothing, and     *)
(* each event leads to the next entry.                                     *)
Stretch(states, events, b) ==
  /\ b + 1 \in 1 .. Len(states) /\ states[b + 1] = Mirror!Nothing
  /\ \A k \in b + 2 .. Len(states) :
       events[k] \in HostEvent /\ states[k] = Mirror!Apply(states[k - 1], events[k])
HostCounts == host.up => Stretch(hostLog, news, host.base)

HostAttached ==
  /\ conn.open <=> hostClient.stage \in {"registering", "recovering", "ready"}
  /\ ~conn.open => conn = Mirror!Shut /\ hostClient.resolved = Mirror!None
  /\ conn.open => host.up /\ hostClient.base = host.base
  /\ hostClient.stage = "connecting" => hostClient.buffer = <<>>

(* Events that were heard have happened.                                   *)
Heard ==
  conn.open =>
    /\ \A i \in DOMAIN conn.wire :
         conn.wire[i].type = "event" => conn.wire[i].seq \in 1 .. Mirror!EventSeq
    /\ \A i \in DOMAIN hostClient.buffer : hostClient.buffer[i] <= Mirror!EventSeq

(* The answer of a recovery is on its way at most once, and only while the *)
(* client takes itself for recovering.                                     *)
OnWire(r) == \E i \in DOMAIN conn.wire : conn.wire[i] = r
Coming(r) == conn.answer = r \/ hostClient.resolved = r \/ OnWire(r)
AsksToRecover == conn.asked.type = "recover"
Completes(r) ==
  /\ hostClient.recovering /\ r.seq <= Mirror!EventSeq
  /\ hostClient.seq <= r.seq \/ (r.replace /\ hostClient.mixed)
Recoveries ==
  /\ AsksToRecover => hostClient.recovering /\ conn.asked.after \in {0, hostClient.seq}
  /\ \A r \in Reply : r.type = "recovered" /\ Coming(r) => Completes(r) /\ ~AsksToRecover
  /\ hostClient.resolved.type = "recovered" => conn.answer.type # "recovered"
  /\ \A i \in DOMAIN conn.wire :
       conn.wire[i].type = "recovered" =>
         /\ hostClient.resolved.type # "recovered" /\ conn.answer.type # "recovered"
         /\ \A j \in DOMAIN conn.wire : conn.wire[j].type = "recovered" => i = j

Copied ==
  /\ ~hostClient.mixed =>
       IF hostClient.seq = 0 THEN hostClient.mirror = Mirror!Nothing
       ELSE /\ hostClient.base + 1 + hostClient.seq <= Len(hostLog)
            /\ hostClient.mirror = hostLog[hostClient.base + 1 + hostClient.seq]
  /\ hostClient.stage = "ready" /\ ~hostClient.overlaid =>
       facade = Mirror!Shown(hostClient.mirror)

MirrorInv == MirrorTypes /\ HostCounts /\ HostAttached /\ Heard /\ Recoveries /\ Copied
-----------------------------------------------------------------------------
LEMMA LeastOf ==
  ASSUME NEW T, T \subseteq Nat, T # {}
  PROVE  \E x \in T : \A y \in T : x <= y
<1>1. IsWellFoundedOn(OpToRel(<,Nat), Nat)
  BY NatLessThanWellFounded
<1>2. PICK x \in T : \A y \in T : ~(<<y, x>> \in OpToRel(<,Nat))
  BY <1>1, WFMin
<1>3. \A y \in T : ~(y < x)
  BY <1>2 DEF OpToRel
<1> QED
  BY <1>3

(* What is in a message.                                                   *)
LEMMA MessageHas ==
  ASSUME NEW m \in HostMessage
  PROVE  /\ m.type \in {"registered", "recovered", "session", "event"}
         /\ m.type # "event" => m \in Reply
         /\ m.type \in {"recovered", "event"} => m.seq \in Nat
         /\ m.type = "recovered" => m.replace \in BOOLEAN
         /\ m.type = "session" => m.epoch \in {0} \cup Mirror!Epoch /\ m.text \in Text
BY DEF HostMessage, Reply

LEMMA NothingIsState ==
  /\ Mirror!Nothing \in Mirror!State /\ Mirror!NoText \in Text
  /\ \A s \in Mirror!State : Mirror!Shown(s) \in Mirror!State
<1>1. Mirror!NoText \in Text
  BY MirrorAssumption DEF Mirror!NoText
<1> QED
  BY <1>1 DEF Mirror!Nothing, Mirror!State, Mirror!Shown

(* What an event does to a copy, and to the facade's part of it.           *)
LEMMA ApplyIsState ==
  ASSUME NEW s \in Mirror!State, NEW e \in HostEvent
  PROVE  /\ Mirror!Apply(s, e) \in Mirror!State
         /\ Mirror!Shown(Mirror!Apply(Mirror!Shown(s), e)) = Mirror!Shown(Mirror!Apply(s, e))
<1> USE NothingIsState DEF Mirror!State, HostEvent, Mirror!Shown, Mirror!Nothing
<1>1. CASE e.type = "binding"
  BY <1>1 DEF Mirror!Apply
<1>2. CASE e.type = "binding-patch"
  BY <1>2 DEF Mirror!Apply
<1>3. CASE e.type = "prompt-operation"
  BY <1>3 DEF Mirror!Apply
<1>4. CASE e.type = "operation-pruned"
  BY <1>4 DEF Mirror!Apply
<1>5. CASE e.type = "binding-removed"
  BY <1>5 DEF Mirror!Apply
<1> QED
  BY <1>1, <1>2, <1>3, <1>4, <1>5

(* Events m + 1 .. n, one after the other.                                 *)
Leads(f, m, n) ==
  /\ f \in [m .. n -> Mirror!State]
  /\ \A k \in m + 1 .. n : f[k] = Mirror!Apply(f[k - 1], Mirror!Event(k))

LEMMA LeadsExists ==
  ASSUME NEW m \in Nat, NEW n \in Nat, m <= n, NEW s \in Mirror!State,
         \A k \in m + 1 .. n : Mirror!Event(k) \in HostEvent
  PROVE  \E f : Leads(f, m, n) /\ f[m] = s
<1> DEFINE Fails == {k \in m .. n : \A f : ~(Leads(f, m, k) /\ f[m] = s)}
<1> SUFFICES ASSUME \A f : ~(Leads(f, m, n) /\ f[m] = s) PROVE FALSE
  OBVIOUS
<1>4. Fails \subseteq Nat /\ n \in Fails
  OBVIOUS
<1>5. Fails # {}
  BY <1>4
<1>1. PICK k \in Fails : \A j \in Fails : k <= j
  <2> HIDE DEF Fails
  <2> QED
    BY <1>4, <1>5, LeastOf
<1>2. CASE k = m
  <2>1. Leads([j \in m .. m |-> s], m, m)
    BY DEF Leads
  <2> QED
    BY <1>1, <1>2, <2>1
<1>3. CASE k # m
  <2>1. k - 1 \in m .. n /\ k - 1 \notin Fails
    BY <1>1, <1>3
  <2>2. PICK f : Leads(f, m, k - 1) /\ f[m] = s
    BY <2>1
  <2> DEFINE x == Mirror!Apply(f[k - 1], Mirror!Event(k))
             g == [j \in m .. k |-> IF j = k THEN x ELSE f[j]]
  <2>3. x \in Mirror!State
    BY <1>1, <2>1, <2>2, ApplyIsState DEF Leads
  <2> HIDE DEF x
  <2>4. g \in [m .. k -> Mirror!State] /\ g[m] = s /\ g[k] = x /\ \A j \in m .. k - 1 : g[j] = f[j]
    BY <1>1, <1>3, <2>1, <2>2, <2>3 DEF Leads
  <2> HIDE DEF g
  <2>5. \A j \in m + 1 .. k : g[j] = Mirror!Apply(g[j - 1], Mirror!Event(j))
    <3>1. ASSUME NEW j \in m + 1 .. k - 1 PROVE g[j] = Mirror!Apply(g[j - 1], Mirror!Event(j))
      <4>1. j \in m .. k - 1 /\ j - 1 \in m .. k - 1
        BY <1>1, <2>1
      <4> QED
        BY <2>2, <2>4, <4>1 DEF Leads
    <3>2. g[k - 1] = f[k - 1] /\ g[k] = Mirror!Apply(f[k - 1], Mirror!Event(k))
      BY <1>1, <1>3, <2>1, <2>4 DEF x
    <3> QED
      BY <1>1, <3>1, <3>2
  <2>6. Leads(g, m, k)
    BY <2>4, <2>5 DEF Leads
  <2> QED
    BY <1>1, <2>4, <2>6
<1> QED
  BY <1>1, <1>2, <1>3

LEMMA AfterLeads ==
  ASSUME NEW m \in Nat, NEW n \in Nat, m <= n, NEW s \in Mirror!State,
         \A k \in m + 1 .. n : Mirror!Event(k) \in HostEvent
  PROVE  \E f : Leads(f, m, n) /\ f[m] = s /\ f[n] = Mirror!After(s, m, n)
<1> DEFINE at == CHOOSE f : f = [k \in m .. n |-> IF k = m THEN s
                                 ELSE Mirror!Apply(f[k - 1], Mirror!Event(k))]
<1>1. Mirror!After(s, m, n) = at[n]
  BY DEF Mirror!After
<1>2. PICK f : Leads(f, m, n) /\ f[m] = s
  BY LeadsExists
<1>3. f = [k \in m .. n |-> IF k = m THEN s ELSE Mirror!Apply(f[k - 1], Mirror!Event(k))]
  BY <1>2 DEF Leads
<1>4. at = [k \in m .. n |-> IF k = m THEN s ELSE Mirror!Apply(at[k - 1], Mirror!Event(k))]
  BY <1>3
<1> HIDE DEF at
<1> DEFINE Differ == {k \in m .. n : at[k] # f[k]}
<1>5. Differ = {}
  <2> SUFFICES ASSUME Differ # {} PROVE FALSE
    OBVIOUS
  <2>1. PICK k \in Differ : \A j \in Differ : k <= j
    <3>1. Differ \subseteq Nat
      OBVIOUS
    <3> HIDE DEF Differ
    <3> QED
      BY <3>1, LeastOf
  <2>2. k # m
    BY <1>2, <1>4, <2>1
  <2>3. k - 1 \in m .. n /\ at[k - 1] = f[k - 1]
    BY <2>1, <2>2
  <2>4. at[k] = Mirror!Apply(at[k - 1], Mirror!Event(k)) /\ f[k] = Mirror!Apply(f[k - 1], Mirror!Event(k))
    BY <1>3, <1>4, <2>1, <2>2
  <2> QED
    BY <2>1, <2>3, <2>4
<1>6. at[n] = f[n]
  BY <1>5
<1> QED
  BY <1>1, <1>2, <1>6

(* A copy that is the host's state at m becomes its state at n.            *)
LEMMA AfterIsHost ==
  ASSUME NEW m \in Nat, NEW n \in Nat, m <= n, NEW s \in Mirror!State, host.base \in Nat,
         \A k \in m + 1 .. n :
           /\ Mirror!Event(k) \in HostEvent
           /\ hostLog[host.base + 1 + k] = Mirror!Apply(hostLog[host.base + k], Mirror!Event(k))
  PROVE  /\ Mirror!After(s, m, n) \in Mirror!State
         /\ s = hostLog[host.base + 1 + m] => Mirror!After(s, m, n) = hostLog[host.base + 1 + n]
<1>1. PICK f : Leads(f, m, n) /\ f[m] = s /\ f[n] = Mirror!After(s, m, n)
  BY AfterLeads
<1>2. Mirror!After(s, m, n) \in Mirror!State
  BY <1>1 DEF Leads
<1>3. ASSUME s = hostLog[host.base + 1 + m] PROVE f[n] = hostLog[host.base + 1 + n]
  <2> DEFINE Differ == {k \in m .. n : f[k] # hostLog[host.base + 1 + k]}
  <2> SUFFICES ASSUME Differ # {} PROVE FALSE
    OBVIOUS
  <2>1. PICK k \in Differ : \A j \in Differ : k <= j
    <3>1. Differ \subseteq Nat
      OBVIOUS
    <3> HIDE DEF Differ
    <3> QED
      BY <3>1, LeastOf
  <2>2. k # m
    BY <1>1, <1>3, <2>1
  <2>3. k - 1 \in m .. n /\ k - 1 \notin Differ
    BY <2>1, <2>2
  <2>4. f[k - 1] = hostLog[host.base + k]
    BY <2>3
  <2>5. f[k] = Mirror!Apply(f[k - 1], Mirror!Event(k))
    BY <1>1, <2>1, <2>2 DEF Leads
  <2> QED
    BY <2>1, <2>2, <2>4, <2>5
<1> QED
  BY <1>1, <1>2, <1>3

(* Buffered events lead no further than the host is.                       *)
LEMMA ReachedIsHeard ==
  ASSUME NEW buffer \in Seq(Nat), NEW n \in Nat, NEW last \in Nat, n <= last,
         \A i \in DOMAIN buffer : buffer[i] <= last
  PROVE  Mirror!Reached(buffer, n) \in {-1} \cup n .. last
<1> DEFINE G(before, k) == IF before = -1 THEN -1
                           ELSE IF buffer[k] <= before THEN before
                           ELSE IF buffer[k] = before + 1 THEN buffer[k] ELSE -1
           Run(f, m) == /\ f \in [0 .. m -> {-1} \cup n .. last] /\ f[0] = n
                        /\ \A k \in 1 .. m : f[k] = G(f[k - 1], k)
           N == Len(buffer)
<1>1. N \in Nat /\ \A k \in 1 .. N : buffer[k] \in Nat /\ buffer[k] <= last
  BY LenProperties
<1>2. \A b \in {-1} \cup n .. last, k \in 1 .. N : G(b, k) \in {-1} \cup n .. last
  BY <1>1
<1> HIDE DEF G
<1>3. \E f : Run(f, N)
  <2> DEFINE Fails == {k \in 0 .. N : \A f : ~Run(f, k)}
  <2> SUFFICES ASSUME \A f : ~Run(f, N) PROVE FALSE
    OBVIOUS
  <2>4. Fails \subseteq Nat /\ N \in Fails
    BY <1>1
  <2>5. Fails # {}
    BY <2>4
  <2>1. PICK k \in Fails : \A j \in Fails : k <= j
    <3> HIDE DEF Fails
    <3> QED
      BY <2>4, <2>5, LeastOf
  <2>2. CASE k = 0
    <3>1. Run([j \in 0 .. 0 |-> n], 0)
      OBVIOUS
    <3> QED
      BY <2>1, <2>2, <3>1
  <2>3. CASE k # 0
    <3>1. k - 1 \in 0 .. N /\ k - 1 \notin Fails /\ k \in 1 .. N
      <4>1. k \in 0 .. N /\ \A j \in Fails : k <= j
        BY <2>1
      <4> HIDE DEF Fails
      <4> QED
        BY <1>1, <2>3, <2>4, <4>1
    <3>2. PICK f : Run(f, k - 1)
      BY <3>1
    <3> DEFINE x == G(f[k - 1], k)
               g == [j \in 0 .. k |-> IF j = k THEN x ELSE f[j]]
    <3>3. x \in {-1} \cup n .. last
      <4>1. f[k - 1] \in {-1} \cup n .. last
        BY <1>1, <3>1, <3>2
      <4> QED
        BY <1>2, <3>1, <4>1
    <3> HIDE DEF x
    <3>4. /\ g \in [0 .. k -> {-1} \cup n .. last] /\ g[0] = n /\ g[k] = x
          /\ \A j \in 0 .. k - 1 : g[j] = f[j]
      BY <3>1, <3>2, <3>3
    <3> HIDE DEF g
    <3>5. \A j \in 1 .. k : g[j] = G(g[j - 1], j)
      BY <3>1, <3>2, <3>4 DEF x
    <3> QED
      BY <2>1, <3>4, <3>5
  <2> QED
    BY <2>1, <2>2, <2>3
<1>4. PICK f : Run(f, N)
  BY <1>3
<1> DEFINE to == CHOOSE h : h = [k \in 0 .. N |-> IF k = 0 THEN n ELSE G(h[k - 1], k)]
<1>5. Mirror!Reached(buffer, n) = to[N]
  BY DEF Mirror!Reached, G
<1>6. f = [k \in 0 .. N |-> IF k = 0 THEN n ELSE G(f[k - 1], k)]
  BY <1>1, <1>4
<1>7. to = [k \in 0 .. N |-> IF k = 0 THEN n ELSE G(to[k - 1], k)]
  BY <1>6
<1> HIDE DEF to
<1> DEFINE Differ == {k \in 0 .. N : to[k] # f[k]}
<1>8. Differ = {}
  <2> SUFFICES ASSUME Differ # {} PROVE FALSE
    OBVIOUS
  <2>1. PICK k \in Differ : \A j \in Differ : k <= j
    <3>1. Differ \subseteq Nat
      BY <1>1
    <3> HIDE DEF Differ
    <3> QED
      BY <3>1, LeastOf
  <2>2. k # 0
    BY <1>1, <1>6, <1>7, <2>1
  <2>3. k - 1 \in 0 .. N /\ to[k - 1] = f[k - 1]
    <3>1. k \in 0 .. N /\ \A j \in Differ : k <= j
      BY <2>1
    <3>2. k - 1 \in 0 .. N
      BY <1>1, <2>2, <3>1
    <3>3. k - 1 \notin Differ
      <4> HIDE DEF Differ
      <4> QED
        BY <1>1, <3>1
    <3> QED
      BY <3>2, <3>3
  <2>4. to[k] = G(to[k - 1], k) /\ f[k] = G(f[k - 1], k)
    BY <1>6, <1>7, <2>1, <2>2
  <2> QED
    BY <2>1, <2>3, <2>4
<1> QED
  BY <1>1, <1>4, <1>5, <1>8
-----------------------------------------------------------------------------
(* The host.                                                               *)
LEMMA ClosedIsQuiet ==
  ASSUME MirrorInv
  PROVE  /\ ~conn.open => \A r : Coming(r) => r = Mirror!None
         /\ conn.open => Mirror!EventSeq \in Nat /\ Stretch(hostLog, news, host.base)
         /\ Mirror!None.type = "none" /\ Mirror!None \notin Reply
<1>1. conn.open => Mirror!EventSeq \in Nat /\ Stretch(hostLog, news, host.base)
  <2>1. Len(hostLog) \in Nat
    BY LenProperties DEF MirrorInv, MirrorTypes
  <2> QED
    BY <2>1 DEF MirrorInv, MirrorTypes, HostAttached, HostCounts, Stretch, Mirror!EventSeq
<1>2. ~conn.open => \A r : Coming(r) => r = Mirror!None
  BY DEF MirrorInv, HostAttached, Mirror!Shut, Coming, OnWire
<1>3. Mirror!None.type = "none" /\ Mirror!None \notin Reply
  BY DEF Mirror!None, Reply
<1> QED
  BY <1>1, <1>2, <1>3

LEMMA CopiedGrows ==
  ASSUME MirrorInv, UNCHANGED <<hostClient, facade>>, NEW x, hostLog' = Append(hostLog, x)
  PROVE  Copied'
<1>1. Len(hostLog) \in Nat /\ Len(hostLog') = Len(hostLog) + 1
      /\ \A i \in 1 .. Len(hostLog) : hostLog'[i] = hostLog[i]
  BY AppendProperties, LenProperties DEF MirrorInv, MirrorTypes
<1>2. hostClient.base \in Nat /\ hostClient.seq \in Nat
  BY DEF MirrorInv, MirrorTypes, MirrorClient
<1> QED
  BY <1>1, <1>2 DEF MirrorInv, Copied

LEMMA HostStartsKeeps ==
  ASSUME MirrorInv, Mirror!HostStarts
  PROVE  MirrorInv'
<1> USE DEF Mirror!HostStarts
<1>1. ~conn.open
  BY DEF MirrorInv, HostAttached
<1>2. /\ hostLog' \in Seq(Mirror!State) /\ news' \in Seq(HostEvent \cup {Mirror!None})
      /\ Len(hostLog) \in Nat /\ Len(hostLog') = Len(hostLog) + 1 /\ Len(news') = Len(news) + 1
      /\ hostLog'[Len(hostLog) + 1] = Mirror!Nothing
  BY NothingIsState, LenProperties, AppendProperties DEF MirrorInv, MirrorTypes
<1>3. host' \in [up : BOOLEAN, base : Nat, first : Nat] /\ host'.base = Len(hostLog)
  BY <1>2
<1>4. MirrorTypes'
  BY <1>2, <1>3 DEF MirrorInv, MirrorTypes
<1>5. HostCounts'
  BY <1>2, <1>3 DEF HostCounts, Stretch
<1>6. HostAttached' /\ Heard'
  BY <1>1 DEF MirrorInv, HostAttached, Heard
<1>7. Recoveries'
  <2>1. conn = Mirror!Shut /\ hostClient.resolved = Mirror!None
    BY <1>1 DEF MirrorInv, HostAttached
  <2>2. \A r : Coming(r)' => r = Mirror!None
    BY <2>1 DEF Coming, OnWire, Mirror!Shut
  <2> QED
    BY <2>1, <2>2 DEF Recoveries, AsksToRecover, Mirror!Shut, Mirror!None
<1>8. Copied'
  BY CopiedGrows
<1> QED
  BY <1>4, <1>5, <1>6, <1>7, <1>8 DEF MirrorInv

LEMMA PublishKeeps ==
  ASSUME MirrorInv, NEW s \in Mirror!State, NEW e \in HostEvent, Mirror!Publish(s, e),
         s = Mirror!Apply(Mirror!Now, e), used' \in 0 .. MaxBindings
  PROVE  MirrorInv'
<1> DEFINE n == Mirror!EventSeq + 1
<1>1. /\ hostLog' = Append(hostLog, s) /\ news' = Append(news, e) /\ UNCHANGED <<hostClient, facade>>
      /\ \E first \in host.first .. n + 1 : host' = [host EXCEPT !.first = first]
      /\ conn' = IF conn.active
                 THEN [conn EXCEPT !.wire = Append(@, [type |-> "event", seq |-> n])]
                 ELSE conn
  BY DEF Mirror!Publish
<1>2. /\ hostLog' \in Seq(Mirror!State) /\ news' \in Seq(HostEvent \cup {Mirror!None})
      /\ Len(hostLog) \in Nat /\ Len(hostLog') = Len(hostLog) + 1 /\ Len(news') = Len(news) + 1
      /\ hostLog'[Len(hostLog) + 1] = s /\ news'[Len(hostLog) + 1] = e
      /\ \A i \in 1 .. Len(hostLog) : hostLog'[i] = hostLog[i] /\ news'[i] = news[i]
  BY <1>1, LenProperties, AppendProperties DEF MirrorInv, MirrorTypes
<1>3. /\ host.up /\ host.base \in Nat /\ host.first \in Nat
      /\ host.base + 1 <= Len(hostLog) /\ Stretch(hostLog, news, host.base)
  BY <1>2 DEF MirrorInv, MirrorTypes, HostCounts, Stretch, Mirror!Publish
<1>4. n \in Nat \ {0} /\ Mirror!EventSeq = n - 1 /\ Mirror!EventSeq \in Nat
  BY <1>2, <1>3 DEF Mirror!EventSeq
<1>5. host' \in [up : BOOLEAN, base : Nat, first : Nat] /\ host'.base = host.base /\ host'.up
  <2> HIDE DEF n
  <2>1. PICK first \in host.first .. n + 1 : host' = [host EXCEPT !.first = first]
    BY <1>1
  <2>2. first \in Nat
    BY <1>3, <1>4, <2>1
  <2>3. host \in [up : BOOLEAN, base : Nat, first : Nat]
    BY DEF MirrorInv, MirrorTypes
  <2> QED
    BY <1>3, <2>1, <2>2, <2>3
<1>6. Mirror!EventSeq' = n
  BY <1>2, <1>4, <1>5 DEF Mirror!EventSeq
<1> HIDE DEF n
<1> DEFINE m == [type |-> "event", seq |-> n]
<1>7. /\ m \in HostMessage /\ m.type = "event" /\ m.seq = n
  BY <1>4 DEF HostMessage
<1> HIDE DEF m
<1>8. /\ conn' \in HostConn /\ conn'.open = conn.open /\ conn'.asked = conn.asked
      /\ conn'.answer = conn.answer
      /\ conn'.wire = conn.wire \/ conn'.wire = Append(conn.wire, m)
  <2>1. conn \in HostConn /\ (conn' = conn \/ conn' = [conn EXCEPT !.wire = Append(@, m)])
    BY <1>1 DEF MirrorInv, MirrorTypes, m
  <2>2. Append(conn.wire, m) \in Seq(HostMessage)
    BY <1>7, <2>1, AppendProperties DEF HostConn
  <2> QED
    BY <2>1, <2>2 DEF HostConn
<1>9. /\ Len(conn.wire) \in Nat /\ DOMAIN conn.wire = 1 .. Len(conn.wire)
      /\ \A i \in DOMAIN conn'.wire :
           \/ i \in DOMAIN conn.wire /\ conn'.wire[i] = conn.wire[i]
           \/ conn'.wire[i] = m
  <2>1. conn.wire \in Seq(HostMessage)
    BY DEF MirrorInv, MirrorTypes, HostConn
  <2>2. CASE conn'.wire = Append(conn.wire, m)
    BY <1>7, <2>1, <2>2, AppendProperties, LenProperties
  <2> QED
    BY <1>8, <2>1, <2>2, LenProperties
<1>10. MirrorTypes'
  BY <1>1, <1>2, <1>5, <1>8 DEF MirrorInv, MirrorTypes
<1>11. HostCounts'
  <2>1. hostLog'[host.base + 1] = Mirror!Nothing
    BY <1>2, <1>3 DEF Stretch
  <2>2. ASSUME NEW k \in host.base + 2 .. Len(hostLog')
        PROVE  news'[k] \in HostEvent /\ hostLog'[k] = Mirror!Apply(hostLog'[k - 1], news'[k])
    <3>1. CASE k = Len(hostLog')
      BY <1>2, <1>3, <2>2, <3>1 DEF Mirror!Now
    <3>2. CASE k # Len(hostLog')
      <4>1. k \in host.base + 2 .. Len(hostLog) /\ k \in 1 .. Len(hostLog) /\ k - 1 \in 1 .. Len(hostLog)
        BY <1>2, <1>3, <2>2, <3>2
      <4> QED
        BY <1>2, <1>3, <4>1 DEF Stretch
    <3> QED
      BY <3>1, <3>2
  <2> QED
    BY <1>2, <1>3, <1>5, <2>1, <2>2 DEF HostCounts, Stretch
<1>12. HostAttached'
  <2>1. ~conn.open => conn' = conn
    BY <1>1 DEF MirrorInv, HostAttached, Mirror!Shut
  <2> QED
    BY <1>1, <1>3, <1>5, <1>8, <2>1 DEF MirrorInv, HostAttached
<1>13. Heard'
  <2> SUFFICES ASSUME conn.open PROVE Heard'
    BY <1>8 DEF Heard
  <2>1. \A i \in DOMAIN conn.wire :
          conn.wire[i].type = "event" => conn.wire[i].seq \in 1 .. n
    BY <1>4 DEF MirrorInv, Heard
  <2>2. \A i \in DOMAIN hostClient.buffer : hostClient.buffer[i] <= n
    <3>1. \A i \in DOMAIN hostClient.buffer : hostClient.buffer[i] \in Nat
      BY LenProperties DEF MirrorInv, MirrorTypes, MirrorClient
    <3> QED
      BY <1>4, <3>1 DEF MirrorInv, Heard
  <2> QED
    BY <1>1, <1>4, <1>6, <1>7, <1>9, <2>1, <2>2 DEF Heard
<1>14. Recoveries'
  <2>1. AsksToRecover' = AsksToRecover /\ conn'.asked = conn.asked
    BY <1>8 DEF AsksToRecover
  <2>2. \A i \in DOMAIN conn'.wire : conn'.wire[i].type = "recovered" =>
          i \in DOMAIN conn.wire /\ conn'.wire[i] = conn.wire[i]
    BY <1>7, <1>9
  <2>3. \A r \in Reply : r.type = "recovered" /\ Coming(r)' => Coming(r)
    BY <1>1, <1>8, <2>2 DEF Coming, OnWire
  <2>4. \A r \in Reply : r.type = "recovered" /\ Completes(r) => Completes(r)'
    <3>1. \A r \in Reply : r.type = "recovered" => r.seq \in Nat
      BY MessageHas DEF HostMessage
    <3> QED
      BY <1>1, <1>4, <1>6, <3>1 DEF Completes
  <2> QED
    BY <1>1, <1>8, <2>1, <2>2, <2>3, <2>4 DEF MirrorInv, Recoveries
<1>15. Copied'
  BY <1>1, CopiedGrows
<1> QED
  BY <1>10, <1>11, <1>12, <1>13, <1>14, <1>15 DEF MirrorInv

LEMMA ChangeKeeps ==
  ASSUME MirrorInv, Mirror!Change
  PROVE  MirrorInv'
<1>1. host.up /\ used \in 0 .. MaxBindings /\ MaxBindings \in Nat
  <2>1. host.up
    BY DEF Mirror!Change, Mirror!Bind, Mirror!Update, Mirror!Patch, Mirror!Operation, Mirror!Prune,
           Mirror!Remove, Mirror!Publish
  <2> QED
    BY <2>1, MirrorAssumption DEF MirrorInv, MirrorTypes
<1> DEFINE now == Mirror!Now
<1>2. now \in Mirror!State
  <2>1. Len(hostLog) \in Nat /\ 1 <= Len(hostLog)
    BY <1>1, LenProperties DEF MirrorInv, MirrorTypes, HostCounts, Stretch
  <2> QED
    BY <2>1, ElementOfSeq DEF MirrorInv, MirrorTypes, Mirror!Now
<1> HIDE DEF now
<1> USE <1>1, <1>2, NothingIsState DEF HostEvent, Mirror!State, Mirror!Nothing, Mirror!Apply
<1>3. CASE Mirror!Bind
  <2>1. used' \in Mirror!Epoch
    BY <1>3 DEF Mirror!Bind, Mirror!Epoch
  <2>2. PICK t \in Text : Mirror!Publish([now EXCEPT !.epoch = used', !.text = t],
                                         [type |-> "binding", epoch |-> used', text |-> t])
    BY <1>3 DEF Mirror!Bind, now
  <2> DEFINE e == [type |-> "binding", epoch |-> used', text |-> t]
             s == [now EXCEPT !.epoch = used', !.text = t]
  <2>3. e \in HostEvent /\ s \in Mirror!State /\ s = Mirror!Apply(now, e)
    BY <2>1
  <2>4. used' \in 0 .. MaxBindings
    BY <2>1 DEF Mirror!Epoch
  <2> HIDE DEF e, s
  <2> QED
    BY <2>2, <2>3, <2>4, PublishKeeps DEF now, e, s
<1>4. CASE Mirror!Update
  <2>1. PICK t \in Text : Mirror!Publish([now EXCEPT !.text = t],
                                         [type |-> "binding", epoch |-> now.epoch, text |-> t])
    BY <1>4 DEF Mirror!Update, now
  <2>2. now.epoch \in Mirror!Epoch /\ used' = used
    BY <1>4 DEF Mirror!Update, now
  <2> QED
    BY <2>1, <2>2, PublishKeeps DEF now
<1>5. CASE Mirror!Patch
  <2>1. PICK t \in Text : Mirror!Publish([now EXCEPT !.text = t],
                                         [type |-> "binding-patch", epoch |-> now.epoch, text |-> t])
    BY <1>5 DEF Mirror!Patch, now
  <2>2. now.epoch \in Mirror!Epoch /\ used' = used
    BY <1>5 DEF Mirror!Patch, now
  <2> QED
    BY <2>1, <2>2, PublishKeeps DEF now
<1>6. CASE Mirror!Operation
  <2>1. now.epoch \in Mirror!Epoch /\ used' = used
        /\ Mirror!Publish([now EXCEPT !.ops = @ \cup {now.epoch}],
                          [type |-> "prompt-operation", epoch |-> now.epoch])
    BY <1>6 DEF Mirror!Operation, now
  <2> QED
    BY <2>1, PublishKeeps DEF now
<1>7. CASE Mirror!Prune
  <2>1. PICK e \in now.ops : Mirror!Publish([now EXCEPT !.ops = @ \ {e}],
                                            [type |-> "operation-pruned", epoch |-> e])
    BY <1>7 DEF Mirror!Prune, now
  <2>2. e \in Mirror!Epoch /\ used' = used
    BY <1>7 DEF Mirror!Prune
  <2> QED
    BY <2>1, <2>2, PublishKeeps DEF now
<1>8. CASE Mirror!Remove
  <2>1. now.epoch \in Mirror!Epoch /\ used' = used
        /\ Mirror!Publish([Mirror!Nothing EXCEPT !.ops = now.ops \ {now.epoch}],
                          [type |-> "binding-removed", epoch |-> now.epoch])
    BY <1>8 DEF Mirror!Remove, now
  <2> QED
    BY <2>1, PublishKeeps DEF now
<1> QED
  BY <1>3, <1>4, <1>5, <1>6, <1>7, <1>8 DEF Mirror!Change

(* The host's answers.  Only that of a recovery matters.                   *)
LEMMA HostAnswersKeep ==
  ASSUME MirrorInv, conn.open, conn'.open, conn' \in HostConn, conn'.wire = conn.wire,
         UNCHANGED <<hostLog, news, host, used, hostClient, facade>>,
         conn'.answer \in Reply, conn'.asked = Mirror!None,
         conn'.answer.type = "recovered" => conn.asked.type = "recover" /\ Completes(conn'.answer)
  PROVE  MirrorInv'
<1>1. MirrorTypes' /\ HostCounts' /\ Copied'
  BY DEF MirrorInv, MirrorTypes, HostCounts, Copied
<1>2. HostAttached'
  BY DEF MirrorInv, HostAttached
<1>3. Heard'
  BY DEF MirrorInv, Heard, Mirror!EventSeq
<1>4. ~AsksToRecover' /\ (conn'.answer.type = "recovered" => AsksToRecover)
  BY ClosedIsQuiet DEF AsksToRecover
<1>5. \A r \in Reply : Completes(r)' = Completes(r)
  BY DEF Completes, Mirror!EventSeq
<1>6. \A r \in Reply : Coming(r)' => Coming(r) \/ r = conn'.answer
  BY DEF Coming, OnWire
<1>7. AsksToRecover =>
        /\ hostClient.resolved.type # "recovered"
        /\ \A i \in DOMAIN conn.wire : conn.wire[i].type # "recovered"
  <2> SUFFICES ASSUME AsksToRecover
               PROVE  /\ hostClient.resolved.type # "recovered"
                      /\ \A i \in DOMAIN conn.wire : conn.wire[i].type # "recovered"
    OBVIOUS
  <2>1. \A r \in Reply : r.type = "recovered" => ~Coming(r)
    BY DEF MirrorInv, Recoveries
  <2>2. hostClient.resolved.type = "recovered" => hostClient.resolved \in Reply
    BY ClosedIsQuiet DEF MirrorInv, MirrorTypes, MirrorClient
  <2>3. \A i \in DOMAIN conn.wire : conn.wire[i].type = "recovered" => conn.wire[i] \in Reply
    <3>1. conn.wire \in Seq(HostMessage)
      BY DEF MirrorInv, MirrorTypes, HostConn
    <3>2. \A i \in DOMAIN conn.wire : conn.wire[i] \in HostMessage
      BY <3>1, ElementOfSeq, LenProperties
    <3> QED
      BY <3>2, MessageHas
  <2> QED
    BY <2>1, <2>2, <2>3 DEF Coming, OnWire
<1>8. Recoveries'
  <2>1. ASSUME NEW r \in Reply, r.type = "recovered", Coming(r)'
        PROVE  Completes(r)' /\ ~AsksToRecover'
    <3>1. Completes(r)
      BY <1>6, <2>1 DEF MirrorInv, Recoveries, AsksToRecover
    <3> QED
      BY <1>4, <1>5, <3>1
  <2>2. hostClient.resolved.type = "recovered" => conn'.answer.type # "recovered"
    BY <1>4, <1>7
  <2>3. \A i \in DOMAIN conn.wire : conn.wire[i].type = "recovered" =>
          /\ hostClient.resolved.type # "recovered" /\ conn'.answer.type # "recovered"
          /\ \A j \in DOMAIN conn.wire : conn.wire[j].type = "recovered" => i = j
    BY <1>4, <1>7 DEF MirrorInv, Recoveries
  <2> QED
    BY <1>4, <2>1, <2>2, <2>3 DEF Recoveries
<1> QED
  BY <1>1, <1>2, <1>3, <1>8 DEF MirrorInv

LEMMA HostRepliesKeep ==
  ASSUME MirrorInv, Mirror!HostRegister \/ Mirror!HostRecover \/ Mirror!HostRead
  PROVE  MirrorInv'
<1>1. /\ conn.open /\ conn \in HostConn /\ Len(hostLog) \in Nat /\ Mirror!EventSeq \in Nat
      /\ host.first \in Nat
  BY ClosedIsQuiet, LenProperties
  DEF MirrorInv, MirrorTypes, Mirror!HostRegister, Mirror!HostRecover, Mirror!HostRead, Mirror!Idle
<1>2. UNCHANGED <<hostLog, news, host, used, hostClient, facade>>
  BY DEF Mirror!HostRegister, Mirror!HostRecover, Mirror!HostRead, Mirror!hostVars
<1>3. CASE Mirror!HostRegister
  <2>1. [type |-> "registered"] \in Reply
    BY DEF Reply
  <2>2. /\ conn' \in HostConn /\ conn'.open /\ conn'.wire = conn.wire /\ conn'.asked = Mirror!None
        /\ conn'.answer \in Reply /\ conn'.answer.type = "registered"
    BY <1>1, <1>3, <2>1 DEF Mirror!HostRegister, HostConn, Question
  <2> QED
    BY <1>1, <1>2, <2>2, HostAnswersKeep
<1>4. CASE Mirror!HostRead
  <2> DEFINE r == [type |-> "session", epoch |-> Mirror!Now.epoch, text |-> Mirror!Now.text]
  <2>1. Mirror!Now \in Mirror!State
    BY <1>1, ClosedIsQuiet, ElementOfSeq DEF MirrorInv, MirrorTypes, Mirror!Now, Stretch
  <2>2. r \in Reply /\ r.type = "session"
    BY <2>1 DEF Reply, Mirror!State
  <2> HIDE DEF r
  <2>3. conn' = [conn EXCEPT !.asked = Mirror!None, !.answer = r]
    BY <1>4 DEF Mirror!HostRead, Mirror!Answer, r
  <2>4. /\ conn' \in HostConn /\ conn'.open /\ conn'.wire = conn.wire /\ conn'.asked = Mirror!None
        /\ conn'.answer = r
    BY <1>1, <2>2, <2>3 DEF HostConn, Question
  <2> QED
    BY <1>1, <1>2, <2>2, <2>4, HostAnswersKeep
<1>5. CASE Mirror!HostRecover
  <2> DEFINE after == conn.asked.after
             r == [type |-> "recovered", seq |-> Mirror!EventSeq,
                   first |-> Mirror!Max({after + 1, host.first}),
                   replace |-> ~(after > 0 /\ after <= Mirror!EventSeq /\ after >= host.first - 1)]
  <2>1. conn' = [conn EXCEPT !.asked = Mirror!None, !.answer = r] /\ conn.asked.type = "recover"
    BY <1>5 DEF Mirror!HostRecover, Mirror!Answer
  <2>2. after \in Nat /\ hostClient.seq \in Nat /\ hostClient.base \in Nat
    BY <1>1, <2>1 DEF MirrorInv, MirrorTypes, MirrorClient, HostConn, Question, Mirror!None
  <2>3. hostClient.recovering /\ after \in {0, hostClient.seq}
    BY <2>1 DEF MirrorInv, Recoveries, AsksToRecover
  <2>4. Mirror!Max({after + 1, host.first}) \in Nat
    <3> DEFINE both == {after + 1, host.first}
    <3>1. both \subseteq Nat
      BY <1>1, <2>2
    <3>2. \E x \in both : \A y \in both : x >= y
      <4>1. after + 1 >= host.first \/ host.first >= after + 1
        BY <1>1, <2>2
      <4> QED
        BY <1>1, <2>2, <4>1
    <3> HIDE DEF both
    <3>3. Mirror!Max(both) \in both
      BY <3>2 DEF Mirror!Max
    <3> QED
      BY <3>1, <3>3 DEF both
  <2>5. r \in Reply /\ r.type = "recovered"
    BY <1>1, <2>4 DEF Reply
  <2>6. Completes(r)
    <3>1. r.seq = Mirror!EventSeq
      OBVIOUS
    <3>2. CASE ~hostClient.mixed
      <4>1. hostClient.seq = 0 \/ hostClient.base + 1 + hostClient.seq <= Len(hostLog)
        BY <3>2 DEF MirrorInv, Copied
      <4>2. hostClient.base = host.base
        BY <1>1 DEF MirrorInv, HostAttached
      <4>3. hostClient.seq <= Mirror!EventSeq
        BY <1>1, <2>2, <4>1, <4>2 DEF Mirror!EventSeq
      <4> QED
        BY <1>1, <2>3, <3>1, <4>3 DEF Completes
    <3>3. CASE r.replace /\ hostClient.mixed
      BY <1>1, <2>3, <3>1, <3>3 DEF Completes
    <3>4. CASE ~r.replace
      <4>1. after > 0 /\ after <= Mirror!EventSeq
        BY <3>4
      <4>2. hostClient.seq <= Mirror!EventSeq
        BY <2>3, <4>1
      <4> QED
        BY <1>1, <2>3, <3>1, <4>2 DEF Completes
    <3> QED
      BY <2>5, <3>2, <3>3, <3>4
  <2> HIDE DEF r, after
  <2>7. /\ conn' \in HostConn /\ conn'.open /\ conn'.wire = conn.wire /\ conn'.asked = Mirror!None
        /\ conn'.answer = r
    BY <1>1, <2>1, <2>5 DEF HostConn, Question
  <2> QED
    BY <1>1, <1>2, <2>1, <2>5, <2>6, <2>7, HostAnswersKeep
<1> QED
  BY <1>3, <1>4, <1>5

LEMMA HostSendKeeps ==
  ASSUME MirrorInv, Mirror!HostSend
  PROVE  MirrorInv'
<1>1. /\ conn.open /\ conn \in HostConn /\ conn.answer \in Reply /\ conn.answer \in HostMessage
      /\ conn' = [conn EXCEPT !.answer = Mirror!None, !.wire = Append(@, conn.answer)]
      /\ UNCHANGED <<hostLog, news, host, used, hostClient, facade>>
  BY DEF Mirror!HostSend, Mirror!hostVars, MirrorInv, MirrorTypes, HostConn, HostMessage
<1>2. /\ conn'.wire = Append(conn.wire, conn.answer) /\ conn'.open /\ conn'.asked = conn.asked
      /\ conn'.answer = Mirror!None
  BY <1>1 DEF HostConn
<1>3. /\ conn.wire \in Seq(HostMessage) /\ Len(conn.wire) \in Nat
      /\ DOMAIN conn.wire = 1 .. Len(conn.wire)
      /\ conn'.wire \in Seq(HostMessage) /\ DOMAIN conn'.wire = 1 .. Len(conn.wire) + 1
      /\ conn'.wire[Len(conn.wire) + 1] = conn.answer
      /\ \A i \in 1 .. Len(conn.wire) : conn'.wire[i] = conn.wire[i]
  <2>1. conn.wire \in Seq(HostMessage)
    BY <1>1 DEF HostConn
  <2> QED
    BY <1>1, <1>2, <2>1, LenProperties, AppendProperties
<1>4. conn' \in HostConn
  BY <1>1, <1>3 DEF HostConn
<1>5. MirrorTypes' /\ HostCounts' /\ Copied'
  BY <1>1, <1>4 DEF MirrorInv, MirrorTypes, HostCounts, Copied
<1>6. HostAttached'
  BY <1>1, <1>2 DEF MirrorInv, HostAttached
<1>7. conn.answer.type # "event"
  BY <1>1 DEF Reply
<1>8. Heard'
  BY <1>1, <1>2, <1>3, <1>7 DEF MirrorInv, Heard, Mirror!EventSeq
<1>9. Recoveries'
  <2>1. \A r \in Reply : Coming(r)' => Coming(r)
    BY <1>1, <1>2, <1>3, ClosedIsQuiet DEF Coming, OnWire
  <2>2. \A r \in Reply : Completes(r)' = Completes(r)
    BY <1>1 DEF Completes, Mirror!EventSeq
  <2>3. AsksToRecover' = AsksToRecover
    BY <1>2 DEF AsksToRecover
  <2>4. \A r \in Reply : r.type = "recovered" /\ Coming(r)' => Completes(r)' /\ ~AsksToRecover'
    BY <2>1, <2>2, <2>3 DEF MirrorInv, Recoveries
  <2>5. ASSUME NEW i \in DOMAIN conn'.wire, conn'.wire[i].type = "recovered"
        PROVE  /\ hostClient.resolved.type # "recovered"
               /\ \A j \in DOMAIN conn'.wire : conn'.wire[j].type = "recovered" => i = j
    <3>1. CASE i \in DOMAIN conn.wire
      <4>1. conn.wire[i].type = "recovered"
        BY <1>3, <2>5, <3>1
      <4>2. hostClient.resolved.type # "recovered" /\ conn.answer.type # "recovered"
            /\ \A j \in DOMAIN conn.wire : conn.wire[j].type = "recovered" => i = j
        BY <3>1, <4>1 DEF MirrorInv, Recoveries
      <4> QED
        BY <1>3, <4>2
    <3>2. CASE i = Len(conn.wire) + 1
      <4>1. conn.answer.type = "recovered"
        BY <1>3, <2>5, <3>2
      <4>2. hostClient.resolved.type # "recovered"
            /\ \A j \in DOMAIN conn.wire : conn.wire[j].type # "recovered"
        BY <4>1 DEF MirrorInv, Recoveries
      <4> QED
        BY <1>3, <3>2, <4>2
    <3> QED
      BY <1>3, <2>5, <3>1, <3>2
  <2> QED
    BY <1>1, <1>2, <2>3, <2>4, <2>5, ClosedIsQuiet DEF MirrorInv, Recoveries
<1> QED
  BY <1>5, <1>6, <1>8, <1>9 DEF MirrorInv

-----------------------------------------------------------------------------
(* The client.  It leaves its connection behind.                           *)
LEMMA ClientLeaves ==
  ASSUME MirrorInv, conn' = Mirror!Shut, UNCHANGED <<hostLog, news, used>>,
         host' = host \/ host' = [host EXCEPT !.up = FALSE],
         hostClient' \in MirrorClient, facade' \in Mirror!State,
         hostClient'.stage \in {"idle", "connecting"}, hostClient'.resolved = Mirror!None,
         hostClient'.stage = "connecting" => hostClient'.buffer = <<>>,
         hostClient'.base = hostClient.base, hostClient'.seq = hostClient.seq,
         hostClient'.mirror = hostClient.mirror, hostClient'.mixed = hostClient.mixed
  PROVE  MirrorInv'
<1>1. Mirror!Shut \in HostConn /\ ~conn'.open /\ conn'.asked = Mirror!None
      /\ conn'.answer = Mirror!None /\ conn'.wire = <<>>
  BY DEF Mirror!Shut, HostConn, Question
<1>2. MirrorTypes' /\ HostCounts'
  BY <1>1 DEF MirrorInv, MirrorTypes, HostCounts
<1>3. HostAttached' /\ Heard'
  BY <1>1 DEF HostAttached, Heard
<1>4. \A r : Coming(r)' => r = Mirror!None
  BY <1>1 DEF Coming, OnWire
<1>5. Recoveries'
  BY <1>1, <1>4 DEF Recoveries, AsksToRecover, Mirror!None
<1>6. Copied'
  BY DEF MirrorInv, Copied
<1> QED
  BY <1>2, <1>3, <1>5, <1>6 DEF MirrorInv

LEMMA FailKeeps ==
  ASSUME MirrorInv, Mirror!Fail, UNCHANGED <<hostLog, news, used>>,
         host' = host \/ host' = [host EXCEPT !.up = FALSE], facade' \in Mirror!State
  PROVE  MirrorInv'
<1>1. hostClient \in MirrorClient /\ conn' = Mirror!Shut
      /\ hostClient' = [hostClient EXCEPT !.stage = "idle", !.resolved = Mirror!None]
  BY DEF MirrorInv, MirrorTypes, Mirror!Fail
<1>2. /\ hostClient' \in MirrorClient /\ hostClient'.stage = "idle"
      /\ hostClient'.resolved = Mirror!None /\ hostClient'.base = hostClient.base
      /\ hostClient'.seq = hostClient.seq /\ hostClient'.mirror = hostClient.mirror
      /\ hostClient'.mixed = hostClient.mixed
  BY <1>1 DEF MirrorClient, Mirror!Stages
<1> QED
  BY <1>1, <1>2, ClientLeaves

LEMMA BreaksKeep ==
  ASSUME MirrorInv, Mirror!Disconnect \/ Mirror!HostDies \/ Mirror!OrphanFails
  PROVE  MirrorInv'
<1>1. Mirror!Nothing \in Mirror!State /\ facade \in Mirror!State
  BY NothingIsState DEF MirrorInv, MirrorTypes
<1>2. CASE Mirror!Disconnect \/ Mirror!OrphanFails
  BY <1>1, <1>2, FailKeeps DEF Mirror!Disconnect, Mirror!OrphanFails, Mirror!hostVars
<1>3. CASE Mirror!HostDies /\ conn.open
  BY <1>1, <1>3, FailKeeps DEF Mirror!HostDies
<1>4. CASE Mirror!HostDies /\ ~conn.open
  <2>1. /\ UNCHANGED <<hostLog, news, used, conn, hostClient, facade>>
        /\ host' = [host EXCEPT !.up = FALSE]
    BY <1>4 DEF Mirror!HostDies
  <2>2. host' \in [up : BOOLEAN, base : Nat, first : Nat] /\ ~host'.up
    BY <2>1 DEF MirrorInv, MirrorTypes
  <2>3. MirrorTypes' /\ HostCounts' /\ HostAttached' /\ Heard' /\ Copied'
    BY <1>4, <2>1, <2>2
    DEF MirrorInv, MirrorTypes, HostCounts, HostAttached, Heard, Copied
  <2>4. \A r : Coming(r)' => r = Mirror!None
    BY <1>4, <2>1, ClosedIsQuiet DEF Coming, OnWire
  <2>5. conn' = Mirror!Shut /\ hostClient'.resolved = Mirror!None
    BY <1>4, <2>1 DEF MirrorInv, HostAttached
  <2>6. Recoveries'
    BY <2>4, <2>5 DEF Recoveries, AsksToRecover, Mirror!Shut, Mirror!None
  <2> QED
    BY <2>3, <2>6 DEF MirrorInv
<1> QED
  BY <1>2, <1>3, <1>4

LEMMA TimeoutKeeps ==
  ASSUME MirrorInv, Mirror!Timeout
  PROVE  MirrorInv'
<1>1. PICK s \in {"connecting", "idle"} :
        hostClient' = [hostClient EXCEPT !.stage = s,
                         !.recovering = hostClient.stage = "registering" /\ @, !.buffer = <<>>]
  BY DEF Mirror!Timeout
<1>2. /\ conn' = Mirror!Shut /\ hostClient.resolved = Mirror!None
      /\ UNCHANGED <<hostLog, news, host, used, facade>>
  BY DEF Mirror!Timeout, Mirror!hostVars
<1>3. hostClient \in MirrorClient /\ facade \in Mirror!State
  BY DEF MirrorInv, MirrorTypes
<1> DEFINE still == hostClient.stage = "registering" /\ hostClient.recovering
<1>5. hostClient' = [hostClient EXCEPT !.stage = s, !.recovering = still, !.buffer = <<>>]
  BY <1>1, <1>3 DEF MirrorClient
<1>6. still \in BOOLEAN /\ s \in Mirror!Stages /\ <<>> \in Seq(Nat)
  BY EmptySeq DEF Mirror!Stages
<1> HIDE DEF still
<1>4. /\ hostClient' \in MirrorClient /\ hostClient'.stage = s
      /\ hostClient'.resolved = Mirror!None /\ hostClient'.base = hostClient.base
      /\ hostClient'.seq = hostClient.seq /\ hostClient'.mirror = hostClient.mirror
      /\ hostClient'.mixed = hostClient.mixed /\ hostClient'.buffer = <<>>
  BY <1>2, <1>3, <1>5, <1>6 DEF MirrorClient
<1> QED
  BY <1>2, <1>3, <1>4, ClientLeaves

(* A new client, and its connection.                                       *)
LEMMA InitializeKeeps ==
  ASSUME MirrorInv, Mirror!Initialize
  PROVE  MirrorInv'
<1>1. /\ hostClient' = [Mirror!Fresh EXCEPT !.stage = "connecting"]
      /\ UNCHANGED <<hostLog, news, host, used, conn, facade>> /\ hostClient.stage = "idle"
  BY DEF Mirror!Initialize, Mirror!hostVars
<1>5. <<>> \in Seq(Nat) /\ Mirror!Nothing \in Mirror!State
  BY NothingIsState, EmptySeq
<1>2. /\ hostClient' \in MirrorClient /\ hostClient'.stage = "connecting"
      /\ hostClient'.resolved = Mirror!None /\ hostClient'.buffer = <<>>
      /\ hostClient'.seq = 0 /\ hostClient'.mirror = Mirror!Nothing
  BY <1>1, <1>5 DEF Mirror!Fresh, MirrorClient, Mirror!Stages
<1>3. ~conn.open /\ conn = Mirror!Shut
  BY <1>1 DEF MirrorInv, HostAttached
<1>4. MirrorTypes' /\ HostCounts' /\ HostAttached' /\ Heard' /\ Copied'
  BY <1>1, <1>2, <1>3
  DEF MirrorInv, MirrorTypes, HostCounts, HostAttached, Heard, Copied, Mirror!Shut
<1>6. \A r : Coming(r)' => r = Mirror!None
  BY <1>1, <1>2, <1>3 DEF Coming, OnWire, Mirror!Shut
<1>7. Recoveries'
  BY <1>1, <1>2, <1>3, <1>6 DEF Recoveries, AsksToRecover, Mirror!Shut, Mirror!None
<1> QED
  BY <1>4, <1>7 DEF MirrorInv

LEMMA ConnectKeeps ==
  ASSUME MirrorInv, Mirror!Connect
  PROVE  MirrorInv'
<1>1. /\ conn' = [Mirror!Shut EXCEPT !.open = TRUE, !.asked = [type |-> "register"]]
      /\ hostClient' = [hostClient EXCEPT !.stage = "registering", !.resolved = Mirror!None,
                          !.base = host.base,
                          !.mixed = hostClient.mixed
                                    \/ (hostClient.seq > 0 /\ hostClient.base # host.base)]
      /\ UNCHANGED <<hostLog, news, host, used, facade>>
      /\ hostClient.stage = "connecting" /\ host.up
  BY DEF Mirror!Connect, Mirror!hostVars
<1>2. hostClient \in MirrorClient /\ host.base \in Nat
  BY DEF MirrorInv, MirrorTypes
<1> DEFINE mixes == hostClient.mixed \/ (hostClient.seq > 0 /\ hostClient.base # host.base)
<1>9. /\ hostClient' = [hostClient EXCEPT !.stage = "registering", !.resolved = Mirror!None,
                          !.base = host.base, !.mixed = mixes]
      /\ mixes \in BOOLEAN
      /\ ~mixes => ~hostClient.mixed /\ (hostClient.seq = 0 \/ hostClient.base = host.base)
  BY <1>1, <1>2 DEF MirrorClient
<1> HIDE DEF mixes
<1>10. /\ hostClient.buffer = <<>>
       /\ [type |-> "register"] \in Question /\ Mirror!None \in Question
       /\ <<>> \in Seq(HostMessage)
  BY <1>1, EmptySeq DEF MirrorInv, HostAttached, Question
<1>3. /\ hostClient' \in MirrorClient /\ hostClient'.stage = "registering"
      /\ hostClient'.resolved = Mirror!None /\ hostClient'.base = host.base
      /\ hostClient'.buffer = <<>> /\ hostClient'.seq = hostClient.seq
      /\ hostClient'.mirror = hostClient.mirror
      /\ ~hostClient'.mixed =>
           ~hostClient.mixed /\ (hostClient.seq = 0 \/ hostClient.base = host.base)
  BY <1>2, <1>9, <1>10 DEF MirrorClient, Mirror!Stages
<1>4. /\ conn' \in HostConn /\ conn'.open /\ conn'.asked.type = "register"
      /\ conn'.answer = Mirror!None /\ conn'.wire = <<>>
  BY <1>1, <1>10 DEF HostConn, Mirror!Shut
<1>5. MirrorTypes' /\ HostCounts'
  BY <1>1, <1>3, <1>4 DEF MirrorInv, MirrorTypes, HostCounts
<1>6. HostAttached' /\ Heard'
  BY <1>1, <1>3, <1>4 DEF HostAttached, Heard
<1>7. Recoveries'
  BY <1>3, <1>4 DEF Recoveries, AsksToRecover, Coming, OnWire, Mirror!None
<1>8. Copied'
  BY <1>1, <1>3 DEF MirrorInv, Copied
<1> QED
  BY <1>5, <1>6, <1>7, <1>8 DEF MirrorInv

(* Reads of a session, and the registration's answer.                      *)
LEMMA ReadKeeps ==
  ASSUME MirrorInv, Mirror!Read
  PROVE  MirrorInv'
<1>1. /\ conn' = [conn EXCEPT !.asked = [type |-> "read"]]
      /\ UNCHANGED <<hostLog, news, host, used, hostClient, facade>>
      /\ hostClient.stage = "ready"
  BY DEF Mirror!Read, Mirror!hostVars
<1>2. [type |-> "read"] \in Question /\ conn \in HostConn /\ conn.open
  BY <1>1 DEF Question, MirrorInv, MirrorTypes, HostAttached
<1>3. /\ conn' \in HostConn /\ conn'.open /\ conn'.asked.type = "read"
      /\ conn'.answer = conn.answer /\ conn'.wire = conn.wire
  BY <1>1, <1>2 DEF HostConn
<1>4. MirrorTypes' /\ HostCounts' /\ HostAttached' /\ Heard' /\ Copied'
  BY <1>1, <1>2, <1>3
  DEF MirrorInv, MirrorTypes, HostCounts, HostAttached, Heard, Copied, Mirror!EventSeq
<1>5. ~AsksToRecover' /\ \A r : /\ Coming(r)' <=> Coming(r)
                                /\ Completes(r)' <=> Completes(r)
  BY <1>1, <1>3 DEF AsksToRecover, Coming, OnWire, Completes, Mirror!EventSeq
<1>6. Recoveries'
  BY <1>1, <1>3, <1>5 DEF MirrorInv, Recoveries
<1> QED
  BY <1>4, <1>6 DEF MirrorInv

LEMMA ReadAnsweredKeeps ==
  ASSUME MirrorInv, Mirror!ReadAnswered
  PROVE  MirrorInv'
<1> DEFINE r == hostClient.resolved
           lays == hostClient.overlaid \/ facade' # facade
<1>1. /\ r.type = "session" /\ UNCHANGED <<hostLog, news, host, used, conn>>
      /\ hostClient \in MirrorClient /\ facade \in Mirror!State /\ lays \in BOOLEAN
      /\ hostClient' = [hostClient EXCEPT !.resolved = Mirror!None, !.overlaid = lays]
  BY DEF Mirror!ReadAnswered, Mirror!hostVars, MirrorInv, MirrorTypes, MirrorClient
<1>2. r.epoch \in {0} \cup Mirror!Epoch /\ r.text \in Text
  <2>1. r \in Reply
    BY <1>1 DEF MirrorClient, Mirror!None
  <2> QED
    BY <1>1, <2>1 DEF Reply
<1>3. facade' \in Mirror!State /\ (~lays => ~hostClient.overlaid /\ facade' = facade)
  BY <1>1, <1>2 DEF Mirror!ReadAnswered, Mirror!State
<1> HIDE DEF lays, r
<1>4. /\ hostClient' \in MirrorClient /\ hostClient'.overlaid = lays
      /\ hostClient'.resolved = Mirror!None /\ hostClient'.stage = hostClient.stage
      /\ hostClient'.base = hostClient.base /\ hostClient'.seq = hostClient.seq
      /\ hostClient'.mirror = hostClient.mirror /\ hostClient'.mixed = hostClient.mixed
      /\ hostClient'.buffer = hostClient.buffer
      /\ hostClient'.recovering = hostClient.recovering
  BY <1>1 DEF MirrorClient
<1>5. MirrorTypes' /\ HostCounts' /\ HostAttached' /\ Heard' /\ Copied'
  BY <1>1, <1>3, <1>4
  DEF MirrorInv, MirrorTypes, HostCounts, HostAttached, Heard, Copied, Mirror!EventSeq
<1>6. /\ AsksToRecover' <=> AsksToRecover
      /\ \A q \in Reply : (Coming(q)' => Coming(q)) /\ (Completes(q) => Completes(q)')
  <2>1. Mirror!None \notin Reply
    BY ClosedIsQuiet
  <2> QED
    BY <1>1, <1>4, <2>1 DEF AsksToRecover, Coming, OnWire, Completes, Mirror!EventSeq
<1>7. Recoveries'
  BY <1>1, <1>4, <1>6 DEF MirrorInv, Recoveries, Mirror!None
<1> QED
  BY <1>5, <1>7 DEF MirrorInv

(* While the client does not recover, no recovery's answer is outstanding. *)
LEMMA NoneOutstanding ==
  ASSUME MirrorInv, ~hostClient.recovering
  PROVE  /\ ~AsksToRecover /\ hostClient.resolved.type # "recovered"
         /\ conn.answer.type # "recovered"
         /\ \A i \in DOMAIN conn.wire : conn.wire[i].type # "recovered"
<1>1. /\ conn \in HostConn /\ hostClient \in MirrorClient
      /\ \A i \in DOMAIN conn.wire : conn.wire[i] \in HostMessage
  BY LenProperties DEF MirrorInv, MirrorTypes, HostConn
<1>2. \A q \in Reply : ~(q.type = "recovered" /\ Coming(q))
  BY DEF MirrorInv, Recoveries, Completes
<1>3. \A i \in DOMAIN conn.wire : conn.wire[i].type # "recovered"
  BY <1>1, <1>2, MessageHas DEF Coming, OnWire
<1>4. conn.answer.type # "recovered" /\ hostClient.resolved.type # "recovered"
  BY <1>1, <1>2 DEF Coming, HostConn, MirrorClient, Mirror!None
<1> QED
  BY <1>3, <1>4 DEF MirrorInv, Recoveries

LEMMA RegisteredKeeps ==
  ASSUME MirrorInv, Mirror!Registered
  PROVE  MirrorInv'
<1>1. hostClient.resolved.type = "registered" /\ UNCHANGED <<hostLog, news, host, used, facade>>
  BY DEF Mirror!Registered, Mirror!hostVars
<1>2. hostClient \in MirrorClient /\ conn \in HostConn /\ facade \in Mirror!State
  BY DEF MirrorInv, MirrorTypes
<1>3. CASE hostClient.recovering
  BY <1>1, <1>2, <1>3, FailKeeps DEF Mirror!Registered
<1>4. CASE ~hostClient.recovering
  <2> DEFINE q == [type |-> "recover", after |-> hostClient.seq]
  <2>1. /\ conn' = [conn EXCEPT !.asked = q]
        /\ hostClient' = [hostClient EXCEPT !.stage = "recovering", !.resolved = Mirror!None,
                            !.recovering = TRUE, !.full = FALSE, !.buffer = <<>>]
    BY <1>4 DEF Mirror!Registered, Mirror!Ask
  <2>2. q \in Question /\ q.type = "recover" /\ q.after = hostClient.seq
    BY <1>2 DEF Question, MirrorClient
  <2> HIDE DEF q
  <2>3. /\ conn' \in HostConn /\ conn'.open = conn.open /\ conn'.asked = q
        /\ conn'.answer = conn.answer /\ conn'.wire = conn.wire
    BY <1>2, <2>1, <2>2 DEF HostConn
  <2>4. <<>> \in Seq(Nat)
    BY EmptySeq
  <2>5. /\ hostClient' \in MirrorClient /\ hostClient'.stage = "recovering"
        /\ hostClient'.resolved = Mirror!None /\ hostClient'.recovering
        /\ hostClient'.buffer = <<>> /\ hostClient'.base = hostClient.base
        /\ hostClient'.seq = hostClient.seq /\ hostClient'.mirror = hostClient.mirror
        /\ hostClient'.mixed = hostClient.mixed
    BY <1>2, <2>1, <2>4 DEF MirrorClient, Mirror!Stages
  <2>6. conn.open
    BY <1>1 DEF MirrorInv, HostAttached, Mirror!None
  <2>7. MirrorTypes' /\ HostCounts' /\ HostAttached' /\ Heard' /\ Copied'
    BY <1>1, <2>3, <2>5, <2>6
    DEF MirrorInv, MirrorTypes, HostCounts, HostAttached, Heard, Copied, Mirror!EventSeq
  <2>8. Recoveries'
    BY <1>4, <2>2, <2>3, <2>5, NoneOutstanding
    DEF Recoveries, AsksToRecover, Coming, OnWire, Mirror!None
  <2> QED
    BY <2>7, <2>8 DEF MirrorInv
<1> QED
  BY <1>3, <1>4

(* The first message of the wire is read.                                  *)
LEMMA Reads ==
  ASSUME MirrorInv, conn.open, conn.wire # <<>>, NEW q \in Question,
         conn' = [conn EXCEPT !.wire = Tail(@), !.asked = q]
  PROVE  /\ conn' \in HostConn /\ conn'.open /\ conn'.asked = q /\ conn'.answer = conn.answer
         /\ 1 \in DOMAIN conn.wire /\ Head(conn.wire) = conn.wire[1]
         /\ Head(conn.wire) \in HostMessage
         /\ \A i \in DOMAIN conn'.wire :
              /\ i \in Nat \ {0} /\ i + 1 \in DOMAIN conn.wire
              /\ conn'.wire[i] = conn.wire[i + 1]
<1>1. conn \in HostConn /\ conn.wire \in Seq(HostMessage)
  BY DEF MirrorInv, MirrorTypes, HostConn
<1>2. Tail(conn.wire) \in Seq(HostMessage)
  BY <1>1, HeadTailProperties
<1>3. conn' \in HostConn /\ conn'.open /\ conn'.asked = q /\ conn'.answer = conn.answer
      /\ conn'.wire = Tail(conn.wire)
  BY <1>1, <1>2 DEF HostConn
<1>4. 1 \in DOMAIN conn.wire /\ Head(conn.wire) = conn.wire[1]
  BY <1>1, LenProperties, HeadTailProperties, EmptySeq
<1>5. Head(conn.wire) \in HostMessage
  BY <1>1, HeadTailProperties
<1>6. \A i \in DOMAIN conn'.wire :
        i \in Nat \ {0} /\ i + 1 \in DOMAIN conn.wire /\ conn'.wire[i] = conn.wire[i + 1]
  BY <1>1, <1>3, LenProperties, HeadTailProperties
<1> QED
  BY <1>3, <1>4, <1>5, <1>6

LEMMA TakesAnswer ==
  ASSUME MirrorInv, conn.open, conn.wire # <<>>, Head(conn.wire).type # "event",
         conn' = [conn EXCEPT !.wire = Tail(@)], hostClient.resolved = Mirror!None,
         hostClient' = [hostClient EXCEPT !.resolved = Head(conn.wire)],
         UNCHANGED <<hostLog, news, host, used, facade>>
  PROVE  MirrorInv'
<1> DEFINE m == Head(conn.wire)
<1>1. conn \in HostConn /\ hostClient \in MirrorClient
  BY DEF MirrorInv, MirrorTypes
<1>2. conn.asked \in Question /\ conn' = [conn EXCEPT !.wire = Tail(@), !.asked = conn.asked]
  BY <1>1 DEF HostConn
<1>3. /\ conn' \in HostConn /\ conn'.open /\ conn'.asked = conn.asked
      /\ conn'.answer = conn.answer
      /\ 1 \in DOMAIN conn.wire /\ m = conn.wire[1] /\ m \in HostMessage
      /\ \A i \in DOMAIN conn'.wire :
           i \in Nat \ {0} /\ i + 1 \in DOMAIN conn.wire /\ conn'.wire[i] = conn.wire[i + 1]
  BY <1>2, Reads
<1>4. m \in Reply
  BY <1>3, MessageHas
<1> HIDE DEF m
<1>5. /\ hostClient' \in MirrorClient /\ hostClient'.resolved = m
      /\ hostClient'.stage = hostClient.stage
      /\ hostClient'.base = hostClient.base /\ hostClient'.seq = hostClient.seq
      /\ hostClient'.mirror = hostClient.mirror /\ hostClient'.mixed = hostClient.mixed
      /\ hostClient'.buffer = hostClient.buffer
      /\ hostClient'.recovering = hostClient.recovering
      /\ hostClient'.overlaid = hostClient.overlaid
  BY <1>1, <1>4 DEF MirrorClient, m
<1>6. MirrorTypes' /\ HostCounts' /\ HostAttached' /\ Heard' /\ Copied'
  BY <1>3, <1>5
  DEF MirrorInv, MirrorTypes, HostCounts, HostAttached, Heard, Copied, Mirror!EventSeq
<1>7. /\ AsksToRecover' <=> AsksToRecover
      /\ \A q \in Reply : (Coming(q)' => Coming(q)) /\ (Completes(q) => Completes(q)')
  BY <1>3, <1>5 DEF AsksToRecover, Coming, OnWire, Completes, Mirror!EventSeq
<1>8. m.type = "recovered" =>
        /\ conn.answer.type # "recovered"
        /\ \A i \in DOMAIN conn'.wire : conn'.wire[i].type # "recovered"
  BY <1>3 DEF MirrorInv, Recoveries
<1>9. \A i \in DOMAIN conn'.wire : conn'.wire[i].type = "recovered" =>
        /\ conn.answer.type # "recovered"
        /\ \A j \in DOMAIN conn'.wire : conn'.wire[j].type = "recovered" => i = j
  BY <1>3 DEF MirrorInv, Recoveries
<1>10. Recoveries'
  BY <1>3, <1>5, <1>7, <1>8, <1>9 DEF MirrorInv, Recoveries
<1> QED
  BY <1>6, <1>10 DEF MirrorInv

LEMMA TakesEvent ==
  ASSUME MirrorInv, conn.open, conn.wire # <<>>, Head(conn.wire).type = "event",
         NEW q \in Question, conn' = [conn EXCEPT !.wire = Tail(@), !.asked = q],
         UNCHANGED <<hostLog, news, host, used>>, facade' \in Mirror!State, Copied',
         hostClient' \in MirrorClient, hostClient'.stage = hostClient.stage,
         hostClient'.resolved = hostClient.resolved, hostClient'.base = hostClient.base,
         hostClient'.mixed = hostClient.mixed,
         hostClient.stage = "connecting" => hostClient'.buffer = <<>>,
         \A i \in DOMAIN hostClient'.buffer : hostClient'.buffer[i] <= Mirror!EventSeq,
         \/ q = conn.asked /\ hostClient'.recovering = hostClient.recovering
            /\ (hostClient.recovering => hostClient'.seq = hostClient.seq)
         \/ ~hostClient.recovering /\ hostClient'.recovering
            /\ q = [type |-> "recover", after |-> 0]
  PROVE  MirrorInv'
<1>1. conn \in HostConn /\ hostClient \in MirrorClient
  BY DEF MirrorInv, MirrorTypes
<1>2. /\ conn' \in HostConn /\ conn'.open /\ conn'.asked = q /\ conn'.answer = conn.answer
      /\ \A i \in DOMAIN conn'.wire :
           i \in Nat \ {0} /\ i + 1 \in DOMAIN conn.wire /\ conn'.wire[i] = conn.wire[i + 1]
  BY Reads
<1>3. MirrorTypes' /\ HostCounts' /\ HostAttached'
  BY <1>2 DEF MirrorInv, MirrorTypes, HostCounts, HostAttached
<1>4. Heard'
  BY <1>2 DEF MirrorInv, Heard, Mirror!EventSeq
<1>5. \A r : Coming(r)' => Coming(r)
  BY <1>2 DEF Coming, OnWire
<1>6. ASSUME q = conn.asked, hostClient.recovering PROVE Recoveries'
  <2>1. /\ AsksToRecover' <=> AsksToRecover
        /\ \A r \in Reply : Completes(r) => Completes(r)'
    BY <1>2, <1>6 DEF AsksToRecover, Completes, Mirror!EventSeq
  <2>2. \A i \in DOMAIN conn'.wire : conn'.wire[i].type = "recovered" =>
          /\ conn.answer.type # "recovered" /\ hostClient.resolved.type # "recovered"
          /\ \A j \in DOMAIN conn'.wire : conn'.wire[j].type = "recovered" => i = j
    BY <1>2 DEF MirrorInv, Recoveries
  <2>3. conn'.asked = conn.asked /\ hostClient'.seq = hostClient.seq /\ hostClient'.recovering
    BY <1>2, <1>6
  <2> QED
    BY <1>2, <1>5, <2>1, <2>2, <2>3 DEF MirrorInv, Recoveries, AsksToRecover
<1>7. ASSUME ~hostClient.recovering PROVE Recoveries'
  <2>1. /\ ~AsksToRecover /\ hostClient'.resolved.type # "recovered"
        /\ conn'.answer.type # "recovered"
        /\ \A i \in DOMAIN conn'.wire : conn'.wire[i].type # "recovered"
    BY <1>2, <1>7, NoneOutstanding
  <2>2. \A r \in Reply : ~(r.type = "recovered" /\ Coming(r)')
    BY <2>1 DEF Coming, OnWire
  <2>3. AsksToRecover' => hostClient'.recovering /\ conn'.asked.after = 0
    BY <1>2, <1>7, <2>1 DEF AsksToRecover
  <2> QED
    BY <1>2, <2>1, <2>2, <2>3 DEF Recoveries
<1>8. Recoveries'
  BY <1>6, <1>7, <1>2 DEF MirrorInv, Recoveries
<1> QED
  BY <1>3, <1>4, <1>8 DEF MirrorInv

(* The host's event n leads from its state to the next one.                *)
LEMMA EventLeads ==
  ASSUME MirrorInv, conn.open, NEW n \in 1 .. Mirror!EventSeq
  PROVE  /\ Mirror!Event(n) \in HostEvent
         /\ host.base + 1 + n \in 1 .. Len(hostLog)
         /\ hostLog[host.base + 1 + n] = Mirror!Apply(hostLog[host.base + n], Mirror!Event(n))
         /\ hostLog[host.base + 1 + n] \in Mirror!State
<1>1. Stretch(hostLog, news, host.base) /\ Mirror!EventSeq \in Nat
  BY ClosedIsQuiet
<1>2. host.base \in Nat /\ Len(hostLog) \in Nat /\ hostLog \in Seq(Mirror!State)
  BY LenProperties DEF MirrorInv, MirrorTypes
<1> DEFINE k == host.base + 1 + n
<1>3. /\ k \in host.base + 2 .. Len(hostLog) /\ k \in 1 .. Len(hostLog)
      /\ k - 1 = host.base + n
  BY <1>1, <1>2 DEF Mirror!EventSeq
<1> HIDE DEF k
<1>4. news[k] \in HostEvent /\ hostLog[k] = Mirror!Apply(hostLog[k - 1], news[k])
  BY <1>1, <1>3 DEF Stretch
<1>5. hostLog[k] \in Mirror!State
  BY <1>2, <1>3, LenProperties
<1> QED
  BY <1>3, <1>4, <1>5 DEF k, Mirror!Event

(* What the client's copy is, if it is not mixed.                          *)
LEMMA CopyIsHost ==
  ASSUME MirrorInv, conn.open, ~hostClient.mixed
  PROVE  /\ hostClient.seq <= Mirror!EventSeq
         /\ hostClient.mirror = hostLog[host.base + 1 + hostClient.seq]
<1>1. /\ Stretch(hostLog, news, host.base) /\ Mirror!EventSeq \in Nat
      /\ hostClient.base = host.base
  BY ClosedIsQuiet DEF MirrorInv, HostAttached
<1>2. host.base \in Nat /\ Len(hostLog) \in Nat /\ hostClient.seq \in Nat
  BY LenProperties DEF MirrorInv, MirrorTypes, MirrorClient
<1>3. CASE hostClient.seq = 0
  BY <1>1, <1>2, <1>3 DEF MirrorInv, Copied, Stretch
<1>4. CASE hostClient.seq # 0
  BY <1>1, <1>2, <1>4 DEF MirrorInv, Copied, Mirror!EventSeq
<1> QED
  BY <1>3, <1>4

LEMMA AppliesEvent ==
  ASSUME MirrorInv, conn.open, conn.wire # <<>>, Head(conn.wire).type = "event",
         conn' = [conn EXCEPT !.wire = Tail(@)], NEW n, n = Head(conn.wire).seq,
         ~hostClient.recovering, n = hostClient.seq + 1,
         hostClient' = [hostClient EXCEPT !.seq = n, !.mirror = Mirror!Apply(@, Mirror!Event(n))],
         facade' = Mirror!Shown(Mirror!Apply(facade, Mirror!Event(n))),
         UNCHANGED <<hostLog, news, host, used>>
  PROVE  MirrorInv'
<1>1. conn \in HostConn /\ hostClient \in MirrorClient /\ facade \in Mirror!State
  BY DEF MirrorInv, MirrorTypes
<1>2. conn.asked \in Question /\ conn' = [conn EXCEPT !.wire = Tail(@), !.asked = conn.asked]
  BY <1>1 DEF HostConn
<1>3. n \in 1 .. Mirror!EventSeq
  <2>1. 1 \in DOMAIN conn.wire /\ Head(conn.wire) = conn.wire[1]
    <3>1. conn.wire \in Seq(HostMessage)
      BY <1>1 DEF HostConn
    <3> QED
      BY <3>1, LenProperties, HeadTailProperties, EmptySeq
  <2> QED
    BY <2>1 DEF MirrorInv, Heard
<1> DEFINE e == Mirror!Event(n)
           s == Mirror!Apply(hostClient.mirror, e)
<1>4. /\ e \in HostEvent /\ host.base + 1 + n <= Len(hostLog)
      /\ hostLog[host.base + 1 + n] = Mirror!Apply(hostLog[host.base + n], e)
  BY <1>3, EventLeads
<1> HIDE DEF e
<1>5. /\ s \in Mirror!State /\ Mirror!Apply(facade, e) \in Mirror!State
      /\ Mirror!Shown(Mirror!Apply(Mirror!Shown(hostClient.mirror), e)) = Mirror!Shown(s)
  BY <1>1, <1>4, ApplyIsState DEF MirrorClient
<1>6. facade' \in Mirror!State
  BY <1>5, NothingIsState DEF e
<1>7. hostClient' = [hostClient EXCEPT !.seq = n, !.mirror = s] /\ n \in Nat
  <2>1. [hostClient EXCEPT !.seq = n].mirror = hostClient.mirror
    BY <1>1 DEF MirrorClient
  <2>2. n \in Nat
    BY <1>3
  <2> QED
    BY <2>1, <2>2 DEF e
<1> HIDE DEF s
<1>8. /\ hostClient' \in MirrorClient /\ hostClient'.stage = hostClient.stage
      /\ hostClient'.resolved = hostClient.resolved /\ hostClient'.base = hostClient.base
      /\ hostClient'.mixed = hostClient.mixed /\ hostClient'.buffer = hostClient.buffer
      /\ hostClient'.recovering = hostClient.recovering
      /\ hostClient'.overlaid = hostClient.overlaid
      /\ hostClient'.seq = n /\ hostClient'.mirror = s
  BY <1>1, <1>5, <1>7 DEF MirrorClient
<1>9. Copied'
  <2>1. hostClient.base = host.base /\ host.base \in Nat /\ hostClient.seq \in Nat
    BY <1>1 DEF MirrorInv, MirrorTypes, HostAttached, MirrorClient
  <2>2. ~hostClient.mixed => s = hostLog[host.base + 1 + n]
    <3>1. n = hostClient.seq + 1
      OBVIOUS
    <3>2. host.base + 1 + hostClient.seq = host.base + n
      BY ONLY <2>1, <3>1
    <3> QED
      BY <1>4, <3>2, CopyIsHost DEF s
  <2>3. hostClient.stage = "ready" /\ ~hostClient.overlaid => facade' = Mirror!Shown(s)
    BY <1>5 DEF MirrorInv, Copied, e
  <2> QED
    BY <1>3, <1>4, <1>8, <2>1, <2>2, <2>3 DEF Copied
<1>10. /\ hostClient.stage = "connecting" => hostClient'.buffer = <<>>
       /\ \A i \in DOMAIN hostClient'.buffer : hostClient'.buffer[i] <= Mirror!EventSeq
  BY <1>8 DEF MirrorInv, Heard, HostAttached
<1> QED
  BY <1>2, <1>6, <1>8, <1>9, <1>10, TakesEvent

(* What becomes of the message that the client reads.                      *)
ReadFrom(q) == conn' = [conn EXCEPT !.wire = Tail(@), !.asked = q]
IsEvent(m) == m.type = "event"
HandsOver(m) == /\ ~IsEvent(m) /\ ReadFrom(conn.asked) /\ UNCHANGED facade
                /\ hostClient.resolved = Mirror!None
                /\ hostClient' = [hostClient EXCEPT !.resolved = m]
Holds(m) == /\ IsEvent(m) /\ hostClient.recovering /\ ReadFrom(conn.asked) /\ UNCHANGED facade
            /\ hostClient' = [hostClient EXCEPT !.buffer = Append(@, m.seq)]
Overflows(m) == Mirror!Fail /\ facade' \in {Mirror!Nothing, facade}
Skips(m) == /\ IsEvent(m) /\ ~hostClient.recovering /\ ReadFrom(conn.asked)
            /\ UNCHANGED <<hostClient, facade>>
Advances(m) == /\ IsEvent(m) /\ ~hostClient.recovering /\ ReadFrom(conn.asked)
               /\ m.seq = hostClient.seq + 1
               /\ hostClient' = [hostClient EXCEPT !.seq = m.seq,
                                   !.mirror = Mirror!Apply(@, Mirror!Event(m.seq))]
               /\ facade' = Mirror!Shown(Mirror!Apply(facade, Mirror!Event(m.seq)))
Misses(m) == /\ IsEvent(m) /\ ~hostClient.recovering
             /\ ReadFrom([type |-> "recover", after |-> 0]) /\ UNCHANGED facade
             /\ hostClient' = [hostClient EXCEPT !.recovering = TRUE, !.full = TRUE,
                                                 !.buffer = <<>>]

LEMMA ReceiveSteps ==
  ASSUME MirrorInv, Mirror!Receive, NEW m, m = Head(conn.wire)
  PROVE  /\ conn.open /\ conn.wire # <<>> /\ UNCHANGED <<hostLog, news, host, used>>
         /\ m \in HostMessage
         /\ IsEvent(m) => m.seq \in Nat /\ m.seq <= Mirror!EventSeq
         /\ HandsOver(m) \/ Holds(m) \/ Overflows(m) \/ Skips(m) \/ Advances(m) \/ Misses(m)
<1>1. conn.open /\ conn.wire # <<>> /\ UNCHANGED <<hostLog, news, host, used>>
  BY DEF Mirror!Receive, Mirror!hostVars
<1>2. conn \in HostConn /\ hostClient \in MirrorClient
  BY DEF MirrorInv, MirrorTypes
<1>3. /\ m \in HostMessage /\ 1 \in DOMAIN conn.wire /\ m = conn.wire[1]
  <2>1. conn.wire \in Seq(HostMessage)
    BY <1>2 DEF HostConn
  <2> QED
    BY <1>1, <2>1, LenProperties, HeadTailProperties, EmptySeq
<1>4. IsEvent(m) => m.seq \in Nat /\ m.seq <= Mirror!EventSeq
  BY <1>1, <1>3, MessageHas DEF MirrorInv, Heard, IsEvent
<1>5. /\ hostClient.seq \in Nat /\ Len(hostClient.buffer) \in Nat /\ MaxHeld \in Nat
      /\ hostClient.recovering \in BOOLEAN
  BY <1>2, LenProperties, MirrorAssumption DEF MirrorClient
<1> DEFINE read == [conn EXCEPT !.wire = Tail(@)]
           Full == Len(hostClient.buffer) >= MaxHeld
           Takes == /\ hostClient.resolved = Mirror!None
                    /\ hostClient' = [hostClient EXCEPT !.resolved = m]
                    /\ conn' = read
                    /\ UNCHANGED <<orphan, facade>>
           Buffers == /\ hostClient' = [hostClient EXCEPT !.buffer = Append(@, m.seq)]
                      /\ conn' = read
                      /\ UNCHANGED <<orphan, facade>>
           Breaks == /\ Mirror!Fail
                     /\ facade' = IF hostClient.resolved.type = "recovered" THEN Mirror!Nothing
                                  ELSE facade
                     /\ UNCHANGED orphan
           Ignores == conn' = read /\ UNCHANGED <<hostClient, orphan, facade>>
           Applies == /\ hostClient' = [hostClient EXCEPT !.seq = m.seq,
                                           !.mirror = Mirror!Apply(@, Mirror!Event(m.seq))]
                      /\ facade' = Mirror!Shown(Mirror!Apply(facade, Mirror!Event(m.seq)))
                      /\ conn' = read /\ UNCHANGED orphan
           Gap == /\ hostClient' = [hostClient EXCEPT !.recovering = TRUE, !.full = TRUE,
                                                     !.buffer = <<>>]
                  /\ conn' = [read EXCEPT !.asked = [type |-> "recover", after |-> 0]]
                  /\ orphan' = TRUE /\ UNCHANGED facade
<1>6. (CASE m.type # "event" -> Takes
         [] IsEvent(m) /\ hostClient.recovering /\ Len(hostClient.buffer) < MaxHeld -> Buffers
         [] IsEvent(m) /\ hostClient.recovering /\ Full -> Breaks
         [] IsEvent(m) /\ ~hostClient.recovering /\ m.seq <= hostClient.seq -> Ignores
         [] IsEvent(m) /\ ~hostClient.recovering /\ m.seq = hostClient.seq + 1 -> Applies
         [] IsEvent(m) /\ ~hostClient.recovering /\ m.seq > hostClient.seq + 1 -> Gap)
  BY DEF Mirror!Receive, IsEvent
<1>7. \/ ~IsEvent(m) /\ Takes
      \/ IsEvent(m) /\ hostClient.recovering /\ (Buffers \/ Breaks)
      \/ IsEvent(m) /\ ~hostClient.recovering /\ (Ignores \/ Gap)
      \/ IsEvent(m) /\ ~hostClient.recovering /\ m.seq = hostClient.seq + 1 /\ Applies
  <2>1. m.type # "event" <=> ~IsEvent(m)
    BY DEF IsEvent
  <2>2. /\ Len(hostClient.buffer) < MaxHeld \/ Full
        /\ IsEvent(m) => m.seq <= hostClient.seq \/ m.seq = hostClient.seq + 1
                           \/ m.seq > hostClient.seq + 1
    BY <1>4, <1>5
  <2> HIDE DEF Takes, Buffers, Breaks, Ignores, Applies, Gap, Full
  <2> QED
    BY <1>6, <2>1, <2>2, Zenon
<1>8. read = [conn EXCEPT !.wire = Tail(@), !.asked = conn.asked]
      /\ [read EXCEPT !.asked = [type |-> "recover", after |-> 0]]
           = [conn EXCEPT !.wire = Tail(@), !.asked = [type |-> "recover", after |-> 0]]
  BY <1>2 DEF HostConn
<1> HIDE DEF read
<1>9. HandsOver(m) \/ Holds(m) \/ Overflows(m) \/ Skips(m) \/ Advances(m) \/ Misses(m)
  BY <1>7, <1>8 DEF HandsOver, Holds, Overflows, Skips, Advances, Misses, ReadFrom
<1> QED
  BY <1>1, <1>3, <1>4, <1>9

LEMMA MessageKeeps ==
  ASSUME MirrorInv, Mirror!Receive
  PROVE  MirrorInv'
<1> DEFINE m == Head(conn.wire)
<1>1. /\ conn.open /\ conn.wire # <<>> /\ UNCHANGED <<hostLog, news, host, used>>
      /\ m \in HostMessage
      /\ IsEvent(m) => m.seq \in Nat /\ m.seq <= Mirror!EventSeq
      /\ HandsOver(m) \/ Holds(m) \/ Overflows(m) \/ Skips(m) \/ Advances(m) \/ Misses(m)
  BY ReceiveSteps
<1>2. conn \in HostConn /\ hostClient \in MirrorClient /\ facade \in Mirror!State
  BY DEF MirrorInv, MirrorTypes
<1>3. conn.asked \in Question
  BY <1>2 DEF HostConn
<1>4. \A i \in DOMAIN hostClient.buffer : hostClient.buffer[i] <= Mirror!EventSeq
  BY <1>1 DEF MirrorInv, Heard
<1>5. ReadFrom(conn.asked) => conn' = [conn EXCEPT !.wire = Tail(@)]
  BY <1>2 DEF ReadFrom, HostConn
<1>6. CASE HandsOver(m)
  BY <1>1, <1>5, <1>6, TakesAnswer DEF HandsOver, IsEvent
<1>7. CASE Holds(m)
  <2>1. /\ hostClient' = [hostClient EXCEPT !.buffer = Append(@, m.seq)]
        /\ ReadFrom(conn.asked) /\ hostClient.recovering /\ IsEvent(m) /\ UNCHANGED facade
    BY <1>7 DEF Holds
  <2>2. hostClient.buffer \in Seq(Nat) /\ m.seq \in Nat /\ m.seq <= Mirror!EventSeq
    BY <1>1, <1>2, <2>1 DEF MirrorClient
  <2> HIDE DEF m
  <2>3. /\ Append(hostClient.buffer, m.seq) \in Seq(Nat)
        /\ \A i \in DOMAIN Append(hostClient.buffer, m.seq) :
             \/ /\ i \in DOMAIN hostClient.buffer
                /\ Append(hostClient.buffer, m.seq)[i] = hostClient.buffer[i]
             \/ Append(hostClient.buffer, m.seq)[i] = m.seq
    BY <2>2, AppendProperties, LenProperties
  <2>4. /\ hostClient' \in MirrorClient /\ hostClient'.stage = hostClient.stage
        /\ hostClient'.resolved = hostClient.resolved /\ hostClient'.base = hostClient.base
        /\ hostClient'.mixed = hostClient.mixed /\ hostClient'.seq = hostClient.seq
        /\ hostClient'.buffer = Append(hostClient.buffer, m.seq)
        /\ hostClient'.recovering = hostClient.recovering
        /\ hostClient'.overlaid = hostClient.overlaid /\ hostClient'.mirror = hostClient.mirror
    BY <1>2, <2>1, <2>3 DEF MirrorClient
  <2>5. \A i \in DOMAIN hostClient'.buffer : hostClient'.buffer[i] <= Mirror!EventSeq
    BY <1>4, <2>2, <2>3, <2>4
  <2>6. Copied' /\ hostClient.stage # "connecting"
    BY <1>1, <2>1, <2>4 DEF MirrorInv, Copied, HostAttached
  <2> QED
    BY <1>1, <1>2, <1>3, <2>1, <2>4, <2>5, <2>6, TakesEvent DEF m, ReadFrom, IsEvent
<1>8. CASE Overflows(m)
  BY <1>1, <1>2, <1>8, FailKeeps, NothingIsState DEF Overflows
<1>9. CASE Skips(m)
  <2>1. ReadFrom(conn.asked) /\ IsEvent(m) /\ UNCHANGED <<hostClient, facade>>
    BY <1>9 DEF Skips
  <2>2. Copied' /\ hostClient.stage # "connecting"
    BY <1>1, <2>1 DEF MirrorInv, Copied, HostAttached
  <2> QED
    BY <1>1, <1>2, <1>3, <1>4, <2>1, <2>2, TakesEvent DEF ReadFrom, IsEvent
<1>10. CASE Advances(m)
  BY <1>1, <1>5, <1>10, AppliesEvent DEF Advances, IsEvent
<1>11. CASE Misses(m)
  <2> DEFINE q == [type |-> "recover", after |-> 0]
  <2>1. /\ hostClient' = [hostClient EXCEPT !.recovering = TRUE, !.full = TRUE, !.buffer = <<>>]
        /\ ReadFrom(q) /\ IsEvent(m) /\ ~hostClient.recovering /\ UNCHANGED facade
    BY <1>11 DEF Misses
  <2>2. q \in Question /\ <<>> \in Seq(Nat)
    BY EmptySeq DEF Question
  <2>3. /\ hostClient' \in MirrorClient /\ hostClient'.stage = hostClient.stage
        /\ hostClient'.resolved = hostClient.resolved /\ hostClient'.base = hostClient.base
        /\ hostClient'.mixed = hostClient.mixed /\ hostClient'.seq = hostClient.seq
        /\ hostClient'.buffer = <<>> /\ hostClient'.recovering
        /\ hostClient'.overlaid = hostClient.overlaid /\ hostClient'.mirror = hostClient.mirror
    BY <1>2, <2>1, <2>2 DEF MirrorClient
  <2>4. Copied'
    BY <1>1, <2>1, <2>3 DEF MirrorInv, Copied
  <2>5. \A i \in DOMAIN hostClient'.buffer : hostClient'.buffer[i] <= Mirror!EventSeq
    BY <2>3
  <2> QED
    BY <1>1, <1>2, <2>1, <2>2, <2>3, <2>4, <2>5, TakesEvent DEF ReadFrom, IsEvent
<1> QED
  BY <1>1, <1>6, <1>7, <1>8, <1>9, <1>10, <1>11

(* The recovery's answer.  What it installs is the host's state at its     *)
(* sequence number, and what the buffer adds leads on from there.          *)
Installed(r) == IF r.replace THEN hostLog[host.base + 1 + r.seq]
                ELSE Mirror!After(hostClient.mirror, hostClient.seq, r.seq)

LEMMA InstallsHost ==
  ASSUME MirrorInv, NEW r \in Reply, r = hostClient.resolved, r.type = "recovered",
         NEW to \in r.seq .. Mirror!EventSeq
  PROVE  /\ conn.open /\ r.seq \in Nat /\ r.replace \in BOOLEAN /\ Completes(r)
         /\ Mirror!After(Installed(r), r.seq, to) \in Mirror!State
         /\ r.replace \/ ~hostClient.mixed =>
              Mirror!After(Installed(r), r.seq, to) = hostLog[host.base + 1 + to]
<1>1. Completes(r) /\ conn.open
  BY DEF MirrorInv, Recoveries, Coming, HostAttached, Mirror!None
<1>2. r.seq \in Nat /\ r.replace \in BOOLEAN
  BY MessageHas DEF HostMessage
<1>3. /\ hostLog \in Seq(Mirror!State) /\ Len(hostLog) \in Nat /\ host.base \in Nat
      /\ hostClient.seq \in Nat /\ hostClient.mirror \in Mirror!State
      /\ Mirror!EventSeq \in Nat
  BY <1>1, ClosedIsQuiet, LenProperties DEF MirrorInv, MirrorTypes, MirrorClient
<1>4. \A k \in 1 .. Mirror!EventSeq :
        /\ Mirror!Event(k) \in HostEvent
        /\ hostLog[host.base + 1 + k] = Mirror!Apply(hostLog[host.base + k], Mirror!Event(k))
  BY <1>1, EventLeads
<1>5. \A s \in Mirror!State, m, n \in Nat : m <= n /\ n <= Mirror!EventSeq =>
        /\ Mirror!After(s, m, n) \in Mirror!State
        /\ s = hostLog[host.base + 1 + m] => Mirror!After(s, m, n) = hostLog[host.base + 1 + n]
  <2> SUFFICES ASSUME NEW s \in Mirror!State, NEW m \in Nat, NEW n \in Nat, m <= n,
                      n <= Mirror!EventSeq
               PROVE  /\ Mirror!After(s, m, n) \in Mirror!State
                      /\ s = hostLog[host.base + 1 + m] =>
                           Mirror!After(s, m, n) = hostLog[host.base + 1 + n]
    OBVIOUS
  <2>1. \A k \in m + 1 .. n : k \in 1 .. Mirror!EventSeq
    BY <1>3
  <2> QED
    <3>1. \A k \in m + 1 .. n :
            /\ Mirror!Event(k) \in HostEvent
            /\ hostLog[host.base + 1 + k]
                 = Mirror!Apply(hostLog[host.base + k], Mirror!Event(k))
      BY <1>4, <2>1
    <3>2. host.base \in Nat
      BY <1>3
    <3> QED
      BY <3>1, <3>2, AfterIsHost
<1>6. CASE r.replace
  <2>1. host.base + 1 + r.seq \in 1 .. Len(hostLog)
    BY <1>1, <1>2, <1>3 DEF Completes, Mirror!EventSeq
  <2>2. Installed(r) = hostLog[host.base + 1 + r.seq] /\ Installed(r) \in Mirror!State
    BY <1>3, <1>6, <2>1, LenProperties DEF Installed
  <2>3. to \in Nat /\ r.seq <= to /\ to <= Mirror!EventSeq
    BY ONLY <1>2, <1>3, to \in r.seq .. Mirror!EventSeq
  <2> QED
    BY ONLY <1>1, <1>2, <1>5, <2>2, <2>3
<1>7. CASE ~r.replace
  <2>1. hostClient.seq <= r.seq /\ r.seq <= Mirror!EventSeq
    BY <1>1, <1>7 DEF Completes
  <2>2. /\ Installed(r) \in Mirror!State
        /\ ~hostClient.mixed => Installed(r) = hostLog[host.base + 1 + r.seq]
    BY <1>1, <1>2, <1>3, <1>5, <1>7, <2>1, CopyIsHost DEF Installed
  <2>3. to \in Nat /\ r.seq <= to /\ to <= Mirror!EventSeq
    BY ONLY <1>2, <1>3, to \in r.seq .. Mirror!EventSeq
  <2> QED
    BY ONLY <1>1, <1>2, <1>5, <1>7, <2>2, <2>3
<1> QED
  BY <1>2, <1>6, <1>7

LEMMA RecoveredSteps ==
  ASSUME MirrorInv, Mirror!Recovered
  PROVE  /\ UNCHANGED <<hostLog, news, host, used>> /\ hostClient.resolved \in Reply
         /\ hostClient.resolved.type = "recovered"
         /\ \/ \E to \in hostClient.resolved.seq .. Mirror!EventSeq :
                 LET s == Mirror!After(Installed(hostClient.resolved), hostClient.resolved.seq, to)
                 IN /\ hostClient' = [hostClient EXCEPT !.stage = "ready",
                                        !.resolved = Mirror!None, !.seq = to, !.mirror = s,
                                        !.recovering = FALSE, !.full = FALSE, !.buffer = <<>>,
                                        !.mixed = @ /\ ~hostClient.resolved.replace,
                                        !.overlaid = FALSE]
                    /\ facade' = Mirror!Shown(hostClient'.mirror) /\ UNCHANGED conn
            \/ /\ hostClient' = [hostClient EXCEPT !.resolved = Mirror!None, !.full = TRUE,
                                                  !.buffer = <<>>]
               /\ Mirror!Ask(TRUE) /\ UNCHANGED facade
            \/ Mirror!Fail /\ UNCHANGED facade
<1> DEFINE r == hostClient.resolved
           to == IF ~r.replace /\ (hostClient.full \/ r.first > hostClient.seq + 1) THEN -1
                 ELSE Mirror!Reached(hostClient.buffer, r.seq)
           s == Mirror!After(Installed(r), r.seq, to)
<1>1. /\ UNCHANGED <<hostLog, news, host, used>> /\ r.type = "recovered"
  BY DEF Mirror!Recovered, Mirror!hostVars
<1>2. hostClient \in MirrorClient
  BY DEF MirrorInv, MirrorTypes
<1>3. r \in Reply
  BY <1>1, <1>2 DEF MirrorClient, Mirror!None
<1>4. r.seq \in Nat /\ conn.open /\ Completes(r)
  <2>1. r.seq \in Nat
    BY <1>1, <1>3, MessageHas DEF HostMessage
  <2> QED
    BY <1>1, <1>3, <2>1 DEF MirrorInv, Recoveries, Coming, HostAttached, Mirror!None
<1>5. Mirror!EventSeq \in Nat /\ r.seq <= Mirror!EventSeq
  BY <1>4, ClosedIsQuiet DEF Completes
<1>6. Mirror!Reached(hostClient.buffer, r.seq) \in {-1} \cup r.seq .. Mirror!EventSeq
  <2>1. hostClient.buffer \in Seq(Nat)
    BY <1>2 DEF MirrorClient
  <2>2. \A i \in DOMAIN hostClient.buffer : hostClient.buffer[i] <= Mirror!EventSeq
    BY <1>4 DEF MirrorInv, Heard
  <2> HIDE DEF r
  <2> QED
    BY <1>4, <1>5, <2>1, <2>2, ReachedIsHeard
<1>7. to \in {-1} \cup r.seq .. Mirror!EventSeq
  BY <1>6
<1>8. IF to # -1
      THEN /\ hostClient' = [hostClient EXCEPT !.stage = "ready", !.resolved = Mirror!None,
                               !.seq = to, !.mirror = s,
                               !.recovering = FALSE, !.full = FALSE, !.buffer = <<>>,
                               !.mixed = @ /\ ~r.replace, !.overlaid = FALSE]
           /\ facade' = Mirror!Shown(hostClient'.mirror)
           /\ UNCHANGED conn
      ELSE IF ~hostClient.full
      THEN /\ hostClient' = [hostClient EXCEPT !.resolved = Mirror!None, !.full = TRUE,
                                               !.buffer = <<>>]
           /\ Mirror!Ask(TRUE) /\ UNCHANGED facade
      ELSE Mirror!Fail /\ UNCHANGED facade
  BY DEF Mirror!Recovered, Installed
<1> HIDE DEF to
<1> QED
  BY <1>1, <1>3, <1>7, <1>8

LEMMA RecoveredKeeps ==
  ASSUME MirrorInv, Mirror!Recovered
  PROVE  MirrorInv'
<1> DEFINE r == hostClient.resolved
<1>1. UNCHANGED <<hostLog, news, host, used>> /\ r \in Reply /\ r.type = "recovered"
  BY RecoveredSteps
<1>2. hostClient \in MirrorClient /\ conn \in HostConn /\ facade \in Mirror!State
  BY DEF MirrorInv, MirrorTypes
<1>3. /\ conn.open /\ Completes(r) /\ ~AsksToRecover /\ conn.answer.type # "recovered"
      /\ \A i \in DOMAIN conn.wire : conn.wire[i].type # "recovered"
  BY <1>1 DEF MirrorInv, Recoveries, Coming, HostAttached, Mirror!None
<1>4. <<>> \in Seq(Nat)
  BY EmptySeq
<1>5. ASSUME Mirror!Fail, UNCHANGED facade
      PROVE  MirrorInv'
  BY <1>1, <1>2, <1>5, FailKeeps
<1>6. ASSUME hostClient' = [hostClient EXCEPT !.resolved = Mirror!None, !.full = TRUE,
                                             !.buffer = <<>>],
             Mirror!Ask(TRUE), UNCHANGED facade
      PROVE  MirrorInv'
  <2>1. [type |-> "recover", after |-> 0] \in Question
    BY DEF Question
  <2>2. /\ conn' \in HostConn /\ conn'.open /\ conn'.asked = [type |-> "recover", after |-> 0]
        /\ conn'.answer = conn.answer /\ conn'.wire = conn.wire
    BY <1>2, <1>3, <1>6, <2>1 DEF HostConn, Mirror!Ask
  <2>3. /\ hostClient' \in MirrorClient /\ hostClient'.resolved = Mirror!None
        /\ hostClient'.stage = hostClient.stage /\ hostClient'.buffer = <<>>
        /\ hostClient'.base = hostClient.base /\ hostClient'.seq = hostClient.seq
        /\ hostClient'.mirror = hostClient.mirror /\ hostClient'.mixed = hostClient.mixed
        /\ hostClient'.recovering = hostClient.recovering
        /\ hostClient'.overlaid = hostClient.overlaid
    BY <1>2, <1>4, <1>6 DEF MirrorClient
  <2>4. MirrorTypes' /\ HostCounts' /\ HostAttached' /\ Heard' /\ Copied'
    BY <1>1, <1>3, <1>6, <2>2, <2>3
    DEF MirrorInv, MirrorTypes, HostCounts, HostAttached, Heard, Copied, Mirror!EventSeq
  <2>5. \A q \in Reply : ~(q.type = "recovered" /\ Coming(q)')
    BY <1>3, <2>2, <2>3 DEF Coming, OnWire, Mirror!None
  <2>6. Recoveries'
    BY <1>3, <2>2, <2>3, <2>5 DEF Recoveries, Completes, Mirror!None
  <2> QED
    BY <2>4, <2>6 DEF MirrorInv
<1>7. ASSUME NEW to \in r.seq .. Mirror!EventSeq, NEW s,
             s = Mirror!After(Installed(r), r.seq, to),
             hostClient' = [hostClient EXCEPT !.stage = "ready", !.resolved = Mirror!None,
                              !.seq = to, !.mirror = s,
                              !.recovering = FALSE, !.full = FALSE, !.buffer = <<>>,
                              !.mixed = @ /\ ~r.replace, !.overlaid = FALSE],
             facade' = Mirror!Shown(hostClient'.mirror), UNCHANGED conn
      PROVE  MirrorInv'
  <2>1. /\ r.seq \in Nat /\ r.replace \in BOOLEAN /\ s \in Mirror!State
        /\ r.replace \/ ~hostClient.mixed => s = hostLog[host.base + 1 + to]
    BY <1>1, <1>7, InstallsHost
  <2> DEFINE mixes == hostClient.mixed /\ ~r.replace
  <2>2. /\ mixes \in BOOLEAN /\ (~mixes => s = hostLog[host.base + 1 + to]) /\ to \in Nat
        /\ hostClient' = [hostClient EXCEPT !.stage = "ready", !.resolved = Mirror!None,
                            !.seq = to, !.mirror = s,
                            !.recovering = FALSE, !.full = FALSE, !.buffer = <<>>,
                            !.mixed = mixes, !.overlaid = FALSE]
    <3>1. mixes \in BOOLEAN /\ (~mixes => r.replace \/ ~hostClient.mixed)
      BY <1>2, <2>1 DEF MirrorClient
    <3>2. to \in Nat
      BY <2>1
    <3> QED
      BY <1>7, <2>1, <3>1, <3>2
  <2> HIDE DEF mixes
  <2>3. /\ hostClient' \in MirrorClient /\ hostClient'.resolved = Mirror!None
        /\ hostClient'.stage = "ready" /\ hostClient'.buffer = <<>>
        /\ hostClient'.base = hostClient.base /\ hostClient'.seq = to
        /\ hostClient'.mirror = s /\ hostClient'.mixed = mixes
        /\ hostClient'.recovering = FALSE
    BY <1>2, <1>4, <2>1, <2>2 DEF MirrorClient, Mirror!Stages
  <2>4. facade' = Mirror!Shown(s) /\ facade' \in Mirror!State
    BY <1>7, <2>1, <2>3, NothingIsState
  <2>5. MirrorTypes' /\ HostCounts' /\ HostAttached' /\ Heard'
    BY <1>1, <1>3, <1>7, <2>3, <2>4
    DEF MirrorInv, MirrorTypes, HostCounts, HostAttached, Heard, Mirror!EventSeq
  <2>6. Copied'
    <3>1. /\ Stretch(hostLog, news, host.base) /\ hostClient.base = host.base
          /\ host.base \in Nat /\ Len(hostLog) \in Nat
      BY <1>3, ClosedIsQuiet, LenProperties DEF MirrorInv, MirrorTypes, HostAttached
    <3>2. host.base + 1 + to <= Len(hostLog)
      BY <2>2, <3>1 DEF Mirror!EventSeq
    <3>3. to = 0 => hostLog[host.base + 1 + to] = Mirror!Nothing
      BY <3>1 DEF Stretch
    <3> QED
      BY <1>1, <2>2, <2>3, <2>4, <3>1, <3>2, <3>3 DEF Copied
  <2>7. Recoveries'
    <3>1. \A q \in Reply : ~(q.type = "recovered" /\ Coming(q)')
      BY <1>3, <1>7, <2>3 DEF Coming, OnWire, Mirror!None
    <3> QED
      BY <1>3, <1>7, <2>3, <3>1 DEF Recoveries, AsksToRecover, Mirror!None
  <2> QED
    BY <2>5, <2>6, <2>7 DEF MirrorInv
<1> QED
  BY <1>5, <1>6, <1>7, RecoveredSteps

LEMMA MirrorInit == Mirror!Init => MirrorInv
<1> SUFFICES ASSUME Mirror!Init PROVE MirrorInv
  OBVIOUS
<1>1. /\ hostLog = <<>> /\ news = <<>> /\ used = 0 /\ ~host.up
      /\ host = [up |-> FALSE, base |-> 0, first |-> 1]
      /\ conn = Mirror!Shut /\ hostClient = Mirror!Fresh /\ facade = Mirror!Nothing
  BY DEF Mirror!Init
<1>2. /\ <<>> \in Seq(Mirror!State) /\ <<>> \in Seq(HostEvent \cup {Mirror!None})
      /\ <<>> \in Seq(HostMessage) /\ <<>> \in Seq(Nat) /\ Mirror!Nothing \in Mirror!State
  BY EmptySeq, NothingIsState
<1>3. conn \in HostConn
  BY <1>1, <1>2 DEF HostConn, Mirror!Shut, Question
<1>4. hostClient \in MirrorClient
  BY <1>1, <1>2 DEF MirrorClient, Mirror!Fresh, Mirror!Stages
<1>5. MirrorTypes
  BY <1>1, <1>2, <1>3, <1>4, MirrorAssumption DEF MirrorTypes
<1>6. HostCounts /\ HostAttached /\ Heard /\ Copied
  BY <1>1 DEF HostCounts, HostAttached, Heard, Copied, Mirror!Shut, Mirror!Fresh
<1>7. \A r : Coming(r) => r = Mirror!None
  BY <1>1 DEF Coming, OnWire, Mirror!Shut, Mirror!Fresh
<1>8. Recoveries
  BY <1>1, <1>7 DEF Recoveries, AsksToRecover, Mirror!Shut, Mirror!Fresh, Mirror!None
<1> QED
  BY <1>5, <1>6, <1>8 DEF MirrorInv

LEMMA MirrorNext ==
  ASSUME MirrorInv, [Mirror!Next]_(Mirror!vars)
  PROVE  MirrorInv'
<1>1. CASE Mirror!Host
  BY <1>1, HostStartsKeeps, HostRepliesKeep, HostSendKeeps DEF Mirror!Host
<1>2. CASE Mirror!Change
  BY <1>2, ChangeKeeps
<1>3. CASE Mirror!Server
  BY <1>3, InitializeKeeps, ConnectKeeps, MessageKeeps, RegisteredKeeps, RecoveredKeeps,
     ReadAnsweredKeeps, BreaksKeep DEF Mirror!Server
<1>4. CASE Mirror!Read \/ Mirror!Disconnect \/ Mirror!HostDies \/ Mirror!Timeout
  BY <1>4, ReadKeeps, BreaksKeep, TimeoutKeeps
<1>5. CASE UNCHANGED Mirror!vars
  BY <1>5 DEF Mirror!vars, Mirror!hostVars, MirrorInv, MirrorTypes, HostCounts, HostAttached,
       Heard, Recoveries, Copied, AsksToRecover, Completes, Coming, OnWire, Mirror!EventSeq
<1> QED
  BY <1>1, <1>2, <1>3, <1>4, <1>5 DEF Mirror!Next

LEMMA MirrorInvariant == Mirror!Spec => []MirrorInv
<1>1. MirrorInv /\ [Mirror!Next]_(Mirror!vars) => MirrorInv'
  BY MirrorNext
<1> QED
  BY <1>1, MirrorInit, PTL DEF Mirror!Spec

(* Between recoveries the server's copy is what its host knew at the       *)
(* copy's sequence number, operations included, and the facade shows the   *)
(* same session unless a read was laid over it: no event is lost, applied  *)
(* twice or applied to the state of another host                           *)
(* (acp-runtime-host-client.cts, applyEvent and recover).                  *)
THEOREM ServerMirrorsHost == Mirror!Spec => []MirrorIsHost
<1>1. MirrorInv => MirrorIsHost
  <2> SUFFICES ASSUME MirrorInv, Mirror!Following PROVE MirrorIsHost
    BY DEF MirrorIsHost, Mirror!MirrorIsHost
  <2>1. hostClient.stage = "ready" /\ ~hostClient.mixed
    BY DEF Mirror!Following
  <2>2. conn.open /\ hostClient.base = host.base
    BY <2>1 DEF MirrorInv, HostAttached
  <2>3. hostClient.mirror = hostLog[host.base + 1 + hostClient.seq]
    BY <2>1, <2>2, CopyIsHost
  <2>4. hostClient.overlaid \/ facade = Mirror!Shown(hostClient.mirror)
    BY <2>1 DEF MirrorInv, Copied
  <2> QED
    BY <2>2, <2>3, <2>4 DEF MirrorIsHost, Mirror!MirrorIsHost
<1> QED
  BY <1>1, MirrorInvariant, PTL

-----------------------------------------------------------------------------
(* The mirror implements StateFollower.                                    *)
MirrorStays ==
  /\ hostLog' = hostLog \/ \E s \in Mirror!State : hostLog' = Append(hostLog, s)
  /\ hostClient'.stage = hostClient.stage /\ hostClient'.mixed = hostClient.mixed
  /\ hostClient'.base = hostClient.base /\ hostClient'.seq = hostClient.seq
  /\ hostClient'.mirror = hostClient.mirror
MirrorStops ==
  /\ hostLog' = hostLog /\ ~Mirror!Following'
  /\ hostClient'.mirror = hostClient.mirror \/ ~Mirror!Following
MirrorAdvances ==
  /\ UNCHANGED <<hostLog, host>> /\ hostClient'.base = hostClient.base
  /\ Mirror!Following => hostClient.seq <= hostClient'.seq /\ Mirror!Following'

LEMMA HostMoves ==
  ASSUME MirrorInv, Mirror!Host \/ Mirror!Change
  PROVE  MirrorStays
<1>1. hostClient' = hostClient
  BY DEF Mirror!Host, Mirror!Change, Mirror!HostStarts, Mirror!HostRegister, Mirror!HostRecover,
         Mirror!HostRead, Mirror!HostSend, Mirror!Bind, Mirror!Update, Mirror!Patch,
         Mirror!Operation, Mirror!Prune, Mirror!Remove, Mirror!Publish
<1>2. hostLog' = hostLog \/ \E s : hostLog' = Append(hostLog, s)
  BY DEF Mirror!Host, Mirror!Change, Mirror!HostStarts, Mirror!HostRegister, Mirror!HostRecover,
         Mirror!HostRead, Mirror!HostSend, Mirror!Bind, Mirror!Update, Mirror!Patch,
         Mirror!Operation, Mirror!Prune, Mirror!Remove, Mirror!Publish, Mirror!hostVars
<1>3. ASSUME NEW s, hostLog' = Append(hostLog, s) PROVE s \in Mirror!State
  <2>1. MirrorInv'
    BY MirrorNext DEF Mirror!Next
  <2>2. hostLog' \in Seq(Mirror!State) /\ Len(hostLog) \in Nat
        /\ Len(hostLog') = Len(hostLog) + 1 /\ hostLog'[Len(hostLog) + 1] = s
    BY <1>3, <2>1, LenProperties, AppendProperties DEF MirrorInv, MirrorTypes
  <2> QED
    BY <2>2, LenProperties
<1> QED
  BY <1>1, <1>2, <1>3 DEF MirrorStays

LEMMA ServerMoves ==
  ASSUME MirrorInv, Mirror!Server
  PROVE  MirrorStays \/ MirrorStops \/ MirrorAdvances
<1>1. hostClient \in MirrorClient
  BY DEF MirrorInv, MirrorTypes
<1>2. ASSUME Mirror!Fail, hostLog' = hostLog PROVE MirrorStops
  BY <1>1, <1>2 DEF Mirror!Fail, MirrorStops, Mirror!Following, MirrorClient
<1>3. CASE Mirror!Initialize
  BY <1>1, <1>3 DEF Mirror!Initialize, Mirror!Fresh, Mirror!hostVars, MirrorStops, Mirror!Following
<1>4. CASE Mirror!Connect
  BY <1>1, <1>4 DEF Mirror!Connect, Mirror!hostVars, MirrorStops, Mirror!Following, MirrorClient
<1>5. CASE Mirror!Receive
  <2> DEFINE m == Head(conn.wire)
  <2>1. /\ UNCHANGED <<hostLog, news, host, used>> /\ m \in HostMessage
        /\ HandsOver(m) \/ Holds(m) \/ Overflows(m) \/ Skips(m) \/ Advances(m) \/ Misses(m)
    BY <1>5, ReceiveSteps
  <2> HIDE DEF m
  <2>2. CASE HandsOver(m) \/ Holds(m) \/ Misses(m)
    BY <1>1, <2>1, <2>2 DEF HandsOver, Holds, Misses, MirrorStays, MirrorClient
  <2>3. CASE Overflows(m)
    BY <1>2, <2>1, <2>3 DEF Overflows
  <2>4. CASE Skips(m)
    BY <2>1, <2>4 DEF Skips, MirrorStays
  <2>5. CASE Advances(m)
    BY <1>1, <2>1, <2>5 DEF Advances, MirrorAdvances, MirrorClient, Mirror!Following
  <2> QED
    BY <2>1, <2>2, <2>3, <2>4, <2>5
<1>6. CASE Mirror!Registered
  <2>1. CASE Mirror!Fail
    BY <1>2, <1>6, <2>1 DEF Mirror!Registered, Mirror!hostVars
  <2>2. CASE ~Mirror!Fail
    <3>1. /\ hostClient' = [hostClient EXCEPT !.stage = "recovering", !.resolved = Mirror!None,
                              !.recovering = TRUE, !.full = FALSE, !.buffer = <<>>]
          /\ hostLog' = hostLog
      BY <1>6, <2>2 DEF Mirror!Registered, Mirror!hostVars
    <3> QED
      BY <1>1, <3>1 DEF MirrorStops, Mirror!Following, MirrorClient
  <2> QED
    BY <2>1, <2>2
<1>7. CASE Mirror!Recovered
  <2> DEFINE r == hostClient.resolved
  <2>1. UNCHANGED <<hostLog, news, host, used>> /\ r \in Reply /\ r.type = "recovered"
    BY <1>7, RecoveredSteps
  <2>2. CASE Mirror!Fail
    BY <1>2, <2>1, <2>2
  <2>3. CASE hostClient' = [hostClient EXCEPT !.resolved = Mirror!None, !.full = TRUE,
                                              !.buffer = <<>>]
    BY <1>1, <2>1, <2>3 DEF MirrorStays, MirrorClient
  <2>4. ASSUME NEW to \in r.seq .. Mirror!EventSeq, NEW s,
               hostClient' = [hostClient EXCEPT !.stage = "ready", !.resolved = Mirror!None,
                                !.seq = to, !.mirror = s,
                                !.recovering = FALSE, !.full = FALSE, !.buffer = <<>>,
                                !.mixed = @ /\ ~r.replace, !.overlaid = FALSE]
        PROVE  MirrorAdvances
    <3>1. r.seq \in Nat /\ Completes(r)
      BY <2>1, <2>4, InstallsHost
    <3>2. hostClient.seq <= to \/ ~Mirror!Following
      <4>1. hostClient.mixed => ~Mirror!Following
        BY DEF Mirror!Following
      <4>2. hostClient.seq \in Nat /\ to \in Int /\ r.seq <= to
        BY <1>1, <3>1 DEF MirrorClient
      <4> QED
        BY <3>1, <4>1, <4>2 DEF Completes
    <3>3. /\ hostClient'.seq = to /\ hostClient'.base = hostClient.base
          /\ hostClient'.stage = "ready"
          /\ hostClient'.mixed = (hostClient.mixed /\ ~r.replace)
      BY <1>1, <2>4 DEF MirrorClient
    <3>4. Mirror!Following => Mirror!Following'
      BY <3>3 DEF Mirror!Following
    <3> QED
      BY <2>1, <3>2, <3>3, <3>4 DEF MirrorAdvances
  <2> QED
    BY <1>7, <2>2, <2>3, <2>4, RecoveredSteps
<1>8. CASE Mirror!ReadAnswered
  <2>1. hostLog' = hostLog
        /\ \E b : hostClient' = [hostClient EXCEPT !.resolved = Mirror!None, !.overlaid = b]
    BY <1>8 DEF Mirror!ReadAnswered, Mirror!hostVars
  <2> QED
    BY <1>1, <2>1 DEF MirrorStays, MirrorClient
<1>9. CASE Mirror!OrphanFails
  BY <1>2, <1>9 DEF Mirror!OrphanFails, Mirror!hostVars
<1> QED
  BY <1>3, <1>4, <1>5, <1>6, <1>7, <1>8, <1>9 DEF Mirror!Server

LEMMA MirrorMoves ==
  ASSUME MirrorInv, [Mirror!Next]_(Mirror!vars)
  PROVE  MirrorStays \/ MirrorStops \/ MirrorAdvances
<1>1. hostClient \in MirrorClient
  BY DEF MirrorInv, MirrorTypes
<1>2. ASSUME Mirror!Fail, hostLog' = hostLog PROVE MirrorStops
  BY <1>1, <1>2 DEF Mirror!Fail, MirrorStops, Mirror!Following, MirrorClient
<1>3. CASE Mirror!Read \/ UNCHANGED Mirror!vars
  BY <1>3 DEF Mirror!Read, Mirror!vars, Mirror!hostVars, MirrorStays
<1>4. CASE Mirror!Disconnect
  BY <1>2, <1>4 DEF Mirror!Disconnect, Mirror!hostVars
<1>5. CASE Mirror!HostDies
  <2>1. hostLog' = hostLog /\ (Mirror!Fail \/ hostClient' = hostClient)
    BY <1>5 DEF Mirror!HostDies
  <2> QED
    BY <1>2, <2>1 DEF MirrorStays
<1>6. CASE Mirror!Timeout
  <2>1. PICK s \in {"connecting", "idle"}, b \in {hostClient'.recovering} :
          /\ hostClient' = [hostClient EXCEPT !.stage = s, !.recovering = b, !.buffer = <<>>]
          /\ hostLog' = hostLog
    <3>1. \E s \in {"connecting", "idle"} : \E b :
            hostClient' = [hostClient EXCEPT !.stage = s, !.recovering = b, !.buffer = <<>>]
      BY <1>6 DEF Mirror!Timeout
    <3> QED
      BY <1>1, <1>6, <3>1 DEF Mirror!Timeout, Mirror!hostVars, MirrorClient
  <2> QED
    BY <1>1, <2>1 DEF MirrorStops, Mirror!Following, MirrorClient
<1> QED
  BY <1>3, <1>4, <1>5, <1>6, HostMoves, ServerMoves DEF Mirror!Next

LEMMA PrefixOf ==
  ASSUME NEW S, NEW a \in Seq(S), NEW b, b = a \/ \E s \in S : b = Append(a, s)
  PROVE  b \in Seq(S) /\ Mirror!Follower!IsPrefix(a, b)
<1>1. /\ b \in Seq(S) /\ Len(a) \in Nat /\ Len(b) \in Nat /\ Len(a) <= Len(b)
      /\ \A i \in 1 .. Len(a) : b[i] = a[i]
  BY LenProperties, AppendProperties
<1> DEFINE c == SubSeq(a, 1, Len(a))
           d == SubSeq(b, 1, Len(a))
<1>2. c \in Seq(S) /\ Len(c) = Len(a) /\ \A i \in 1 .. Len(a) : c[i] = a[i]
  BY <1>1, SubSeqFull
<1>3. d \in Seq(S) /\ Len(d) = Len(a) /\ \A i \in 1 .. Len(a) : d[i] = b[i]
  BY <1>1
<1> HIDE DEF c, d
<1>4. Len(c) = Len(d) /\ \A i \in 1 .. Len(c) : c[i] = d[i]
  BY <1>1, <1>2, <1>3
<1>5. c = d
  BY <1>2, <1>3, <1>4, SeqEqual
<1> QED
  BY <1>1, <1>5 DEF c, d, Mirror!Follower!IsPrefix

LEMMA MirrorStepFollows ==
  ASSUME MirrorInv, [Mirror!Next]_(Mirror!vars)
  PROVE  [Mirror!Follower!Next]_(Mirror!Follower!vars)
<1> DEFINE at == IF Mirror!Following THEN hostClient.base + 1 + hostClient.seq ELSE 0
           clear == IF Mirror!Following THEN {"server"} ELSE {}
<1>1. MirrorInv' /\ (MirrorStays \/ MirrorStops \/ MirrorAdvances)
  BY MirrorNext, MirrorMoves
<1>2. /\ hostLog \in Seq(Mirror!State) /\ hostClient \in MirrorClient
      /\ hostLog' \in Seq(Mirror!State) /\ hostClient' \in MirrorClient
  BY <1>1 DEF MirrorInv, MirrorTypes
<1>3. CASE MirrorStays
  <2>1. Mirror!Follower!IsPrefix(hostLog, hostLog')
    BY <1>2, <1>3, PrefixOf DEF MirrorStays
  <2>2. (Mirror!Following' <=> Mirror!Following)
    BY <1>3 DEF MirrorStays, Mirror!Following
  <2>3. at' = at /\ clear' = clear /\ hostClient'.mirror = hostClient.mirror
    BY <1>3, <2>2 DEF MirrorStays
  <2>4. Mirror!Follower!Publish
    BY <1>2, <2>1, <2>3 DEF Mirror!Follower!Publish
  <2> QED
    BY <2>4 DEF Mirror!Follower!Next
<1>4. CASE MirrorStops /\ hostClient'.mirror = hostClient.mirror
  <2>1. Mirror!Follower!Leave("server")
    BY <1>4 DEF MirrorStops, Mirror!Follower!Leave
  <2> QED
    BY <2>1 DEF Mirror!Follower!Next
<1>5. CASE MirrorStops /\ ~Mirror!Following
  <2>1. hostClient'.mirror \in Mirror!State
    BY <1>2 DEF MirrorClient
  <2>2. Mirror!Follower!Blur("server")
    BY <1>5, <2>1 DEF MirrorStops, Mirror!Follower!Blur
  <2> QED
    BY <2>2 DEF Mirror!Follower!Next
<1>6. CASE MirrorAdvances /\ Mirror!Following'
  <2> DEFINE n == hostClient'.base + 1 + hostClient'.seq
  <2>1. hostClient'.stage = "ready" /\ ~hostClient'.mixed
    BY <1>6 DEF Mirror!Following
  <2>2. conn'.open /\ host'.up /\ hostClient'.base = host'.base
    BY <1>1, <2>1 DEF MirrorInv, HostAttached
  <2>3. Stretch(hostLog', news', host'.base)
    BY <1>1, <2>2 DEF MirrorInv, HostCounts
  <2>4. /\ hostClient'.base \in Nat /\ hostClient'.seq \in Nat /\ Len(hostLog') \in Nat
        /\ hostClient.base \in Nat /\ hostClient.seq \in Nat
    BY <1>2, LenProperties DEF MirrorClient
  <2>5. n \in 1 .. Len(hostLog') /\ hostClient'.mirror = hostLog'[n]
    <3>1. CASE hostClient'.seq = 0
      BY <1>1, <2>1, <2>2, <2>3, <2>4, <3>1 DEF MirrorInv, Copied, Stretch
    <3>2. CASE hostClient'.seq # 0
      BY <1>1, <2>1, <2>4, <3>2 DEF MirrorInv, Copied
    <3> QED
      BY <3>1, <3>2
  <2>6. at' = n /\ clear' = {"server"}
    BY <1>6
  <2>7. at <= n /\ at \in Nat
    BY <1>6, <2>4 DEF MirrorAdvances
  <2>8. hostLog' = hostLog
    BY <1>6 DEF MirrorAdvances
  <2>9. n \in (at .. Len(hostLog)) \ {0} /\ hostClient'.mirror = hostLog[n]
    BY <2>5, <2>7, <2>8
  <2>10. clear' = clear \cup {"server"}
    BY <2>6
  <2> HIDE DEF n, at, clear
  <2>11. /\ [v \in {"server"} |-> at'] = [[v \in {"server"} |-> at] EXCEPT !["server"] = n]
         /\ [v \in {"server"} |-> hostClient'.mirror]
              = [[v \in {"server"} |-> hostClient.mirror] EXCEPT !["server"] = hostLog[n]]
         /\ [v \in {"server"} |-> at]["server"] = at
    BY <2>6, <2>9
  <2>12. Mirror!Follower!Show("server")
    BY <2>8, <2>9, <2>10, <2>11 DEF Mirror!Follower!Show, at, clear
  <2> QED
    BY <2>12 DEF Mirror!Follower!Next
<1>7. CASE MirrorAdvances /\ ~Mirror!Following'
  <2>1. hostClient'.mirror \in Mirror!State /\ hostLog' = hostLog /\ ~Mirror!Following
    BY <1>2, <1>7 DEF MirrorClient, MirrorAdvances
  <2>2. Mirror!Follower!Blur("server")
    BY <1>7, <2>1 DEF Mirror!Follower!Blur
  <2> QED
    BY <2>2 DEF Mirror!Follower!Next
<1> QED
  BY <1>1, <1>3, <1>4, <1>5, <1>6, <1>7 DEF MirrorStops

(* The server is a follower of its hosts' states as StateFollower says:    *)
(* while the connection lasts its copy only advances, by events and by     *)
(* recoveries alike.                                                       *)
THEOREM MirrorImplementsFollower == Mirror!Spec => MirrorFollows
<1>1. Mirror!Init => Mirror!Follower!Init
  <2> SUFFICES ASSUME Mirror!Init PROVE Mirror!Follower!Init
    OBVIOUS
  <2>1. hostClient = Mirror!Fresh /\ hostLog = <<>> /\ ~Mirror!Following
    BY DEF Mirror!Init, Mirror!Fresh, Mirror!Following
  <2>2. hostClient.mirror \in Mirror!State
    BY <2>1, NothingIsState DEF Mirror!Fresh
  <2> QED
    BY <2>1, <2>2 DEF Mirror!Follower!Init
<1>2. MirrorInv /\ [Mirror!Next]_(Mirror!vars) =>
        [Mirror!Follower!Next]_(Mirror!Follower!vars)
  BY MirrorStepFollows
<1> QED
  BY <1>1, <1>2, MirrorInvariant, PTL
  DEF Mirror!Spec, MirrorFollows, Mirror!Follows, Mirror!Follower!Spec

-----------------------------------------------------------------------------
(* The inventory: what InventoryCache_proofs shows holds of the instance   *)
(* that is composed with the other copies.                                 *)
CacheProofs == INSTANCE InventoryCache_proofs WITH
                 MaxChanges <- MaxFileChanges, log <- files, asked <- calledAt

LEMMA SameCacheInit == Cache!Init => CacheProofs!Init
BY DEF Cache!Init, CacheProofs!Init, Cache!File, CacheProofs!File, Cache!Nothing,
       CacheProofs!Nothing, Cache!Unknown, CacheProofs!Unknown, Cache!Unanswered,
       CacheProofs!Unanswered

LEMMA SameCacheNext ==
  [Cache!Next]_(Cache!vars) => [CacheProofs!Next]_(CacheProofs!vars)
BY DEF
  Cache!File, CacheProofs!File, Cache!Nothing, CacheProofs!Nothing,
     Cache!Unknown, CacheProofs!Unknown, Cache!Unanswered,
     CacheProofs!Unanswered, Cache!entry, CacheProofs!entry, Cache!work,
     CacheProofs!work, Cache!call, CacheProofs!call, Cache!vars,
     CacheProofs!vars, Cache!Now, CacheProofs!Now, Cache!Change,
     CacheProofs!Change, Cache!Invalidate, CacheProofs!Invalidate,
     Cache!Pins, CacheProofs!Pins, Cache!Pinned, CacheProofs!Pinned,
     Cache!Goes, CacheProofs!Goes, Cache!Answers, CacheProofs!Answers,
     Cache!Read, CacheProofs!Read, Cache!Done, CacheProofs!Done,
     Cache!Get, CacheProofs!Get, Cache!Begins, CacheProofs!Begins,
     Cache!Serves, CacheProofs!Serves, Cache!Check, CacheProofs!Check,
     Cache!Reconcile, CacheProofs!Reconcile, Cache!StableFiles,
     CacheProofs!StableFiles, Cache!Stable, CacheProofs!Stable,
     Cache!Conclude, CacheProofs!Conclude, Cache!Store, CacheProofs!Store,
     Cache!Fail, CacheProofs!Fail, Cache!Restart, CacheProofs!Restart,
     Cache!Next, CacheProofs!Next

(* What the cache of inventories answers is not older than the request     *)
(* that caused it, although neither a fingerprint nor a load is atomic     *)
(* (authoritative-inventory-cache.cts).                                    *)
THEOREM InventoriesAreCurrent == Cache!Spec => []AnswersAreCurrent
<1>1. CacheProofs!CacheConstants
  BY CacheAssumption DEF CacheProofs!CacheConstants, CacheProofs!File
<1>2. CacheProofs!AnswersAreCurrent <=> AnswersAreCurrent
  BY DEF AnswersAreCurrent, CacheProofs!AnswersAreCurrent, Cache!AnswersAreCurrent,
         Cache!Since, CacheProofs!Since, Cache!Pinned, CacheProofs!Pinned, Cache!Pins,
         CacheProofs!Pins, Cache!File, CacheProofs!File, Cache!Nothing, CacheProofs!Nothing,
         Cache!Unanswered, CacheProofs!Unanswered
<1> QED
  BY <1>1, <1>2, SameCacheInit, SameCacheNext, CacheProofs!AnswersStayCurrent, PTL
  DEF Cache!Spec, CacheProofs!Spec
=============================================================================
