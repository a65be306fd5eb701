------------------------ MODULE AgentStateBroadcast ------------------------
(***************************************************************************)
(* How browser pages follow the state of the agents: the tracker and its   *)
(* deltas (backend/agent-state-broadcast-protocol.cts), the scheduler that *)
(* collects changes (websocket-agent-state-broadcast-scheduler.cts), the   *)
(* paged snapshots with their queue of deltas                              *)
(* (websocket-agent-state-snapshot-controller.cts, server.cts) and the     *)
(* page that puts both together (src/hooks/useWebSocket.ts,                *)
(* shared/agent-state-reducer.ts).                                         *)
(*                                                                         *)
(* The log of tracked states is history; a delta is named by its sequence  *)
(* number and a snapshot page by its sequence, offset and size, since the  *)
(* log says what they carry.  The id of a snapshot is left out: a snapshot *)
(* starts with offset 0 and the socket keeps the order.  So is the server  *)
(* epoch: a page forgets everything when its socket closes.  The scopes of *)
(* the CRT skin, activity and previews are not modelled.                   *)
(***************************************************************************)
EXTENDS Integers, Sequences, FiniteSets, FiniteSetsExt

CONSTANTS Viewer,       \* browser pages
          NumAgents,    \* agents are 1..NumAgents, in the order of a snapshot
          Version,      \* states of an agent, 0 if there is none; of metadata
          Changing,     \* items whose changes are announced
          Start,        \* states with which the server may start
          PageSize,     \* agents on a page of a snapshot
          MaxQueue,     \* deltas that wait behind a snapshot
          MaxBuffered,  \* unread messages that do not congest a connection
          MaxChanges,   \* bound: changes of the state
          MaxFaults,    \* bound: broken or clogged connections, expired deadlines
          Trouble       \* which of these may happen to whom

ASSUME BroadcastAssumption ==
  /\ NumAgents \in Nat /\ 0 \in Version /\ PageSize \in Nat \ {0}
  /\ MaxQueue \in Nat /\ MaxBuffered \in Nat
  /\ Trouble \in [Viewer -> SUBSET {"clogged", "closed", "late"}]
  /\ Changing \subseteq 0 .. NumAgents
  /\ Start \subseteq [0 .. NumAgents -> Version]

Agent == 1 .. NumAgents
Metadata == 0
Item == Agent \cup {Metadata}
State == [Item -> Version]

VARIABLES truth,    \* the agents and the metadata as they are
          pending,  \* items announced as changed since the last flush
          armed,    \* the scheduler's timer runs
          log,      \* tracked states: the tracker holds the last one, log[n + 1]
                    \* has sequence number n, none before the first checkpoint
          client,   \* the server's side of each connection
          asked,    \* state-resync messages on their way to the server
          cursor,   \* the page: sequence number of its state, -1 for none
          partial,  \* ... the snapshot it is receiving: <<sequence, offset>>
          resync,   \* ... it waits for a new snapshot
          view,     \* ... the state it shows
          whole,    \* ... which it takes for complete
          changes, faults  \* counters behind the bounds

serverVars == <<truth, pending, armed, log, changes>>
pageVars == <<cursor, partial, resync, view, whole>>
vars == <<serverVars, client, asked, pageVars, faults>>

Fresh == [open |-> TRUE, sent |-> FALSE, busy |-> FALSE, want |-> FALSE,
          over |-> FALSE, done |-> FALSE, seq |-> 0, offset |-> 0,
          clogged |-> FALSE, queue |-> <<>>, wire |-> <<>>]
Closed == [Fresh EXCEPT !.open = FALSE]
Page == {<<>>} \cup (Nat \X Nat)

TypeOK ==
  /\ truth \in State /\ pending \subseteq Item /\ armed \in BOOLEAN
  /\ log \in Seq(State)
  /\ DOMAIN client = Viewer
  /\ asked \in [Viewer -> Nat]
  /\ cursor \in [Viewer -> Nat \cup {-1}] /\ partial \in [Viewer -> Page]
  /\ resync \in [Viewer -> BOOLEAN]
  /\ view \in [Viewer -> State] /\ whole \in [Viewer -> BOOLEAN]

Init ==
  /\ truth \in Start /\ pending = {} /\ armed = FALSE /\ log = <<>>
  /\ client = [v \in Viewer |-> Closed]
  /\ asked = [v \in Viewer |-> 0]
  /\ cursor = [v \in Viewer |-> -1] /\ partial = [v \in Viewer |-> <<>>]
  /\ resync = [v \in Viewer |-> FALSE]
  /\ view = [v \in Viewer |-> [i \in Item |-> 0]]
  /\ whole = [v \in Viewer |-> FALSE]
  /\ changes = 0 /\ faults = 0

-----------------------------------------------------------------------------
(* The connection of one page, seen from the server.  c is its record, l   *)
(* the log.                                                                *)

Present(s) == {a \in Agent : s[a] # 0}
Congested(c) == c.clogged \/ Len(c.wire) > MaxBuffered
Put(c, m) == [c EXCEPT !.wire = Append(@, m)]
PutDelta(c, n) == Put(c, [type |-> "delta", seq |-> n])
PutPage(c, n, from, size) ==
  Put(c, [type |-> "page", seq |-> n, offset |-> from, size |-> size])

(* deferAgentStateMessageDuringSnapshot                                    *)
Defer(c, n) ==
  IF c.want THEN c
  ELSE IF Len(c.queue) < MaxQueue THEN [c EXCEPT !.queue = Append(@, n)]
  ELSE [c EXCEPT !.queue = <<>>, !.want = TRUE, !.over = TRUE]

(* drainSnapshotDeltas without a new snapshot to take                      *)
Drain(c) ==
  IF Congested(c) THEN c
  ELSE IF c.queue = <<>> THEN [c EXCEPT !.busy = FALSE]
  ELSE PutDelta([c EXCEPT !.queue = Tail(@)], Head(c.queue))

(* sendState after its checkpoint: the first page of a new snapshot, which *)
(* is the only one after an overflow.                                      *)
Snapshot(c, l) ==
  LET total == Cardinality(Present(l[Len(l)]))
      size == IF c.over THEN total ELSE Min({PageSize, total})
      cut == PutPage([c EXCEPT !.sent = TRUE, !.busy = TRUE, !.want = FALSE,
                               !.over = FALSE, !.queue = <<>>, !.done = (size = total),
                               !.seq = Len(l) - 1, !.offset = size],
                     Len(l) - 1, 0, size)
  IN IF size < total THEN cut
     ELSE IF c.over THEN [cut EXCEPT !.busy = FALSE] ELSE Drain(cut)

(* deliverNextPage after the first one                                     *)
NextPage(c, l) ==
  LET left == Cardinality(Present(l[c.seq + 1])) - c.offset
      size == Min({PageSize, left})
      next == PutPage([c EXCEPT !.offset = @ + size, !.done = (size = left)],
                      c.seq, c.offset, size)
  IN IF size = left THEN Drain(next) ELSE next

(* Variant: a delta that a congested page misses is not remembered.        *)
DeliverForgetting(c, n, l) ==
  IF ~c.open THEN c
  ELSE IF c.busy THEN Defer(c, n)
  ELSE IF Congested(c) THEN c
  ELSE IF c.want THEN Snapshot(c, l) ELSE PutDelta(c, n)

(* deliverStateDelta                                                       *)
Deliver(c, n, l) ==
  IF ~c.open THEN c
  ELSE IF c.busy THEN Defer(c, n)
  ELSE IF Congested(c) THEN [c EXCEPT !.want = TRUE]
  ELSE IF c.want THEN Snapshot(c, l) ELSE PutDelta(c, n)

-----------------------------------------------------------------------------
(* The tracker and the scheduler.                                          *)

(* sendState: a checkpoint brings the tracker to the truth, everybody else *)
(* gets the difference, and v a snapshot of the result.  A snapshot that   *)
(* is under way is restarted at its next step.                             *)
Checkpoint(v, cs) ==
  LET l == IF log = <<>> \/ log[Len(log)] # truth THEN Append(log, truth) ELSE log
  IN /\ log' = l /\ pending' = {} /\ armed' = FALSE
     /\ client' = [w \in Viewer |->
          IF w = v THEN Snapshot(cs[w], l)
          ELSE IF log # <<>> /\ l # log THEN Deliver(cs[w], Len(log), l)
          ELSE cs[w]]

SendState(v) ==
  IF client[v].busy
  THEN client' = [client EXCEPT ![v].want = TRUE] /\ UNCHANGED <<pending, armed, log>>
  ELSE Checkpoint(v, client)

(* flush: the pending items become a delta.  The first client that waits   *)
(* for a snapshot and can take one causes a checkpoint in the middle of    *)
(* the delivery, and so a second delta that overtakes the first one at all *)
(* clients not yet visited.                                                *)
Flush(announced, now) ==
  LET m == [i \in Item |-> IF i \in announced THEN now[i] ELSE log[Len(log)][i]]
      n == Len(log)
      ready == {v \in Viewer : LET c == client[v] IN c.open /\ c.want /\ ~c.busy /\ ~Congested(c)}
  IN /\ pending' = {} /\ armed' = FALSE
     /\ IF log = <<>> \/ m = log[Len(log)] THEN UNCHANGED <<log, client>>
        ELSE IF ready = {}
        THEN /\ log' = Append(log, m)
             /\ client' = [w \in Viewer |-> Deliver(client[w], n, log')]
        ELSE /\ log' = Append(log, m) \o (IF m = now THEN <<>> ELSE <<now>>)
             /\ \E first \in ready, before \in SUBSET (Viewer \ ready) :
                  client' = [w \in Viewer |->
                    LET c == client[w]
                        one(d) == Deliver(d, n, log')
                        two(d) == IF m = now THEN d ELSE Deliver(d, n + 1, log')
                    IN IF w = first THEN Snapshot(c, log')
                       ELSE IF w \in before THEN two(one(c)) ELSE one(two(c))]

(* A change that its owner announces (queueChange, queueMetadata): it is   *)
(* flushed at once, or with the others when the interval has passed.       *)
Announce(i) ==
  /\ changes < MaxChanges /\ changes' = changes + 1
  /\ \E x \in Version \ {truth[i]} : truth' = [truth EXCEPT ![i] = x]
  /\ \/ ~armed /\ Flush(pending \cup {i}, truth')
     \/ pending' = pending \cup {i} /\ armed' = TRUE /\ UNCHANGED <<log, client>>
  /\ UNCHANGED <<asked, pageVars, faults>>

(* The workspace roots change with the disk: only a checkpoint notices.    *)
QuietChange ==
  /\ changes < MaxChanges /\ changes' = changes + 1
  /\ \E x \in Version \ {truth[Metadata]} : truth' = [truth EXCEPT ![Metadata] = x]
  /\ UNCHANGED <<pending, armed, log, client, asked, pageVars, faults>>

FlushTimer ==
  /\ armed
  /\ Flush(pending, truth)
  /\ UNCHANGED <<truth, changes, asked, pageVars, faults>>

-----------------------------------------------------------------------------
(* The other occasions on which the server sends.                          *)

(* protocolHello, or the window for it has passed                          *)
FirstState(v) ==
  /\ client[v].open /\ ~client[v].sent
  /\ SendState(v)
  /\ UNCHANGED <<truth, changes, asked, pageVars, faults>>

StateResync(v) ==
  /\ client[v].open /\ asked[v] > 0
  /\ asked' = [asked EXCEPT ![v] = @ - 1]
  /\ SendState(v)
  /\ UNCHANGED <<truth, changes, pageVars, faults>>

(* recoverSnapshotIfReady, after a health probe of the page                *)
Recover(v) ==
  LET c == client[v] IN
  /\ c.open /\ ~c.busy /\ c.want /\ ~Congested(c)
  /\ SendState(v)
  /\ UNCHANGED <<truth, changes, asked, pageVars, faults>>

(* The timer of a snapshot under way: restartPendingSnapshot,              *)
(* deliverNextPage or drainSnapshotDeltas.                                 *)
SnapshotTimer(v) ==
  LET c == client[v] IN
  /\ c.open /\ c.busy
  /\ IF c.want
     THEN Checkpoint(v, [client EXCEPT ![v].busy = FALSE])
     ELSE /\ ~Congested(c)
          /\ client' = [client EXCEPT ![v] = IF c.done THEN Drain(c) ELSE NextPage(c, log)]
          /\ UNCHANGED <<pending, armed, log>>
  /\ UNCHANGED <<truth, changes, asked, pageVars, faults>>

-----------------------------------------------------------------------------
(* The page.                                                               *)

(* requestAgentStateResync                                                 *)
Resync(v) ==
  /\ resync' = [resync EXCEPT ![v] = TRUE] /\ partial' = [partial EXCEPT ![v] = <<>>]
  /\ asked' = [asked EXCEPT ![v] = @ + 1]
  /\ UNCHANGED <<cursor, view, whole>>

(* The agents on a page, by their places in the snapshot.                  *)
Place(s, a) == Cardinality({b \in Present(s) : b < a})
Carried(m) ==
  LET s == log[m.seq + 1]
  IN {a \in Present(s) : m.offset <= Place(s, a) /\ Place(s, a) < m.offset + m.size}

(* case 'state': pages replace or complete the snapshot being received.    *)
TakePage(v, m) ==
  LET s == log[m.seq + 1]
      next == m.offset + m.size
      complete == next = Cardinality(Present(s))
      gathered == Carried(m) \cup (IF complete THEN Agent \ Present(s) ELSE {})
  IN IF resync[v] /\ m.offset # 0 THEN UNCHANGED <<pageVars, asked>>
     ELSE IF m.offset # 0 /\ partial[v] # <<m.seq, m.offset>> THEN Resync(v)
     ELSE /\ partial' = [partial EXCEPT ![v] = IF complete THEN <<>> ELSE <<m.seq, next>>]
          /\ cursor' = [cursor EXCEPT ![v] = IF complete THEN m.seq ELSE @]
          /\ whole' = [whole EXCEPT ![v] = complete]
          /\ resync' = [resync EXCEPT ![v] = FALSE]
          /\ view' = [view EXCEPT ![v] = [i \in Item |->
               IF i \in gathered \/ (i = Metadata /\ m.offset = 0) THEN s[i] ELSE @[i]]]
          /\ UNCHANGED asked

(* Variant: a delta after a gap is applied.                                *)
DispositionGap(v, n) ==
  IF cursor[v] = -1 THEN "resync" ELSE IF n <= cursor[v] THEN "ignore" ELSE "apply"

(* agentStateDeltaDisposition                                              *)
Disposition(v, n) ==
  IF cursor[v] = -1 THEN "resync"
  ELSE IF n <= cursor[v] THEN "ignore"
  ELSE IF n = cursor[v] + 1 THEN "apply" ELSE "resync"

(* case 'state-delta'                                                      *)
TakeDelta(v, n) ==
  IF resync[v] THEN UNCHANGED <<pageVars, asked>>
  ELSE IF partial[v] # <<>> THEN Resync(v)
  ELSE CASE Disposition(v, n) = "ignore" -> UNCHANGED <<pageVars, asked>>
         [] Disposition(v, n) = "resync" -> Resync(v)
         [] Disposition(v, n) = "apply" ->
              /\ cursor' = [cursor EXCEPT ![v] = n]
              /\ view' = [view EXCEPT ![v] = [i \in Item |->
                   IF log[n + 1][i] # log[n][i] THEN log[n + 1][i] ELSE @[i]]]
              /\ UNCHANGED <<partial, resync, whole, asked>>

Receive(v) ==
  /\ client[v].wire # <<>>
  /\ client' = [client EXCEPT ![v].wire = Tail(@)]
  /\ LET m == Head(client[v].wire)
     IN IF m.type = "page" THEN TakePage(v, m) ELSE TakeDelta(v, m.seq)
  /\ UNCHANGED <<serverVars, faults>>

Fault(v, kind) == kind \in Trouble[v] /\ faults < MaxFaults /\ faults' = faults + 1

(* The socket closes, for whatever reason: both sides forget, and the page *)
(* goes on to show what it had.                                            *)
Close(v) ==
  /\ client' = [client EXCEPT ![v] = Closed]
  /\ asked' = [asked EXCEPT ![v] = 0]
  /\ cursor' = [cursor EXCEPT ![v] = -1] /\ partial' = [partial EXCEPT ![v] = <<>>]
  /\ resync' = [resync EXCEPT ![v] = FALSE]
  /\ UNCHANGED <<view, whole>>

Disconnect(v) ==
  /\ client[v].open
  /\ Fault(v, "closed")
  /\ Close(v)
  /\ UNCHANGED serverVars

(* agentStateSnapshotDeadline: neither the next page nor an answer came.   *)
Deadline(v) ==
  /\ client[v].open /\ (partial[v] # <<>> \/ resync[v])
  /\ Fault(v, "late")
  /\ IF partial[v] # <<>> THEN Resync(v) /\ UNCHANGED client ELSE Close(v)
  /\ UNCHANGED serverVars

(* More than MAX_STATE_CLIENT_BUFFERED_AMOUNT bytes wait in the socket, of *)
(* states or of terminal streams; later they are gone.                     *)
Clog(v) ==
  /\ client[v].open /\ ~client[v].clogged
  /\ Fault(v, "clogged")
  /\ client' = [client EXCEPT ![v].clogged = TRUE]
  /\ UNCHANGED <<serverVars, asked, pageVars>>

Unclog(v) ==
  /\ client[v].clogged
  /\ client' = [client EXCEPT ![v].clogged = FALSE]
  /\ UNCHANGED <<serverVars, asked, pageVars, faults>>

Connect(v) ==
  /\ ~client[v].open
  /\ client' = [client EXCEPT ![v] = Fresh]
  /\ UNCHANGED <<serverVars, asked, pageVars, faults>>

-----------------------------------------------------------------------------
Server(v) == FirstState(v) \/ StateResync(v) \/ Recover(v) \/ SnapshotTimer(v)

Next ==
  \/ QuietChange \/ FlushTimer
  \/ \E i \in Changing : Announce(i)
  \/ \E v \in Viewer :
       Server(v) \/ Receive(v) \/ Disconnect(v) \/ Deadline(v)
       \/ Clog(v) \/ Unclog(v) \/ Connect(v)

Spec == Init /\ [][Next]_vars

(* Timers fire, messages arrive, pages reconnect and probe the server.     *)
Runs ==
  \/ FlushTimer
  \/ \E v \in Viewer : Server(v) \/ Receive(v) \/ Unclog(v) \/ Connect(v)

FairSpec == Spec /\ WF_vars(Runs)

-----------------------------------------------------------------------------
(* What a page takes for complete is the state that the server tracked at  *)
(* the sequence number the page has: no delta is lost, repeated, applied   *)
(* out of order or applied to a snapshot that already holds it             *)
(* (shared/agent-state-reducer.ts:70-78).                                  *)
Attached == {v \in Viewer : whole[v] /\ cursor[v] # -1}
ViewIsTracked == \A v \in Attached : view[v] = log[cursor[v] + 1]

(* ... and it never falls back behind what it has shown while its          *)
(* connection lasts: the broadcast implements StateFollower.               *)
Follower ==
  INSTANCE StateFollower WITH
    seen <- [v \in Viewer |-> cursor[v] + 1], clear <- Attached, shown <- view
Follows == Follower!Spec

(* When the changes and the faults have stopped, every page shows the      *)
(* agents as they are, whatever congestion, overflowing queues and         *)
(* restarted snapshots did to the deltas.                                  *)
Current(v) == v \in Attached /\ \A a \in Agent : view[v][a] = truth[a]
PagesCatchUp == <>[](\A v \in Viewer : Current(v))
=============================================================================
