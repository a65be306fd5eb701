--------------------------- MODULE AcpHostMirror ---------------------------
(***************************************************************************)
(* How the server keeps a copy of what its ACP runtime host knows: the     *)
(* host's numbered events with their bounded buffer                        *)
(* (backend/acp-runtime-host-state.cts), its connections                   *)
(* (acp-runtime-host-process.cts), the client that registers, recovers and *)
(* mirrors (acp-runtime-host-client.cts) and the facade that the agent     *)
(* manager looks at (acp-runtime-host-runtime.cts).                        *)
(*                                                                         *)
(* One agent, one server.  The states of all hosts that follow each other  *)
(* are one log, which is history: a host counts from its entry base + 1,   *)
(* where it knows nothing, and its event n leads to entry base + 1 + n.    *)
(* A response and the code that awaits it are two steps, between which     *)
(* other messages of the same chunk are read.  The replacement of hosts    *)
(* of another build, callbacks and the limits on frames are not modelled.  *)
(***************************************************************************)
EXTENDS Integers, Sequences, FiniteSetsExt

CONSTANTS Text,         \* what a binding says of its session
          MaxBindings,  \* bound: bindings the host makes, named 1, 2, ...
          MaxLog,       \* bound: states of all hosts together that an event may exceed by one
          MaxEvents,    \* events that the host keeps
          MaxBuffered,  \* events that the client keeps while it recovers
          Faults,       \* what may go wrong, and whether sessions are read
          MaxFaults     \* bound: faults

Epoch == 1 .. MaxBindings

(* The binding of the agent with its epoch, 0 if there is none, and the    *)
(* binding epochs for which there are prompt operations.                   *)
NoText == CHOOSE t \in Text : TRUE
Nothing == [epoch |-> 0, text |-> NoText, ops |-> {}]
State == [epoch : {0} \cup Epoch, text : Text, ops : SUBSET Epoch]

VARIABLES log,     \* states of the hosts (history)
          news,    \* the events that led to them, of which seq n is news[base + 1 + n]
          host,    \* up, base; first: the sequence number its buffer starts with
          used,    \* binding epochs that have been used
          conn,    \* the connection: open, controller registered, request, answer, wire
          client,  \* the server's client object
          orphan,  \* a recovery runs that nobody waits for
          facade,  \* the facade's session
          faults

hostVars == <<log, news, host, used>>
vars == <<hostVars, conn, client, orphan, facade, faults>>

None == [type |-> "none"]
Shut == [open |-> FALSE, active |-> FALSE, asked |-> None, answer |-> None, wire |-> <<>>]
Fresh == [stage |-> "idle", resolved |-> None, recovering |-> FALSE, full |-> FALSE,
          base |-> 0, seq |-> 0, mirror |-> Nothing, buffer |-> <<>>, mixed |-> FALSE,
          overlaid |-> FALSE]
Stages == {"idle", "connecting", "registering", "recovering", "ready"}

TypeOK ==
  /\ log \in Seq(State) /\ Len(news) = Len(log)
  /\ host \in [up : BOOLEAN, base : Nat, first : Nat \ {0}]
  /\ used \in 0 .. MaxBindings
  /\ conn.open \in BOOLEAN /\ conn.active \in BOOLEAN
  /\ client.stage \in Stages /\ client.mirror \in State
  /\ client.recovering \in BOOLEAN /\ client.full \in BOOLEAN
  /\ client.base \in Nat /\ client.seq \in Nat /\ client.buffer \in Seq(Nat)
  /\ orphan \in BOOLEAN
  /\ facade \in State

Init ==
  /\ log = <<>> /\ news = <<>> /\ used = 0
  /\ host = [up |-> FALSE, base |-> 0, first |-> 1]
  /\ conn = Shut /\ client = Fresh /\ orphan = FALSE /\ facade = Nothing
  /\ faults = 0

Now == log[Len(log)]
EventSeq == Len(log) - host.base - 1

-----------------------------------------------------------------------------
(* The host.                                                               *)

(* spawnHost: a new process that knows nothing                             *)
HostStarts ==
  /\ client.stage = "connecting" /\ ~host.up
  /\ host' = [up |-> TRUE, base |-> Len(log), first |-> 1]
  /\ log' = Append(log, Nothing) /\ news' = Append(news, None)
  /\ UNCHANGED <<used, conn, client, orphan, facade, faults>>

(* publish: as many old events as needed make room, by number or by size,  *)
(* and an event that is too large empties the buffer; broadcast sends the  *)
(* event to the registered controller.                                     *)
Publish(s, event) ==
  /\ host.up /\ Len(log) < MaxLog
  /\ log' = Append(log, s) /\ news' = Append(news, event)
  /\ LET n == EventSeq + 1 IN
     /\ \E first \in host.first .. n + 1 :
          first > n - MaxEvents /\ host' = [host EXCEPT !.first = first]
     /\ conn' = IF conn.active
                THEN [conn EXCEPT !.wire = Append(@, [type |-> "event", seq |-> n])]
                ELSE conn
  /\ UNCHANGED <<client, orphan, facade, faults>>

(* upsertBinding: a binding made for the controller, or more to say of it  *)
Bind ==
  /\ conn.active /\ used < MaxBindings /\ used' = used + 1
  /\ \E t \in Text :
       Publish([Now EXCEPT !.epoch = used', !.text = t],
               [type |-> "binding", epoch |-> used', text |-> t])

Update ==
  /\ host.up /\ Now.epoch # 0
  /\ \E t \in Text \ {Now.text} :
       Publish([Now EXCEPT !.text = t], [type |-> "binding", epoch |-> Now.epoch, text |-> t])
  /\ UNCHANGED used

(* patchBinding                                                            *)
Patch ==
  /\ host.up /\ Now.epoch # 0
  /\ \E t \in Text \ {Now.text} :
       Publish([Now EXCEPT !.text = t], [type |-> "binding-patch", epoch |-> Now.epoch, text |-> t])
  /\ UNCHANGED used

(* A prompt operation of the binding is recorded or pruned.                *)
Operation ==
  /\ host.up /\ Now.epoch # 0 /\ Now.epoch \notin Now.ops
  /\ Publish([Now EXCEPT !.ops = @ \cup {Now.epoch}],
             [type |-> "prompt-operation", epoch |-> Now.epoch])
  /\ UNCHANGED used

Prune ==
  /\ host.up
  /\ \E e \in Now.ops :
       Publish([Now EXCEPT !.ops = @ \ {e}], [type |-> "operation-pruned", epoch |-> e])
  /\ UNCHANGED used

(* removeBinding, whose operations are settled and go with it              *)
Remove ==
  /\ host.up /\ Now.epoch # 0
  /\ Publish([Nothing EXCEPT !.ops = Now.ops \ {Now.epoch}],
             [type |-> "binding-removed", epoch |-> Now.epoch])
  /\ UNCHANGED used

Answer(reply) == conn' = [conn EXCEPT !.asked = None, !.answer = reply]
Idle == conn.open /\ conn.answer = None

HostRegister ==
  /\ Idle /\ conn.asked.type = "register"
  /\ conn' = [conn EXCEPT !.asked = None, !.active = TRUE, !.answer = [type |-> "registered"]]
  /\ UNCHANGED <<hostVars, client, orphan, facade, faults>>

(* AcpRuntimeHostState.recover: the missing events, or everything          *)
HostRecover ==
  /\ Idle /\ conn.asked.type = "recover"
  /\ LET after == conn.asked.after
     IN Answer([type |-> "recovered", seq |-> EventSeq, first |-> Max({after + 1, host.first}),
                replace |-> ~(after > 0 /\ after <= EventSeq /\ after >= host.first - 1)])
  /\ UNCHANGED <<hostVars, client, orphan, facade, faults>>

(* getSessionForRead on the host                                           *)
HostRead ==
  /\ Idle /\ conn.asked.type = "read"
  /\ Answer([type |-> "session", epoch |-> Now.epoch, text |-> Now.text])
  /\ UNCHANGED <<hostVars, client, orphan, facade, faults>>

(* The answer is sent a little later than it was made: events may pass it. *)
HostSend ==
  /\ conn.open /\ conn.answer # None
  /\ conn' = [conn EXCEPT !.answer = None, !.wire = Append(@, conn.answer)]
  /\ UNCHANGED <<hostVars, client, orphan, facade, faults>>

-----------------------------------------------------------------------------
(* The client: what an event does to a copy.                               *)

(* Variant: the operations of a removed binding stay.                      *)
ApplyKeepingOps(s, e) ==
  CASE e.type \in {"binding", "binding-patch"} -> [s EXCEPT !.epoch = e.epoch, !.text = e.text]
    [] e.type = "prompt-operation" -> [s EXCEPT !.ops = @ \cup {e.epoch}]
    [] e.type = "operation-pruned" -> [s EXCEPT !.ops = @ \ {e.epoch}]
    [] e.type = "binding-removed" -> [Nothing EXCEPT !.ops = s.ops]

(* installRuntimeEvent                                                     *)
Apply(s, e) ==
  CASE e.type = "binding" -> [s EXCEPT !.epoch = e.epoch, !.text = e.text]
    [] e.type = "binding-patch" -> IF s.epoch = e.epoch THEN [s EXCEPT !.text = e.text] ELSE s
    [] e.type = "prompt-operation" -> [s EXCEPT !.ops = @ \cup {e.epoch}]
    [] e.type = "operation-pruned" -> [s EXCEPT !.ops = @ \ {e.epoch}]
    [] e.type = "binding-removed" ->
         IF s.epoch = e.epoch THEN [Nothing EXCEPT !.ops = s.ops \ {e.epoch}] ELSE s

(* The facade looks at the bindings only.                                  *)
Shown(s) == [s EXCEPT !.ops = {}]

Event(n) == news[host.base + 1 + n]

(* The copy s after the events m + 1 .. n                                  *)
After(s, m, n) ==
  LET at[k \in m .. n] == IF k = m THEN s ELSE Apply(at[k - 1], Event(k))
  IN at[n]

(* Variant: what came during the recovery is forgotten.                    *)
ReachedForgetting(buffer, n) == n

(* installBufferedEvents: the sequence number to which buffered events     *)
(* lead from n, or -1 when one is missing.                                 *)
Reached(buffer, n) ==
  LET to[k \in 0 .. Len(buffer)] ==
        IF k = 0 THEN n
        ELSE LET before == to[k - 1]
             IN IF before = -1 THEN -1
                ELSE IF buffer[k] <= before THEN before
                ELSE IF buffer[k] = before + 1 THEN buffer[k] ELSE -1
  IN to[Len(buffer)]

-----------------------------------------------------------------------------
(* initialize: a client is used for one registration.                      *)
Initialize ==
  /\ client.stage = "idle"
  /\ client' = [Fresh EXCEPT !.stage = "connecting"]
  /\ UNCHANGED <<hostVars, conn, orphan, facade, faults>>

(* connectOnce, ping, and the request to be registered.  The host epoch    *)
(* learned from the ping replaces that of the copy: when the client tries  *)
(* again with events of another host, nothing will tell (mixed, history).  *)
Connect ==
  /\ client.stage = "connecting" /\ host.up
  /\ conn' = [Shut EXCEPT !.open = TRUE, !.asked = [type |-> "register"]]
  /\ client' = [client EXCEPT !.stage = "registering", !.resolved = None, !.base = host.base,
                  !.mixed = client.mixed \/ (client.seq > 0 /\ client.base # host.base)]
  /\ UNCHANGED <<hostVars, orphan, facade, faults>>

Ask(full) ==
  conn' = [conn EXCEPT !.asked =
             [type |-> "recover", after |-> IF full THEN 0 ELSE client.seq]]

Fail == conn' = Shut /\ client' = [client EXCEPT !.stage = "idle", !.resolved = None]

(* handleMessage and applyEvent.  A gap starts a recovery of its own.  Too *)
(* many events break the connection; when that happens between the answer  *)
(* and what awaits it, the facade copies a client that has nothing yet.    *)
Receive ==
  /\ conn.open /\ conn.wire # <<>>
  /\ LET m == Head(conn.wire)
         read == [conn EXCEPT !.wire = Tail(@)]
     IN CASE m.type # "event" ->
               /\ client.resolved = None
               /\ client' = [client EXCEPT !.resolved = m]
               /\ conn' = read
               /\ UNCHANGED <<orphan, facade>>
          [] m.type = "event" /\ client.recovering /\ Len(client.buffer) < MaxBuffered ->
               /\ client' = [client EXCEPT !.buffer = Append(@, m.seq)]
               /\ conn' = read
               /\ UNCHANGED <<orphan, facade>>
          [] m.type = "event" /\ client.recovering /\ Len(client.buffer) >= MaxBuffered ->
               /\ Fail
               /\ facade' = IF client.resolved.type = "recovered" THEN Nothing ELSE facade
               /\ UNCHANGED orphan
          [] m.type = "event" /\ ~client.recovering /\ m.seq <= client.seq ->
               conn' = read /\ UNCHANGED <<client, orphan, facade>>
          [] m.type = "event" /\ ~client.recovering /\ m.seq = client.seq + 1 ->
               /\ client' = [client EXCEPT !.seq = m.seq, !.mirror = Apply(@, Event(m.seq))]
               /\ facade' = Shown(Apply(facade, Event(m.seq)))
               /\ conn' = read /\ UNCHANGED orphan
          [] m.type = "event" /\ ~client.recovering /\ m.seq > client.seq + 1 ->
               /\ client' = [client EXCEPT !.recovering = TRUE, !.full = TRUE, !.buffer = <<>>]
               /\ conn' = [read EXCEPT !.asked = [type |-> "recover", after |-> 0]]
               /\ orphan' = TRUE /\ UNCHANGED facade
  /\ UNCHANGED <<hostVars, faults>>

(* connectAndRegister after the registration: recover(), which refuses     *)
(* while another recovery runs and so fails the attempt.                   *)
Registered ==
  /\ client.resolved.type = "registered"
  /\ IF client.recovering THEN Fail
     ELSE /\ Ask(FALSE)
          /\ client' = [client EXCEPT !.stage = "recovering", !.resolved = None,
                                      !.recovering = TRUE, !.full = FALSE, !.buffer = <<>>]
  /\ UNCHANGED <<hostVars, orphan, facade, faults>>

(* recover() with its answer: installRecovery, installBufferedEvents, and  *)
(* the facade's syncRecoveredBindings.                                     *)
Recovered ==
  /\ client.resolved.type = "recovered"
  /\ LET r == client.resolved
         install == IF r.replace THEN log[host.base + 1 + r.seq]
                    ELSE After(client.mirror, client.seq, r.seq)
         to == IF ~r.replace /\ (client.full \/ r.first > client.seq + 1) THEN -1
               ELSE Reached(client.buffer, r.seq)
     IN IF to # -1
        THEN /\ client' = [client EXCEPT !.stage = "ready", !.resolved = None, !.seq = to,
                             !.mirror = After(install, r.seq, to),
                             !.recovering = FALSE, !.full = FALSE, !.buffer = <<>>,
                             !.mixed = @ /\ ~r.replace, !.overlaid = FALSE]
             /\ facade' = Shown(client'.mirror)
             /\ UNCHANGED conn
        ELSE IF ~client.full
        THEN /\ client' = [client EXCEPT !.resolved = None, !.full = TRUE, !.buffer = <<>>]
             /\ Ask(TRUE) /\ UNCHANGED facade
        ELSE Fail /\ UNCHANGED facade
  /\ UNCHANGED <<hostVars, orphan, faults>>

(* The recovery that nobody waits for fails with its time-out or with its  *)
(* connection: an error event without a listener ends the server, which is *)
(* started again.                                                          *)
OrphanFails ==
  /\ orphan /\ orphan' = FALSE
  /\ Fail /\ facade' = Nothing
  /\ UNCHANGED <<hostVars, faults>>

(* getSessionForRead: what was read is laid over what the facade has, also *)
(* when an event that is newer was applied before (overlaid, history).     *)
Read ==
  /\ "read" \in Faults /\ faults < MaxFaults /\ faults' = faults + 1
  /\ client.stage = "ready" /\ conn.asked = None /\ facade.epoch # 0
  /\ conn' = [conn EXCEPT !.asked = [type |-> "read"]]
  /\ UNCHANGED <<hostVars, client, orphan, facade>>

ReadAnswered ==
  /\ client.resolved.type = "session"
  /\ facade' = IF client.resolved.epoch = 0 THEN facade
               ELSE [facade EXCEPT !.epoch = IF @ = 0 THEN client.resolved.epoch ELSE @,
                                   !.text = client.resolved.text]
  /\ client' = [client EXCEPT !.resolved = None, !.overlaid = @ \/ facade' # facade]
  /\ UNCHANGED <<hostVars, conn, orphan, faults>>

-----------------------------------------------------------------------------
Fault(kind) == kind \in Faults /\ faults < MaxFaults /\ faults' = faults + 1

(* The connection breaks: every request on it fails, and so does the       *)
(* attempt that waits for one (handleDisconnect).                          *)
Disconnect ==
  /\ conn.open /\ client.resolved = None
  /\ Fault("closed")
  /\ Fail
  /\ UNCHANGED <<hostVars, orphan, facade>>

HostDies ==
  /\ host.up /\ client.resolved = None
  /\ Fault("host-dies")
  /\ host' = [host EXCEPT !.up = FALSE]
  /\ IF conn.open THEN Fail ELSE UNCHANGED <<conn, client>>
  /\ UNCHANGED <<log, news, used, orphan, facade>>

(* A request of connectAndRegister times out: the same client tries again, *)
(* as often as connectRetries says.                                        *)
Timeout ==
  /\ client.stage \in {"registering", "recovering"} /\ client.resolved = None
  /\ Fault("late")
  /\ conn' = Shut
  /\ \E stage \in {"connecting", "idle"} :
       client' = [client EXCEPT !.stage = stage,
                    !.recovering = client.stage = "registering" /\ @, !.buffer = <<>>]
  /\ UNCHANGED <<hostVars, orphan, facade>>

-----------------------------------------------------------------------------
Host == HostStarts \/ HostRegister \/ HostRecover \/ HostRead \/ HostSend
Change == Bind \/ Update \/ Patch \/ Operation \/ Prune \/ Remove
Server ==
  Initialize \/ Connect \/ Receive \/ Registered \/ Recovered \/ ReadAnswered \/ OrphanFails

Next == Host \/ Change \/ Server \/ Read \/ Disconnect \/ HostDies \/ Timeout

Spec == Init /\ [][Next]_vars

(* Both processes run, messages arrive, and somebody asks the facade for   *)
(* something whenever it has no connection: every operation of it starts   *)
(* with initialize().                                                      *)
FairSpec == Spec /\ WF_vars(Host \/ Server)

-----------------------------------------------------------------------------
(* Between recoveries the client's copy, operations included, is what the  *)
(* host knew at the copy's sequence number, whatever events came before,   *)
(* during and after the recovery (acp-runtime-host-client.cts:593-691);    *)
(* and the facade shows the same session, unless a read changed that.      *)
Following == client.stage = "ready" /\ ~client.mixed
MirrorIsHost ==
  Following => /\ client.mirror = log[client.base + 1 + client.seq]
               /\ client.overlaid \/ facade = Shown(client.mirror)

(* ... and it only advances while the connection lasts.                    *)
Follower ==
  INSTANCE StateFollower WITH
    Viewer <- {"server"},
    seen <- [v \in {"server"} |->
               IF Following THEN client.base + 1 + client.seq ELSE 0],
    clear <- IF Following THEN {"server"} ELSE {},
    shown <- [v \in {"server"} |-> client.mirror]
Follows == Follower!Spec

(* When host and connection are no longer disturbed, the client comes to   *)
(* mirror what the host knows, gaps, overflowing buffers and recoveries    *)
(* that nobody waits for notwithstanding.                                  *)
CaughtUp == client.stage = "ready" /\ (~client.mixed => client.mirror = Now)
MirrorCatchesUp == <>[]CaughtUp
=============================================================================
