-------------------------- MODULE ComposerDelivery --------------------------
(***************************************************************************)
(* How a chat message gets from a request to the provider exactly once:    *)
(* the admission records of backend/agent-composer-admission.cts, the      *)
(* input queue of backend/agent-input-coordinator.cts, the delivery in     *)
(* backend/agent-manager.cts and the host connection of                    *)
(* backend/acp-runtime-host-client.cts and -runtime.cts, on top of the     *)
(* runtime host of AcpPromptHost.  The server may crash and restart from   *)
(* its last snapshot and the connection may break; the host survives both. *)
(*                                                                         *)
(* One agent that stays a chat agent; terminal delivery, content hashes    *)
(* and the limits on records are left out.                                 *)
(***************************************************************************)
EXTENDS AcpPromptHost

VARIABLES record,   \* composerCommands in the server's memory
          disk,     \* ... and in the last session snapshot
          sending,  \* how far the delivery of a live admission is
          retry,    \* live admissions that follow a definite failure
          queue,    \* messages in the agent's input queue
          before,   \* ... and those which each of them waits for there
          link,     \* the server is connected to the host
          wire,     \* requests the host has not read yet
          news,     \* reports of ownership the server has not read yet
          lost      \* history: requests whose record a crash set back

inputQueue == <<queue, before>>
serverVars == <<record, disk, sending, retry, inputQueue, link, wire, news, lost>>
vars == <<hostVars, serverVars>>

Verdict == {"none", "intent", "accepted", "unknown", "failed"}

TypeOK ==
  /\ HostTypeOK
  /\ record \in [Req -> Verdict] /\ disk \in [Req -> Verdict]
  /\ sending \in [Req -> {"no", "queued", "reconnect", "sent"}]
  /\ retry \in SUBSET Req
  /\ queue \in SUBSET Req
  /\ before \in [Req -> SUBSET Req]
  /\ link \in BOOLEAN
  /\ wire \in SUBSET [req : Req, retry : BOOLEAN]
  /\ news \in SUBSET Req
  /\ lost \in SUBSET Req

Init ==
  /\ HostInit
  /\ record = [r \in Req |-> "none"] /\ disk = record
  /\ sending = [r \in Req |-> "no"]
  /\ queue = {} /\ before = [r \in Req |-> {}]
  /\ retry = {} /\ link = TRUE /\ wire = {} /\ news = {} /\ lost = {}

-----------------------------------------------------------------------------
Pending(r) == sending[r] # "no" /\ record[r] = "intent"

Remember(r, verdict) == record' = [record EXCEPT ![r] = verdict]
Reaches(r, step) == sending' = [sending EXCEPT ![r] = step]

(* The input queue: a message waits until those before it are released.    *)
Joins(r) == queue' = queue \cup {r} /\ before' = [before EXCEPT ![r] = queue]
Releases(set) == /\ queue' = queue \ set
                 /\ before' = [r \in Req |-> before[r] \ set]

(* Variant: only acceptance lets the next message go.                      *)
ReleaseAccepted(r) == IF record'[r] = "accepted" THEN Releases({r}) ELSE UNCHANGED inputQueue

(* A message leaves the queue when it is accepted or has failed.           *)
Release(r) == Releases({r})

(* request: a new message, or one that definitely failed, is admitted.     *)
(* Anything else is answered from its record.                              *)
Request(r) ==
  /\ sending[r] = "no" /\ record[r] \in {"none", "failed"}
  /\ Remember(r, "intent")
  /\ retry' = IF record[r] = "failed" THEN retry \cup {r} ELSE retry
  /\ IF r \in Steers THEN Reaches(r, "reconnect") /\ UNCHANGED inputQueue
     ELSE Reaches(r, "queued") /\ Joins(r)
  /\ UNCHANGED <<hostVars, disk, link, wire, news, lost>>

(* An intent left by an earlier server is uncertain, and stays so.         *)
Reconcile(r) ==
  /\ sending[r] = "no" /\ record[r] = "intent"
  /\ Remember(r, "unknown")
  /\ UNCHANGED <<hostVars, disk, sending, retry, inputQueue, link, wire, news, lost>>

(* Variant: a message does not wait for those before it.                   *)
StartAny(r) ==
  /\ sending[r] = "queued"
  /\ Reaches(r, "reconnect")
  /\ UNCHANGED <<hostVars, record, disk, retry, inputQueue, link, wire, news, lost>>

Start(r) ==
  /\ sending[r] = "queued" /\ before[r] = {}
  /\ Reaches(r, "reconnect")
  /\ UNCHANGED <<hostVars, record, disk, retry, inputQueue, link, wire, news, lost>>

(* Nothing was sent: the admission expired, the agent is not available, or *)
(* the host cannot be reached.                                             *)
Refuse(r) ==
  /\ \/ sending[r] = "queued" /\ before[r] = {}
     \/ sending[r] = "reconnect"
  /\ Remember(r, "failed") /\ Reaches(r, "no") /\ Release(r)
  /\ retry' = retry \ {r}
  /\ UNCHANGED <<hostVars, disk, link, wire, news, lost>>

(* initialize: a new connection registers as a newer controller, so that   *)
(* the host rejects what the old one still had on the wire, and copies the *)
(* operations.                                                             *)
Connect ==
  /\ ~link
  /\ link' = TRUE /\ wire' = {} /\ news' = {}
  /\ UNCHANGED <<hostVars, record, disk, sending, retry, inputQueue, lost>>

(* submitMessage: a message that the copied operations show at the         *)
(* provider is accepted before its request is even sent.                   *)
Send(r) ==
  /\ sending[r] = "reconnect" /\ link
  /\ Reaches(r, "sent")
  /\ wire' = wire \cup {[req |-> r, retry |-> r \in retry]}
  /\ retry' = retry \ {r}
  /\ IF op[r] \in {"owned", "settled"} /\ r \notin news
     THEN Remember(r, "accepted") /\ Release(r)
     ELSE UNCHANGED <<record, inputQueue>>
  /\ UNCHANGED <<hostVars, disk, link, news, lost>>

Receive(r) ==
  \E m \in wire :
    /\ m.req = r /\ wire' = wire \ {m}
    /\ Admit(r, m.retry)
    /\ UNCHANGED <<record, disk, sending, retry, inputQueue, link, news, lost>>

(* Variant: the message counts as accepted when the host has admitted it.  *)
RespondAdmitted(r) ==
  /\ link /\ sending[r] = "sent" /\ r \notin news
  /\ \A m \in wire : m.req # r
  /\ op[r] \notin {"none", "owned"}
  /\ IF Pending(r)
     THEN Remember(r, IF op[r] \in {"admitting", "settled"} THEN "accepted" ELSE "failed")
          /\ Release(r)
     ELSE UNCHANGED <<record, inputQueue>>
  /\ Reaches(r, "no")
  /\ UNCHANGED <<hostVars, disk, retry, link, wire, news, lost>>

(* The prompt-operation event says that the provider owns the message.     *)
Accept(r) ==
  /\ r \in news
  /\ news' = news \ {r}
  /\ IF sending[r] = "sent" /\ Pending(r)
     THEN Remember(r, "accepted") /\ Release(r)
     ELSE UNCHANGED <<record, inputQueue>>
  /\ UNCHANGED <<hostVars, disk, sending, retry, link, wire, lost>>

(* The response to submitPrompt, which follows the events.                 *)
Respond(r) ==
  /\ link /\ sending[r] = "sent" /\ r \notin news
  /\ \A m \in wire : m.req # r
  /\ op[r] \in {"settled", "failed", "broken"}
  /\ IF Pending(r)
     THEN /\ Remember(r, IF op[r] = "settled" THEN "accepted" ELSE "failed")
          /\ Release(r)
     ELSE UNCHANGED <<record, inputQueue>>
  /\ Reaches(r, "no")
  /\ UNCHANGED <<hostVars, disk, retry, link, wire, news, lost>>

Waiting(r) == sending[r] \in {"reconnect", "sent"}

(* Variant: a broken connection is a failure like any other.               *)
DisconnectFails ==
  /\ link /\ "disconnect" \in Faults
  /\ link' = FALSE /\ news' = {}
  /\ record' = [r \in Req |-> IF Waiting(r) /\ Pending(r) THEN "failed" ELSE record[r]]
  /\ sending' = [r \in Req |-> IF Waiting(r) THEN "no" ELSE sending[r]]
  /\ Releases({r \in Req : Waiting(r)})
  /\ retry' = {r \in retry : ~Waiting(r)}
  /\ UNCHANGED <<hostVars, disk, wire, lost>>

(* handleDisconnect: every outstanding request that changes state ends     *)
(* uncertain; the host may still read what is on the wire.                 *)
Disconnect ==
  /\ link /\ "disconnect" \in Faults
  /\ link' = FALSE /\ news' = {}
  /\ record' = [r \in Req |-> IF Waiting(r) /\ Pending(r) THEN "unknown" ELSE record[r]]
  /\ sending' = [r \in Req |-> IF Waiting(r) THEN "no" ELSE sending[r]]
  /\ Releases({r \in Req : Waiting(r)})
  /\ retry' = {r \in retry : ~Waiting(r)}
  /\ UNCHANGED <<hostVars, disk, wire, lost>>

(* schedulePersistence writes the records some time later.                 *)
Persist ==
  /\ "crash" \in Faults
  /\ disk' = record
  /\ UNCHANGED <<hostVars, record, sending, retry, inputQueue, link, wire, news, lost>>

(* The server dies and starts again from the last snapshot.                *)
Crash ==
  /\ "crash" \in Faults
  /\ record' = disk
  /\ sending' = [r \in Req |-> "no"]
  /\ queue' = {} /\ before' = [r \in Req |-> {}] /\ retry' = {} /\ link' = FALSE /\ news' = {}
  /\ lost' = lost \cup {r \in Req : record[r] # disk[r]}
  /\ UNCHANGED <<hostVars, disk, wire>>

(* The host publishes that the provider owns a message, if it is heard.    *)
Publish(r) == news' = IF link THEN news \cup {r} ELSE news
OtherThanNews == UNCHANGED <<record, disk, sending, retry, inputQueue, link, wire, lost>>

Server(r) == \/ Start(r) \/ Refuse(r) \/ Send(r) \/ Receive(r) \/ Accept(r)
             \/ Respond(r)
Host(r) == \/ Inner(r) /\ UNCHANGED serverVars
           \/ Outer(r) /\ Publish(r) /\ OtherThanNews

Next ==
  \/ \E r \in Req :
       \/ Request(r) \/ Reconcile(r) \/ Server(r) \/ Host(r)
       \/ (Provider(r) \/ Deadline(r)) /\ UNCHANGED serverVars
  \/ Connect \/ Disconnect \/ Persist \/ Crash
  \/ Native /\ UNCHANGED serverVars

Spec == Init /\ [][Next]_vars

(* Server and host go on working, the connection is made again, and time   *)
(* passes.  The provider owes nothing: neither an answer nor the end of a  *)
(* turn.                                                                   *)
Fairness ==
  /\ WF_vars(Connect)
  /\ \A r \in Req : /\ WF_vars(Server(r)) /\ WF_vars(Host(r))
                    /\ WF_vars(Deadline(r) /\ UNCHANGED serverVars)
FairSpec == Spec /\ Fairness

-----------------------------------------------------------------------------
(* Retries, joined requests, broken connections and restarts of the server *)
(* from old snapshots never make the provider see a message twice, unless  *)
(* the host itself was wrong about whether the provider has it.            *)
AtMostOnce == \A r \in Req \ doubt : delivered[r] <= 1

(* A message reported as definitely failed did not reach the provider and  *)
(* never will without a new request, unless a crash forgot how far it was  *)
(* or the host was wrong about it.                                         *)
FailureIsDefinite ==
  \A r \in Req \ (doubt \cup lost) : record[r] = "failed" => delivered[r] = 0

(* A message reported as accepted is at the provider.                      *)
AcceptedWasDelivered == \A r \in Req : record[r] = "accepted" => delivered[r] > 0

(* A message reaches the provider only when every message that was queued  *)
(* before it is accepted, has failed or is given up as unknown.            *)
QueueIsKept ==
  [][\A r \in Req \ lost : delivered'[r] # delivered[r] => before[r] = {}]_vars

(* Every admission is decided: no message hangs behind a broken            *)
(* connection, a turn without end, or another message.                     *)
MessagesSettle == \A r \in Req : Pending(r) ~> ~Pending(r)

(* No provider ever sees a message twice.                                  *)
DeliveredOnce == \A r \in Req : delivered[r] <= 1

(* A definite failure is one without effect.                               *)
FailedHadNoEffect ==
  \A r \in Req \ lost : record[r] = "failed" => delivered[r] = 0

=============================================================================
