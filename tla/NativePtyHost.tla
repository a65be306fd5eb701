--------------------------- MODULE NativePtyHost ---------------------------
(***************************************************************************)
(* Who controls the terminal host (backend/native-pty-host.cts): servers   *)
(* register over a connection, a newer one takes over from an older one,   *)
(* connections break, and a server that needs another build of the host    *)
(* freezes the terminals, takes a checkpoint of them and shuts the host    *)
(* down (native-pty-host-client.cts, rotateMismatchedHost).                *)
(*                                                                         *)
(* A connection is used once; the generation of its server is its          *)
(* identity.  Of the terminals the model keeps whether some run, whether   *)
(* they are frozen, and the queues of their mutations.  Reads, the idle    *)
(* exit and the screen workers are not modelled.                           *)
(***************************************************************************)
EXTENDS Naturals, Sequences

CONSTANTS Conn,        \* connections
          Generation,  \* of a connection's server
          Rotating,    \* connections over which the server finds another build
          Breaking,    \* connections that may break
          Session, None,
          MaxWork      \* bound: mutations that are admitted

VARIABLES client,      \* what the server of each connection is about
          gone,        \* connections that have ended
          queue,       \* registrations and retirements; the first one runs
          stage,       \* the first one: waits, drain, release
          upto,        \* the mutations it waits for
          handoff,     \* the connections of controllerHandoff, or None
          active,      \* activeControllerClient
          generation,  \* of activeControllerIdentity, 0 for none
          admitted,    \* mutations of each terminal, by connection and number
          running,     \* the first of them runs
          works,       \* how many were admitted
          rotation,    \* the connection that owns rotationPreparation
          phase,       \* the preparation that a connection began
          cut,         \* the mutations it waits for
          frozen,      \* rotationFrozen of the terminals
          live,        \* some terminal runs
          up           \* the host is up, ending or down

control == <<queue, stage, upto, handoff, active, generation>>
work == <<admitted, running, works>>
checkpoint == <<rotation, phase, cut, frozen>>
vars == <<client, gone, control, work, checkpoint, live, up>>

Init ==
  /\ client = [c \in Conn |-> "new"] /\ gone = {}
  /\ queue = <<>> /\ stage = "waits" /\ upto = 0
  /\ handoff = None /\ active = None /\ generation = 0
  /\ admitted = [s \in Session |-> <<>>] /\ running = [s \in Session |-> FALSE] /\ works = 0
  /\ rotation = None /\ phase = [c \in Conn |-> "none"] /\ cut = [c \in Conn |-> 0]
  /\ frozen = FALSE /\ live \in BOOLEAN /\ up = "up"

-----------------------------------------------------------------------------
Serves(c) == up # "down" /\ c \notin gone
Turns(c, s) == client' = [client EXCEPT ![c] = s]
Drained(n) == \A s \in Session : \A i \in DOMAIN admitted[s] : admitted[s][i].nr > n
Settled(c) == phase[c] \in {"prepared", "committing", "failed"}
Resumes == frozen' = FALSE /\ rotation' = None
Stays == UNCHANGED <<frozen, rotation>>

(* A server asks for control.                                              *)
Register(c) ==
  /\ Serves(c) /\ client[c] = "new" /\ Turns(c, "registering")
  /\ queue' = Append(queue, [type |-> "register", conn |-> c])
  /\ UNCHANGED <<gone, stage, upto, handoff, active, generation, work, checkpoint, live, up>>

Task == Head(queue)
Moot(c) == IF Task.type = "register" THEN Generation[c] < generation ELSE active # c
Replaces(c) == generation # 0 /\ (Generation[c] # generation \/ active # c)
Pops == queue' = Tail(queue) /\ stage' = "waits" /\ handoff' = None

(* The end of a task: the connection has control, unless it broke.         *)
Ends ==
  LET c == Task.conn IN
  /\ Pops
  /\ \/ Task.type = "retire" /\ active' = None /\ UNCHANGED <<generation, client>>
     \/ Task.type = "register" /\ c \in gone /\ Turns(c, "out") /\ UNCHANGED <<active, generation>>
     \/ /\ Task.type = "register" /\ c \notin gone
        /\ active' = c /\ generation' = Generation[c] /\ Turns(c, "in")

(* A task begins; from here nothing is admitted until the control has      *)
(* changed.                                                                *)
Begins ==
  LET c == Task.conn IN
  /\ up # "down" /\ queue # <<>> /\ stage = "waits"
  /\ \/ /\ Moot(c) /\ Pops /\ UNCHANGED <<upto, active, generation>>
        /\ IF Task.type = "register" THEN Turns(c, "out") ELSE UNCHANGED client
     \/ ~Moot(c) /\ Task.type = "register" /\ ~Replaces(c) /\ Ends /\ UNCHANGED upto
     \/ /\ ~Moot(c) /\ (Task.type = "retire" \/ Replaces(c))
        /\ stage' = "drain" /\ upto' = works /\ handoff' = {active, c}
        /\ UNCHANGED <<queue, active, generation, client>>
  /\ UNCHANGED <<gone, work, checkpoint, live, up>>

(* Variant: a checkpoint of the connection that loses control stays.       *)
DrainsOnly ==
  /\ up # "down" /\ stage = "drain" /\ Drained(upto) /\ Ends
  /\ UNCHANGED <<gone, upto, work, checkpoint, live, up>>

(* What was admitted is done; a checkpoint of the connection that loses    *)
(* control is awaited, then the terminals resume.                          *)
Drains ==
  /\ up # "down" /\ stage = "drain" /\ Drained(upto)
  /\ IF rotation # None /\ rotation = active
       THEN stage' = "release" /\ UNCHANGED <<queue, handoff, active, generation, client>>
       ELSE Ends
  /\ UNCHANGED <<gone, upto, work, checkpoint, live, up>>

Releases ==
  /\ up # "down" /\ stage = "release" /\ Settled(active)
  /\ IF rotation = active /\ phase[active] # "committing" THEN Resumes ELSE Stays
  /\ Ends
  /\ UNCHANGED <<gone, upto, work, phase, cut, live, up>>

(* removeClient                                                            *)
Disconnect(c) ==
  /\ Serves(c) /\ client[c] # "new"
  /\ c \in Breaking \/ client[c] \in {"leaving", "out"}
  /\ gone' = gone \cup {c}
  /\ queue' = IF active = c \/ (handoff # None /\ c \in handoff)
              THEN Append(queue, [type |-> "retire", conn |-> c]) ELSE queue
  /\ UNCHANGED <<client, stage, upto, handoff, active, generation, work, checkpoint, live, up>>

-----------------------------------------------------------------------------
(* Mutations.  Over a connection that finds another build there are none   *)
(* before it has tried to rotate the host.                                 *)
Mutates(c) == /\ Serves(c) /\ client[c] = "in" /\ (c \in Rotating => phase[c] # "none")
              /\ works < MaxWork
Admitted(c, s) ==
  /\ works' = works + 1
  /\ admitted' = [admitted EXCEPT ![s] = Append(@, [conn |-> c, nr |-> works + 1])]
  /\ UNCHANGED <<client, gone, control, running, checkpoint, live, up>>

(* Variant: a change of control does not close the admission.              *)
AdmitDuringHandoff(c, s) ==
  Mutates(c) /\ active = c /\ rotation = None /\ Admitted(c, s)

Admit(c, s) ==
  Mutates(c) /\ active = c /\ handoff = None /\ rotation = None /\ Admitted(c, s)

(* One whose turn comes when a checkpoint is being taken fails.            *)
Run(s) ==
  /\ up # "down" /\ admitted[s] # <<>> /\ ~running[s]
  /\ IF rotation = None THEN running' = [running EXCEPT ![s] = TRUE] /\ UNCHANGED admitted
     ELSE admitted' = [admitted EXCEPT ![s] = Tail(@)] /\ UNCHANGED running
  /\ UNCHANGED <<client, gone, control, works, checkpoint, live, up>>

Settle(s) ==
  /\ up # "down" /\ running[s]
  /\ admitted' = [admitted EXCEPT ![s] = Tail(@)] /\ running' = [running EXCEPT ![s] = FALSE]
  /\ live' \in BOOLEAN
  /\ UNCHANGED <<client, gone, control, works, checkpoint, up>>

-----------------------------------------------------------------------------
(* The rotation of the host.                                               *)
Serialize(c) ==
  /\ Serves(c) /\ client[c] = "in" /\ c \in Rotating /\ phase[c] = "none"
  /\ IF active = c /\ rotation = None
       THEN /\ rotation' = c /\ Turns(c, "asked")
            /\ phase' = [phase EXCEPT ![c] = "draining"] /\ cut' = [cut EXCEPT ![c] = works]
       ELSE /\ Turns(c, "refused") /\ phase' = [phase EXCEPT ![c] = "failed"]
            /\ UNCHANGED <<rotation, cut>>
  /\ UNCHANGED <<gone, control, work, frozen, live, up>>

(* prepareSerializedTerminalState: the admitted work is awaited, then the  *)
(* terminals are frozen and read.  What fails resumes them, if the         *)
(* preparation is still the current one.                                   *)
Prepare(c) ==
  LET becomes(p) == phase' = [phase EXCEPT ![c] = p] IN
  /\ up # "down"
  /\ \/ /\ phase[c] = "draining" /\ Drained(cut[c])
        /\ IF rotation = c THEN frozen' = TRUE /\ becomes("reading")
           ELSE becomes("failed") /\ UNCHANGED frozen
        /\ UNCHANGED rotation
     \/ phase[c] = "reading" /\ becomes("prepared") /\ Stays
     \/ phase[c] = "reading" /\ becomes("failed") /\ IF rotation = c THEN Resumes ELSE Stays
  /\ UNCHANGED <<client, gone, control, work, cut, live, up>>

(* The server has its answer, or stops waiting for it.  Without a          *)
(* checkpoint it resumes whatever is frozen and asks for the terminals; if *)
(* none runs, it goes on.                                                  *)
Answered(c) ==
  /\ Serves(c) /\ client[c] = "asked"
  /\ Turns(c, "refused") \/ (phase[c] = "prepared" /\ Turns(c, "prepared"))
  /\ UNCHANGED <<gone, control, work, checkpoint, live, up>>

Resumed(c, token) ==
  IF active = c /\ token \in {None, rotation} THEN Resumes ELSE Stays
ResumeAny(c) ==
  /\ Serves(c) /\ client[c] = "refused" /\ Turns(c, "recovering")
  /\ Resumed(c, None)
  /\ UNCHANGED <<gone, control, work, phase, cut, live, up>>
RecoverSessions(c) ==
  /\ Serves(c) /\ client[c] = "recovering"
  /\ Turns(c, "in") \/ (~live /\ Turns(c, "unsaved"))
  /\ UNCHANGED <<gone, control, work, checkpoint, live, up>>

(* A checkpoint of no use, or a shutdown that was refused or not answered. *)
(* The server goes on over the connection only in the first case.          *)
Abort(c) ==
  /\ Serves(c) /\ client[c] \in {"prepared", "aborting"}
  /\ Turns(c, "leaving") \/ (client[c] = "prepared" /\ Turns(c, "in"))
  /\ Resumed(c, c)
  /\ UNCHANGED <<gone, control, work, phase, cut, live, up>>

(* The connection broke: the server resumes over another one.              *)
ResumeAfter(c, d) ==
  /\ Serves(c) /\ client[c] = "in" /\ phase[c] = "none"
  /\ d \in gone /\ Generation[d] = Generation[c]
  /\ \/ client[d] = "asked" /\ Resumed(c, None)
        /\ client' = [client EXCEPT ![c] = "recovering", ![d] = "out"]
     \/ /\ client[d] \in {"prepared", "leaving"} /\ Resumed(c, d)
        /\ client' = [client EXCEPT ![d] = "out"]
  /\ UNCHANGED <<gone, control, work, phase, cut, live, up>>

(* With the checkpoint, or without one when no terminal runs.              *)
Shutdown(c) ==
  LET entitled == active = c \/ Generation[c] > generation
      complete == IF rotation = None THEN ~live
                  ELSE rotation = c /\ client[c] = "prepared" /\ phase[c] = "prepared" IN
  /\ Serves(c) /\ client[c] \in {"prepared", "unsaved"}
  /\ IF entitled /\ complete
       THEN /\ up' = "ending"
            /\ Turns(c, "leaving") \/ (client[c] = "prepared" /\ Turns(c, "aborting"))
            /\ phase' = IF rotation = None THEN phase ELSE [phase EXCEPT ![c] = "committing"]
       ELSE /\ Turns(c, IF client[c] = "prepared" THEN "aborting" ELSE "leaving")
            /\ UNCHANGED <<up, phase>>
  /\ UNCHANGED <<gone, control, work, rotation, cut, frozen, live>>

HostEnds ==
  /\ up = "ending" /\ up' = "down"
  /\ UNCHANGED <<client, gone, control, work, checkpoint, live>>

-----------------------------------------------------------------------------
Host == \/ Begins \/ Drains \/ Releases \/ HostEnds
        \/ \E s \in Session : Run(s) \/ Settle(s)
        \/ \E c \in Conn : Prepare(c)
Rotates(c) == \/ Serialize(c) \/ Answered(c) \/ ResumeAny(c) \/ RecoverSessions(c) \/ Abort(c)
              \/ Shutdown(c)
Next == \/ Host
        \/ \E c \in Conn : \/ Register(c) \/ Disconnect(c) \/ Rotates(c)
                           \/ \E s \in Session : Admit(c, s)
                           \/ \E d \in Conn : ResumeAfter(c, d)
Spec == Init /\ [][Next]_vars

(* The host does not stop while it can do something: mutations end, and    *)
(* terminals can be read.  A server that asked for a checkpoint goes on    *)
(* with it as long as its connection lasts.                                *)
FairSpec == Spec /\ WF_vars(Host) /\ WF_vars(\E c \in Conn : Rotates(c))

-----------------------------------------------------------------------------
(* A mutation has its effect only while the server that it comes from is   *)
(* in control, and never between a checkpoint and its end; and terminals   *)
(* stay frozen only for the server in control, or for good.                *)
ControlIsExclusive ==
  /\ \A s \in Session : running[s] => Head(admitted[s]).conn = active /\ ~frozen
  /\ frozen => rotation # None /\ (rotation = active \/ phase[rotation] = "committing")

(* A server that asks for control gets an answer, and a checkpoint, of     *)
(* whoever loses control or connection, does not stop the terminals for    *)
(* ever.                                                                   *)
ControlChanges ==
  /\ \A c \in Conn : client[c] = "registering" ~> client[c] # "registering" \/ up = "down"
  /\ rotation # None ~> rotation = None \/ up = "down"
=============================================================================
