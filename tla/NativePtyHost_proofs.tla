----------------------- MODULE NativePtyHost_proofs -----------------------
(***************************************************************************)
(* Control of the terminal host is exclusive, for any number of servers,   *)
(* connections, terminals and mutations: a mutation runs only for the      *)
(* connection in control, and never while the terminals are frozen.        *)
(*                                                                         *)
(* The argument is about the queues of mutations.  Everything in them was  *)
(* admitted for the connection in control, because control changes only    *)
(* when they are empty: the change closes the admission, and waits for     *)
(* everything admitted so far.  A checkpoint does the same before it       *)
(* freezes the terminals.                                                  *)
(***************************************************************************)
EXTENDS NativePtyHost, TLAPS

(* None is neither a connection nor a set of them, and generations are     *)
(* allocated from 1 on.                                                    *)
HostConstants ==
  /\ None \notin Conn
  /\ \A a, c \in Conn \cup {None} : {a, c} # None
  /\ Generation \in [Conn -> Nat \ {0}]

Request == [type : {"register", "retire"}, conn : Conn]
Mutation == [conn : Conn, nr : Nat]
MaybeConn == Conn \cup {None}

TypeOK ==
  /\ queue \in Seq(Request)
  /\ stage \in {"waits", "drain", "release"} /\ upto \in Nat
  /\ active \in MaybeConn /\ generation \in Nat
  /\ admitted \in [Session -> Seq(Mutation)] /\ running \in [Session -> BOOLEAN]
  /\ works \in Nat
  /\ rotation \in MaybeConn /\ cut \in [Conn -> Nat] /\ frozen \in BOOLEAN
  /\ phase \in [Conn -> {"none", "draining", "reading", "prepared", "committing", "failed"}]

(* Whatever is queued was admitted for the connection in control.          *)
Owned ==
  \A s \in Session :
     /\ \A i \in DOMAIN admitted[s] : admitted[s][i].conn = active /\ admitted[s][i].nr <= works
     /\ running[s] => admitted[s] # <<>>

Idle == \A s \in Session : admitted[s] = <<>>

(* A change of control closes the admission until it is made.              *)
Handover ==
  /\ stage = "waits" <=> handoff = None
  /\ stage # "waits" => queue # <<>> /\ upto = works
  /\ stage = "release" => Idle
  /\ generation = 0 => active = None

(* A checkpoint belongs to the connection in control, unless the host is   *)
(* about to end with it; nothing is admitted after it began, and nothing   *)
(* is left when the terminals are frozen.                                  *)
Preparation ==
  /\ rotation # None => /\ rotation = active \/ phase[rotation] = "committing"
                        /\ cut[rotation] = works /\ phase[rotation] # "none"
  /\ frozen => rotation # None /\ Idle

Inv == TypeOK /\ Owned /\ Handover /\ Preparation
-----------------------------------------------------------------------------
LEMMA InvInit == ASSUME HostConstants PROVE Init => Inv
<1> SUFFICES ASSUME HostConstants, Init PROVE Inv
  OBVIOUS
<1>1. TypeOK
  <2>1. /\ queue \in Seq(Request) /\ admitted \in [Session -> Seq(Mutation)]
        /\ stage = "waits" /\ upto = 0 /\ generation = 0 /\ works = 0
        /\ active \in MaybeConn /\ rotation \in MaybeConn
    BY DEF Init, MaybeConn
  <2>2. /\ cut \in [Conn -> Nat] /\ running \in [Session -> BOOLEAN] /\ frozen \in BOOLEAN
        /\ phase \in [Conn -> {"none", "draining", "reading", "prepared", "committing", "failed"}]
    BY DEF Init
  <2> QED
    BY <2>1, <2>2 DEF TypeOK
<1>2. Owned
  BY DEF Init, Owned
<1>3. Handover /\ Preparation
  BY DEF Init, Handover, Preparation
<1> QED
  BY <1>1, <1>2, <1>3 DEF Inv

(* The members of the queues.                                              *)
LEMMA Queued ==
  ASSUME TypeOK, NEW s \in Session
  PROVE  /\ admitted[s] \in Seq(Mutation) /\ Len(admitted[s]) \in Nat
         /\ DOMAIN admitted[s] = 1..Len(admitted[s])
         /\ \A i \in DOMAIN admitted[s] :
               /\ admitted[s][i] \in Mutation /\ admitted[s][i].conn \in Conn
               /\ admitted[s][i].nr \in Nat
         /\ admitted[s] # <<>> => 1 \in DOMAIN admitted[s] /\ Head(admitted[s]) = admitted[s][1]
<1>1. admitted[s] \in Seq(Mutation)
  BY DEF TypeOK
<1>2. \A m \in Mutation : m.conn \in Conn /\ m.nr \in Nat
  BY DEF Mutation
<1> QED
  BY <1>1, <1>2

(* When everything admitted so far is done, the queues are empty.          *)
LEMMA DrainedIsIdle == ASSUME TypeOK, Owned, Drained(works) PROVE Idle
<1> SUFFICES ASSUME NEW s \in Session PROVE admitted[s] = <<>>
  BY DEF Idle
<1>1. \A i \in DOMAIN admitted[s] : admitted[s][i].nr <= works /\ admitted[s][i].nr > works
  BY DEF Drained, Owned
<1>2. 1 \notin DOMAIN admitted[s]
  BY <1>1, Queued DEF TypeOK
<1> QED
  BY <1>2, Queued

(* The queues after a mutation is taken from one, or added to one.         *)
LEMMA TakenFrom ==
  ASSUME TypeOK, Owned, NEW s \in Session, admitted[s] # <<>>,
         admitted' = [admitted EXCEPT ![s] = Tail(@)],
         UNCHANGED <<active, works>>,
         running' = [running EXCEPT ![s] = FALSE] \/ (running' = running /\ ~running[s])
  PROVE  Owned' /\ admitted' \in [Session -> Seq(Mutation)] /\ (Idle => Idle')
<1>1. /\ admitted[s] \in Seq(Mutation) /\ Tail(admitted[s]) \in Seq(Mutation)
      /\ \A i \in DOMAIN Tail(admitted[s]) :
            i + 1 \in DOMAIN admitted[s] /\ Tail(admitted[s])[i] = admitted[s][i + 1]
  BY DEF TypeOK
<1>2. /\ admitted'[s] = Tail(admitted[s])
      /\ \A t \in Session : t # s => admitted'[t] = admitted[t]
      /\ ~running'[s] /\ \A t \in Session : t # s => running'[t] = running[t]
  BY DEF TypeOK
<1>3. ASSUME NEW t \in Session
      PROVE  /\ \A i \in DOMAIN admitted'[t] :
                   admitted'[t][i].conn = active' /\ admitted'[t][i].nr <= works'
             /\ running'[t] => admitted'[t] # <<>>
  BY <1>1, <1>2 DEF Owned
<1>4. Owned'
  BY <1>3 DEF Owned
<1> QED
  BY <1>1, <1>4 DEF TypeOK, Idle

LEMMA AddedTo ==
  ASSUME TypeOK, Owned, NEW s \in Session, NEW c \in Conn, active = c, Admitted(c, s)
  PROVE  Owned' /\ admitted' \in [Session -> Seq(Mutation)]
<1> DEFINE m == [conn |-> c, nr |-> works + 1]
<1>1. /\ m \in Mutation /\ m.conn = active /\ m.nr = works + 1
      /\ works' = works + 1 /\ works \in Nat /\ UNCHANGED <<active, running>>
  BY DEF TypeOK, Mutation, Admitted, control
<1> HIDE DEF m
<1>7. admitted[s] \in Seq(Mutation) /\ m \in Mutation
  BY <1>1, Queued
<1>2. /\ Append(admitted[s], m) \in Seq(Mutation)
      /\ Append(admitted[s], m) # <<>>
      /\ \A i \in DOMAIN Append(admitted[s], m) :
            \/ i \in DOMAIN admitted[s] /\ Append(admitted[s], m)[i] = admitted[s][i]
            \/ Append(admitted[s], m)[i] = m
  BY <1>7
<1>3. admitted' = [admitted EXCEPT ![s] = Append(admitted[s], m)]
  BY DEF Admitted, m
<1>4. \A t \in Session : \A i \in DOMAIN admitted[t] : admitted[t][i].nr \in Nat
  BY Queued
<1>5. /\ admitted'[s] = Append(admitted[s], m)
      /\ \A t \in Session : t # s => admitted'[t] = admitted[t]
  BY <1>3 DEF TypeOK
<1>6. ASSUME NEW t \in Session
      PROVE  /\ \A i \in DOMAIN admitted'[t] :
                   admitted'[t][i].conn = active' /\ admitted'[t][i].nr <= works'
             /\ running'[t] => admitted'[t] # <<>>
  <2>1. CASE t = s
    <3>1. \A i \in DOMAIN admitted[s] :
             admitted[s][i].conn = active /\ admitted[s][i].nr <= works + 1
      BY <1>1, <1>4 DEF Owned
    <3>2. \A i \in DOMAIN Append(admitted[s], m) :
             Append(admitted[s], m)[i].conn = active /\ Append(admitted[s], m)[i].nr <= works + 1
      BY <1>1, <1>2, <3>1
    <3> QED
      BY <1>1, <1>2, <1>5, <2>1, <3>2
  <2>2. CASE t # s
    BY <1>1, <1>4, <1>5, <2>2 DEF Owned
  <2> QED
    BY <2>1, <2>2
<1>8. Owned'
  BY <1>6 DEF Owned
<1> QED
  BY <1>2, <1>3, <1>8 DEF TypeOK

LEMMA FirstTask ==
  ASSUME TypeOK, queue # <<>>
  PROVE  Task \in Request /\ Tail(queue) \in Seq(Request) /\ Task.conn \in Conn
<1>1. Task \in Request /\ Tail(queue) \in Seq(Request)
  BY DEF TypeOK, Task
<1> QED
  BY <1>1 DEF Request

(* A change of control with empty queues, or to the connection that has    *)
(* it, keeps what is queued in order.                                      *)
LEMMA EndsOwned ==
  ASSUME HostConstants, Inv, queue # <<>>, Ends, UNCHANGED <<work, phase, cut>>,
         Idle \/ active' = active
  PROVE  /\ queue' \in Seq(Request)
         /\ stage' = "waits" /\ handoff' = None
         /\ active' \in MaybeConn /\ generation' \in Nat /\ (generation' = 0 => active' = None)
         /\ Owned'
<1>1. Task \in Request /\ Tail(queue) \in Seq(Request)
  BY FirstTask DEF Inv
<1>2. Task.conn \in Conn /\ Generation[Task.conn] \in Nat \ {0}
  BY FirstTask DEF Inv, HostConstants
<1>3. /\ active' \in MaybeConn /\ generation' \in Nat /\ (generation' = 0 => active' = None)
  BY <1>2 DEF Ends, Inv, TypeOK, Handover, MaybeConn
<1>4. Owned'
  BY DEF Inv, Owned, Idle, TypeOK, work
<1> QED
  BY <1>1, <1>3, <1>4 DEF Ends, Pops

LEMMA BeginsStep == ASSUME HostConstants, Inv, Begins PROVE Inv'
<1> USE DEF Inv
<1>1. UNCHANGED <<work, checkpoint, works>>
  BY DEF Begins, work
<1>2. Task \in Request /\ Tail(queue) \in Seq(Request) /\ queue # <<>> /\ Task.conn \in Conn
  BY FirstTask DEF Begins
<1>3. Generation[Task.conn] \in Nat \ {0}
  BY <1>2 DEF HostConstants
<1>4. CASE Moot(Task.conn) /\ Pops /\ UNCHANGED <<upto, active, generation>>
  <2>1. TypeOK'
    BY <1>1, <1>2, <1>4 DEF TypeOK, Pops, work, checkpoint
  <2>2. Owned' /\ Preparation'
    BY <1>1, <1>4 DEF Owned, Preparation, Idle, work, checkpoint
  <2>3. Handover'
    BY <1>4 DEF Handover, Pops
  <2> QED
    BY <2>1, <2>2, <2>3
<1>5. CASE ~Moot(Task.conn) /\ Task.type = "register" /\ ~Replaces(Task.conn) /\ Ends /\ UNCHANGED upto
  <2>1. active' = active \/ (active = None /\ generation = 0)
    BY <1>5 DEF Ends, Replaces, Handover
  <2>2. active = None => Idle
    <3> SUFFICES ASSUME active = None, NEW s \in Session PROVE admitted[s] = <<>>
      BY DEF Idle
    <3> QED
      BY Queued DEF Owned, HostConstants
  <2>3. /\ queue' \in Seq(Request) /\ stage' = "waits" /\ handoff' = None
        /\ active' \in MaybeConn /\ generation' \in Nat /\ (generation' = 0 => active' = None)
        /\ Owned'
    BY <1>1, <1>2, <1>5, <2>1, <2>2, EndsOwned DEF checkpoint
  <2>4. TypeOK'
    BY <1>1, <1>5, <2>3 DEF TypeOK, work, checkpoint
  <2>5. Handover'
    BY <2>3 DEF Handover
  <2>6. Preparation'
    BY <1>1, <2>1 DEF Preparation, Idle, work, checkpoint
  <2> QED
    BY <2>3, <2>4, <2>5, <2>6
<1>6. CASE /\ ~Moot(Task.conn)
           /\ Task.type = "retire" \/ Replaces(Task.conn)
           /\ stage = "waits"
           /\ stage' = "drain" /\ upto' = works /\ handoff' = {active, Task.conn}
           /\ UNCHANGED <<queue, active, generation>>
  <2>1. handoff' # None
    BY <1>2, <1>6 DEF TypeOK, HostConstants, MaybeConn
  <2>2. TypeOK'
    BY <1>1, <1>6 DEF TypeOK, work, checkpoint
  <2>3. Owned' /\ Preparation'
    BY <1>1, <1>6 DEF Owned, Preparation, Idle, work, checkpoint
  <2>4. Handover'
    BY <1>1, <1>2, <1>6, <2>1 DEF Handover, work
  <2> QED
    BY <2>2, <2>3, <2>4
<1> QED
  BY <1>4, <1>5, <1>6 DEF Begins

LEMMA DrainsStep == ASSUME HostConstants, Inv, Drains PROVE Inv'
<1> USE DEF Inv
<1>1. UNCHANGED <<work, checkpoint, upto>>
  BY DEF Drains
<1>2. Idle /\ stage = "drain" /\ handoff # None
  BY DrainedIsIdle DEF Drains, Handover
<1>3. CASE /\ rotation # None /\ rotation = active
           /\ stage' = "release" /\ UNCHANGED <<queue, handoff, active, generation>>
  <2>1. TypeOK'
    BY <1>1, <1>3 DEF TypeOK, work, checkpoint
  <2>2. Owned' /\ Preparation'
    BY <1>1, <1>3 DEF Owned, Preparation, Idle, work, checkpoint
  <2>3. Handover'
    BY <1>1, <1>2, <1>3 DEF Handover, Idle, work
  <2> QED
    BY <2>1, <2>2, <2>3
<1>4. CASE ~(rotation # None /\ rotation = active) /\ Ends
  <2>1. /\ queue' \in Seq(Request) /\ stage' = "waits" /\ handoff' = None
        /\ active' \in MaybeConn /\ generation' \in Nat /\ (generation' = 0 => active' = None)
        /\ Owned'
    BY <1>1, <1>2, <1>4, EndsOwned DEF Handover, checkpoint
  <2>2. TypeOK'
    BY <1>1, <2>1 DEF TypeOK, work, checkpoint
  <2>3. Handover' /\ Preparation'
    BY <1>1, <1>4, <2>1 DEF Handover, Preparation, Idle, work, checkpoint
  <2> QED
    BY <2>1, <2>2, <2>3
<1> QED
  BY <1>3, <1>4 DEF Drains

LEMMA ReleasesStep == ASSUME HostConstants, Inv, Releases PROVE Inv'
<1> USE DEF Inv
<1>1. UNCHANGED <<work, phase, cut, upto>> /\ Idle /\ queue # <<>> /\ stage = "release"
  BY DEF Releases, Handover
<1>2. /\ queue' \in Seq(Request) /\ stage' = "waits" /\ handoff' = None
      /\ active' \in MaybeConn /\ generation' \in Nat /\ (generation' = 0 => active' = None)
      /\ Owned'
  BY <1>1, EndsOwned DEF Releases
<1>3. Handover'
  BY <1>2 DEF Handover
<1>4. CASE Resumes
  <2>1. TypeOK'
    BY <1>1, <1>2, <1>4 DEF TypeOK, Resumes, work, MaybeConn
  <2> QED
    BY <1>2, <1>3, <1>4, <2>1 DEF Preparation, Resumes
<1>5. CASE Stays /\ ~(rotation = active /\ phase[active] # "committing")
  <2>1. TypeOK'
    BY <1>1, <1>2, <1>5 DEF TypeOK, Stays, work
  <2>2. Preparation'
    BY <1>1, <1>5 DEF Preparation, Idle, Stays, work
  <2> QED
    BY <1>2, <1>3, <2>1, <2>2
<1> QED
  BY <1>4, <1>5 DEF Releases

(* Registrations and retirements only lengthen the queue of the host.      *)
LEMMA QueuesStep ==
  ASSUME HostConstants, Inv, NEW c \in Conn, Register(c) \/ Disconnect(c)
  PROVE  Inv'
<1> USE DEF Inv
<1>1. UNCHANGED <<stage, upto, handoff, active, generation, work, checkpoint>>
  BY DEF Register, Disconnect
<1>2. \/ queue' = queue
      \/ \E t \in {"register", "retire"} : queue' = Append(queue, [type |-> t, conn |-> c])
  BY DEF Register, Disconnect
<1>3. queue' \in Seq(Request) /\ (queue # <<>> => queue' # <<>>)
  <2>1. ASSUME NEW r \in Request, queue' = Append(queue, r)
        PROVE  queue' \in Seq(Request) /\ queue' # <<>>
    <3>1. queue \in Seq(Request)
      BY DEF TypeOK
    <3>2. queue' \in Seq(Request) /\ Len(queue') = Len(queue) + 1 /\ Len(queue) \in Nat
      BY <2>1, <3>1
    <3> QED
      BY <3>2
  <2>2. \A t \in {"register", "retire"} : [type |-> t, conn |-> c] \in Request
    BY DEF Request
  <2> QED
    BY <1>2, <2>1, <2>2 DEF TypeOK
<1>4. TypeOK'
  BY <1>1, <1>3 DEF TypeOK, work, checkpoint
<1>5. Owned' /\ Handover' /\ Preparation'
  BY <1>1, <1>3 DEF Owned, Handover, Preparation, Idle, work, checkpoint
<1> QED
  BY <1>4, <1>5

(* Mutations are admitted while control does not change and no checkpoint  *)
(* is taken.                                                               *)
LEMMA AdmitStep ==
  ASSUME HostConstants, Inv, NEW c \in Conn, NEW s \in Session, Admit(c, s)
  PROVE  Inv'
<1> USE DEF Inv
<1>1. /\ active = c /\ handoff = None /\ rotation = None /\ works' = works + 1
      /\ UNCHANGED <<control, running, checkpoint>>
  BY DEF Admit, Admitted
<1>2. Owned' /\ admitted' \in [Session -> Seq(Mutation)]
  BY <1>1, AddedTo DEF Admit
<1>3. TypeOK'
  BY <1>1, <1>2 DEF TypeOK, control, checkpoint
<1>4. Handover' /\ Preparation'
  BY <1>1 DEF Handover, Preparation, control, checkpoint
<1> QED
  BY <1>2, <1>3, <1>4

LEMMA MutationStep ==
  ASSUME HostConstants, Inv, NEW s \in Session, Run(s) \/ Settle(s)
  PROVE  Inv'
<1> USE DEF Inv
<1>1. UNCHANGED <<control, works, checkpoint, active>> /\ admitted[s] # <<>>
  BY DEF Run, Settle, Owned, control
<1>2. CASE admitted' = admitted /\ running' = [running EXCEPT ![s] = TRUE]
  <2>1. TypeOK'
    BY <1>1, <1>2 DEF TypeOK, control, checkpoint
  <2>2. Owned'
    BY <1>1, <1>2 DEF Owned, TypeOK
  <2>3. Handover' /\ Preparation'
    BY <1>1, <1>2 DEF Handover, Preparation, Idle, control, checkpoint
  <2> QED
    BY <2>1, <2>2, <2>3
<1>3. CASE /\ admitted' = [admitted EXCEPT ![s] = Tail(@)]
           /\ running' = [running EXCEPT ![s] = FALSE] \/ (running' = running /\ ~running[s])
  <2>1. Owned' /\ admitted' \in [Session -> Seq(Mutation)] /\ (Idle => Idle')
    BY <1>1, <1>3, TakenFrom
  <2>2. running' \in [Session -> BOOLEAN]
    BY <1>3 DEF TypeOK
  <2>3. TypeOK'
    BY <1>1, <2>1, <2>2 DEF TypeOK, control, checkpoint
  <2>4. Handover' /\ Preparation'
    BY <1>1, <2>1 DEF Handover, Preparation, control, checkpoint
  <2> QED
    BY <2>1, <2>3, <2>4
<1> QED
  BY <1>2, <1>3 DEF Run, Settle

(* What only touches the checkpoint, or nothing of this.                   *)
LEMMA CheckpointStep ==
  ASSUME HostConstants, Inv, UNCHANGED <<control, work>>,
         rotation' \in MaybeConn, cut' \in [Conn -> Nat], frozen' \in BOOLEAN,
         phase' \in [Conn -> {"none", "draining", "reading", "prepared", "committing", "failed"}],
         Preparation'
  PROVE  Inv'
BY DEF Inv, TypeOK, Owned, Handover, Idle, control, work

LEMMA PrepareStep ==
  ASSUME HostConstants, Inv, NEW c \in Conn, Prepare(c)
  PROVE  Inv'
<1> USE DEF Inv
<1>1. UNCHANGED <<control, work, cut>>
  BY DEF Prepare
<1>2. PICK p \in {"reading", "prepared", "failed"} : phase' = [phase EXCEPT ![c] = p]
  BY DEF Prepare
<1>3. /\ phase' \in [Conn -> {"none", "draining", "reading", "prepared", "committing", "failed"}]
      /\ cut' \in [Conn -> Nat]
      /\ phase[c] # "committing" /\ phase'[c] # "none"
      /\ \A d \in Conn : d # c => phase'[d] = phase[d]
  BY <1>1, <1>2 DEF TypeOK, Prepare
<1>4. CASE Resumes
  BY <1>1, <1>3, <1>4, CheckpointStep DEF Resumes, MaybeConn, Preparation
<1>5. CASE Stays
  <2>1. Preparation'
    BY <1>1, <1>3, <1>5 DEF TypeOK, Preparation, Stays, MaybeConn, Idle, control, work
  <2> QED
    BY <1>1, <1>3, <1>5, <2>1, CheckpointStep DEF Stays, TypeOK
<1>6. CASE rotation = c /\ frozen' = TRUE /\ rotation' = rotation /\ Drained(cut[c])
  <2>1. Idle
    BY <1>6, DrainedIsIdle DEF Preparation, HostConstants
  <2>2. Preparation'
    BY <1>1, <1>3, <1>6, <2>1 DEF TypeOK, Preparation, HostConstants, Idle, control, work
  <2> QED
    BY <1>1, <1>3, <1>6, <2>2, CheckpointStep DEF TypeOK
<1> QED
  BY <1>4, <1>5, <1>6 DEF Prepare, Stays

LEMMA SerializeStep ==
  ASSUME HostConstants, Inv, NEW c \in Conn, Serialize(c)
  PROVE  Inv'
<1> USE DEF Inv
<1>1. UNCHANGED <<control, work, frozen>> /\ phase[c] = "none"
  BY DEF Serialize
<1>2. CASE /\ active = c /\ rotation = None /\ rotation' = c
           /\ phase' = [phase EXCEPT ![c] = "draining"] /\ cut' = [cut EXCEPT ![c] = works]
  <2>1. Preparation'
    BY <1>1, <1>2 DEF TypeOK, Preparation, Idle, control, work
  <2>2. /\ phase' \in [Conn -> {"none", "draining", "reading", "prepared", "committing", "failed"}]
        /\ cut' \in [Conn -> Nat] /\ frozen' \in BOOLEAN
    BY <1>1, <1>2 DEF TypeOK
  <2> QED
    BY <1>1, <1>2, <2>1, <2>2, CheckpointStep DEF TypeOK, MaybeConn
<1>3. CASE phase' = [phase EXCEPT ![c] = "failed"] /\ UNCHANGED <<rotation, cut>>
  <2>1. Preparation'
    BY <1>1, <1>3 DEF TypeOK, Preparation, MaybeConn, Idle, control, work
  <2>2. /\ phase' \in [Conn -> {"none", "draining", "reading", "prepared", "committing", "failed"}]
        /\ cut' \in [Conn -> Nat] /\ frozen' \in BOOLEAN
    BY <1>1, <1>3 DEF TypeOK
  <2> QED
    BY <1>1, <1>3, <2>1, <2>2, CheckpointStep DEF TypeOK
<1> QED
  BY <1>2, <1>3 DEF Serialize

LEMMA ShutdownStep ==
  ASSUME HostConstants, Inv, NEW c \in Conn, Shutdown(c)
  PROVE  Inv'
<1> USE DEF Inv
<1>1. UNCHANGED <<control, work, rotation, cut, frozen>>
  BY DEF Shutdown
<1>2. \/ phase' = phase
      \/ rotation = c /\ phase' = [phase EXCEPT ![c] = "committing"]
  BY DEF Shutdown
<1>3. phase' \in [Conn -> {"none", "draining", "reading", "prepared", "committing", "failed"}]
  BY <1>2 DEF TypeOK
<1>4. Preparation'
  BY <1>1, <1>2 DEF TypeOK, Preparation, MaybeConn, Idle, control, work
<1> QED
  BY <1>1, <1>3, <1>4, CheckpointStep DEF TypeOK

(* A server that resumes the terminals, or does nothing to them.           *)
LEMMA ResumeStep ==
  ASSUME HostConstants, Inv, UNCHANGED <<control, work, phase, cut>>, Resumes \/ Stays
  PROVE  Inv'
<1>1. Preparation'
  BY DEF Inv, Resumes, Stays, Preparation, Idle, control, work
<1> QED
  BY <1>1, CheckpointStep DEF Inv, TypeOK, Resumes, Stays, MaybeConn

LEMMA InvStep == ASSUME HostConstants PROVE Inv /\ [Next]_vars => Inv'
<1> SUFFICES ASSUME Inv, [Next]_vars PROVE Inv'
  OBVIOUS
<1>1. CASE UNCHANGED <<control, work, checkpoint>>
  BY <1>1, ResumeStep DEF checkpoint, Stays
<1>2. ASSUME NEW c \in Conn, Rotates(c) PROVE Inv'
  <2>1. CASE Answered(c) \/ RecoverSessions(c)
    BY <1>1, <2>1 DEF Answered, RecoverSessions
  <2>2. CASE ResumeAny(c) \/ Abort(c)
    BY <2>2, ResumeStep DEF ResumeAny, Abort, Resumed
  <2> QED
    BY <1>2, <2>1, <2>2, SerializeStep, ShutdownStep DEF Rotates
<1>3. ASSUME NEW c \in Conn, NEW d \in Conn, ResumeAfter(c, d) PROVE Inv'
  BY <1>3, ResumeStep DEF ResumeAfter, Resumed
<1>4. CASE HostEnds
  BY <1>1, <1>4 DEF HostEnds
<1>5. CASE UNCHANGED vars
  BY <1>1, <1>5 DEF vars
<1> QED
  BY <1>2, <1>3, <1>4, <1>5, BeginsStep, DrainsStep, ReleasesStep, MutationStep, PrepareStep,
     QueuesStep, AdmitStep DEF Next, Host

THEOREM ControlInvariant == ASSUME HostConstants PROVE Spec => []Inv
BY InvInit, InvStep, PTL DEF Spec

(* A mutation has its effect only while the server that it comes from is   *)
(* in control, and never between a checkpoint and its end; and terminals   *)
(* stay frozen only for the server in control, or for good.                *)
THEOREM ControlStaysExclusive == ASSUME HostConstants PROVE Spec => []ControlIsExclusive
<1>1. Inv => ControlIsExclusive
  <2> SUFFICES ASSUME Inv PROVE ControlIsExclusive
    OBVIOUS
  <2>1. ASSUME NEW s \in Session, running[s] PROVE Head(admitted[s]).conn = active /\ ~frozen
    BY <2>1, Queued DEF Inv, Owned, Preparation, Idle
  <2> QED
    BY <2>1 DEF Inv, Preparation, ControlIsExclusive
<1> QED
  BY <1>1, ControlInvariant, PTL
=============================================================================
