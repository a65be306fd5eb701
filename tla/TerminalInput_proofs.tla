------------------------ MODULE TerminalInput_proofs ------------------------
(***************************************************************************)
(* The fence of TerminalInput does what it is for, for any number of       *)
(* inputs, interrupts and runtimes, as long as neither a read of the       *)
(* session state nor a connection to the host fails (Failures = {}):       *)
(* nothing that waited when an outcome got lost, and nothing sent before a *)
(* checkpoint, reaches the runtime.  Requests may time out at will.        *)
(*                                                                         *)
(* The second half follows a write through queue, host and runtime.  It    *)
(* holds whatever fails: writes stay whole and in their order, and what a  *)
(* sender is told of them stays true.                                      *)
(***************************************************************************)
EXTENDS TerminalInput, TLAPS

(* The sets of which TypeOK speaks.                                        *)
Agents == [epoch : 1..MaxEpoch, status : {"running", "dead", "stopped"}]
Fences == [phase : Nat, active : BOOLEAN, epoch : 0..MaxEpoch]
Jobs == [st : {"new", "queued", "flying", "lost", "done"}, phase : Nat,
         epoch : 0..MaxEpoch, result : {"none", "sent", "rejected", "uncertain"}]

(* Epochs only fall behind: those of the inputs and of the fence behind    *)
(* the server's, the server's behind the runtime's.                        *)
EpochsFollow ==
    /\ agent.epoch <= live.epoch
    /\ fence.epoch <= agent.epoch
    /\ \A w \in Who : work[w].epoch <= agent.epoch

(* A request in flight has the turn.                                       *)
PendingHasTurn ==
    \A i \in Inputs : Pending(i) => served < Len(queue) /\ queue[served + 1] = i

InHost(w) == \E k \in DOMAIN host : host[k] = w

(* What waits has not left the server.                                     *)
WaitingIsHere ==
    \A w \in Who : work[w].st \in {"new", "queued"} => wrote[w] = 0 /\ ~InHost(w)

(* The runtime is alive and is the one w was admitted for.                 *)
Meant(w) == live.up /\ work[w].epoch = live.epoch

RuntimePhase == IF fence.epoch = live.epoch THEN fence.phase ELSE 0

(* No input waits under a phase that is yet to come.                       *)
PhasesFollow ==
    \A w \in Who : work[w].st = "queued" /\ Meant(w) => work[w].phase <= RuntimePhase

(* A doubt is about the runtime the server knows, and is fenced.           *)
DoubtIsFenced ==
    /\ fence.active => fence.phase # 0
    /\ doubt => agent.epoch = live.epoch
    /\ doubt /\ live.up => fence.active /\ fence.epoch = live.epoch

(* What is barred is not at the host, and if it waits, then under a phase  *)
(* that is over.                                                           *)
BarredIsBehind ==
    \A w \in barred :
        /\ work[w].st # "new"
        /\ wrote[w] = 0
        /\ Meant(w) => ~InHost(w)
        /\ Meant(w) /\ work[w].st = "queued" => work[w].phase < RuntimePhase

(* A session is not replaced while the host writes to it.                  *)
SessionsStay == \A w \in Who : InHost(w) /\ wrote[w] > 0 => session[w] = live.epoch

WaitingIsInput == \A w \in Who : work[w].st = "queued" => w \in Inputs

Types == TypeOK /\ PendingHasTurn /\ WaitingIsInput
-----------------------------------------------------------------------------
(* What the helpers of the actions return.                                 *)
LEMMA TypeParts ==
  TypeOK <=> /\ agent \in Agents /\ fence \in Fences /\ work \in [Who -> Jobs]
             /\ queue \in Seq(Inputs) /\ served \in 0..Len(queue)
             /\ live \in [epoch : 1..MaxEpoch, up : BOOLEAN]
             /\ host \in Seq(Who) /\ wrote \in [Who -> 0..2]
             /\ session \in [Who -> 0..MaxEpoch]
             /\ doubt \in BOOLEAN /\ barred \subseteq Who
BY DEF TypeOK, Agents, Fences, Jobs

LEMMA SettledJobs ==
  ASSUME TypeOK, NEW w \in Who, NEW r \in {"sent", "rejected"}
  PROVE  /\ Settled(w, r) \in [Who -> Jobs]
         /\ Settled(w, r)[w].st = "done"
         /\ Settled(w, r)[w].epoch = work[w].epoch
         /\ \A v \in Who : v # w => Settled(w, r)[v] = work[v]
<1>1. work \in [Who -> Jobs] /\ work[w] \in Jobs
  BY TypeParts
<1>2. /\ [work[w] EXCEPT !.st = "done", !.result = r] \in Jobs
      /\ [work[w] EXCEPT !.st = "done", !.result = r].st = "done"
      /\ [work[w] EXCEPT !.st = "done", !.result = r].epoch = work[w].epoch
  BY <1>1 DEF Jobs
<1>3. Settled(w, r) = [work EXCEPT ![w] = [work[w] EXCEPT !.st = "done", !.result = r]]
  BY <1>1 DEF Settled, Jobs
<1> QED
  BY <1>1, <1>2, <1>3

LEMMA FlyingJobs ==
  ASSUME TypeOK, NEW w \in Who
  PROVE  /\ [work EXCEPT ![w].st = "flying"] \in [Who -> Jobs]
         /\ [work EXCEPT ![w].st = "flying"][w].st = "flying"
         /\ [work EXCEPT ![w].st = "flying"][w].epoch = work[w].epoch
         /\ \A v \in Who : v # w => [work EXCEPT ![w].st = "flying"][v] = work[v]
<1>1. work \in [Who -> Jobs] /\ work[w] \in Jobs
  BY TypeParts
<1>2. /\ [work[w] EXCEPT !.st = "flying"] \in Jobs
      /\ [work[w] EXCEPT !.st = "flying"].st = "flying"
      /\ [work[w] EXCEPT !.st = "flying"].epoch = work[w].epoch
  BY <1>1 DEF Jobs
<1>3. [work EXCEPT ![w].st = "flying"] = [work EXCEPT ![w] = [work[w] EXCEPT !.st = "flying"]]
  BY <1>1
<1> QED
  BY <1>1, <1>2, <1>3

LEMMA TimedOutJobs ==
  ASSUME TypeOK, NEW w \in Who
  PROVE  /\ TimedOut(w) \in [Who -> Jobs]
         /\ TimedOut(w)[w].st = "done"
         /\ \A v \in Who :
               /\ TimedOut(w)[v].epoch = work[v].epoch
               /\ TimedOut(w)[v].phase = work[v].phase
               /\ v # w /\ work[v].st # "flying" => TimedOut(w)[v] = work[v]
               /\ v # w /\ work[v].st = "flying" => TimedOut(w)[v].st = "lost"
<1> DEFINE Done == [work[w] EXCEPT !.st = "done", !.result = "uncertain"]
           Lost(v) == [work[v] EXCEPT !.st = "lost"]
<1>1. \A v \in Who : work[v] \in Jobs
  BY TypeParts
<1>2. /\ Done \in Jobs /\ Done.st = "done"
      /\ Done.epoch = work[w].epoch /\ Done.phase = work[w].phase
  BY <1>1 DEF Jobs
<1>3. \A v \in Who : /\ Lost(v) \in Jobs /\ Lost(v).st = "lost"
                     /\ Lost(v).epoch = work[v].epoch /\ Lost(v).phase = work[v].phase
  BY <1>1 DEF Jobs
<1>4. TimedOut(w) = [v \in Who |-> IF v = w THEN Done
                                   ELSE IF work[v].st = "flying" THEN Lost(v)
                                   ELSE work[v]]
  BY DEF TimedOut
<1> HIDE DEF Done, Lost
<1> QED
  BY <1>1, <1>2, <1>3, <1>4

LEMMA FenceTypes ==
  ASSUME TypeOK
  PROVE  /\ NoFence \in Fences /\ NoFence.epoch = 0 /\ NoFence.phase = 0 /\ ~NoFence.active
         /\ CurrentFence \in Fences
<1>1. NoFence \in Fences /\ NoFence.epoch = 0 /\ NoFence.phase = 0 /\ ~NoFence.active
  BY TerminalAssumption DEF NoFence, Fences
<1>2. CurrentFence \in Fences
  BY <1>1, TypeParts DEF CurrentFence
<1> QED
  BY <1>1, <1>2

LEMMA AdmittedJob ==
  ASSUME TypeOK, NEW s \in {"queued", "flying"}
  PROVE  /\ Admitted(s) \in Jobs /\ Admitted(s).st = s
         /\ Admitted(s).epoch = agent.epoch /\ Admitted(s).phase = CurrentFence.phase
BY TypeParts, FenceTypes, TerminalAssumption DEF Admitted, Jobs, Agents, Fences

LEMMA DeadTypes ==
  ASSUME TypeOK, NEW f \in Fences
  PROVE  /\ DeadStatus \in Agents /\ DeadStatus.epoch = agent.epoch
         /\ DeadFence(f) \in Fences /\ DeadFence(f) \in {f, NoFence}
<1>1. DeadStatus \in Agents /\ DeadStatus.epoch = agent.epoch
  BY TypeParts DEF DeadStatus, Agents
<1> QED
  BY <1>1, FenceTypes DEF DeadFence

LEMMA ViewTypes ==
  ASSUME TypeOK, NEW a
  PROVE  /\ ViewAgent(a) \in Agents /\ ViewAgent(a).epoch = agent.epoch
         /\ ViewFence(a) \in Fences /\ ViewFence(a) \in {fence, NoFence}
         /\ ~Kills(a) => ViewFence(a) = fence
<1>1. agent \in Agents /\ fence \in Fences
  BY TypeParts
<1>2. /\ [agent EXCEPT !.status = "running"] \in Agents
      /\ [agent EXCEPT !.status = "running"].epoch = agent.epoch
  BY <1>1 DEF Agents
<1>3. ViewAgent(a) \in Agents /\ ViewAgent(a).epoch = agent.epoch
  BY <1>1, <1>2, DeadTypes DEF ViewAgent
<1>4. ViewFence(a) \in Fences /\ ViewFence(a) \in {fence, NoFence}
  BY <1>1, DeadTypes DEF ViewFence
<1> QED
  BY <1>3, <1>4 DEF ViewFence

LEMMA Taken ==
  ASSUME TypeOK, host # <<>>
  PROVE  /\ Head(host) \in Who
         /\ Tail(host) \in Seq(Who)
         /\ Len(Tail(host)) = Len(host) - 1
         /\ \A k \in 1..Len(Tail(host)) : Tail(host)[k] = host[k + 1]
         /\ Head(host) = host[1] /\ 1 \in 1..Len(host)
BY DEF TypeOK

(* The turn is kept while no request starts, and passed on by the input    *)
(* that has it.                                                            *)
LEMMA TurnKept ==
  ASSUME PendingHasTurn, UNCHANGED <<queue, served>>,
         \A v \in Who : Pending(v)' => Pending(v)
  PROVE  PendingHasTurn'
BY DEF PendingHasTurn, Who

LEMMA TurnPassed ==
  ASSUME PendingHasTurn, NEW w \in Inputs,
         served < Len(queue), queue[served + 1] = w, ~Pending(w)',
         \A v \in Who : v # w /\ Pending(v)' => Pending(v)
  PROVE  PendingHasTurn'
BY DEF PendingHasTurn, Who
-----------------------------------------------------------------------------
LEMMA TypesInit == Init => Types
<1> SUFFICES ASSUME Init PROVE Types
  OBVIOUS
<1>1. agent \in Agents
  BY TerminalAssumption DEF Init, Agents
<1>2. fence \in Fences
  BY TerminalAssumption DEF Init, Fences, NoFence
<1>3. work \in [Who -> Jobs] /\ \A w \in Who : work[w].st = "new"
  BY TerminalAssumption DEF Init, Jobs
<1>4. live \in [epoch : 1..MaxEpoch, up : BOOLEAN]
  BY TerminalAssumption DEF Init
<1>5. queue \in Seq(Inputs) /\ served \in 0..Len(queue) /\ host \in Seq(Who)
  BY DEF Init
<1>6. wrote \in [Who -> 0..2] /\ session \in [Who -> 0..MaxEpoch] /\ barred \subseteq Who
  BY TerminalAssumption DEF Init
<1>8. doubt \in BOOLEAN
  BY Zenon DEF Init
<1>7. TypeOK
  BY <1>1, <1>2, <1>3, <1>4, <1>5, <1>6, <1>8, TypeParts
<1> QED
  BY <1>3, <1>7 DEF Types, PendingHasTurn, WaitingIsInput, Pending, Who

(* An answer settles the input that has the turn, if anybody still waits.  *)
LEMMA AnswerTypes ==
  ASSUME Types, host # <<>>, NEW w \in Who, w = Head(host),
         NEW r \in {"sent", "rejected"}, Answer(w, r),
         agent' \in Agents, fence' \in Fences
  PROVE  Types'
<1>1. host' \in Seq(Who) /\ UNCHANGED <<queue, live, wrote, session, doubt, barred>>
  BY Taken DEF Types, Answer
<1>2. CASE work[w].st = "flying"
  <2>1. work' = Settled(w, r) /\ served' = ServedBy(w)
    BY <1>2 DEF Answer
  <2>2. /\ work' \in [Who -> Jobs] /\ work'[w].st = "done"
        /\ \A v \in Who : v # w => work'[v] = work[v]
    BY <2>1, <1>1, SettledJobs DEF Types
  <2>3. ~Pending(w)' /\ \A v \in Who : v # w /\ Pending(v)' => Pending(v)
    BY <2>2 DEF Pending
  <2>4. CASE w \in Inputs
    <3>1. served < Len(queue) /\ queue[served + 1] = w
      BY <1>2, <2>4 DEF Types, PendingHasTurn, Pending
    <3>2. served' \in 0..Len(queue')
      BY <1>1, <2>1, <2>4, <3>1 DEF ServedBy, Types, TypeOK
    <3>3. PendingHasTurn'
      BY <2>3, <2>4, <3>1, TurnPassed DEF Types
    <3> QED
      BY <1>1, <2>2, <3>2, <3>3, TypeParts DEF Types, TypeOK, WaitingIsInput, Agents, Fences, Jobs
  <2>5. CASE w \notin Inputs
    <3>1. UNCHANGED served /\ PendingHasTurn'
      BY <1>1, <2>1, <2>3, <2>5, TurnKept DEF ServedBy, Types
    <3> QED
      BY <1>1, <2>2, <3>1, TypeParts DEF Types, TypeOK, WaitingIsInput, Agents, Fences, Jobs
  <2> QED
    BY <2>4, <2>5
<1>3. CASE work[w].st # "flying"
  <2>1. UNCHANGED <<work, served>>
    BY <1>3 DEF Answer
  <2> QED
    BY <1>1, <2>1 DEF Types, TypeOK, PendingHasTurn, WaitingIsInput, Pending, Agents, Fences
<1> QED
  BY <1>2, <1>3

LEMMA TypesStep == Types /\ [Next]_vars => Types'
<1> SUFFICES ASSUME Types, [Next]_vars PROVE Types'
  OBVIOUS
<1> USE DEF Types
<1>0. CurrentFence \in Fences /\ agent \in Agents /\ fence \in Fences
  BY FenceTypes, TypeParts
<1>1. ASSUME NEW i \in Inputs, Refuse(i) PROVE Types'
  <2>1. i \in Who /\ work' = Settled(i, "rejected") /\ UNCHANGED <<queue, served>>
    BY <1>1 DEF Refuse, Who
  <2>2. /\ work' \in [Who -> Jobs] /\ work'[i].st = "done"
        /\ \A v \in Who : v # i => work'[v] = work[v]
    BY <2>1, SettledJobs
  <2>3. PendingHasTurn'
    BY <2>1, <2>2, TurnKept DEF Pending
  <2> QED
    BY <1>0, <1>1, <2>1, <2>2, <2>3, TypeParts, ZenonT(60) DEF Refuse, TypeOK, WaitingIsInput, Fences, Jobs
<1>2. ASSUME NEW i \in Inputs, Admit(i) PROVE Types'
  <2>1. i \in Who /\ work' = [work EXCEPT ![i] = Admitted("queued")] /\ queue' = Append(queue, i)
        /\ served' = served
    BY <1>2 DEF Admit, Who
  <2>2. /\ work' \in [Who -> Jobs] /\ work'[i].st = "queued"
        /\ \A v \in Who : v # i => work'[v] = work[v]
    BY <2>1, AdmittedJob, TypeParts
  <2>3. /\ queue' \in Seq(Inputs) /\ served' \in 0..Len(queue')
        /\ Len(queue') = Len(queue) + 1
        /\ \A k \in 1..Len(queue) : queue'[k] = queue[k]
    BY <2>1, <1>2 DEF TypeOK
  <2>4. PendingHasTurn'
    <3> SUFFICES ASSUME NEW v \in Inputs, Pending(v)'
                 PROVE  (served < Len(queue) /\ queue[served + 1] = v)'
      BY DEF PendingHasTurn
    <3>1. v # i /\ Pending(v)
      BY <2>2 DEF Pending, Who
    <3>2. served < Len(queue) /\ queue[served + 1] = v
      BY <3>1 DEF PendingHasTurn
    <3> QED
      BY <2>1, <2>3, <3>2 DEF TypeOK
  <2> QED
    BY <1>0, <1>2, <2>1, <2>2, <2>3, <2>4, TypeParts, SMTT(60) DEF Admit, TypeOK, WaitingIsInput, Fences, Jobs
<1>3. ASSUME NEW i \in Inputs, TurnAway(i) PROVE Types'
  <2>1. /\ i \in Who /\ work' = Settled(i, "rejected")
        /\ served < Len(queue) /\ queue[served + 1] = i /\ served' = served + 1
    BY <1>3 DEF TurnAway, Turn, Who
  <2>2. /\ work' \in [Who -> Jobs] /\ work'[i].st = "done"
        /\ \A v \in Who : v # i => work'[v] = work[v]
    BY <2>1, SettledJobs
  <2>3. PendingHasTurn' /\ served' \in 0..Len(queue)
    BY <2>1, <2>2, TurnPassed DEF Pending, TypeOK
  <2> QED
    BY <1>0, <1>3, <2>2, <2>3, TypeParts DEF TurnAway, TypeOK, WaitingIsInput, Fences, Jobs
<1>4. ASSUME NEW i \in Inputs, Dispatch(i) PROVE Types'
  <2>1. /\ i \in Who /\ work' = [work EXCEPT ![i].st = "flying"]
        /\ served < Len(queue) /\ queue[served + 1] = i /\ UNCHANGED <<queue, served>>
    BY <1>4 DEF Dispatch, Turn, Who
  <2>2. /\ work' \in [Who -> Jobs] /\ work'[i].st = "flying"
        /\ \A v \in Who : v # i => work'[v] = work[v]
    BY <2>1, FlyingJobs
  <2>3. PendingHasTurn'
    BY <2>1, <2>2 DEF PendingHasTurn, Pending, Who
  <2>4. host' \in Seq(Who)
    BY <1>4, <2>1 DEF Dispatch, TypeOK
  <2>5. barred' \subseteq Who
    BY <1>4, <2>1 DEF Dispatch, TypeOK
  <2> QED
    BY <1>0, <1>4, <2>1, <2>2, <2>3, <2>4, <2>5, TypeParts, ZenonT(60)
    DEF Dispatch, TypeOK, WaitingIsInput, Fences, Jobs
<1>5. ASSUME NEW x \in Interrupts, Interrupt(x) PROVE Types'
  <2>1. /\ x \in Who /\ work' = [work EXCEPT ![x] = Admitted("flying")]
        /\ x \notin Inputs /\ UNCHANGED <<queue, served>>
    BY <1>5, TerminalAssumption DEF Interrupt, Who
  <2>2. /\ work' \in [Who -> Jobs] /\ work'[x].st = "flying"
        /\ \A v \in Who : v # x => work'[v] = work[v]
    BY <2>1, AdmittedJob, TypeParts
  <2>3. PendingHasTurn'
    BY <2>1, <2>2 DEF PendingHasTurn, Pending, Who
  <2>4. host' \in Seq(Who)
    BY <1>5, <2>1 DEF Interrupt, TypeOK
  <2>5. barred' \subseteq Who
    BY <1>5, <2>1 DEF Interrupt, TypeOK
  <2> QED
    BY <1>0, <1>5, <2>1, <2>2, <2>3, <2>4, <2>5, TypeParts, SMTT(60)
    DEF Interrupt, TypeOK, WaitingIsInput, Fences, Jobs
<1>6. ASSUME NEW w \in Who, Unreachable(w) PROVE Types'
  <2>1. work' = Settled(w, "rejected") /\ served' = ServedBy(w) /\ queue' = queue
    BY <1>6 DEF Unreachable
  <2>2. /\ work' \in [Who -> Jobs] /\ work'[w].st = "done"
        /\ \A v \in Who : v # w => work'[v] = work[v]
    BY <2>1, SettledJobs
  <2>3. w \in Inputs => served < Len(queue) /\ queue[served + 1] = w
    BY <1>6 DEF Unreachable, Turn
  <2>4. PendingHasTurn' /\ served' \in 0..Len(queue)
    <3>1. ~Pending(w)' /\ \A v \in Who : v # w /\ Pending(v)' => Pending(v)
      BY <2>2 DEF Pending
    <3>2. CASE w \in Inputs
      BY <2>1, <2>3, <3>1, <3>2, TurnPassed DEF ServedBy, TypeOK
    <3>3. CASE w \notin Inputs
      BY <2>1, <3>1, <3>3, TurnKept DEF ServedBy, TypeOK
    <3> QED
      BY <3>2, <3>3
  <2>5. agent' \in Agents /\ fence' \in Fences
    BY <1>0, <1>6, DeadTypes DEF Unreachable
  <2> QED
    BY <1>6, <2>2, <2>4, <2>5, TypeParts
    DEF Unreachable, TypeOK, WaitingIsInput, Agents, Fences, Jobs
<1>7. ASSUME NEW w \in Who, Timeout(w) PROVE Types'
  <2>1. /\ work' = TimedOut(w) /\ served' = ServedBy(w) /\ Pending(w)
        /\ UNCHANGED <<agent, queue, live, wrote, session>>
    BY <1>7 DEF Timeout
  <2>2. /\ work' \in [Who -> Jobs] /\ work'[w].st = "done"
        /\ \A v \in Who : work'[v].st = "queued" => work[v].st = "queued"
        /\ \A v \in Who : v # w /\ work'[v].st \in {"flying", "lost"} => work[v].st \in {"flying", "lost"}
    BY <2>1, TimedOutJobs
  <2>3. host' \in Seq(Who)
    <3>1. CASE UNCHANGED host
      BY <3>1 DEF TypeOK
    <3>2. ASSUME NEW k \in 1..Len(host),
                 host' = [n \in 1..(Len(host) - 1) |-> IF n < k THEN host[n] ELSE host[n + 1]]
          PROVE  host' \in Seq(Who)
      <4>0. host \in Seq(Who)
        BY DEF TypeOK
      <4>1. Len(host) \in Nat /\ Len(host) - 1 \in Nat /\ \A n \in 1..Len(host) : host[n] \in Who
        BY ONLY <3>2, <4>0
      <4>2. \A n \in 1..(Len(host) - 1) : (IF n < k THEN host[n] ELSE host[n + 1]) \in Who
        BY <3>2, <4>1
      <4> QED
        BY <3>2, <4>1, <4>2
    <3> QED
      BY <1>7, <3>1, <3>2 DEF Timeout, Forget
  <2>4. fence' \in Fences
    BY <1>7, <1>0 DEF Timeout, FencedBy, Fences, Agents
  <2>5. PendingHasTurn' /\ served' \in 0..Len(queue)
    <3>1. ~Pending(w)' /\ \A v \in Who : v # w /\ Pending(v)' => Pending(v)
      BY <2>2 DEF Pending
    <3>2. CASE w \in Inputs
      <4>1. served < Len(queue) /\ queue[served + 1] = w
        BY <2>1, <3>2 DEF PendingHasTurn
      <4> QED
        BY <2>1, <3>1, <3>2, <4>1, TurnPassed DEF ServedBy, TypeOK
    <3>3. CASE w \notin Inputs
      BY <2>1, <3>1, <3>3, TurnKept DEF ServedBy, TypeOK
    <3> QED
      BY <3>2, <3>3
  <2>6. barred' \subseteq Who /\ doubt' \in BOOLEAN
    <3>1. CASE work[w].epoch = live.epoch
      BY <1>7, <3>1 DEF Timeout, TypeOK, Who
    <3>2. CASE work[w].epoch # live.epoch
      BY <1>7, <3>2 DEF Timeout, TypeOK
    <3> QED
      BY <3>1, <3>2
  <2> QED
    BY <2>1, <2>2, <2>3, <2>4, <2>5, <2>6, TypeParts DEF TypeOK, WaitingIsInput, Agents, Fences, Jobs
<1>8. CASE WriteChunk
  <2>1. wrote' \in [Who -> 0..2]
    <3> DEFINE h == Head(host)
    <3>1. h \in Who /\ wrote[h] \in 0..2 /\ wrote[h] < 2
      BY <1>8, Taken, SMTT(60) DEF WriteChunk, WritesChunk, TypeOK, Chunks
    <3>2. wrote' = [wrote EXCEPT ![h] = wrote[h] + 1]
      BY <1>8 DEF WriteChunk, WritesChunk
    <3> HIDE DEF h
    <3> QED
      BY <3>1, <3>2 DEF TypeOK
  <2> QED
    BY <1>8, <2>1 DEF WriteChunk, WritesChunk, TypeOK, PendingHasTurn, WaitingIsInput, Pending
<1>9. CASE Finish
  <2>1. host # <<>> /\ Answer(Head(host), "sent") /\ UNCHANGED <<agent, fence>>
    BY <1>9 DEF Finish
  <2> QED
    BY <1>0, <2>1, AnswerTypes, Taken
<1>10. CASE Mismatch
  <2>1. host # <<>> /\ Answer(Head(host), "rejected") /\ UNCHANGED <<agent, fence>>
    BY <1>10 DEF Mismatch
  <2> QED
    BY <1>0, <2>1, AnswerTypes, Taken
<1>11. CASE Gone
  <2>1. host # <<>> /\ Answer(Head(host), "rejected")
    BY <1>11 DEF Gone
  <2>2. agent' \in Agents /\ fence' \in Fences
    BY <1>0, <1>11, DeadTypes DEF Gone
  <2> QED
    BY <2>1, <2>2, AnswerTypes, Taken
<1>12. ASSUME NEW a, View(a) PROVE Types'
  <2>1. agent' \in Agents /\ fence' \in Fences
    BY <1>12, ViewTypes DEF View
  <2> QED
    BY <1>12, <2>1 DEF View, TypeOK, PendingHasTurn, WaitingIsInput, Pending, Agents, Fences
<1>13. ASSUME NEW a, Checkpoint(a) PROVE Types'
  <2>1. agent' \in Agents /\ ViewFence(a) \in Fences
    BY <1>13, ViewTypes DEF Checkpoint
  <2>2. Released(ViewFence(a), ViewEpoch(a)) \in Fences
    BY <2>1, FenceTypes DEF Released, Fences
  <2>3. doubt' \in BOOLEAN
    BY <1>13 DEF Checkpoint
  <2> QED
    BY <1>13, <2>1, <2>2, <2>3 DEF Checkpoint, TypeOK, PendingHasTurn, WaitingIsInput, Pending, Agents, Fences
<1>14. CASE Exit
  <2>1. live' \in [epoch : 1..MaxEpoch, up : BOOLEAN]
    BY <1>14 DEF Exit, TypeOK
  <2>2. agent' \in Agents
    BY <1>0, <1>14 DEF Exit, Agents
  <2> QED
    BY <1>14, <2>1, <2>2 DEF Exit, TypeOK, PendingHasTurn, WaitingIsInput, Pending, Agents
<1>15. CASE Restart
  <2>1. live' \in [epoch : 1..MaxEpoch, up : BOOLEAN]
    BY <1>15, TerminalAssumption DEF Restart, TypeOK
  <2>2. doubt' \in BOOLEAN
    BY <1>15, Zenon DEF Restart
  <2> QED
    BY <1>15, <2>1, <2>2 DEF Restart, TypeOK, PendingHasTurn, WaitingIsInput, Pending
<1>16. CASE Learn
  BY <1>16 DEF Learn, TypeOK, PendingHasTurn, WaitingIsInput, Pending
<1>17. CASE UNCHANGED vars
  BY <1>17 DEF vars, TypeOK, PendingHasTurn, WaitingIsInput, Pending
<1> QED
  BY <1>1, <1>2, <1>3, <1>4, <1>5, <1>6, <1>7, <1>8, <1>9, <1>10, <1>11, <1>12, <1>13, <1>14,
     <1>15, <1>16, <1>17 DEF Next

(* Whatever fails, the state of the terminal's input path keeps its types. *)
THEOREM TypeCorrect == Spec => []TypeOK
<1>1. Spec => []Types
  BY TypesInit, TypesStep, PTL DEF Spec
<1>2. Types => TypeOK
  BY DEF Types
<1> QED
  BY <1>1, <1>2, PTL
-----------------------------------------------------------------------------
(* What one step does to one input, wherever it is on its way.             *)
Kept(w) ==
    work'[w].st = work[w].st /\ work'[w].epoch = work[w].epoch /\ work'[w].phase = work[w].phase

Left(w) == work'[w].st \in {"flying", "lost", "done"} /\ work'[w].epoch = work[w].epoch

Joined(w) ==
    /\ work[w].st = "new" /\ work'[w].st = "queued"
    /\ work'[w].epoch = agent.epoch /\ work'[w].phase = CurrentFence.phase
    /\ fence' = CurrentFence /\ UNCHANGED <<agent, live>>

Jumped(w) ==
    work[w].st = "new" /\ work'[w].st = "flying" /\ work'[w].epoch = agent.epoch /\ UNCHANGED agent

JobStep(w) == Kept(w) \/ Left(w) \/ Joined(w) \/ Jumped(w)

(* A request for w goes to the host.                                       *)
Sent(w) ==
    /\ work[w].st \in {"new", "queued"} /\ work'[w].st = "flying"
    /\ UNCHANGED <<live, wrote>>
    /\ IF work[w].st = "new" THEN ~CurrentFence.active ELSE Passes(w)

(* The doubt falls on w.                                                   *)
Caught(w) ==
    /\ work[w].st = "queued" /\ work'[w].st = "queued"
    /\ UNCHANGED <<agent, live, wrote>>
    /\ agent.epoch = live.epoch
    /\ fence' = [phase |-> CurrentFence.phase + 1, active |-> TRUE, epoch |-> agent.epoch]

LEMMA AnswerJobs ==
  ASSUME TypeOK, NEW w \in Who, NEW r \in {"sent", "rejected"}, Answer(w, r)
  PROVE  \A v \in Who : Kept(v) \/ Left(v)
<1>1. CASE work[w].st = "flying"
  BY <1>1, SettledJobs DEF Answer, Kept, Left
<1>2. CASE work[w].st # "flying"
  BY <1>2 DEF Answer, Kept
<1> QED
  BY <1>1, <1>2

LEMMA JobsStep ==
  ASSUME Types, Next
  PROVE  \A v \in Who : JobStep(v)
<1> USE DEF Types, JobStep
<1>1. ASSUME NEW i \in Inputs, Refuse(i) \/ TurnAway(i) PROVE \A v \in Who : JobStep(v)
  <2>1. i \in Who /\ work' = Settled(i, "rejected")
    BY <1>1 DEF Refuse, TurnAway, Who
  <2> QED
    BY <2>1, SettledJobs DEF Kept, Left
<1>2. ASSUME NEW i \in Inputs, Admit(i) PROVE \A v \in Who : JobStep(v)
  <2>1. /\ i \in Who /\ work[i].st = "new" /\ work' = [work EXCEPT ![i] = Admitted("queued")]
        /\ fence' = CurrentFence /\ UNCHANGED <<agent, live>>
    BY <1>2 DEF Admit, Who
  <2>2. work'[i] = Admitted("queued") /\ \A v \in Who : v # i => work'[v] = work[v]
    BY <2>1 DEF TypeOK
  <2>3. Joined(i)
    BY <2>1, <2>2, AdmittedJob DEF Joined
  <2> QED
    BY <2>2, <2>3 DEF Kept
<1>3. ASSUME NEW i \in Inputs, Dispatch(i) PROVE \A v \in Who : JobStep(v)
  <2>1. i \in Who /\ work' = [work EXCEPT ![i].st = "flying"]
    BY <1>3 DEF Dispatch, Who
  <2> QED
    BY <2>1, FlyingJobs DEF Kept, Left
<1>4. ASSUME NEW x \in Interrupts, Interrupt(x) PROVE \A v \in Who : JobStep(v)
  <2>1. /\ x \in Who /\ work[x].st = "new" /\ work' = [work EXCEPT ![x] = Admitted("flying")]
        /\ UNCHANGED agent
    BY <1>4 DEF Interrupt, Who
  <2>2. work'[x] = Admitted("flying") /\ \A v \in Who : v # x => work'[v] = work[v]
    BY <2>1 DEF TypeOK
  <2>3. Jumped(x)
    BY <2>1, <2>2, AdmittedJob DEF Jumped
  <2> QED
    BY <2>2, <2>3 DEF Kept
<1>5. ASSUME NEW w \in Who, Unreachable(w) PROVE \A v \in Who : JobStep(v)
  BY <1>5, SettledJobs DEF Unreachable, Kept, Left
<1>6. ASSUME NEW w \in Who, Timeout(w) PROVE \A v \in Who : JobStep(v)
  <2>1. work' = TimedOut(w)
    BY <1>6 DEF Timeout
  <2> QED
    BY <2>1, TimedOutJobs DEF Kept, Left
<1>7. CASE Finish \/ Mismatch \/ Gone
  <2>1. host # <<>> /\ \E r \in {"sent", "rejected"} : Answer(Head(host), r)
    BY <1>7 DEF Finish, Mismatch, Gone
  <2> QED
    BY <2>1, Taken, AnswerJobs
<1>8. CASE UNCHANGED work
  BY <1>8 DEF Kept
<1> QED
  BY <1>1, <1>2, <1>3, <1>4, <1>5, <1>6, <1>7, <1>8
  DEF Next, WriteChunk, WritesChunk, View, Checkpoint, Exit, Restart, Learn

(* A write comes to the host only by being sent.                           *)
LEMMA HostStep ==
  ASSUME Types, Next, NEW v \in Who, InHost(v)'
  PROVE  InHost(v) \/ Sent(v)
<1> USE DEF Types, InHost
<1>1. ASSUME NEW i \in Who, host' = Append(host, i)
      PROVE  InHost(v) \/ v = i
  <2>1. host \in Seq(Who)
    BY DEF TypeOK
  <2>2. PICK k \in DOMAIN host' : host'[k] = v
    OBVIOUS
  <2>3. k \in 1..(Len(host) + 1) /\ (k <= Len(host) => host'[k] = host[k])
        /\ (k = Len(host) + 1 => host'[k] = i)
    BY <1>1, <2>1, <2>2
  <2> QED
    BY <2>1, <2>2, <2>3
<1>2. ASSUME NEW i \in Inputs, Dispatch(i) PROVE InHost(v) \/ Sent(v)
  <2>1. i \in Who /\ work' = [work EXCEPT ![i].st = "flying"] /\ host' = Append(host, i)
    BY <1>2 DEF Dispatch, Who
  <2>2. Sent(i)
    BY <1>2, <2>1, FlyingJobs DEF Dispatch, Turn, Sent, Passes
  <2> QED
    BY <1>1, <2>1, <2>2
<1>3. ASSUME NEW x \in Interrupts, Interrupt(x) PROVE InHost(v) \/ Sent(v)
  <2>1. x \in Who /\ work' = [work EXCEPT ![x] = Admitted("flying")] /\ host' = Append(host, x)
    BY <1>3 DEF Interrupt, Who
  <2>2. work'[x] = Admitted("flying")
    BY <2>1 DEF TypeOK
  <2>3. Sent(x)
    BY <1>3, <2>2, AdmittedJob DEF Interrupt, Sent
  <2> QED
    BY <1>1, <2>1, <2>3
<1>4. ASSUME NEW w \in Who, Timeout(w) PROVE InHost(v)
  <2>1. CASE UNCHANGED host
    BY <2>1
  <2>2. ASSUME NEW k \in 1..Len(host),
               host' = [n \in 1..(Len(host) - 1) |-> IF n < k THEN host[n] ELSE host[n + 1]]
        PROVE  InHost(v)
    <3>1. Len(host) \in Nat /\ DOMAIN host = 1..Len(host)
      BY DEF TypeOK
    <3>2. PICK n \in 1..(Len(host) - 1) : host'[n] = v
      BY <2>2
    <3>3. host[n] = v \/ host[n + 1] = v
      BY <2>2, <3>2
    <3>4. n \in 1..Len(host) /\ n + 1 \in 1..Len(host)
      BY <3>1, <3>2
    <3> QED
      BY <3>1, <3>3, <3>4
  <2> QED
    BY <1>4, <2>1, <2>2 DEF Timeout, Forget
<1>5. CASE Finish \/ Mismatch \/ Gone
  <2>1. host # <<>> /\ host' = Tail(host)
    BY <1>5 DEF Finish, Mismatch, Gone, Answer
  <2>2. PICK k \in DOMAIN host' : host'[k] = v
    OBVIOUS
  <2>3. /\ DOMAIN host = 1..Len(host) /\ Len(host) \in Nat
        /\ DOMAIN Tail(host) = 1..(Len(host) - 1)
        /\ \A n \in 1..(Len(host) - 1) : Tail(host)[n] = host[n + 1]
    BY <2>1, Taken DEF TypeOK
  <2> QED
    BY <2>1, <2>2, <2>3
<1>6. CASE UNCHANGED host
  BY <1>6
<1> QED
  BY <1>2, <1>3, <1>4, <1>5, <1>6
  DEF Next, Refuse, Admit, TurnAway, Unreachable, WriteChunk, WritesChunk, View, Checkpoint, Exit, Restart, Learn

LEMMA PathTypes ==
  ASSUME Types
  PROVE  /\ Len(host) \in Nat /\ DOMAIN host = 1..Len(host)
         /\ \A k \in DOMAIN host : host[k] \in Who
         /\ Len(queue) \in Nat /\ DOMAIN queue = 1..Len(queue)
         /\ \A k \in DOMAIN queue : queue[k] \in Inputs /\ queue[k] \in Who
         /\ served \in Nat /\ served <= Len(queue)
<1>1. host \in Seq(Who) /\ queue \in Seq(Inputs) /\ served \in 0..Len(queue)
  BY DEF Types, TypeOK
<1> QED
  BY <1>1 DEF Who

(* Chunks are written for what is at the host, and begun for what is meant *)
(* for the runtime.                                                        *)
LEMMA WroteStep ==
  ASSUME Types, Next, NEW v \in Who, wrote'[v] # wrote[v]
  PROVE  InHost(v) /\ live.up /\ (wrote[v] = 0 => Meant(v))
<1>1. CASE WriteChunk
  <2>1. v = Head(host)
    BY <1>1 DEF WriteChunk, WritesChunk, Types, TypeOK
  <2>2. live.up /\ (wrote[v] = 0 => work[v].epoch = live.epoch)
    BY <1>1, <2>1 DEF WriteChunk, WritesChunk, Accepts, Attached
  <2>3. InHost(v)
    BY <1>1, <2>1, Taken DEF WriteChunk, WritesChunk, InHost, Types
  <2> QED
    BY <2>2, <2>3 DEF Meant
<1>2. CASE UNCHANGED wrote
  BY <1>2
<1> QED
  BY <1>1, <1>2 DEF Next, Refuse, Admit, TurnAway, Dispatch, Interrupt, Unreachable, Timeout,
     Finish, Mismatch, Gone, Answer, View, Checkpoint, Exit, Restart, Learn
(* What waits is not at the host, and not written.                         *)
LEMMA WaitingStep ==
  ASSUME Types, WaitingIsHere, Next
  PROVE  WaitingIsHere'
<1> SUFFICES ASSUME NEW v \in Who, work'[v].st \in {"new", "queued"}
             PROVE  wrote'[v] = 0 /\ ~InHost(v)'
  BY DEF WaitingIsHere
<1>1. work[v].st \in {"new", "queued"}
  BY JobsStep DEF JobStep, Kept, Left, Joined, Jumped
<1>2. wrote[v] = 0 /\ ~InHost(v)
  BY <1>1 DEF WaitingIsHere
<1>3. wrote'[v] = wrote[v]
  BY <1>2, WroteStep
<1>4. ~InHost(v)'
  BY <1>2, HostStep DEF Sent
<1> QED
  BY <1>2, <1>3, <1>4

LEMMA SessionsStayStep ==
  ASSUME Types, WaitingIsHere, SessionsStay, Next
  PROVE  SessionsStay'
<1> SUFFICES ASSUME NEW v \in Who, InHost(v)', wrote'[v] > 0
             PROVE  session'[v] = live'.epoch
  BY DEF SessionsStay
<1>1. CASE WriteChunk
  <2>1. /\ Head(host) \in Who /\ UNCHANGED <<host, live>>
        /\ session' = [session EXCEPT ![Head(host)] = live.epoch]
        /\ wrote' = [wrote EXCEPT ![Head(host)] = @ + 1]
    BY <1>1, Taken DEF WriteChunk, WritesChunk, Types
  <2> QED
    BY <2>1 DEF SessionsStay, InHost, Types, TypeOK
<1>2. CASE UNCHANGED <<wrote, session>>
  <2>1. InHost(v)
    BY <1>2, HostStep DEF Sent, WaitingIsHere
  <2>2. live'.epoch = live.epoch
    <3>1. ~Restart
      BY <2>1 DEF Restart, InHost
    <3>2. Exit => live'.epoch = live.epoch
      BY DEF Exit, Types, TypeOK
    <3> QED
      BY <3>1, <3>2 DEF Next, Refuse, Admit, TurnAway, Dispatch, Interrupt, Unreachable, Timeout,
         WriteChunk, WritesChunk, Finish, Mismatch, Gone, Answer, View, Checkpoint, Learn
  <2> QED
    BY <1>2, <2>1, <2>2 DEF SessionsStay
<1> QED
  BY <1>1, <1>2 DEF Next, Refuse, Admit, TurnAway, Dispatch, Interrupt, Unreachable, Timeout,
     Finish, Mismatch, Gone, Answer, View, Checkpoint, Exit, Restart, Learn
-----------------------------------------------------------------------------
(* The runtime only goes down, or up as another one.                       *)
LEMMA LiveStep ==
  ASSUME Types, EpochsFollow, Next
  PROVE  /\ agent.epoch <= agent'.epoch /\ agent'.epoch <= live'.epoch
         /\ live.epoch <= live'.epoch
         /\ \A v \in Who : work[v].st # "new" /\ Meant(v)' => Meant(v) /\ UNCHANGED live
<1> USE DEF Types, EpochsFollow
<1>0. /\ agent.epoch \in Nat /\ live.epoch \in Nat
      /\ \A v \in Who : work[v].epoch \in Nat
  BY DEF TypeOK
<1>1. \A v \in Who : work[v].st # "new" => work'[v].epoch = work[v].epoch
  BY JobsStep DEF JobStep, Kept, Left, Joined, Jumped
<1>2. CASE UNCHANGED live /\ (agent'.epoch = agent.epoch)
  BY <1>0, <1>1, <1>2 DEF Meant
<1>3. CASE Exit
  <2>1. agent'.epoch = agent.epoch
    BY <1>3 DEF Exit, TypeOK
  <2>2. ~live'.up /\ live'.epoch = live.epoch
    BY <1>3 DEF Exit, TypeOK
  <2> QED
    BY <1>0, <2>1, <2>2 DEF Meant
<1>4. CASE Restart
  <2>1. live'.epoch = live.epoch + 1 /\ UNCHANGED <<agent, work>>
    BY <1>4 DEF Restart
  <2>2. \A v \in Who : work'[v].epoch # live'.epoch
    BY <1>0, <2>1
  <2> QED
    BY <1>0, <2>1, <2>2 DEF Meant
<1>5. CASE Learn
  <2>1. agent'.epoch = live.epoch /\ UNCHANGED <<live, work>>
    BY <1>5 DEF Learn
  <2> QED
    BY <1>0, <2>1 DEF Meant
<1>6. CASE Gone
  <2>1. agent'.epoch = agent.epoch /\ UNCHANGED live
    BY <1>6, DeadTypes, FenceTypes DEF Gone, Answer
  <2> QED
    BY <1>2, <2>1
<1>7. ASSUME NEW w \in Who, Unreachable(w) PROVE agent'.epoch = agent.epoch /\ UNCHANGED live
  BY <1>7, DeadTypes, FenceTypes DEF Unreachable
<1>8. ASSUME NEW a, View(a) \/ Checkpoint(a) PROVE agent'.epoch = agent.epoch /\ UNCHANGED live
  BY <1>8, ViewTypes DEF View, Checkpoint
<1> QED
  BY <1>2, <1>3, <1>4, <1>5, <1>6, <1>7, <1>8
  DEF Next, Refuse, Admit, TurnAway, Dispatch, Interrupt, Timeout, WriteChunk, WritesChunk, Finish, Mismatch, Answer

(* While the runtime lives, and reads of its state do not fail, its fence  *)
(* only moves on.                                                          *)
FenceFollows ==
    /\ fence'.epoch <= agent'.epoch
    /\ fence'.active => fence'.phase # 0
    /\ live.up /\ UNCHANGED live => RuntimePhase <= RuntimePhase'
    /\ doubt' => agent'.epoch = live'.epoch
    /\ doubt' /\ live'.up => fence'.active /\ fence'.epoch = live'.epoch

LEMMA FenceStep ==
  ASSUME Failures = {}, Types, EpochsFollow, SessionsStay, DoubtIsFenced, Next
  PROVE  FenceFollows
<1> USE DEF Types, EpochsFollow, DoubtIsFenced
<1>0. /\ agent.epoch \in Nat /\ live.epoch \in Nat /\ live.epoch # 0
      /\ fence \in Fences /\ fence.epoch \in Nat /\ fence.phase \in Nat /\ fence.active \in BOOLEAN
  BY TypeParts DEF TypeOK, Fences
<1>1. \A v \in Who : work[v].epoch \in Nat /\ work[v].epoch <= agent.epoch
  BY DEF TypeOK
<1>2. /\ agent.epoch = live.epoch /\ fence.epoch = live.epoch => CurrentFence = fence
      /\ CurrentFence \in {fence, NoFence} /\ CurrentFence.epoch <= agent.epoch
      /\ CurrentFence.active => CurrentFence.phase # 0
      /\ RuntimePhase = (IF CurrentFence.epoch = live.epoch THEN CurrentFence.phase ELSE 0)
      /\ CurrentFence.phase \in Nat
  BY <1>0, FenceTypes DEF CurrentFence, RuntimePhase
<1>3. CASE fence' \in {fence, CurrentFence} /\ UNCHANGED <<agent, live, doubt>>
  BY <1>0, <1>2, <1>3 DEF FenceFollows, RuntimePhase
<1>4. ASSUME NEW w \in Who, Timeout(w) PROVE FenceFollows
  <2>1. UNCHANGED <<agent, live>> /\ fence' = FencedBy(w)
    BY <1>4 DEF Timeout
  <2>2. CASE work[w].epoch = agent.epoch
    <3>1. fence' = [phase |-> CurrentFence.phase + 1, active |-> TRUE, epoch |-> agent.epoch]
      BY <2>1, <2>2 DEF FencedBy
    <3>2. /\ fence'.epoch = agent.epoch /\ fence'.active /\ fence'.phase = CurrentFence.phase + 1
      BY <3>1
    <3>3. RuntimePhase <= RuntimePhase'
      BY <1>0, <1>2, <2>1, <3>2 DEF RuntimePhase
    <3>4. doubt' => agent.epoch = live.epoch
      BY <1>4, <2>2 DEF Timeout
    <3> QED
      BY <1>0, <1>2, <2>1, <3>2, <3>3, <3>4 DEF FenceFollows
  <2>3. CASE work[w].epoch # agent.epoch
    <3>1. work[w].epoch # live.epoch
      BY <1>0, <1>1, <2>3
    <3>2. UNCHANGED <<fence, doubt>>
      BY <1>4, <2>1, <2>3, <3>1 DEF Timeout, FencedBy
    <3> QED
      BY <1>3, <2>1, <3>2
  <2> QED
    BY <2>2, <2>3
<1>5. CASE ~live.up /\ agent'.epoch = agent.epoch /\ UNCHANGED live
           /\ fence' \in {fence, NoFence} /\ (doubt' => doubt)
  BY <1>0, <1>5, FenceTypes DEF FenceFollows
<1>6. CASE Gone
  <2>3. host # <<>> /\ Head(host) \in Who /\ InHost(Head(host))
    BY <1>6, Taken, PathTypes DEF Gone, InHost
  <2>1. UNCHANGED <<live, doubt>> /\ ~live.up
    BY <1>6, <2>3 DEF Gone, Answer, Attached, SessionsStay
  <2>2. agent'.epoch = agent.epoch /\ fence' \in {fence, NoFence}
    BY <1>0, <1>6, DeadTypes DEF Gone
  <2> QED
    BY <1>5, <2>1, <2>2
<1>7. ASSUME NEW w \in Who, Unreachable(w) PROVE FALSE
  BY <1>7 DEF Unreachable
<1>8. ASSUME NEW a, a \in Answers PROVE a \in {"state", "missing"} /\ (a = "missing" => ~live.up)
                                        /\ (a = "state" => ~Kills(a))
  BY <1>8 DEF Answers, Kills
<1>9. ASSUME NEW a, View(a) PROVE FenceFollows
  <2>1. /\ a \in Answers /\ agent'.epoch = agent.epoch /\ UNCHANGED <<live, doubt>>
        /\ fence' \in {fence, NoFence} /\ (~Kills(a) => fence' = fence)
    BY <1>9, ViewTypes DEF View
  <2>2. CASE a = "missing"
    BY <1>5, <1>8, <2>1, <2>2
  <2>3. CASE a = "state"
    <3>1. fence' = fence
      BY <1>8, <2>1, <2>3
    <3> QED
      BY <1>0, <2>1, <3>1 DEF FenceFollows, RuntimePhase
  <2> QED
    BY <1>8, <2>1, <2>2, <2>3
<1>10. ASSUME NEW a, Checkpoint(a) PROVE FenceFollows
  <2>1. /\ a \in Answers /\ agent'.epoch = agent.epoch /\ UNCHANGED live
        /\ ViewFence(a) \in {fence, NoFence} /\ (~Kills(a) => ViewFence(a) = fence)
        /\ ViewFence(a) \in Fences
        /\ fence' = Released(ViewFence(a), ViewEpoch(a)) /\ doubt' = (doubt /\ a # "state")
    BY <1>10, ViewTypes DEF Checkpoint
  <2>2. fence'.epoch <= agent.epoch /\ (fence'.active => fence'.phase # 0)
    BY <1>0, <2>1, FenceTypes DEF Released, Fences
  <2>3. CASE a = "missing"
    BY <1>0, <1>8, <2>1, <2>2, <2>3 DEF FenceFollows
  <2>4. CASE a = "state"
    <3>1. ~doubt' /\ fence' = Released(fence, live.epoch)
      BY <1>8, <2>1, <2>4 DEF ViewEpoch
    <3>2. CASE live.epoch = agent.epoch /\ fence # NoFence /\ fence.epoch = live.epoch /\ fence.active
      <4>1. fence' = [phase |-> fence.phase + 1, active |-> FALSE, epoch |-> fence.epoch]
        BY <3>1, <3>2 DEF Released
      <4>2. fence'.phase = fence.phase + 1 /\ fence'.epoch = fence.epoch
        BY <4>1
      <4>3. UNCHANGED live => RuntimePhase <= RuntimePhase'
        BY <1>0, <4>2 DEF RuntimePhase
      <4> QED
        BY <2>2, <2>1, <3>1, <4>3 DEF FenceFollows
    <3>3. CASE fence' = NoFence /\ fence.epoch # live.epoch
      BY <1>0, <2>1, <2>2, <3>1, <3>3, FenceTypes DEF FenceFollows, RuntimePhase
    <3>4. CASE fence' = fence
      BY <1>0, <2>1, <2>2, <3>1, <3>4 DEF FenceFollows, RuntimePhase
    <3> QED
      BY <3>1, <3>2, <3>3, <3>4 DEF Released
  <2> QED
    BY <1>8, <2>1, <2>3, <2>4
<1>11. CASE Exit
  <2>1. ~live'.up /\ live'.epoch = live.epoch /\ live.up /\ UNCHANGED <<fence, doubt>>
    BY <1>11 DEF Exit, TypeOK
  <2>2. agent'.epoch = agent.epoch
    BY <1>11 DEF Exit, TypeOK
  <2>3. live' # live
    BY <2>1
  <2> QED
    BY <1>0, <2>1, <2>2, <2>3 DEF FenceFollows
<1>12. CASE Restart
  <2>1. UNCHANGED <<agent, fence>> /\ ~doubt' /\ ~live.up
    BY <1>12 DEF Restart
  <2> QED
    BY <1>0, <2>1 DEF FenceFollows
<1>13. CASE Learn
  <2>1. UNCHANGED <<fence, live, doubt>> /\ agent'.epoch = live.epoch /\ agent.epoch # live.epoch
    BY <1>13 DEF Learn
  <2> QED
    BY <1>0, <2>1 DEF FenceFollows, RuntimePhase
<1> QED
  BY <1>3, <1>4, <1>6, <1>7, <1>9, <1>10, <1>11, <1>12, <1>13
  DEF Next, Refuse, Admit, TurnAway, Dispatch, Interrupt, WriteChunk, WritesChunk, Finish, Mismatch, Answer

(* What is barred in a step: an input the doubt falls on, or one sent in   *)
(* doubt.                                                                  *)
LEMMA BarredStep ==
  ASSUME Types, EpochsFollow, Next, NEW v \in barred', v \notin barred
  PROVE  Caught(v) \/ (Sent(v) /\ doubt)
<1> USE DEF Types, EpochsFollow
<1>1. ASSUME NEW i \in Inputs, Dispatch(i) PROVE Sent(v) /\ doubt
  <2>1. i \in Who /\ work' = [work EXCEPT ![i].st = "flying"] /\ v = i /\ doubt
    BY <1>1 DEF Dispatch, Who
  <2> QED
    BY <1>1, <2>1, FlyingJobs DEF Dispatch, Turn, Sent
<1>2. ASSUME NEW x \in Interrupts, Interrupt(x) PROVE Sent(v) /\ doubt
  <2>1. x \in Who /\ work' = [work EXCEPT ![x] = Admitted("flying")] /\ v = x /\ doubt
    BY <1>2 DEF Interrupt, Who
  <2>2. work'[x] = Admitted("flying")
    BY <2>1 DEF TypeOK
  <2> QED
    BY <1>2, <2>1, <2>2, AdmittedJob DEF Interrupt, Sent
<1>3. ASSUME NEW w \in Who, Timeout(w) PROVE Caught(v)
  <2>1. work[w].epoch = live.epoch /\ v \in Inputs /\ work[v].st = "queued"
    BY <1>3 DEF Timeout
  <2>2. agent.epoch = live.epoch
    BY <2>1 DEF TypeOK
  <2>3. /\ work' = TimedOut(w) /\ UNCHANGED <<agent, live, wrote>> /\ Pending(w)
        /\ fence' = [phase |-> CurrentFence.phase + 1, active |-> TRUE, epoch |-> agent.epoch]
    BY <1>3, <2>1, <2>2 DEF Timeout, FencedBy
  <2>4. v \in Who /\ v # w
    BY <2>1, <2>3 DEF Pending, Who
  <2>5. work'[v].st = "queued"
    BY <2>1, <2>3, <2>4, TimedOutJobs
  <2> QED
    BY <2>1, <2>2, <2>3, <2>5 DEF Caught
<1> QED
  BY <1>1, <1>2, <1>3
  DEF Next, Refuse, Admit, TurnAway, Unreachable, WriteChunk, WritesChunk, Finish, Mismatch, Gone, Answer,
      View, Checkpoint, Exit, Restart, Learn
-----------------------------------------------------------------------------
Inv == Types /\ EpochsFollow /\ WaitingIsHere /\ SessionsStay /\ PhasesFollow /\ DoubtIsFenced
       /\ BarredIsBehind

LEMMA InvInit == Init => Inv
<1> SUFFICES ASSUME Init PROVE Inv
  OBVIOUS
<1>1. /\ agent.epoch = 1 /\ live.epoch = 1 /\ fence.epoch = 0 /\ ~fence.active
      /\ \A w \in Who : work[w].epoch = 0 /\ work[w].st = "new" /\ wrote[w] = 0
      /\ host = <<>> /\ ~doubt /\ barred = {}
  BY DEF Init, NoFence
<1> QED
  BY <1>1, TypesInit DEF Inv, EpochsFollow, WaitingIsHere, InHost, SessionsStay, PhasesFollow, DoubtIsFenced,
     BarredIsBehind

(* What the sending of a barred input would take.                          *)
LEMMA NoBarredSent ==
  ASSUME Inv, NEW v \in Who, Meant(v), Sent(v)
  PROVE  v \notin barred /\ ~doubt
<1> USE DEF Inv, Types, Meant
<1>1. /\ agent.epoch \in Nat /\ live.epoch \in Nat /\ live.epoch # 0
      /\ fence.phase \in Nat /\ work[v].epoch <= agent.epoch /\ agent.epoch <= live.epoch
      /\ work[v].phase \in Nat
  BY DEF TypeOK, EpochsFollow
<1>2. agent.epoch = live.epoch
  BY <1>1
<1>3. doubt => CurrentFence = fence /\ CurrentFence.active /\ CurrentFence.phase # 0
  BY <1>2 DEF DoubtIsFenced, CurrentFence
<1>4. ~doubt
  BY <1>3 DEF Sent, Passes
<1>5. ASSUME v \in barred PROVE FALSE
  <2>1. work[v].st = "queued" /\ work[v].phase < RuntimePhase
    BY <1>5 DEF BarredIsBehind, Sent
  <2>2. RuntimePhase # 0 /\ CurrentFence = fence /\ RuntimePhase = fence.phase
    BY <1>1, <1>2, <2>1 DEF RuntimePhase, CurrentFence
  <2>3. Passes(v)
    BY <2>1 DEF Sent
  <2> QED
    BY <1>1, <2>1, <2>2, <2>3 DEF Passes
<1> QED
  BY <1>4, <1>5

LEMMA InvStep ==
  ASSUME Failures = {}, Inv, Next
  PROVE  Inv'
<1>1. Types /\ EpochsFollow /\ WaitingIsHere /\ SessionsStay /\ PhasesFollow /\ DoubtIsFenced
      /\ BarredIsBehind
  BY DEF Inv
<1>2. Types'
  BY <1>1, TypesStep
<1>3. \A v \in Who : JobStep(v)
  BY <1>1, JobsStep
<1>4. FenceFollows
  BY <1>1, FenceStep
<1>5. /\ agent.epoch <= agent'.epoch /\ agent'.epoch <= live'.epoch
      /\ \A v \in Who : work[v].st # "new" /\ Meant(v)' => Meant(v) /\ UNCHANGED live
  BY <1>1, LiveStep
<1>6. /\ agent.epoch \in Nat /\ live.epoch \in Nat /\ live.epoch # 0
      /\ fence.phase \in Nat /\ CurrentFence.phase \in Nat
      /\ \A v \in Who : work[v].epoch \in Nat /\ work[v].phase \in Nat
  <2>1. fence.phase \in Nat /\ CurrentFence.phase \in Nat
    BY <1>1, FenceTypes, TypeParts DEF Types, Fences
  <2> QED
    BY <1>1, <2>1 DEF Types, TypeOK
<1>13. /\ agent'.epoch \in Nat /\ live'.epoch \in Nat /\ fence'.phase \in Nat
       /\ \A v \in Who : work'[v].epoch \in Nat /\ work'[v].phase \in Nat
  BY <1>2 DEF Types, TypeOK
<1>7. RuntimePhase \in Nat /\ RuntimePhase' \in Nat
  BY <1>6, <1>13 DEF RuntimePhase
<1>8. EpochsFollow'
  <2>1. \A v \in Who : work'[v].epoch <= agent'.epoch
    BY <1>1, <1>3, <1>5, <1>6, <1>13 DEF EpochsFollow, JobStep, Kept, Left, Joined, Jumped
  <2> QED
    BY <1>4, <1>5, <2>1 DEF EpochsFollow, FenceFollows
<1>9. WaitingIsHere' /\ SessionsStay'
  BY <1>1, WaitingStep, SessionsStayStep
<1>10. PhasesFollow'
  <2> SUFFICES ASSUME NEW v \in Who, work'[v].st = "queued", Meant(v)'
               PROVE  work'[v].phase <= RuntimePhase'
    BY DEF PhasesFollow
  <2>1. CASE Kept(v)
    <3>1. work[v].st = "queued" /\ work'[v].phase = work[v].phase
      BY <2>1 DEF Kept
    <3>2. Meant(v) /\ UNCHANGED live
      BY <1>5, <3>1
    <3>3. work[v].phase <= RuntimePhase
      BY <1>1, <3>1, <3>2 DEF PhasesFollow
    <3> QED
      BY <1>4, <1>6, <1>7, <1>13, <3>1, <3>2, <3>3 DEF FenceFollows, Meant
  <2>2. CASE Joined(v)
    <3>1. /\ work'[v].epoch = agent.epoch /\ work'[v].phase = CurrentFence.phase
          /\ fence' = CurrentFence /\ live' = live
      BY <2>2 DEF Joined
    <3>2. agent.epoch = live.epoch
      BY <3>1 DEF Meant
    <3>3. NoFence.phase = 0 /\ NoFence.epoch = 0
      BY DEF NoFence
    <3>4. work'[v].phase = RuntimePhase'
      BY <1>6, <1>13, <3>1, <3>2, <3>3 DEF RuntimePhase, CurrentFence
    <3> QED
      BY <1>7, <3>4
  <2> QED
    BY <1>3, <2>1, <2>2 DEF JobStep, Left, Jumped
<1>11. DoubtIsFenced'
  BY <1>4 DEF FenceFollows, DoubtIsFenced
<1>12. BarredIsBehind'
  <2> SUFFICES ASSUME NEW v \in barred'
               PROVE  /\ work'[v].st # "new"
                      /\ wrote'[v] = 0
                      /\ Meant(v)' => ~InHost(v)'
                      /\ Meant(v)' /\ work'[v].st = "queued" => work'[v].phase < RuntimePhase'
    BY DEF BarredIsBehind
  <2>0. v \in Who
    BY <1>2 DEF Types, TypeOK
  <2>1. CASE v \in barred
    <3>1. /\ work[v].st # "new" /\ wrote[v] = 0 /\ (Meant(v) => ~InHost(v))
          /\ (Meant(v) /\ work[v].st = "queued" => work[v].phase < RuntimePhase)
      BY <1>1, <2>1 DEF BarredIsBehind
    <3>2. Kept(v) \/ Left(v)
      BY <1>3, <2>0, <3>1 DEF JobStep, Joined, Jumped
    <3>3. wrote'[v] = wrote[v]
      BY <1>1, <2>0, <3>1, WroteStep
    <3>4. ASSUME Meant(v)' PROVE ~InHost(v)'
      <4>1. Meant(v)
        BY <1>5, <2>0, <3>1, <3>4
      <4>2. ~Sent(v)
        BY <2>0, <2>1, <4>1, NoBarredSent
      <4> QED
        BY <1>1, <2>0, <3>1, <4>1, <4>2, HostStep
    <3>5. ASSUME Meant(v)', work'[v].st = "queued" PROVE work'[v].phase < RuntimePhase'
      <4>1. Meant(v) /\ UNCHANGED live
        BY <1>5, <2>0, <3>1, <3>5
      <4>2. work[v].st = "queued" /\ work'[v].phase = work[v].phase
        BY <3>2, <3>5 DEF Kept, Left
      <4>3. RuntimePhase <= RuntimePhase'
        BY <1>4, <4>1 DEF FenceFollows, Meant
      <4> QED
        BY <1>6, <1>7, <1>13, <2>0, <3>1, <4>1, <4>2, <4>3
    <3> QED
      BY <3>1, <3>2, <3>3, <3>4, <3>5 DEF Kept, Left
  <2>2. CASE Caught(v)
    <3>1. wrote[v] = 0 /\ ~InHost(v)
      BY <1>1, <2>0, <2>2 DEF WaitingIsHere, Caught
    <3>2. wrote'[v] = 0 /\ work'[v].st = "queued"
      BY <2>2, <3>1 DEF Caught
    <3>3. ~InHost(v)'
      BY <1>1, <2>0, <3>1, <3>2, HostStep DEF Sent
    <3>4. ASSUME Meant(v)' PROVE work'[v].phase < RuntimePhase'
      <4>1. Meant(v) /\ work'[v].phase = work[v].phase
        BY <1>3, <1>5, <2>0, <2>2, <3>4 DEF Caught, JobStep, Kept, Left, Joined, Jumped
      <4>2. work[v].phase <= RuntimePhase
        BY <1>1, <2>0, <2>2, <4>1 DEF PhasesFollow, Caught
      <4>3. RuntimePhase <= CurrentFence.phase
        BY <1>6, <2>2 DEF Caught, RuntimePhase, CurrentFence
      <4>4. RuntimePhase' = CurrentFence.phase + 1
        BY <2>2 DEF Caught, RuntimePhase
      <4> QED
        BY <1>6, <1>7, <1>13, <2>0, <4>1, <4>2, <4>3, <4>4
    <3> QED
      BY <3>2, <3>3, <3>4
  <2>3. CASE Sent(v) /\ doubt
    <3>1. work'[v].st = "flying" /\ UNCHANGED <<live, wrote>>
      BY <2>3 DEF Sent
    <3>2. wrote[v] = 0
      BY <1>1, <2>0, <2>3 DEF WaitingIsHere, Sent
    <3>3. ~Meant(v)'
      <4>1. ~Meant(v)
        BY <2>0, <2>3, NoBarredSent
      <4>2. CASE work[v].st # "new"
        BY <1>5, <2>0, <4>1, <4>2
      <4>3. CASE work[v].st = "new"
        <5>1. ~CurrentFence.active
          BY <2>3, <4>3 DEF Sent
        <5>2. ~(live.up /\ agent.epoch = live.epoch)
          BY <1>1, <2>3, <5>1 DEF DoubtIsFenced, CurrentFence
        <5>3. ~live.up
          BY <1>1, <2>3, <5>2 DEF DoubtIsFenced
        <5> QED
          BY <3>1, <5>3 DEF Meant
      <4> QED
        BY <4>2, <4>3
    <3> QED
      BY <3>1, <3>2, <3>3
  <2> QED
    BY <1>1, <2>1, <2>2, <2>3, BarredStep
<1> QED
  BY <1>2, <1>8, <1>9, <1>10, <1>11, <1>12 DEF Inv

LEMMA InvAlways == ASSUME Failures = {} PROVE Spec => []Inv
<1>1. Inv /\ UNCHANGED vars => Inv'
  BY DEF Inv, Types, TypeOK, PendingHasTurn, Pending, WaitingIsInput, EpochsFollow, WaitingIsHere,
     InHost, SessionsStay, PhasesFollow, Meant, RuntimePhase, DoubtIsFenced, BarredIsBehind, vars
<1>2. Inv /\ [Next]_vars => Inv'
  BY <1>1, InvStep
<1> QED
  BY InvInit, <1>2, PTL DEF Spec

(* When reads of the session state do not fail, an input that waited when  *)
(* an outcome got lost, and one sent before a checkpoint, never reaches    *)
(* the runtime: sendInputNow's second look at the fence suffices.          *)
THEOREM FenceHoldsBack == ASSUME Failures = {} PROVE Spec => []NothingCrossesDoubt
<1>1. Inv => NothingCrossesDoubt
  BY DEF Inv, BarredIsBehind, NothingCrossesDoubt
<1> QED
  BY <1>1, InvAlways, PTL

(* Under the same assumption a runtime with an unknown outcome is fenced   *)
(* until a checkpoint has looked at it.                                    *)
THEOREM DoubtStaysFenced == ASSUME Failures = {} PROVE Spec => []InDoubtIsFenced
<1>1. Inv => InDoubtIsFenced
  BY DEF Inv, DoubtIsFenced, InDoubtIsFenced
<1> QED
  BY <1>1, InvAlways, PTL
-----------------------------------------------------------------------------
(* The way of a write: queue, host, runtime.  What follows holds whatever  *)
(* fails.                                                                  *)

(* A write is at the host once, an input in the queue once.                *)
HostOnce == \A j, k \in DOMAIN host : host[j] = host[k] => j = k
QueueOnce ==
    /\ \A j, k \in DOMAIN queue : queue[j] = queue[k] => j = k
    /\ \A k \in DOMAIN queue : work[queue[k]].st # "new"

(* Behind the input that has the turn, all inputs still wait.              *)
BehindWait == \A k \in DOMAIN queue : k > served + 1 => work[queue[k]].st = "queued"

(* The inputs at the host are in the order of the queue, and as long as    *)
(* one of them is there, nothing is written of those behind it.            *)
HostInOrder ==
    \A a, b \in DOMAIN host : \A i, j \in DOMAIN queue :
        host[a] = queue[i] /\ host[b] = queue[j] /\ i < j => a < b
LaterUnwritten ==
    \A i, j \in DOMAIN queue : i < j /\ InHost(queue[i]) => wrote[queue[j]] = 0

(* Whoever has a definite result has left the host, and a rejected write   *)
(* is not complete.                                                        *)
ResultHolds(w) ==
    /\ work[w].result # "none" => work[w].st = "done"
    /\ work[w].result = "sent" => wrote[w] = Chunks(w) /\ ~InHost(w)
    /\ work[w].result = "rejected" => wrote[w] < Chunks(w) /\ ~InHost(w)
ResultsHold == \A w \in Who : ResultHolds(w)

PathInv ==
    /\ Types /\ WaitingIsHere /\ HostOnce /\ QueueOnce /\ BehindWait
    /\ HostInOrder /\ LaterUnwritten /\ ResultsHold

(* The elements of a sequence whose k-th element is removed.               *)
Skip(k, n) == IF n < k THEN n ELSE n + 1
Removed(k) ==
    \A n \in DOMAIN host' : Skip(k, n) \in DOMAIN host /\ host'[n] = host[Skip(k, n)]

(* The input that has the turn, or an interrupt, goes to the host.         *)
GoesToHost(w) ==
    /\ Sent(w) /\ host' = Append(host, w) /\ UNCHANGED <<queue, served>>
    /\ w \in Inputs => served < Len(queue) /\ queue[served + 1] = w

LEMMA Lengthened ==
  ASSUME Types, NEW w
  PROVE  /\ DOMAIN Append(host, w) = 1..(Len(host) + 1)
         /\ \A k \in 1..Len(host) : Append(host, w)[k] = host[k]
         /\ Append(host, w)[Len(host) + 1] = w
         /\ DOMAIN Append(queue, w) = 1..(Len(queue) + 1)
         /\ \A k \in 1..Len(queue) : Append(queue, w)[k] = queue[k]
         /\ Append(queue, w)[Len(queue) + 1] = w
<1>1. host \in Seq(Who) /\ queue \in Seq(Inputs)
  BY DEF Types, TypeOK
<1> QED
  BY <1>1

LEMMA HostMoves ==
  ASSUME Types, Next
  PROVE  (\E w \in Who : GoesToHost(w)) \/ (\E k \in Nat : Removed(k))
<1>0. /\ Len(host) \in Nat /\ DOMAIN host = 1..Len(host)
  BY PathTypes
<1>1. ASSUME NEW i \in Inputs, Dispatch(i) PROVE GoesToHost(i)
  <2>1. i \in Who /\ work' = [work EXCEPT ![i].st = "flying"] /\ host' = Append(host, i)
    BY <1>1 DEF Dispatch, Who
  <2>2. Sent(i)
    BY <1>1, <2>1, FlyingJobs DEF Dispatch, Turn, Sent, Passes, Types
  <2> QED
    BY <1>1, <2>1, <2>2 DEF Dispatch, Turn, GoesToHost
<1>2. ASSUME NEW x \in Interrupts, Interrupt(x) PROVE GoesToHost(x)
  <2>1. /\ x \in Who /\ x \notin Inputs
        /\ work' = [work EXCEPT ![x] = Admitted("flying")] /\ host' = Append(host, x)
    BY <1>2, TerminalAssumption DEF Interrupt, Who
  <2>2. work'[x] = Admitted("flying")
    BY <2>1 DEF Types, TypeOK
  <2>3. Sent(x)
    BY <1>2, <2>2, AdmittedJob DEF Interrupt, Sent, Types
  <2> QED
    BY <1>2, <2>1, <2>3 DEF Interrupt, GoesToHost
<1>3. ASSUME UNCHANGED host PROVE \E k \in Nat : Removed(k)
  <2>1. Removed(Len(host) + 1)
    BY <1>0, <1>3 DEF Removed, Skip
  <2> QED
    BY <1>0, <2>1
<1>4. ASSUME NEW w \in Who, Timeout(w) PROVE \E k \in Nat : Removed(k)
  <2>1. ASSUME NEW k \in 1..Len(host),
               host' = [n \in 1..(Len(host) - 1) |-> IF n < k THEN host[n] ELSE host[n + 1]]
        PROVE  k \in Nat /\ Removed(k)
    BY <1>0, <2>1 DEF Removed, Skip
  <2>2. CASE \E k \in 1..Len(host) :
                host' = [n \in 1..(Len(host) - 1) |-> IF n < k THEN host[n] ELSE host[n + 1]]
    BY <2>1, <2>2
  <2>3. Forget(w)
    BY <1>4 DEF Timeout
  <2>4. UNCHANGED host
        \/ \E k \in 1..Len(host) :
              host' = [n \in 1..(Len(host) - 1) |-> IF n < k THEN host[n] ELSE host[n + 1]]
    BY <2>3, Zenon DEF Forget
  <2> QED
    BY <1>3, <2>2, <2>4
<1>5. CASE Finish \/ Mismatch \/ Gone
  <2>1. host # <<>> /\ host' = Tail(host)
    BY <1>5 DEF Finish, Mismatch, Gone, Answer
  <2>2. /\ DOMAIN Tail(host) = 1..(Len(host) - 1)
        /\ \A n \in 1..(Len(host) - 1) : Tail(host)[n] = host[n + 1]
    BY <1>0, <2>1, Taken DEF Types, TypeOK
  <2>3. Removed(1)
    BY <1>0, <2>1, <2>2 DEF Removed, Skip
  <2> QED
    BY <2>3
<1> QED
  BY <1>1, <1>2, <1>3, <1>4, <1>5
  DEF Next, Refuse, Admit, TurnAway, Unreachable, WriteChunk, WritesChunk, View, Checkpoint, Exit, Restart,
      Learn, Who

LEMMA HostIndices ==
  ASSUME Types, Next
  PROVE  DOMAIN host' \subseteq Nat
<1>1. host' \in Seq(Who)
  BY TypesStep DEF Types, TypeOK
<1> QED
  BY <1>1

(* The queue only grows, by an input that is new to it, and the turn only  *)
(* moves on.                                                               *)
LEMMA QueueStep ==
  ASSUME Types, Next
  PROVE  /\ served' \in Nat /\ served <= served'
         /\ \/ queue' = queue
            \/ \E i \in Inputs : Joined(i) /\ queue' = Append(queue, i) /\ host' = host
<1> USE DEF Types
<1>0. served \in Nat
  BY PathTypes
<1>1. ASSUME NEW i \in Inputs, Admit(i)
      PROVE  Joined(i) /\ queue' = Append(queue, i) /\ UNCHANGED <<host, served>>
  <2>1. /\ i \in Who /\ work[i].st = "new" /\ work' = [work EXCEPT ![i] = Admitted("queued")]
        /\ fence' = CurrentFence /\ UNCHANGED <<agent, live>>
    BY <1>1 DEF Admit, Who
  <2>2. work'[i] = Admitted("queued")
    BY <2>1 DEF TypeOK
  <2> QED
    BY <1>1, <2>1, <2>2, AdmittedJob DEF Admit, Joined
<1>2. CASE UNCHANGED queue /\ served' \in {served, served + 1}
  BY <1>0, <1>2
<1> QED
  BY <1>0, <1>1, <1>2
  DEF Next, Refuse, TurnAway, Dispatch, Interrupt, Unreachable, Timeout, ServedBy, WriteChunk, WritesChunk,
      Finish, Mismatch, Gone, Answer, View, Checkpoint, Exit, Restart, Learn

(* Only the input that has the turn stops to wait.                         *)
LEMMA TurnStep ==
  ASSUME Types, Next, NEW v \in Who, work[v].st = "queued", work'[v].st # "queued"
  PROVE  served < Len(queue) /\ queue[served + 1] = v
<1> USE DEF Types
<1>1. ASSUME NEW i \in Inputs, Refuse(i) \/ TurnAway(i) PROVE served < Len(queue) /\ queue[served + 1] = v
  <2>1. i \in Who /\ work' = Settled(i, "rejected") /\ (Refuse(i) => work[i].st = "new")
    BY <1>1 DEF Refuse, TurnAway, Who
  <2>2. v = i
    BY <2>1, SettledJobs
  <2> QED
    BY <1>1, <2>1, <2>2 DEF TurnAway, Turn
<1>2. ASSUME NEW i \in Inputs, Admit(i) PROVE FALSE
  <2>1. i \in Who /\ work[i].st = "new" /\ work' = [work EXCEPT ![i] = Admitted("queued")]
    BY <1>2 DEF Admit, Who
  <2> QED
    BY <2>1 DEF TypeOK
<1>3. ASSUME NEW i \in Inputs, Dispatch(i) PROVE served < Len(queue) /\ queue[served + 1] = v
  <2>1. i \in Who /\ work' = [work EXCEPT ![i].st = "flying"]
    BY <1>3 DEF Dispatch, Who
  <2> QED
    BY <1>3, <2>1, FlyingJobs DEF Dispatch, Turn
<1>4. ASSUME NEW x \in Interrupts, Interrupt(x) PROVE FALSE
  <2>1. x \in Who /\ work[x].st = "new" /\ work' = [work EXCEPT ![x] = Admitted("flying")]
    BY <1>4 DEF Interrupt, Who
  <2> QED
    BY <2>1 DEF TypeOK
<1>5. ASSUME NEW w \in Who, Unreachable(w) PROVE served < Len(queue) /\ queue[served + 1] = v
  BY <1>5, SettledJobs DEF Unreachable, Turn
<1>6. ASSUME NEW w \in Who, Timeout(w) PROVE FALSE
  BY <1>6, TimedOutJobs DEF Timeout, Pending
<1>7. CASE Finish \/ Mismatch \/ Gone
  <2>1. host # <<>> /\ \E r \in {"sent", "rejected"} : Answer(Head(host), r)
    BY <1>7 DEF Finish, Mismatch, Gone
  <2> QED
    BY <2>1, Taken, SettledJobs DEF Answer
<1>8. CASE UNCHANGED work
  BY <1>8
<1> QED
  BY <1>1, <1>2, <1>3, <1>4, <1>5, <1>6, <1>7, <1>8
  DEF Next, WriteChunk, WritesChunk, View, Checkpoint, Exit, Restart, Learn
-----------------------------------------------------------------------------
LEMMA QueueOnceStep ==
  ASSUME Types, WaitingIsHere, QueueOnce, BehindWait, Next
  PROVE  QueueOnce' /\ BehindWait'
<1>0. /\ Len(queue) \in Nat /\ DOMAIN queue = 1..Len(queue) /\ served \in Nat
      /\ \A k \in DOMAIN queue : queue[k] \in Inputs /\ queue[k] \in Who
  BY PathTypes
<1>1. served' \in Nat /\ served <= served' /\ \A v \in Who : JobStep(v)
  BY QueueStep, JobsStep
<1>2. \A v \in Who : work[v].st # "new" => work'[v].st # "new"
  BY <1>1 DEF JobStep, Kept, Left, Joined, Jumped
<1>3. ASSUME NEW k \in DOMAIN queue, k > served' + 1 PROVE work'[queue[k]].st = "queued"
  <2>1. k > served + 1 /\ work[queue[k]].st = "queued"
    BY <1>0, <1>1, <1>3 DEF BehindWait
  <2>2. served < Len(queue) => served + 1 \in DOMAIN queue
    BY <1>0
  <2> QED
    BY <1>0, <2>1, <2>2, TurnStep DEF QueueOnce
<1>4. CASE queue' = queue
  BY <1>0, <1>2, <1>3, <1>4 DEF QueueOnce, BehindWait
<1>5. ASSUME NEW i \in Inputs, Joined(i), queue' = Append(queue, i) PROVE QueueOnce' /\ BehindWait'
  <2>1. /\ DOMAIN queue' = 1..(Len(queue) + 1) /\ queue'[Len(queue) + 1] = i
        /\ \A k \in 1..Len(queue) : queue'[k] = queue[k]
    BY <1>5, Lengthened
  <2>2. work[i].st = "new" /\ work'[i].st = "queued" /\ \A k \in DOMAIN queue : queue[k] # i
    BY <1>5 DEF Joined, QueueOnce
  <2>3. \A k \in DOMAIN queue' : k \in DOMAIN queue \/ k = Len(queue) + 1
    BY <1>0, <2>1
  <2>4. QueueOnce'
    <3>1. ASSUME NEW j \in DOMAIN queue', NEW k \in DOMAIN queue', queue'[j] = queue'[k]
          PROVE  j = k
      BY <1>0, <2>1, <2>2, <2>3, <3>1 DEF QueueOnce
    <3>2. ASSUME NEW k \in DOMAIN queue' PROVE work'[queue'[k]].st # "new"
      BY <1>0, <1>2, <2>1, <2>2, <2>3 DEF QueueOnce
    <3> QED
      BY <3>1, <3>2 DEF QueueOnce
  <2>5. BehindWait'
    BY <1>0, <1>3, <2>1, <2>2, <2>3 DEF BehindWait
  <2> QED
    BY <2>4, <2>5
<1> QED
  BY <1>4, <1>5, QueueStep

LEMMA HostOnceStep ==
  ASSUME Types, WaitingIsHere, HostOnce, Next
  PROVE  HostOnce'
<1>0. /\ Len(host) \in Nat /\ DOMAIN host = 1..Len(host)
  BY PathTypes
<1>1. ASSUME NEW w \in Who, GoesToHost(w) PROVE HostOnce'
  <2>1. /\ DOMAIN host' = 1..(Len(host) + 1) /\ host'[Len(host) + 1] = w
        /\ \A k \in 1..Len(host) : host'[k] = host[k]
    BY <1>1, Lengthened DEF GoesToHost
  <2>2. \A k \in DOMAIN host : host[k] # w
    BY <1>1 DEF GoesToHost, Sent, WaitingIsHere, InHost
  <2>3. \A k \in DOMAIN host' : k \in DOMAIN host \/ k = Len(host) + 1
    BY <1>0, <2>1
  <2> QED
    BY <1>0, <2>1, <2>2, <2>3 DEF HostOnce
<1>2. ASSUME NEW k \in Nat, Removed(k) PROVE HostOnce'
  <2> SUFFICES ASSUME NEW i \in DOMAIN host', NEW j \in DOMAIN host', host'[i] = host'[j]
               PROVE  i = j
    BY DEF HostOnce
  <2>1. Skip(k, i) = Skip(k, j) /\ Skip(k, i) \in DOMAIN host /\ Skip(k, j) \in DOMAIN host
    BY <1>2 DEF Removed, HostOnce
  <2>2. i \in Nat /\ j \in Nat
    BY HostIndices
  <2> QED
    BY <2>1, <2>2 DEF Skip
<1> QED
  BY <1>1, <1>2, HostMoves

LEMMA HostInOrderStep ==
  ASSUME Types, WaitingIsHere, QueueOnce, BehindWait, HostInOrder, Next
  PROVE  HostInOrder'
<1>0. /\ Len(host) \in Nat /\ DOMAIN host = 1..Len(host)
      /\ Len(queue) \in Nat /\ DOMAIN queue = 1..Len(queue) /\ served \in Nat
      /\ \A k \in DOMAIN queue : queue[k] \in Inputs /\ queue[k] \in Who
  BY PathTypes
<1> SUFFICES ASSUME NEW a \in DOMAIN host', NEW b \in DOMAIN host',
                    NEW i \in DOMAIN queue', NEW j \in DOMAIN queue',
                    host'[a] = queue'[i], host'[b] = queue'[j], i < j
             PROVE  a < b
  BY DEF HostInOrder
<1>1. ASSUME NEW x \in Inputs, Joined(x), queue' = Append(queue, x), host' = host PROVE a < b
  <2>1. /\ DOMAIN queue' = 1..(Len(queue) + 1) /\ queue'[Len(queue) + 1] = x
        /\ \A k \in 1..Len(queue) : queue'[k] = queue[k]
    BY <1>1, Lengthened
  <2>2. \A k \in DOMAIN host : host[k] # x
    BY <1>1 DEF Joined, WaitingIsHere, InHost, Who
  <2>3. i \in DOMAIN queue /\ j \in DOMAIN queue /\ queue'[i] = queue[i] /\ queue'[j] = queue[j]
    BY <1>0, <1>1, <2>1, <2>2
  <2> QED
    BY <1>1, <2>3 DEF HostInOrder
<1>2. ASSUME NEW w \in Who, GoesToHost(w) PROVE a < b
  <2>1. /\ DOMAIN host' = 1..(Len(host) + 1) /\ host'[Len(host) + 1] = w
        /\ \A k \in 1..Len(host) : host'[k] = host[k]
        /\ queue' = queue
    BY <1>2, Lengthened DEF GoesToHost
  <2>2. CASE a \in DOMAIN host /\ b \in DOMAIN host
    BY <1>0, <2>1, <2>2 DEF HostInOrder
  <2>3. CASE a \in DOMAIN host /\ b \notin DOMAIN host
    BY <1>0, <2>1, <2>3
  <2>4. CASE a \notin DOMAIN host
    <3>1. a = Len(host) + 1 /\ queue[i] = w
      BY <1>0, <2>1, <2>4
    <3>2. served < Len(queue) /\ queue[served + 1] = w
      BY <1>0, <1>2, <2>1, <3>1 DEF GoesToHost
    <3>3. i = served + 1
      BY <1>0, <2>1, <3>1, <3>2 DEF QueueOnce
    <3>4. work[queue[j]].st = "queued" /\ queue[j] # w
      BY <1>0, <2>1, <3>1, <3>3 DEF BehindWait, QueueOnce
    <3>5. \A k \in DOMAIN host : host[k] # queue[j]
      BY <1>0, <2>1, <3>4 DEF WaitingIsHere, InHost
    <3> QED
      BY <1>0, <2>1, <3>4, <3>5
  <2> QED
    BY <2>2, <2>3, <2>4
<1>3. ASSUME NEW k \in Nat, Removed(k), queue' = queue PROVE a < b
  <2>1. Skip(k, a) < Skip(k, b)
    BY <1>3 DEF Removed, HostInOrder
  <2>2. a \in Nat /\ b \in Nat
    BY HostIndices
  <2> QED
    BY <2>1, <2>2 DEF Skip
<1> QED
  <2>1. CASE queue' = queue
    BY <1>2, <1>3, <2>1, HostMoves
  <2> QED
    BY <1>1, <2>1, QueueStep

(* A chunk is written of the first write at the host, and nothing else     *)
(* happens.                                                                *)
LEMMA ChunkStep ==
  ASSUME Types, Next, NEW v \in Who, wrote'[v] # wrote[v]
  PROVE  /\ host # <<>> /\ v = host[1] /\ 1 \in DOMAIN host
         /\ wrote[v] < Chunks(v) /\ live.up /\ (wrote[v] = 0 => Meant(v))
         /\ UNCHANGED <<host, queue, work, live>>
<1>1. CASE WriteChunk
  <2>1. v = Head(host)
    BY <1>1 DEF WriteChunk, WritesChunk, Types, TypeOK
  <2>2. host # <<>> /\ v = host[1] /\ 1 \in DOMAIN host
    BY <1>1, <2>1, Taken, PathTypes DEF WriteChunk, WritesChunk, Types
  <2> QED
    BY <1>1, <2>1, <2>2, WroteStep DEF WriteChunk, WritesChunk
<1>2. CASE UNCHANGED wrote
  BY <1>2
<1> QED
  BY <1>1, <1>2 DEF Next, Refuse, Admit, TurnAway, Dispatch, Interrupt, Unreachable, Timeout,
     Finish, Mismatch, Gone, Answer, View, Checkpoint, Exit, Restart, Learn

LEMMA LaterUnwrittenStep ==
  ASSUME Types, WaitingIsHere, QueueOnce, BehindWait, HostInOrder, LaterUnwritten, Next
  PROVE  LaterUnwritten'
<1>0. /\ Len(host) \in Nat /\ DOMAIN host = 1..Len(host)
      /\ Len(queue) \in Nat /\ DOMAIN queue = 1..Len(queue) /\ served \in Nat
      /\ \A k \in DOMAIN queue : queue[k] \in Inputs /\ queue[k] \in Who
  BY PathTypes
<1> SUFFICES ASSUME NEW i \in DOMAIN queue', NEW j \in DOMAIN queue', i < j,
                    NEW c \in DOMAIN host', host'[c] = queue'[i]
             PROVE  wrote'[queue'[j]] = 0
  BY DEF LaterUnwritten, InHost
<1>1. ASSUME queue' = queue PROVE wrote'[queue[j]] = 0
  <2>1. queue[i] \in Who /\ queue[j] \in Who /\ i \in DOMAIN queue /\ j \in DOMAIN queue
    BY <1>0, <1>1
  <2>2. CASE wrote'[queue[j]] # wrote[queue[j]]
    <3>1. queue[j] = host[1] /\ 1 \in DOMAIN host /\ host' = host
      BY <2>1, <2>2, ChunkStep
    <3>2. PICK a \in DOMAIN host : host[a] = queue[i]
      BY <1>1, <3>1
    <3>3. a < 1
      BY <2>1, <3>1, <3>2 DEF HostInOrder
    <3> QED
      BY <1>0, <3>3
  <2>3. CASE wrote'[queue[j]] = wrote[queue[j]]
    <3>1. \A v \in Who : InHost(v)' => InHost(v) \/ Sent(v)
      BY HostStep
    <3>4. InHost(queue[i]) \/ Sent(queue[i])
      BY <1>1, <2>1, <3>1 DEF InHost
    <3>2. CASE InHost(queue[i])
      BY <2>1, <2>3, <3>2 DEF LaterUnwritten
    <3>3. CASE Sent(queue[i])
      <4>1. work[queue[i]].st = "queued" /\ work'[queue[i]].st # "queued"
        BY <2>1, <3>3 DEF Sent, QueueOnce
      <4>2. served < Len(queue) /\ queue[served + 1] = queue[i]
        BY <2>1, <4>1, TurnStep
      <4>3. i = served + 1
        BY <1>0, <2>1, <4>2, SMTT(30) DEF QueueOnce
      <4>4. work[queue[j]].st = "queued"
        BY <1>0, <2>1, <4>3 DEF BehindWait
      <4> QED
        BY <2>1, <2>3, <4>4 DEF WaitingIsHere
    <3> QED
      BY <3>2, <3>3, <3>4
  <2> QED
    BY <2>2, <2>3
<1>2. ASSUME NEW x \in Inputs, Joined(x), queue' = Append(queue, x), host' = host
      PROVE  wrote'[queue'[j]] = 0
  <2>1. /\ DOMAIN queue' = 1..(Len(queue) + 1) /\ queue'[Len(queue) + 1] = x
        /\ \A k \in 1..Len(queue) : queue'[k] = queue[k]
    BY <1>2, Lengthened
  <2>2. i \in DOMAIN queue /\ queue'[i] = queue[i] /\ queue'[j] \in Who
    BY <1>0, <2>1 DEF Who
  <2>3. wrote[queue'[j]] = 0
    <3>1. CASE j \in DOMAIN queue
      BY <1>0, <1>2, <2>1, <2>2, <3>1 DEF LaterUnwritten, InHost
    <3>2. CASE j \notin DOMAIN queue
      BY <1>0, <1>2, <2>1, <2>2, <3>2 DEF WaitingIsHere, Joined
    <3> QED
      BY <3>1, <3>2
  <2>4. work'[x] # work[x]
    BY <1>2 DEF Joined
  <2> QED
    BY <2>2, <2>3, <2>4, ChunkStep
<1> QED
  BY <1>1, <1>2, QueueStep

-----------------------------------------------------------------------------
(* What a step does to the result of w: nothing, or w turns out uncertain, *)
(* or it is turned away before it leaves the server, or the host answers.  *)
SameResult(w) ==
    work'[w].result \in {"none", work[w].result} /\ (work[w].st = "done" => work'[w].st = "done")
TurnsUncertain(w) == work'[w].st = "done" /\ work'[w].result = "uncertain"
TurnedAway(w) ==
    work[w].st \in {"new", "queued"} /\ work'[w].st = "done" /\ work'[w].result = "rejected"
Answered(w) ==
    /\ host # <<>> /\ w = Head(host) /\ host' = Tail(host) /\ wrote' = wrote
    /\ work'[w].st = "done"
    /\ \/ work'[w].result = "sent" /\ wrote[w] = Chunks(w)
       \/ work'[w].result = "rejected" /\ wrote[w] < Chunks(w)
ResultStep(w) == SameResult(w) \/ TurnsUncertain(w) \/ TurnedAway(w) \/ Answered(w)

LEMMA ResultsOf ==
  ASSUME Types, NEW w \in Who
  PROVE  /\ \A r \in {"sent", "rejected"} : Settled(w, r)[w].result = r
         /\ TimedOut(w)[w].result = "uncertain"
         /\ \A v \in Who : v # w => TimedOut(w)[v].result = work[v].result
         /\ [work EXCEPT ![w].st = "flying"][w].result = work[w].result
         /\ \A s : Admitted(s).result = "none"
<1> DEFINE Done == [work[w] EXCEPT !.st = "done", !.result = "uncertain"]
           Lost(v) == [work[v] EXCEPT !.st = "lost"]
<1>1. work \in [Who -> Jobs] /\ \A v \in Who : work[v] \in Jobs
  BY TypeParts DEF Types
<1>2. \A r \in {"sent", "rejected"} :
         /\ [work[w] EXCEPT !.st = "done", !.result = r].result = r
         /\ Settled(w, r) = [work EXCEPT ![w] = [work[w] EXCEPT !.st = "done", !.result = r]]
  BY <1>1 DEF Settled, Jobs
<1>3. Done.result = "uncertain" /\ \A v \in Who : Lost(v).result = work[v].result
  BY <1>1 DEF Jobs
<1>4. TimedOut(w) = [v \in Who |-> IF v = w THEN Done
                                   ELSE IF work[v].st = "flying" THEN Lost(v)
                                   ELSE work[v]]
  BY DEF TimedOut
<1>5. [work EXCEPT ![w].st = "flying"][w].result = work[w].result
  BY <1>1 DEF Jobs
<1>6. \A s : Admitted(s).result = "none"
  BY DEF Admitted
<1>7. \A r \in {"sent", "rejected"} : Settled(w, r)[w].result = r
  BY <1>1, <1>2
<1> HIDE DEF Done, Lost
<1>8. /\ TimedOut(w)[w].result = "uncertain"
      /\ \A v \in Who : v # w => TimedOut(w)[v].result = work[v].result
  BY <1>3, <1>4
<1> QED
  BY <1>5, <1>6, <1>7, <1>8

LEMMA AnsweredStep ==
  ASSUME Types, host # <<>>, NEW r \in {"sent", "rejected"}, Answer(Head(host), r),
         IF r = "sent" THEN wrote[Head(host)] = Chunks(Head(host))
                       ELSE wrote[Head(host)] < Chunks(Head(host)),
         NEW v \in Who
  PROVE  SameResult(v) \/ Answered(v)
<1>1. Head(host) \in Who
  BY Taken DEF Types
<1>2. CASE work[Head(host)].st = "flying"
  <2>1. /\ work' = Settled(Head(host), r) /\ host' = Tail(host) /\ wrote' = wrote
    BY <1>2 DEF Answer
  <2>2. v # Head(host) => SameResult(v)
    BY <1>1, <2>1, SettledJobs DEF SameResult, Types
  <2>3. v = Head(host) => Answered(v)
    BY <1>1, <2>1, SettledJobs, ResultsOf DEF Answered, Types
  <2> QED
    BY <2>2, <2>3
<1>3. CASE work[Head(host)].st # "flying"
  BY <1>3 DEF Answer, SameResult
<1> QED
  BY <1>2, <1>3

LEMMA ResultSteps ==
  ASSUME Types, Next, NEW v \in Who
  PROVE  ResultStep(v)
<1> USE DEF Types, ResultStep
<1>1. ASSUME NEW i \in Inputs, Refuse(i) \/ TurnAway(i) PROVE ResultStep(v)
  <2>1. i \in Who /\ work[i].st \in {"new", "queued"} /\ work' = Settled(i, "rejected")
    BY <1>1 DEF Refuse, TurnAway, Turn, Who
  <2> QED
    BY <2>1, SettledJobs, ResultsOf DEF SameResult, TurnedAway
<1>2. ASSUME NEW w \in Who, NEW s \in {"queued", "flying"}, work[w].st = "new",
             work' = [work EXCEPT ![w] = Admitted(s)]
      PROVE  SameResult(v)
  <2>1. work'[w] = Admitted(s) /\ \A u \in Who : u # w => work'[u] = work[u]
    BY <1>2 DEF TypeOK
  <2> QED
    BY <1>2, <2>1, ResultsOf DEF SameResult
<1>3. ASSUME NEW i \in Inputs, Admit(i) PROVE ResultStep(v)
  BY <1>2, <1>3 DEF Admit, Who
<1>4. ASSUME NEW x \in Interrupts, Interrupt(x) PROVE ResultStep(v)
  BY <1>2, <1>4 DEF Interrupt, Who
<1>5. ASSUME NEW i \in Inputs, Dispatch(i) PROVE ResultStep(v)
  <2>1. i \in Who /\ work[i].st = "queued" /\ work' = [work EXCEPT ![i].st = "flying"]
    BY <1>5 DEF Dispatch, Turn, Who
  <2> QED
    BY <2>1, FlyingJobs, ResultsOf DEF SameResult
<1>6. ASSUME NEW w \in Who, Unreachable(w) PROVE ResultStep(v)
  <2>1. work[w].st \in {"new", "queued"} /\ work' = Settled(w, "rejected")
    BY <1>6 DEF Unreachable, Turn
  <2> QED
    BY <2>1, SettledJobs, ResultsOf DEF SameResult, TurnedAway
<1>7. ASSUME NEW w \in Who, Timeout(w) PROVE ResultStep(v)
  BY <1>7, TimedOutJobs, ResultsOf DEF Timeout, SameResult, TurnsUncertain
<1>8. CASE Finish
  BY <1>8, AnsweredStep DEF Finish
<1>9. CASE Gone
  BY <1>9, AnsweredStep DEF Gone
<1>10. CASE Mismatch
  <2>1. host # <<>> /\ wrote[Head(host)] = 0 /\ Answer(Head(host), "rejected")
    BY <1>10 DEF Mismatch, Attached, Accepts
  <2>4. wrote[Head(host)] < Chunks(Head(host))
    BY <2>1 DEF Chunks
  <2> QED
    BY <2>1, <2>4, AnsweredStep
<1>11. CASE UNCHANGED work
  BY <1>11 DEF SameResult
<1> QED
  BY <1>1, <1>3, <1>4, <1>5, <1>6, <1>7, <1>8, <1>9, <1>10, <1>11
  DEF Next, WriteChunk, WritesChunk, View, Checkpoint, Exit, Restart, Learn

LEMMA ResultsHoldStep ==
  ASSUME Types, WaitingIsHere, HostOnce, ResultsHold, Next
  PROVE  ResultsHold'
<1> SUFFICES ASSUME NEW v \in Who PROVE ResultHolds(v)'
  BY DEF ResultsHold
<1>1. ResultHolds(v) /\ Chunks(v) \in {1, 2}
  BY DEF ResultsHold, Chunks
<1>2. ASSUME ~InHost(v), work'[v].st = "done" PROVE wrote'[v] = wrote[v] /\ ~InHost(v)'
  <2>1. wrote'[v] = wrote[v]
    BY <1>2, WroteStep
  <2>2. ~InHost(v)'
    BY <1>2, HostStep DEF Sent
  <2> QED
    BY <2>1, <2>2
<1>3. CASE SameResult(v)
  BY <1>1, <1>2, <1>3 DEF SameResult, ResultHolds, Chunks
<1>4. CASE TurnsUncertain(v)
  BY <1>4 DEF TurnsUncertain, ResultHolds
<1>5. CASE TurnedAway(v)
  <2>1. ~InHost(v) /\ wrote[v] = 0
    BY <1>5 DEF TurnedAway, WaitingIsHere
  <2> QED
    BY <1>1, <1>2, <1>5, <2>1 DEF TurnedAway, ResultHolds, Chunks
<1>6. CASE Answered(v)
  <2>1. /\ Len(host) \in Nat /\ DOMAIN host = 1..Len(host)
        /\ DOMAIN host' = 1..(Len(host) - 1)
        /\ \A n \in 1..(Len(host) - 1) : host'[n] = host[n + 1]
        /\ v = host[1] /\ 1 \in DOMAIN host
    BY <1>6, Taken, PathTypes, SMTT(30) DEF Answered, Types, TypeOK
  <2>2. ~InHost(v)'
    BY <2>1 DEF HostOnce, InHost
  <2> QED
    BY <1>6, <2>2 DEF Answered, ResultHolds, Chunks
<1> QED
  BY <1>3, <1>4, <1>5, <1>6, ResultSteps DEF ResultStep
-----------------------------------------------------------------------------
LEMMA PathInit == Init => PathInv
<1> SUFFICES ASSUME Init PROVE PathInv
  OBVIOUS
<1>1. /\ host = <<>> /\ queue = <<>>
      /\ \A w \in Who : work[w].st = "new" /\ work[w].result = "none" /\ wrote[w] = 0
  BY DEF Init
<1>2. WaitingIsHere /\ ResultsHold
  BY <1>1 DEF WaitingIsHere, InHost, ResultsHold, ResultHolds
<1>3. HostOnce /\ QueueOnce /\ BehindWait /\ HostInOrder /\ LaterUnwritten
  BY <1>1 DEF HostOnce, QueueOnce, BehindWait, HostInOrder, LaterUnwritten
<1> QED
  BY <1>2, <1>3, TypesInit DEF PathInv

LEMMA PathStep == PathInv /\ [Next]_vars => PathInv'
<1>1. PathInv /\ Next => PathInv'
  BY TypesStep, WaitingStep, HostOnceStep, QueueOnceStep, HostInOrderStep, LaterUnwrittenStep,
     ResultsHoldStep DEF PathInv
<1>2. PathInv /\ UNCHANGED vars => PathInv'
  <2> SUFFICES ASSUME PathInv, UNCHANGED vars PROVE PathInv'
    OBVIOUS
  <2>1. Types'
    BY TypesStep DEF PathInv
  <2>2. UNCHANGED <<work, queue, served, live, host, wrote>>
    BY DEF vars
  <2> QED
    BY <2>1, <2>2 DEF PathInv, WaitingIsHere, InHost, HostOnce, QueueOnce, BehindWait, HostInOrder,
       LaterUnwritten, ResultsHold, ResultHolds
<1> QED
  BY <1>1, <1>2

LEMMA PathAlways == Spec => []PathInv
BY PathInit, PathStep, PTL DEF Spec

(* What the live session has got a part of is what the host is writing.    *)
PartWritten(w) == wrote[w] > 0 /\ wrote[w] < Chunks(w) /\ session[w] = live.epoch
PartIsAtWork ==
    /\ \A w \in Who : session[w] <= live.epoch
    /\ \A w \in Who : live.up /\ PartWritten(w) => host # <<>> /\ host[1] = w

LEMMA PartStep ==
  ASSUME Types, PartIsAtWork, Next
  PROVE  PartIsAtWork'
<1> USE DEF Types
<1>0. /\ Len(host) \in Nat /\ DOMAIN host = 1..Len(host) /\ live.epoch \in Nat
      /\ host # <<>> => 1 \in DOMAIN host /\ Head(host) = host[1]
      /\ \A w \in Who : session[w] \in Nat /\ wrote[w] \in 0..2
  BY PathTypes, Taken DEF TypeOK
<1>1. ASSUME UNCHANGED <<live, wrote, session>>,
             \A w \in Who : live.up /\ PartWritten(w) /\ host # <<>> /\ host[1] = w
                           => host' # <<>> /\ host'[1] = w
      PROVE  PartIsAtWork'
  BY <1>1 DEF PartIsAtWork, PartWritten, Chunks
<1>2. ASSUME NEW w \in Who, host' = Append(host, w), UNCHANGED <<live, wrote, session>>
      PROVE  PartIsAtWork'
  <2>1. host # <<>> => host' # <<>> /\ host'[1] = host[1]
    BY <1>0, <1>2, Lengthened
  <2> QED
    BY <1>1, <1>2, <2>1
<1>3. ASSUME NEW w \in Who, Timeout(w) PROVE PartIsAtWork'
  <2>1. Forget(w) /\ UNCHANGED <<live, wrote, session>>
    BY <1>3 DEF Timeout
  <2>2. ASSUME NEW k \in 1..Len(host), host[k] = w, wrote[w] = 0,
               host' = [n \in 1..(Len(host) - 1) |-> IF n < k THEN host[n] ELSE host[n + 1]],
               NEW v \in Who, PartWritten(v), host[1] = v
        PROVE  host' # <<>> /\ host'[1] = v
    <3>1. k # 1 /\ 1 < k /\ 1 \in 1..(Len(host) - 1)
      BY <1>0, <2>2 DEF PartWritten
    <3>2. DOMAIN host' = 1..(Len(host) - 1) /\ host'[1] = host[1]
      BY <2>2, <3>1
    <3>3. host' # <<>>
      BY <3>1, <3>2
    <3> QED
      BY <2>2, <3>2, <3>3
  <2>3. CASE UNCHANGED host
    BY <1>1, <2>1, <2>3
  <2>4. CASE \E k \in 1..Len(host) :
                /\ host[k] = w
                /\ wrote[w] = 0
                /\ host' = [n \in 1..(Len(host) - 1) |-> IF n < k THEN host[n] ELSE host[n + 1]]
    BY <1>1, <2>1, <2>2, <2>4
  <2> QED
    BY <2>1, <2>3, <2>4, Zenon DEF Forget
<1>4. CASE WriteChunk
  <2> DEFINE h == Head(host)
  <2>1. /\ h \in Who /\ h = host[1] /\ host # <<>> /\ UNCHANGED <<live, host>>
        /\ session' = [session EXCEPT ![h] = live.epoch]
        /\ wrote' = [wrote EXCEPT ![h] = @ + 1]
    BY <1>4, Taken DEF WriteChunk, WritesChunk
  <2>2. \A w \in Who : w # h => session'[w] = session[w] /\ wrote'[w] = wrote[w]
    BY <2>1 DEF TypeOK
  <2>3. session'[h] = live.epoch
    BY <2>1 DEF TypeOK
  <2> QED
    BY <1>0, <2>1, <2>2, <2>3 DEF PartIsAtWork, PartWritten, Chunks
<1>5. CASE Finish \/ Mismatch \/ Gone
  <2>1. host # <<>> /\ UNCHANGED <<live, wrote, session>>
    BY <1>5 DEF Finish, Mismatch, Gone, Answer
  <2>2. wrote[Head(host)] \in 0..2 /\ Head(host) = host[1]
    BY <1>0, <2>1, Taken
  <2>3. ~(live.up /\ PartWritten(Head(host)))
    <3>1. CASE Finish
      BY <2>2, <3>1 DEF Finish, PartWritten, Chunks
    <3>2. CASE Mismatch
      BY <2>2, <3>2 DEF Mismatch, Attached, Accepts, PartWritten
    <3>3. CASE Gone
      BY <3>3 DEF Gone, Attached, PartWritten
    <3> QED
      BY <1>5, <3>1, <3>2, <3>3
  <2> QED
    BY <1>1, <2>1, <2>2, <2>3
<1>6. CASE Exit
  <2>1. ~live'.up /\ live'.epoch = live.epoch /\ UNCHANGED session
    BY <1>6 DEF Exit, TypeOK
  <2> QED
    BY <2>1 DEF PartIsAtWork
<1>7. CASE Restart
  <2>1. live'.epoch = live.epoch + 1 /\ UNCHANGED session
    BY <1>7 DEF Restart
  <2> QED
    BY <1>0, <2>1 DEF PartIsAtWork, PartWritten
<1>8. CASE UNCHANGED <<live, host, wrote, session>>
  BY <1>1, <1>8
<1> QED
  BY <1>2, <1>3, <1>4, <1>5, <1>6, <1>7, <1>8
  DEF Next, Refuse, Admit, TurnAway, Dispatch, Interrupt, Unreachable, View, Checkpoint, Learn, Who

(* The host writes whole inputs: a runtime that has got a part of one gets *)
(* the rest of it next or nothing, whatever fails or times out.            *)
THEOREM InputsStayWhole == Spec => WritesAreWhole
<1>1. Init => PartIsAtWork
  BY TerminalAssumption DEF Init, PartIsAtWork, PartWritten
<1>2. PathInv /\ PartIsAtWork /\ [Next]_vars => PartIsAtWork'
  <2>1. PathInv /\ PartIsAtWork /\ Next => PartIsAtWork'
    BY PartStep DEF PathInv
  <2>2. PartIsAtWork /\ UNCHANGED vars => PartIsAtWork'
    BY DEF PartIsAtWork, PartWritten, Chunks, vars
  <2> QED
    BY <2>1, <2>2
<1>3. PathInv /\ PartIsAtWork /\ [Next]_vars =>
        [\A v, w \in Who :
            v # w /\ wrote'[v] # wrote[v] =>
               ~(wrote[w] > 0 /\ wrote[w] < Chunks(w) /\ session[w] = live.epoch)]_vars
  <2> SUFFICES ASSUME PathInv, PartIsAtWork, Next, NEW v \in Who, NEW w \in Who,
                      v # w, wrote'[v] # wrote[v], PartWritten(w)
               PROVE  FALSE
    BY Zenon DEF PartWritten
  <2>1. v = host[1] /\ live.up
    BY ChunkStep DEF PathInv
  <2> QED
    BY <2>1 DEF PartIsAtWork
<1> QED
  BY <1>1, <1>2, <1>3, PathAlways, PTL DEF Spec, WritesAreWhole

(* Inputs reach the terminal in the order of their admission: with a chunk *)
(* of a later one written, no chunk of an earlier one is, whatever fails   *)
(* or times out in between.                                                *)
THEOREM OrderIsKept == Spec => WritesAreOrdered
<1>1. PathInv /\ [Next]_vars =>
        [\A j \in 1..Len(queue) : \A i \in 1..(j - 1) :
            wrote[queue[j]] > 0 => wrote'[queue[i]] = wrote[queue[i]]]_vars
  <2> SUFFICES ASSUME PathInv, Next, NEW j \in 1..Len(queue), NEW i \in 1..(j - 1),
                      wrote[queue[j]] > 0, wrote'[queue[i]] # wrote[queue[i]]
               PROVE  FALSE
    BY Zenon
  <2>1. /\ i \in DOMAIN queue /\ j \in DOMAIN queue /\ i < j /\ queue[i] \in Who
    BY PathTypes DEF PathInv
  <2>2. InHost(queue[i])
    BY <2>1, WroteStep DEF PathInv
  <2> QED
    BY <2>1, <2>2 DEF PathInv, LaterUnwritten
<1> QED
  BY <1>1, PathAlways, PTL DEF Spec, WritesAreOrdered

(* Whatever fails: an input reported as sent is written to the end, one    *)
(* reported as rejected is not, and neither is written any more.           *)
THEOREM ReportsAreFinal == Spec => []ResultsHold
<1>1. PathInv => ResultsHold
  BY DEF PathInv
<1> QED
  BY <1>1, PathAlways, PTL

(* The sender is told the truth as long as every input is one chunk.  (A   *)
(* session may go between two chunks, and the input is then rejected with  *)
(* its first chunk written.)                                               *)
THEOREM SendersAreToldTheTruth == ASSUME Long = {} PROVE Spec => []ReportsAreTrue
<1>1. Types /\ ResultsHold => ReportsAreTrue
  BY DEF Types, TypeOK, ResultsHold, ResultHolds, ReportsAreTrue, Chunks
<1>2. PathInv => Types /\ ResultsHold
  BY DEF PathInv
<1> QED
  BY <1>1, <1>2, PathAlways, PTL
=============================================================================
