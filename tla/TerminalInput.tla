---------------------------- MODULE TerminalInput ----------------------------
(***************************************************************************)
(* The way of an input to the terminal of one agent, and the fence that    *)
(* closes this way after a write whose outcome nobody knows.               *)
(*                                                                         *)
(* An input is admitted under the fence phase and the runtime epoch of     *)
(* that moment, waits in the agent's queue, and is checked against both    *)
(* again when its turn comes (AgentManager.sendInput, sendInputNow).  The  *)
(* terminal host runs the writes of a session one after the other, in      *)
(* chunks, while requests to it time out.  An interrupt skips the queue.   *)
(* The fence is opened by a checkpoint that a viewer asks for.             *)
(***************************************************************************)
EXTENDS Naturals, Sequences, FiniteSets

CONSTANTS
    Inputs,      \* inputs that go through the queue
    Interrupts,  \* interrupts, which do not
    Long,        \* inputs that are written in two chunks
    MaxEpoch,    \* bound: runtimes the agent may have
    Failures     \* what may fail besides the answer to a write

ASSUME TerminalAssumption ==
    /\ Inputs \cap Interrupts = {}
    /\ Long \subseteq Inputs
    /\ MaxEpoch \in Nat \ {0}
    /\ Failures \subseteq {"error", "unreachable"}

Who == Inputs \cup Interrupts

VARIABLES
    agent,   \* what the server believes of the terminal: its epoch and status
    fence,   \* terminalInputFences of the agent; phase 0 when there is none
    work,    \* every input and interrupt, what it was admitted under, its result
    queue,   \* the inputs in the order of their admission
    served,  \* how many of them have settled
    live,    \* the runtime itself: its epoch, and whether its process runs
    host,    \* the writes the host has accepted, the first one in progress
    wrote,   \* how many chunks of each have reached the PTY
    session, \* the session in which the host began each write, by its epoch
    doubt,   \* history: the runtime has an unknown outcome nobody looked at
    barred   \* history: what must not reach the runtime any more

vars == <<agent, fence, work, queue, served, live, host, wrote, session, doubt, barred>>

NoFence == [phase |-> 0, active |-> FALSE, epoch |-> 0]

Chunks(w) == IF w \in Long THEN 2 ELSE 1

Pending(w) == work[w].st \in {"flying", "lost"}
-----------------------------------------------------------------------------
Init ==
    /\ agent = [epoch |-> 1, status |-> "running"]
    /\ fence = NoFence
    /\ work = [w \in Who |-> [st |-> "new", phase |-> 0, epoch |-> 0, result |-> "none"]]
    /\ queue = <<>>
    /\ served = 0
    /\ live = [epoch |-> 1, up |-> TRUE]
    /\ host = <<>>
    /\ wrote = [w \in Who |-> 0]
    /\ session = [w \in Who |-> 0]
    /\ doubt = FALSE
    /\ barred = {}
-----------------------------------------------------------------------------
(* The fence of a replaced runtime is dropped when it is looked up.        *)
CurrentFence == IF fence.epoch = agent.epoch THEN fence ELSE NoFence

(* What an admission captures.                                             *)
Admitted(st) ==
    [st |-> st, phase |-> CurrentFence.phase, epoch |-> agent.epoch, result |-> "none"]

Settled(w, result) == [work EXCEPT ![w].st = "done", ![w].result = result]

(* A session reported as gone: the agent is dead, unless it already is,    *)
(* and its fence is removed.                                               *)
DeadStatus == [agent EXCEPT !.status = "dead"]
DeadFence(f) == IF agent.status = "dead" THEN f ELSE NoFence

(* Variant: a request whose connection was reset keeps its turn.           *)
ServedByHeard(w) == IF w \in Inputs /\ work[w].st # "lost" THEN served + 1 ELSE served

(* The place in the queue of an input is free once it has settled.         *)
ServedBy(w) == IF w \in Inputs THEN served + 1 ELSE served
-----------------------------------------------------------------------------
(* sendInput: an active fence rejects at once.                             *)
Refuse(i) ==
    /\ work[i].st = "new"
    /\ CurrentFence.active
    /\ fence' = CurrentFence
    /\ work' = Settled(i, "rejected")
    /\ UNCHANGED <<agent, queue, served, live, host, wrote, session, doubt, barred>>

Admit(i) ==
    /\ work[i].st = "new"
    /\ ~CurrentFence.active
    /\ fence' = CurrentFence
    /\ work' = [work EXCEPT ![i] = Admitted("queued")]
    /\ queue' = Append(queue, i)
    /\ UNCHANGED <<agent, served, live, host, wrote, session, doubt, barred>>

(* Variant: any waiting input may go.                                      *)
TurnOfAny(i) == served < Len(queue) /\ work[i].st = "queued"

Turn(i) == served < Len(queue) /\ queue[served + 1] = i /\ work[i].st = "queued"

(* Variant: only an active fence stops an input.                           *)
PassesInactive(i) == ~CurrentFence.active /\ work[i].epoch = agent.epoch

(* sendInputNow: the fence has moved on since the admission, or the        *)
(* runtime was replaced.                                                   *)
Passes(i) ==
    /\ ~(CurrentFence.phase # 0 /\ (CurrentFence.active \/ work[i].phase # CurrentFence.phase))
    /\ work[i].epoch = agent.epoch

TurnAway(i) ==
    /\ Turn(i)
    /\ ~Passes(i)
    /\ fence' = CurrentFence
    /\ work' = Settled(i, "rejected")
    /\ served' = served + 1
    /\ UNCHANGED <<agent, queue, live, host, wrote, session, doubt, barred>>

Dispatch(i) ==
    /\ Turn(i)
    /\ Passes(i)
    /\ fence' = CurrentFence
    /\ work' = [work EXCEPT ![i].st = "flying"]
    /\ host' = Append(host, i)
    /\ barred' = IF doubt THEN barred \cup {i} ELSE barred
    /\ UNCHANGED <<agent, queue, served, live, wrote, session, doubt>>

(* interruptAgent: admitted and written at once.                           *)
Interrupt(x) ==
    /\ work[x].st = "new"
    /\ ~CurrentFence.active
    /\ fence' = CurrentFence
    /\ work' = [work EXCEPT ![x] = Admitted("flying")]
    /\ host' = Append(host, x)
    /\ barred' = IF doubt THEN barred \cup {x} ELSE barred
    /\ UNCHANGED <<agent, queue, served, live, wrote, session, doubt>>

(* The connection to the host fails before the request is sent.            *)
Unreachable(w) ==
    /\ "unreachable" \in Failures
    /\ IF w \in Inputs THEN Turn(w) /\ Passes(w)
                       ELSE work[w].st = "new" /\ ~CurrentFence.active
    /\ agent' = DeadStatus
    /\ fence' = DeadFence(CurrentFence)
    /\ work' = Settled(w, "rejected")
    /\ served' = ServedBy(w)
    /\ UNCHANGED <<queue, live, host, wrote, session, doubt, barred>>
-----------------------------------------------------------------------------
(* The session of a write runs, and is still the one the write began in.   *)
Attached(w) == live.up /\ (wrote[w] > 0 => session[w] = live.epoch)

(* The host: one write after the other.  The epoch is compared only when a *)
(* write begins.                                                           *)
Accepts(w) == Attached(w) /\ (wrote[w] = 0 => work[w].epoch = live.epoch)

WritesChunk(w) ==
    /\ Accepts(w)
    /\ wrote[w] < Chunks(w)
    /\ wrote' = [wrote EXCEPT ![w] = @ + 1]
    /\ session' = [session EXCEPT ![w] = live.epoch]
    /\ UNCHANGED <<agent, fence, work, queue, served, live, host, doubt, barred>>

(* Variant: a write does not wait for the writes before it.                *)
WriteChunkOfAny == \E k \in DOMAIN host : WritesChunk(host[k])

WriteChunk == host # <<>> /\ WritesChunk(Head(host))

(* The answer to the first write, which the server hears unless the        *)
(* request has timed out or its connection is gone.                        *)
Answer(w, result) ==
    /\ host' = Tail(host)
    /\ IF work[w].st = "flying"
       THEN work' = Settled(w, result) /\ served' = ServedBy(w)
       ELSE UNCHANGED <<work, served>>
    /\ UNCHANGED <<queue, live, wrote, session, doubt, barred>>

Finish ==
    /\ host # <<>>
    /\ wrote[Head(host)] = Chunks(Head(host))
    /\ Answer(Head(host), "sent")
    /\ UNCHANGED <<agent, fence>>

(* The runtime is not the one the input was admitted for.                  *)
Mismatch ==
    /\ host # <<>>
    /\ Attached(Head(host)) /\ ~Accepts(Head(host))
    /\ Answer(Head(host), "rejected")
    /\ UNCHANGED <<agent, fence>>

(* The session is gone, before the first chunk or between two.             *)
Gone ==
    /\ host # <<>>
    /\ ~Attached(Head(host))
    /\ wrote[Head(host)] < Chunks(Head(host))
    /\ Answer(Head(host), "rejected")
    /\ IF work[Head(host)].st = "flying"
       THEN agent' = DeadStatus /\ fence' = DeadFence(fence)
       ELSE UNCHANGED <<agent, fence>>
-----------------------------------------------------------------------------
(* A request times out.  Its connection is reset, so that no other request *)
(* in flight will be answered; what the host has not started may be lost.  *)
Forget(w) ==
    \/ UNCHANGED host
    \/ \E k \in 1..Len(host) :
          /\ host[k] = w
          /\ wrote[w] = 0
          /\ host' = [n \in 1..(Len(host) - 1) |-> IF n < k THEN host[n] ELSE host[n + 1]]

(* Variant: reports a lost answer as a refusal.                            *)
TimedOutRejected(w) ==
    [v \in Who |->
        IF v = w THEN [work[w] EXCEPT !.st = "done", !.result = "rejected"]
        ELSE IF work[v].st = "flying" THEN [work[v] EXCEPT !.st = "lost"]
        ELSE work[v]]

TimedOut(w) ==
    [v \in Who |->
        IF v = w THEN [work[w] EXCEPT !.st = "done", !.result = "uncertain"]
        ELSE IF work[v].st = "flying" THEN [work[v] EXCEPT !.st = "lost"]
        ELSE work[v]]

(* Variant: only an input raises the fence.                                *)
FencedByInput(w) ==
    IF w \in Inputs /\ work[w].epoch = agent.epoch
    THEN [phase |-> CurrentFence.phase + 1, active |-> TRUE, epoch |-> agent.epoch]
    ELSE fence

(* The fence an unknown outcome raises, unless the runtime was replaced.   *)
FencedBy(w) ==
    IF work[w].epoch = agent.epoch
    THEN [phase |-> CurrentFence.phase + 1, active |-> TRUE, epoch |-> agent.epoch]
    ELSE fence

Timeout(w) ==
    /\ Pending(w)
    /\ Forget(w)
    /\ work' = TimedOut(w)
    /\ served' = ServedBy(w)
    /\ fence' = FencedBy(w)
    /\ IF work[w].epoch = live.epoch
       THEN doubt' = TRUE /\ barred' = barred \cup {i \in Inputs : work[i].st = "queued"}
       ELSE UNCHANGED <<doubt, barred>>
    /\ UNCHANGED <<agent, queue, live, wrote, session>>
-----------------------------------------------------------------------------
(* getAgentSessionView: what a read of the session state comes back with.  *)
Answers == {"state"} \cup (IF live.up THEN {} ELSE {"missing"}) \cup Failures

Kills(answer) ==
    answer = "unreachable" \/ (answer = "missing" /\ agent.status = "running")

ViewAgent(answer) ==
    IF Kills(answer) THEN DeadStatus
    ELSE IF answer = "state" /\ live.up THEN [agent EXCEPT !.status = "running"]
    ELSE agent

ViewFence(answer) == IF Kills(answer) THEN DeadFence(fence) ELSE fence

(* The runtime epoch the view carries: that of the session when there is   *)
(* a state, else the one the server remembers.                             *)
ViewEpoch(answer) == IF answer = "state" THEN live.epoch ELSE agent.epoch

(* releaseTerminalInputFence                                               *)
Released(f, epoch) ==
    IF epoch # agent.epoch \/ f = NoFence THEN f
    ELSE IF f.epoch # epoch THEN NoFence
    ELSE IF f.active THEN [phase |-> f.phase + 1, active |-> FALSE, epoch |-> f.epoch]
    ELSE f

(* A view that some reader in the background asks for.                     *)
View(answer) ==
    /\ answer \in Answers
    /\ agent' = ViewAgent(answer)
    /\ fence' = ViewFence(answer)
    /\ UNCHANGED <<work, queue, served, live, host, wrote, session, doubt, barred>>

(* A view for a viewer's explicit checkpoint request.                      *)
Checkpoint(answer) ==
    /\ answer \in Answers
    /\ agent' = ViewAgent(answer)
    /\ fence' = Released(ViewFence(answer), ViewEpoch(answer))
    /\ doubt' = (doubt /\ answer # "state")
    /\ UNCHANGED <<work, queue, served, live, host, wrote, session, barred>>
-----------------------------------------------------------------------------
(* The process of the runtime exits; the server may learn of it.           *)
Exit ==
    /\ live.up
    /\ live' = [live EXCEPT !.up = FALSE]
    /\ \/ UNCHANGED agent
       \/ agent' = [agent EXCEPT !.status = IF agent.epoch = live.epoch THEN "stopped" ELSE @]
    /\ UNCHANGED <<fence, work, queue, served, host, wrote, session, doubt, barred>>

(* A new runtime, created behind the writes the host has accepted.         *)
Restart ==
    /\ ~live.up
    /\ host = <<>>
    /\ live.epoch < MaxEpoch
    /\ live' = [epoch |-> live.epoch + 1, up |-> TRUE]
    /\ doubt' = FALSE
    /\ UNCHANGED <<agent, fence, work, queue, served, host, wrote, session, barred>>

(* The server learns the epoch of the new runtime.                         *)
Learn ==
    /\ agent.epoch # live.epoch
    /\ agent' = [epoch |-> live.epoch, status |-> "running"]
    /\ UNCHANGED <<fence, work, queue, served, live, host, wrote, session, doubt, barred>>
-----------------------------------------------------------------------------
Next ==
    \/ \E i \in Inputs : Refuse(i) \/ Admit(i) \/ TurnAway(i) \/ Dispatch(i)
    \/ \E x \in Interrupts : Interrupt(x)
    \/ \E w \in Who : Unreachable(w) \/ Timeout(w)
    \/ WriteChunk \/ Finish \/ Mismatch \/ Gone
    \/ \E answer \in {"state", "missing"} \cup Failures : View(answer) \/ Checkpoint(answer)
    \/ Exit \/ Restart \/ Learn

Spec == Init /\ [][Next]_vars

(* The queue hands out turns and requests time out; nothing is assumed of  *)
(* the host.                                                               *)
Fairness ==
    /\ \A i \in Inputs : WF_vars(TurnAway(i) \/ Dispatch(i))
    /\ \A w \in Who : WF_vars(Timeout(w))

FairSpec == Spec /\ Fairness
-----------------------------------------------------------------------------
(* The state keeps its types.                                              *)
TypeOK ==
    /\ agent \in [epoch : 1..MaxEpoch, status : {"running", "dead", "stopped"}]
    /\ fence \in [phase : Nat, active : BOOLEAN, epoch : 0..MaxEpoch]
    /\ work \in [Who -> [st : {"new", "queued", "flying", "lost", "done"}, phase : Nat,
                         epoch : 0..MaxEpoch, result : {"none", "sent", "rejected", "uncertain"}]]
    /\ queue \in Seq(Inputs)
    /\ served \in 0..Len(queue)
    /\ live \in [epoch : 1..MaxEpoch, up : BOOLEAN]
    /\ host \in Seq(Who)
    /\ wrote \in [Who -> 0..2]
    /\ session \in [Who -> 0..MaxEpoch]
    /\ doubt \in BOOLEAN
    /\ barred \subseteq Who

(* As long as a runtime has an unknown outcome that no checkpoint has      *)
(* looked at, its fence is active.                                         *)
InDoubtIsFenced ==
    doubt /\ live.up /\ agent.epoch = live.epoch => fence.active /\ fence.epoch = live.epoch

(* An input that waited when a write of the runtime got lost, or that was  *)
(* sent before anybody looked, never reaches the runtime.                  *)
NothingCrossesDoubt == \A w \in barred : wrote[w] = 0

(* What the sender is told is true: an input reported as rejected wrote    *)
(* nothing, and one reported as sent was written to the end.               *)
ReportsAreTrue ==
    \A w \in Who : /\ work[w].result = "rejected" => wrote[w] = 0
                   /\ work[w].result = "sent" => wrote[w] = Chunks(w)

(* A runtime that has got a part of an input gets the rest of it next, or  *)
(* nothing any more: no other input and no interrupt comes in between,     *)
(* whatever times out while the host writes.                               *)
WritesAreWhole ==
    [][\A v, w \in Who :
          v # w /\ wrote'[v] # wrote[v] =>
             ~(wrote[w] > 0 /\ wrote[w] < Chunks(w) /\ session[w] = live.epoch)]_vars

(* Inputs reach the terminal in the order of their admission, whatever     *)
(* times out in between.                                                   *)
WritesAreOrdered ==
    [][\A j \in 1..Len(queue) : \A i \in 1..(j - 1) :
          wrote[queue[j]] > 0 => wrote'[queue[i]] = wrote[queue[i]]]_vars

(* Every admitted input is settled in the end.                             *)
InputsSettle == \A i \in Inputs : work[i].st = "queued" ~> work[i].st = "done"
=============================================================================
