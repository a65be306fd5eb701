----------------------- MODULE ComposerDelivery_proofs -----------------------
(***************************************************************************)
(* For any number of messages and whatever goes wrong, the provider sees a *)
(* message at most once unless the host was in doubt about it, what is     *)
(* reported as accepted is at the provider, what has definitely failed is  *)
(* not, and the order of the input queue is kept.                          *)
(*                                                                         *)
(* They follow from an invariant of the host that links, request by        *)
(* request, the operation, its execution, its steer and what the provider  *)
(* has; the server only adds that its verdicts follow the operations.      *)
(***************************************************************************)
EXTENDS ComposerDelivery, TLAPS

HostTypes ==
  /\ op \in [Req -> Status]
  /\ stage \in [Req -> Stage]
  /\ steer \in [Req -> {"none", "pending", "taken", "refused"}]
  /\ delivered \in [Req -> 0..2]

(* An operation is admitting as long as its execution may still fail       *)
(* without effect, and owned while the provider works on it.               *)
StageFollows(r) ==
  /\ op[r] = "admitting" <=> stage[r] \in {"loop", "waiting", "preparing", "tail", "steering"}
  /\ op[r] = "owned" <=> stage[r] \in {"running", "answered"}
  /\ steer[r] # "none" => stage[r] = "steering"

(* The provider has a message, or is known to have it.                     *)
HasIt(r) == op[r] \in {"owned", "settled"} \/ steer[r] = "taken"

(* What the provider has is what the host believes it has.                 *)
CountFollows(r) ==
  /\ HasIt(r) => delivered[r] > 0
  /\ r \notin doubt => delivered[r] <= 1 /\ (delivered[r] = 1 => HasIt(r))

HostInv == HostTypes /\ \A r \in Req : StageFollows(r) /\ CountFollows(r)

(* The provider does not give a message back.                              *)
Grows == \A q \in Req : delivered[q] > 0 => delivered'[q] > 0

-----------------------------------------------------------------------------
(* Admission of a request: only what the provider does not have starts.    *)
LEMMA AdmitKeeps ==
  ASSUME HostInv, NEW r \in Req, NEW retry_, Admit(r, retry_)
  PROVE  HostInv' /\ Grows
<1>1. CASE UNCHANGED hostVars
  BY <1>1 DEF hostVars, HostInv, HostTypes, StageFollows, CountFollows, HasIt, Grows
<1>2. CASE /\ op[r] \in {"none", "failed", "broken"}
           /\ Becomes(r, "admitting") /\ Goto(r, "loop")
           /\ UNCHANGED <<turn, steer, delivered, doubt>>
  <2>1. HostTypes' /\ Grows
    BY <1>2 DEF HostInv, HostTypes, Becomes, Goto, Grows, Status, Stage
  <2>2. ASSUME NEW q \in Req PROVE StageFollows(q)' /\ CountFollows(q)'
    BY <1>2, <2>2 DEF HostInv, HostTypes, StageFollows, CountFollows, HasIt, Becomes, Goto, Status, Stage
  <2> QED BY <2>1, <2>2 DEF HostInv
<1> QED BY <1>1, <1>2 DEF Admit

(* What waits for its turn or its place in one.                            *)
LEMMA WaitingKeeps ==
  ASSUME HostInv, NEW r \in Req, Join(r) \/ Await(r) \/ Begin(r)
  PROVE  HostInv' /\ Grows
<1>1. HostTypes' /\ Grows
  BY DEF HostInv, HostTypes, Join, Await, Begin, Goto, Grows, Stage
<1>2. ASSUME NEW q \in Req PROVE StageFollows(q)' /\ CountFollows(q)'
  BY <1>2, ZenonT(60) DEF HostInv, HostTypes, StageFollows, CountFollows, HasIt, Join, Await, Begin, Goto, Stage
<1> QED BY <1>1, <1>2 DEF HostInv

(* A failure of a message that is not at the provider, or in doubt.        *)
LEMMA FailsKeeps ==
  ASSUME HostInv, NEW r \in Req, Fails(r), op[r] = "admitting",
         doubt \subseteq doubt', r \in doubt' \/ ~HasIt(r)
  PROVE  HostInv' /\ Grows
<1>1. HostTypes' /\ Grows
  BY DEF HostInv, HostTypes, Fails, Becomes, Goto, Forget, Grows, Status, Stage
<1>2. ASSUME NEW q \in Req PROVE StageFollows(q)' /\ CountFollows(q)'
  BY <1>2 DEF HostInv, HostTypes, StageFollows, CountFollows, HasIt, Fails, Becomes, Goto, Forget, Status, Stage
<1> QED BY <1>1, <1>2 DEF HostInv

(* A steer that finds its turn gone.                                       *)
LEMMA UnavailableKeeps ==
  ASSUME HostInv, NEW r \in Req, Unavailable(r), op[r] = "admitting",
         doubt \subseteq doubt', r \in doubt' \/ ~HasIt(r)
  PROVE  HostInv' /\ Grows
<1>1. CASE Fails(r)
  BY <1>1, FailsKeeps
<1>2. CASE /\ Goto(r, IF InTail(r) THEN "waiting" ELSE "loop") /\ Forget(r)
           /\ UNCHANGED <<op, expired, delivered>>
  <2>1. PICK next \in {"waiting", "loop"} : Goto(r, next)
    BY <1>2
  <2>2. HostTypes' /\ Grows
    BY <1>2, <2>1 DEF HostInv, HostTypes, Goto, Forget, Grows, Stage
  <2>3. ASSUME NEW q \in Req PROVE StageFollows(q)' /\ CountFollows(q)'
    BY <1>2, <2>1, <2>3 DEF HostInv, HostTypes, StageFollows, CountFollows, HasIt, Goto, Forget, Status, Stage
  <2> QED BY <2>2, <2>3 DEF HostInv
<1> QED BY <1>1, <1>2 DEF Unavailable

(* The end of a turn at most lets others look again.                       *)
LEMMA EndTurnGoes ==
  ASSUME HostInv, NEW r \in Req, NEW next \in Stage, EndTurn(r, next)
  PROVE  /\ stage' \in [Req -> Stage]
         /\ stage'[r] = next
         /\ \A q \in Req \ {r} : stage'[q] = stage[q] \/ (stage[q] = "waiting" /\ stage'[q] = "loop")
BY DEF HostInv, HostTypes, EndTurn, Woken, Goto, Stage

(* Turns: dispatch, end and failure.                                       *)
LEMMA TurnsKeep ==
  ASSUME HostInv, NEW r \in Req, Dispatch(r) \/ PrepareFails(r) \/ Answer(r) \/ Finish(r)
  PROVE  HostInv' /\ Grows
<1>1. CASE Dispatch(r)
  <2>1. HostTypes' /\ Grows
    BY <1>1 DEF HostInv, HostTypes, Dispatch, Becomes, Take, Goto, Grows, Status, Stage
  <2>2. ASSUME NEW q \in Req PROVE StageFollows(q)' /\ CountFollows(q)'
    BY <1>1, <2>2 DEF HostInv, HostTypes, StageFollows, CountFollows, HasIt, Dispatch, Becomes, Take, Goto, Status, Stage
  <2> QED BY <2>1, <2>2 DEF HostInv
<1>2. CASE PrepareFails(r)
  <2>1. /\ stage' \in [Req -> Stage] /\ stage'[r] = "idle"
        /\ \A q \in Req \ {r} : stage'[q] = stage[q] \/ (stage[q] = "waiting" /\ stage'[q] = "loop")
    BY <1>2, EndTurnGoes DEF PrepareFails, Stage
  <2>2. HostTypes' /\ Grows
    BY <1>2, <2>1 DEF HostInv, HostTypes, PrepareFails, Becomes, Grows, Status
  <2>3. ASSUME NEW q \in Req PROVE StageFollows(q)' /\ CountFollows(q)'
    BY <1>2, <2>1, <2>3 DEF HostInv, HostTypes, StageFollows, CountFollows, HasIt, PrepareFails, Becomes, Status, Stage
  <2> QED BY <2>2, <2>3 DEF HostInv
<1>3. CASE Answer(r)
  <2>1. HostTypes' /\ Grows
    BY <1>3 DEF HostInv, HostTypes, Answer, Goto, Grows, Stage
  <2>2. ASSUME NEW q \in Req PROVE StageFollows(q)' /\ CountFollows(q)'
    BY <1>3, <2>2 DEF HostInv, HostTypes, StageFollows, CountFollows, HasIt, Answer, Goto, Stage
  <2> QED BY <2>1, <2>2 DEF HostInv
<1>4. CASE Finish(r)
  <2>1. /\ stage' \in [Req -> Stage] /\ stage'[r] = "idle"
        /\ \A q \in Req \ {r} : stage'[q] = stage[q] \/ (stage[q] = "waiting" /\ stage'[q] = "loop")
    BY <1>4, EndTurnGoes DEF Finish, Stage
  <2>2. PICK status \in {"settled", "broken"} :
          /\ Becomes(r, status)
          /\ doubt' = IF status = "broken" THEN doubt \cup {r} ELSE doubt
    BY <1>4 DEF Finish
  <2>3. HostTypes' /\ Grows
    BY <1>4, <2>1, <2>2 DEF HostInv, HostTypes, Finish, Becomes, Grows, Status
  <2>4. ASSUME NEW q \in Req PROVE StageFollows(q)' /\ CountFollows(q)'
    BY <1>4, <2>1, <2>2, <2>4 DEF HostInv, HostTypes, StageFollows, CountFollows, HasIt, Finish, Becomes, Status, Stage
  <2> QED BY <2>3, <2>4 DEF HostInv
<1> QED BY <1>1, <1>2, <1>3, <1>4

(* Giving up, and what becomes of a steer.                                 *)
LEMMA GiveUpKeeps ==
  ASSUME HostInv, NEW r \in Req, GiveUp(r)
  PROVE  HostInv' /\ Grows
<1>1. op[r] = "admitting" /\ ~HasIt(r)
  BY DEF GiveUp, HostInv, StageFollows, HasIt
<1> QED BY <1>1, FailsKeeps DEF GiveUp

LEMMA SteersKeep ==
  ASSUME HostInv, NEW r \in Req,
         Steer(r) \/ TakeSteer(r) \/ RefuseSteer(r) \/ Steered(r) \/ NotSteered(r) \/ SteerTimeout(r)
  PROVE  HostInv' /\ Grows
<1>1. CASE Steer(r)
  <2>1. op[r] = "admitting" /\ ~HasIt(r)
    BY <1>1 DEF Steer, HostInv, StageFollows, HasIt
  <2>2. CASE Unavailable(r)
    BY <1>1, <2>1, <2>2, UnavailableKeeps DEF Steer
  <2>3. CASE /\ steer' = [steer EXCEPT ![r] = "pending"] /\ Goto(r, "steering")
             /\ UNCHANGED <<op, delivered, doubt>>
    <3>1. HostTypes' /\ Grows
      BY <2>3 DEF HostInv, HostTypes, Goto, Grows, Stage
    <3>2. ASSUME NEW q \in Req PROVE StageFollows(q)' /\ CountFollows(q)'
      BY <2>1, <2>3, <3>2 DEF HostInv, HostTypes, StageFollows, CountFollows, HasIt, Goto, Stage
    <3> QED BY <3>1, <3>2 DEF HostInv
  <2> QED BY <1>1, <2>2, <2>3 DEF Steer
<1>2. CASE TakeSteer(r) \/ RefuseSteer(r)
  <2>1. HostTypes' /\ Grows
    BY <1>2 DEF HostInv, HostTypes, TakeSteer, RefuseSteer, Take, Grows
  <2>2. ASSUME NEW q \in Req PROVE StageFollows(q)' /\ CountFollows(q)'
    BY <1>2, <2>2 DEF HostInv, HostTypes, StageFollows, CountFollows, HasIt, TakeSteer, RefuseSteer, Take
  <2> QED BY <2>1, <2>2 DEF HostInv
<1>3. CASE Steered(r)
  <2>1. HostTypes' /\ Grows
    BY <1>3 DEF HostInv, HostTypes, Steered, Becomes, Goto, Forget, Grows, Status, Stage
  <2>2. ASSUME NEW q \in Req PROVE StageFollows(q)' /\ CountFollows(q)'
    BY <1>3, <2>2 DEF HostInv, HostTypes, StageFollows, CountFollows, HasIt, Steered, Becomes, Goto, Forget, Status, Stage
  <2> QED BY <2>1, <2>2 DEF HostInv
<1>4. CASE NotSteered(r)
  <2>1. op[r] = "admitting"
    BY <1>4 DEF NotSteered, HostInv, StageFollows
  <2>2. doubt \subseteq doubt' /\ (r \in doubt' \/ ~HasIt(r))
    BY <1>4, <2>1 DEF NotSteered, HasIt
  <2> QED BY <1>4, <2>1, <2>2, UnavailableKeeps, FailsKeeps DEF NotSteered
<1>5. CASE SteerTimeout(r)
  <2>1. HostTypes' /\ Grows
    BY <1>5 DEF HostInv, HostTypes, SteerTimeout, Becomes, Goto, Forget, Take, Grows, Status, Stage
  <2>2. ASSUME NEW q \in Req PROVE StageFollows(q)' /\ CountFollows(q)'
    BY <1>5, <2>2 DEF HostInv, HostTypes, StageFollows, CountFollows, HasIt, SteerTimeout, Becomes, Goto, Forget, Take, Status, Stage
  <2> QED BY <2>1, <2>2 DEF HostInv
<1> QED BY <1>1, <1>2, <1>3, <1>4, <1>5

(* Turns of the adapter's own at most let others look again.               *)
LEMMA NativeKeeps ==
  ASSUME HostInv, Native
  PROVE  HostInv' /\ Grows
<1>1. UNCHANGED <<op, steer, delivered, doubt>>
  BY DEF Native, NativeStart, NativeEnd
<1>2. /\ stage' \in [Req -> Stage]
      /\ \A q \in Req : stage'[q] = stage[q] \/ (stage[q] = "waiting" /\ stage'[q] = "loop")
  BY DEF Native, NativeStart, NativeEnd, Woken, HostInv, HostTypes, Stage
<1>3. HostTypes' /\ Grows
  BY <1>1, <1>2 DEF HostInv, HostTypes, Grows
<1>4. ASSUME NEW q \in Req PROVE StageFollows(q)' /\ CountFollows(q)'
  BY <1>1, <1>2, <1>4 DEF HostInv, HostTypes, StageFollows, CountFollows, HasIt, Stage
<1> QED BY <1>3, <1>4 DEF HostInv

LEMMA StandsStill ==
  ASSUME HostInv, UNCHANGED <<op, stage, steer, delivered, doubt>>
  PROVE  HostInv' /\ Grows
BY DEF HostInv, HostTypes, StageFollows, CountFollows, HasIt, Grows

(* Whatever the host and the provider do.                                  *)
LEMMA HostKeeps ==
  ASSUME HostInv, NEW r \in Req, Inner(r) \/ Outer(r) \/ Provider(r) \/ Deadline(r)
  PROVE  HostInv' /\ Grows
<1>1. CASE Inner(r)
  BY <1>1, WaitingKeeps, GiveUpKeeps, TurnsKeep, SteersKeep DEF Inner
<1>2. CASE Outer(r) \/ Provider(r)
  BY <1>2, TurnsKeep, SteersKeep DEF Outer, Provider
<1>3. CASE Deadline(r)
  BY <1>3, StandsStill DEF Deadline
<1> QED BY <1>1, <1>2, <1>3

-----------------------------------------------------------------------------
(* The server believes of a message that the provider has it only when it  *)
(* does, in memory, on disk and in what it is about to read.               *)
Told ==
  /\ record \in [Req -> Verdict] /\ disk \in [Req -> Verdict]
  /\ \A r \in Req : record[r] = "accepted" \/ disk[r] = "accepted" \/ r \in news => delivered[r] > 0

DeliveryInv == HostInv /\ Told

(* A verdict other than acceptance, or acceptance of what the provider has.*)
LEMMA RememberKeeps ==
  ASSUME HostInv, Told, NEW r \in Req, NEW verdict \in Verdict, Remember(r, verdict),
         verdict = "accepted" => delivered[r] > 0,
         UNCHANGED <<delivered, disk>>, news' \subseteq news
  PROVE  Told'
BY DEF Told, Remember, Verdict

LEMMA StillTold ==
  ASSUME Told, Grows, UNCHANGED <<record, disk>>, news' \subseteq news
  PROVE  Told'
BY DEF Told, Grows

(* Steps of the server that leave the operations alone.                    *)
LEMMA ServerKeeps ==
  ASSUME DeliveryInv, NEW r \in Req,
         Request(r) \/ Reconcile(r) \/ Start(r) \/ Refuse(r) \/ Send(r) \/ Accept(r) \/ Respond(r)
  PROVE  DeliveryInv'
<1> USE DEF DeliveryInv
<1>1. HostInv' /\ Grows
  BY StandsStill DEF hostVars, Request, Reconcile, Start, Refuse, Send, Accept, Respond
<1>2. news' \subseteq news /\ UNCHANGED <<delivered, disk>>
  BY DEF hostVars, Request, Reconcile, Start, Refuse, Send, Accept, Respond
<1>3. CASE Request(r) \/ Reconcile(r) \/ Refuse(r)
  <2>1. PICK verdict \in {"intent", "unknown", "failed"} : Remember(r, verdict)
    BY <1>3 DEF Request, Reconcile, Refuse
  <2> QED BY <1>1, <1>2, <2>1, RememberKeeps DEF Verdict
<1>4. CASE Start(r)
  BY <1>1, <1>2, <1>4, StillTold DEF Start
<1>5. CASE Send(r)
  <2>1. CASE op[r] \in {"owned", "settled"} /\ Remember(r, "accepted")
    <3>1. delivered[r] > 0
      BY <2>1 DEF HostInv, CountFollows, HasIt
    <3> QED BY <1>1, <1>2, <2>1, <3>1, RememberKeeps DEF Verdict
  <2>2. CASE UNCHANGED record
    BY <1>1, <1>2, <2>2, StillTold
  <2> QED BY <1>5, <2>1, <2>2 DEF Send
<1>6. CASE Accept(r)
  <2>1. CASE Remember(r, "accepted")
    <3>1. delivered[r] > 0
      BY <1>6 DEF Accept, Told
    <3> QED BY <1>1, <1>2, <2>1, <3>1, RememberKeeps DEF Verdict
  <2>2. CASE UNCHANGED record
    BY <1>1, <1>2, <2>2, StillTold
  <2> QED BY <1>6, <2>1, <2>2 DEF Accept
<1>7. CASE Respond(r)
  <2>1. CASE Remember(r, IF op[r] = "settled" THEN "accepted" ELSE "failed")
    <3>1. PICK verdict \in {"accepted", "failed"} :
            Remember(r, verdict) /\ (verdict = "accepted" => op[r] = "settled")
      BY <2>1
    <3>2. verdict = "accepted" => delivered[r] > 0
      BY <3>1 DEF HostInv, CountFollows, HasIt
    <3> QED BY <1>1, <1>2, <3>1, <3>2, RememberKeeps DEF Verdict
  <2>2. CASE UNCHANGED record
    BY <1>1, <1>2, <2>2, StillTold
  <2> QED BY <1>7, <2>1, <2>2 DEF Respond
<1> QED BY <1>3, <1>4, <1>5, <1>6, <1>7

(* The host reads a request.                                               *)
LEMMA ReceiveKeeps ==
  ASSUME DeliveryInv, NEW r \in Req, Receive(r)
  PROVE  DeliveryInv'
<1>1. PICK m \in wire : Admit(r, m.retry)
  BY DEF Receive
<1>2. HostInv' /\ Grows
  BY <1>1, AdmitKeeps DEF DeliveryInv
<1> QED BY <1>2, StillTold DEF Receive, DeliveryInv

(* The host works; what it publishes is at the provider.                   *)
LEMMA HostStepKeeps ==
  ASSUME DeliveryInv, NEW r \in Req,
         Host(r) \/ ((Provider(r) \/ Deadline(r)) /\ UNCHANGED serverVars)
  PROVE  DeliveryInv'
<1>1. HostInv' /\ Grows
  BY HostKeeps DEF Host, DeliveryInv
<1>2. CASE UNCHANGED serverVars
  BY <1>1, <1>2, StillTold DEF serverVars, DeliveryInv
<1>3. CASE Outer(r) /\ Publish(r) /\ OtherThanNews
  <2>1. op'[r] \in {"owned", "settled"}
    BY <1>3 DEF Outer, Dispatch, Steered, Becomes, DeliveryInv, HostInv, HostTypes
  <2>2. delivered'[r] > 0
    BY <1>1, <2>1 DEF HostInv, CountFollows, HasIt
  <2> QED BY <1>1, <1>3, <2>2 DEF Publish, OtherThanNews, Told, Grows, DeliveryInv
<1> QED BY <1>2, <1>3 DEF Host

(* The connection and the server come and go.                              *)
LEMMA EnvironmentKeeps ==
  ASSUME DeliveryInv, Connect \/ Disconnect \/ Persist \/ Crash
  PROVE  DeliveryInv'
<1>1. HostInv' /\ Grows
  BY StandsStill DEF hostVars, Connect, Disconnect, Persist, Crash, DeliveryInv
<1>2. CASE Connect
  BY <1>1, <1>2, StillTold DEF Connect, DeliveryInv
<1>3. CASE Disconnect
  BY <1>1, <1>3 DEF Disconnect, DeliveryInv, Told, Grows, Verdict
<1>4. CASE Persist
  BY <1>1, <1>4 DEF Persist, DeliveryInv, Told, Grows
<1>5. CASE Crash
  BY <1>1, <1>5 DEF Crash, DeliveryInv, Told, Grows
<1> QED BY <1>2, <1>3, <1>4, <1>5

-----------------------------------------------------------------------------
(* The invariant of host and server: operations, executions, steers and    *)
(* verdicts agree with what the provider has, after any number of retries, *)
(* joined requests, disconnections, restarts and turns of the adapter.     *)
THEOREM DeliveryInvariant == Spec => []DeliveryInv
<1>1. Init => DeliveryInv
  BY DEF Init, HostInit, DeliveryInv, HostInv, HostTypes, StageFollows, CountFollows,
         HasIt, Told, Status, Stage, Verdict
<1>2. DeliveryInv /\ [Next]_vars => DeliveryInv'
  <2> SUFFICES ASSUME DeliveryInv, [Next]_vars PROVE DeliveryInv'
    OBVIOUS
  <2>1. ASSUME NEW r \in Req, Request(r) \/ Reconcile(r) \/ Server(r)
        PROVE  DeliveryInv'
    BY <2>1, ServerKeeps, ReceiveKeeps DEF Server
  <2>2. ASSUME NEW r \in Req, Host(r) \/ ((Provider(r) \/ Deadline(r)) /\ UNCHANGED serverVars)
        PROVE  DeliveryInv'
    BY <2>2, HostStepKeeps
  <2>3. CASE Connect \/ Disconnect \/ Persist \/ Crash
    BY <2>3, EnvironmentKeeps
  <2>4. CASE Native /\ UNCHANGED serverVars
    BY <2>4, NativeKeeps, StillTold DEF serverVars, DeliveryInv
  <2>5. CASE UNCHANGED vars
    BY <2>5, StandsStill, StillTold DEF vars, hostVars, serverVars, DeliveryInv
  <2> QED BY <2>1, <2>2, <2>3, <2>4, <2>5 DEF Next
<1> QED BY <1>1, <1>2, PTL DEF Spec

(* No message reaches the provider twice, unless the host could not tell   *)
(* whether the provider had it.                                            *)
THEOREM AtMostOnceDelivered == Spec => []AtMostOnce
<1>1. DeliveryInv => AtMostOnce
  BY DEF DeliveryInv, HostInv, CountFollows, AtMostOnce
<1> QED BY <1>1, DeliveryInvariant, PTL

(* A message that was reported as accepted is at the provider.             *)
THEOREM AcceptedIsDelivered == Spec => []AcceptedWasDelivered
<1>1. DeliveryInv => AcceptedWasDelivered
  BY DEF DeliveryInv, Told, AcceptedWasDelivered
<1> QED BY <1>1, DeliveryInvariant, PTL

-----------------------------------------------------------------------------
(* Why a definite failure is definite: unless a crash has set its record   *)
(* back, a request that has no verdict yet, or a failure, is not at work   *)
(* in the host, and nothing on the wire or unread can start or accept it.  *)
Resting == {"none", "failed", "broken"}
Idle(r) == op[r] \in Resting /\ r \notin news /\ \A m \in wire : m.req # r

DefiniteAt(r) ==
  /\ record[r] \in {"none", "failed"} => sending[r] = "no" /\ Idle(r)
  /\ sending[r] \in {"queued", "reconnect"} => record[r] = "intent" /\ Idle(r)

Definite ==
  /\ sending \in [Req -> {"no", "queued", "reconnect", "sent"}]
  /\ \A r \in Req \ lost : DefiniteAt(r)

(* The host starts nothing by itself.                                      *)
LEMMA HostRests ==
  ASSUME HostInv, NEW r \in Req, Inner(r) \/ Outer(r) \/ Provider(r) \/ Deadline(r)
  PROVE  /\ \A q \in Req : op[q] \in Resting => op'[q] \in Resting
         /\ Outer(r) => op[r] = "admitting"
<1>1. \A q \in Req \ {r} : op'[q] = op[q]
  BY DEF HostInv, HostTypes, Inner, Join, Await, Begin, GiveUp, PrepareFails, Finish, Steer, NotSteered,
         SteerTimeout, Unavailable, Fails, Outer, Dispatch, Steered, Provider, Answer, TakeSteer,
         RefuseSteer, Deadline, Becomes
<1>2. op[r] \in Resting => op'[r] = op[r]
  <2> SUFFICES ASSUME op[r] \in Resting PROVE op'[r] = op[r]
    OBVIOUS
  <2>1. stage[r] \notin Stage \ {"idle"}
    BY DEF HostInv, StageFollows, Stage, Resting
  <2>2. ~Inner(r) /\ ~Outer(r) /\ ~Provider(r)
    BY <2>1 DEF Stage, Inner, Join, Await, Begin, GiveUp, PrepareFails, Finish, Steer, NotSteered,
           SteerTimeout, Outer, Dispatch, Steered, Provider, Answer, TakeSteer, RefuseSteer
  <2> QED BY <2>2 DEF Deadline
<1>3. Outer(r) => op[r] = "admitting"
  BY DEF Outer, Dispatch, Steered, HostInv, StageFollows
<1> QED BY <1>1, <1>2, <1>3

(* Steps of the server.                                                    *)
LEMMA ServerDefinite ==
  ASSUME HostInv, Told, Definite, NEW r \in Req,
         Request(r) \/ Reconcile(r) \/ Start(r) \/ Refuse(r) \/ Send(r) \/ Accept(r) \/ Respond(r)
  PROVE  Definite'
<1>1. UNCHANGED <<op, lost>>
  BY DEF hostVars, Request, Reconcile, Start, Refuse, Send, Accept, Respond
<1>2. sending' \in [Req -> {"no", "queued", "reconnect", "sent"}]
  BY DEF Definite, Request, Reconcile, Start, Refuse, Send, Accept, Respond, Reaches
<1>3. ASSUME NEW q \in Req \ lost, q # r PROVE DefiniteAt(q)'
  <2>1. record'[q] = record[q] /\ sending'[q] = sending[q]
    BY <1>3 DEF Request, Reconcile, Start, Refuse, Send, Accept, Respond, Remember, Reaches, Definite, Told
  <2>2. (q \in news' => q \in news) /\ \A m \in wire' : m \in wire \/ m.req = r
    BY DEF Request, Reconcile, Start, Refuse, Send, Accept, Respond
  <2> QED BY <1>1, <1>3, <2>1, <2>2 DEF Definite, DefiniteAt, Idle
<1>4. ASSUME r \notin lost PROVE DefiniteAt(r)'
  <2>1. DefiniteAt(r)
    BY <1>4 DEF Definite
  <2>2. CASE Request(r) \/ Reconcile(r) \/ Start(r) \/ Refuse(r)
    <3>1. UNCHANGED <<op, news, wire>>
      BY <2>2 DEF hostVars, Request, Reconcile, Start, Refuse
    <3>2. Idle(r)' <=> Idle(r)
      BY <3>1 DEF Idle
    <3> QED BY <2>1, <2>2, <3>2 DEF DefiniteAt, Request, Reconcile, Start, Refuse, Remember, Reaches,
                Definite, Told, Verdict
  <2>3. CASE Send(r) \/ Accept(r)
    <3>1. /\ sending'[r] = "sent" \/ (sending'[r] = sending[r] /\ UNCHANGED wire)
          /\ record'[r] \in {record[r], "accepted"} /\ news' \subseteq news
          /\ sending[r] \in {"queued", "no"} => record'[r] = record[r]
      BY <2>3 DEF Send, Accept, Remember, Reaches, Definite, Told
    <3>2. CASE Send(r)
      BY <2>1, <3>1, <3>2 DEF Send, Reaches, Definite, DefiniteAt
    <3>3. CASE Accept(r)
      BY <1>1, <2>1, <3>1, <3>3 DEF Accept, DefiniteAt, Idle
    <3> QED BY <2>3, <3>2, <3>3
  <2>4. CASE Respond(r)
    <3>1. sending'[r] = "no" /\ UNCHANGED <<op, news, wire>> /\ record[r] \notin {"none", "failed"}
      BY <1>1, <2>1, <2>4 DEF Respond, Reaches, Definite, DefiniteAt
    <3>2. CASE op[r] = "settled"
      BY <2>4, <3>1, <3>2 DEF Respond, Remember, DefiniteAt, Told
    <3>3. CASE op[r] \in {"failed", "broken"}
      BY <2>4, <3>1, <3>3 DEF Respond, Remember, DefiniteAt, Idle, Resting, Told
    <3> QED BY <2>4, <3>2, <3>3 DEF Respond
  <2> QED BY <2>2, <2>3, <2>4
<1> QED BY <1>1, <1>2, <1>3, <1>4 DEF Definite

(* A request on the wire is one that is not idle.                          *)
LEMMA ReceiveDefinite ==
  ASSUME HostInv, Definite, NEW r \in Req, Receive(r)
  PROVE  Definite'
<1>1. UNCHANGED <<record, sending, news, lost>> /\ wire' \subseteq wire /\ ~Idle(r)
  BY DEF Receive, Idle
<1>2. \A q \in Req \ {r} : op'[q] = op[q]
  BY DEF Receive, Admit, Becomes, hostVars, HostInv, HostTypes
<1>3. ASSUME NEW q \in Req \ lost PROVE DefiniteAt(q)'
  BY <1>1, <1>2, <1>3 DEF Definite, DefiniteAt, Idle
<1> QED BY <1>1, <1>3 DEF Definite

(* The host only works on what is not idle.                                *)
LEMMA HostDefinite ==
  ASSUME HostInv, Definite, NEW r \in Req,
         Host(r) \/ ((Provider(r) \/ Deadline(r)) /\ UNCHANGED serverVars)
  PROVE  Definite'
<1>1. /\ \A q \in Req : op[q] \in Resting => op'[q] \in Resting
      /\ Outer(r) => op[r] = "admitting"
  BY HostRests DEF Host
<1>2. UNCHANGED <<record, sending, wire, lost>>
  BY DEF Host, OtherThanNews, serverVars
<1>3. \A q \in Req : op[q] \in Resting /\ q \in news' => q \in news
  BY <1>1 DEF Host, Publish, serverVars, Resting
<1>4. ASSUME NEW q \in Req \ lost PROVE DefiniteAt(q)'
  BY <1>1, <1>2, <1>3, <1>4 DEF Definite, DefiniteAt, Idle
<1> QED BY <1>2, <1>4 DEF Definite

LEMMA EnvironmentDefinite ==
  ASSUME Told, Definite, Connect \/ Disconnect \/ Persist \/ Crash
  PROVE  Definite'
<1>1. sending' \in [Req -> {"no", "queued", "reconnect", "sent"}]
  BY DEF Definite, Connect, Disconnect, Persist, Crash
<1>2. ASSUME NEW q \in Req \ lost' PROVE DefiniteAt(q)'
  <2>1. q \notin lost /\ (Idle(q) => Idle(q)')
    BY <1>2 DEF Connect, Disconnect, Persist, Crash, Idle, hostVars
  <2>2. sending'[q] \in {sending[q], "no"}
    BY <1>2 DEF Connect, Disconnect, Persist, Crash, Definite
  <2>3. record'[q] = record[q] \/ (record'[q] = "unknown" /\ sending'[q] = "no")
    BY <1>2 DEF Connect, Disconnect, Persist, Crash, Told
  <2> QED BY <1>2, <2>1, <2>2, <2>3 DEF Definite, DefiniteAt
<1> QED BY <1>1, <1>2 DEF Definite

LEMMA DefiniteKeeps == DeliveryInv /\ Definite /\ [Next]_vars => Definite'
<1> SUFFICES ASSUME DeliveryInv, Definite, [Next]_vars PROVE Definite'
  OBVIOUS
<1>1. HostInv /\ Told
  BY DEF DeliveryInv
<1>2. ASSUME NEW r \in Req, Request(r) \/ Reconcile(r) \/ Server(r)
      PROVE  Definite'
  BY <1>1, <1>2, ServerDefinite, ReceiveDefinite DEF Server
<1>3. ASSUME NEW r \in Req, Host(r) \/ ((Provider(r) \/ Deadline(r)) /\ UNCHANGED serverVars)
      PROVE  Definite'
  BY <1>1, <1>3, HostDefinite
<1>4. CASE Connect \/ Disconnect \/ Persist \/ Crash
  BY <1>1, <1>4, EnvironmentDefinite
<1>5. CASE UNCHANGED <<op, serverVars>>
  BY <1>5 DEF serverVars, Definite, DefiniteAt, Idle
<1> QED BY <1>2, <1>3, <1>4, <1>5 DEF Next, Native, NativeStart, NativeEnd, vars, hostVars

(* A message reported as definitely failed is not at the provider, and no  *)
(* step but a new request can bring it there, unless a crash set its       *)
(* record back or the host was in doubt.                                   *)
THEOREM FailuresAreDefinite == Spec => []FailureIsDefinite
<1>1. Init => Definite
  BY DEF Init, HostInit, Definite, DefiniteAt, Idle, Resting
<1>2. DeliveryInv /\ Definite /\ [Next]_vars => Definite'
  BY DefiniteKeeps
<1>3. DeliveryInv /\ Definite => FailureIsDefinite
  BY DEF DeliveryInv, HostInv, HostTypes, StageFollows, CountFollows, HasIt, Definite, DefiniteAt, Idle,
         Resting, FailureIsDefinite
<1> QED BY <1>1, <1>2, <1>3, DeliveryInvariant, PTL DEF Spec

-----------------------------------------------------------------------------
(* Why the queue's order is kept: a message that waits for another one is  *)
(* still queued, so that the host does not work on it.                     *)
Ordered ==
  /\ queue \in SUBSET Req /\ before \in [Req -> SUBSET Req]
  /\ \A r \in Req : before[r] # {} => sending[r] = "queued"

(* Steps of the server.                                                    *)
LEMMA ReleasesOrdered ==
  ASSUME Ordered, NEW set, Releases(set)
  PROVE  /\ queue' \in SUBSET Req /\ before' \in [Req -> SUBSET Req]
         /\ \A r \in Req : before[r] = {} => before'[r] = {}
BY DEF Ordered, Releases

LEMMA ServerOrdered ==
  ASSUME Definite, Ordered, NEW r \in Req,
         \/ Request(r) \/ Reconcile(r) \/ Start(r) \/ Refuse(r) \/ Send(r) \/ Receive(r)
         \/ Accept(r) \/ Respond(r)
  PROVE  Ordered'
<1>1. CASE Request(r) /\ Joins(r) /\ Reaches(r, "queued")
  BY <1>1 DEF Definite, Ordered, Joins, Reaches
<1>2. CASE /\ UNCHANGED inputQueue \/ \E set : Releases(set)
           /\ \A q \in Req : sending'[q] = sending[q] \/ before[q] = {}
  <2>1. /\ queue' \in SUBSET Req /\ before' \in [Req -> SUBSET Req]
        /\ \A q \in Req : before[q] = {} => before'[q] = {}
    BY <1>2, ReleasesOrdered DEF Ordered, inputQueue
  <2> QED BY <1>2, <2>1 DEF Ordered
<1>3. CASE ~Request(r)
  <2>1. UNCHANGED inputQueue \/ \E set : Releases(set)
    BY <1>3 DEF Reconcile, Start, Refuse, Send, Receive, Accept, Respond, Release, inputQueue
  <2>2. sending' = sending \/ \E step : Reaches(r, step) /\ before[r] = {}
    BY <1>3 DEF Reconcile, Start, Refuse, Send, Receive, Accept, Respond, Ordered
  <2> QED BY <1>2, <2>1, <2>2 DEF Reaches, Definite
<1>4. CASE Request(r) /\ UNCHANGED inputQueue
  <2>1. \A q \in Req : q # r => sending'[q] = sending[q]
    BY <1>4 DEF Request, Reaches, Definite
  <2>2. before[r] = {}
    BY <1>4 DEF Request, Ordered
  <2> QED BY <1>2, <1>4, <2>1, <2>2
<1> QED BY <1>1, <1>3, <1>4 DEF Request

(* The connection and the server come and go.                              *)
LEMMA EnvironmentOrdered ==
  ASSUME Definite, Ordered, Connect \/ Disconnect \/ Persist \/ Crash
  PROVE  Ordered'
<1>1. CASE Connect \/ Persist
  BY <1>1 DEF Connect, Persist, Ordered, inputQueue
<1>2. CASE Disconnect
  <2>1. /\ queue' \in SUBSET Req /\ before' \in [Req -> SUBSET Req]
        /\ \A q \in Req : before[q] = {} => before'[q] = {}
    BY <1>2, ReleasesOrdered DEF Disconnect
  <2>2. \A q \in Req : sending[q] = "queued" => sending'[q] = "queued"
    BY <1>2 DEF Disconnect, Waiting
  <2> QED BY <2>1, <2>2 DEF Ordered
<1>3. CASE Crash
  BY <1>3 DEF Crash, Ordered
<1> QED BY <1>1, <1>2, <1>3

(* A message reaches the provider by a step of its own execution.          *)
LEMMA HostDelivers ==
  ASSUME HostInv, NEW r \in Req, Inner(r) \/ Outer(r) \/ Provider(r) \/ Deadline(r),
         NEW q \in Req, delivered'[q] # delivered[q]
  PROVE  op[q] \notin Resting
<1>1. CASE Dispatch(r) \/ TakeSteer(r) \/ SteerTimeout(r)
  <2>1. stage[r] \in {"preparing", "steering"}
    BY <1>1 DEF Dispatch, TakeSteer, SteerTimeout
  <2>2. op[r] = "admitting"
    BY <2>1 DEF HostInv, StageFollows
  <2>3. q = r
    BY <1>1 DEF Dispatch, TakeSteer, SteerTimeout, Take, HostInv, HostTypes
  <2> QED BY <2>2, <2>3 DEF Resting
<1>2. CASE ~(Dispatch(r) \/ TakeSteer(r) \/ SteerTimeout(r))
  BY <1>2 DEF Inner, Join, Await, Begin, GiveUp, PrepareFails, Finish, Steer, NotSteered, Unavailable,
         Fails, Outer, Steered, Provider, Answer, RefuseSteer, Deadline
<1> QED BY <1>1, <1>2

(* A message of the input queue reaches the provider only when those that  *)
(* were queued before it are accepted, have failed or are given up as      *)
(* unknown (agent-input-coordinator.cts, enqueueUntilReleased), whatever   *)
(* steers, retries, disconnections and restarts come between.              *)
THEOREM OrderOfQueueIsKept == Spec => QueueIsKept
<1>1. Init => Definite /\ Ordered
  BY DEF Init, HostInit, Definite, DefiniteAt, Idle, Resting, Ordered
<1>2. DeliveryInv /\ Definite /\ Ordered /\ [Next]_vars => Ordered'
  <2> SUFFICES ASSUME DeliveryInv, Definite, Ordered, [Next]_vars PROVE Ordered'
    OBVIOUS
  <2>1. ASSUME NEW r \in Req, Request(r) \/ Reconcile(r) \/ Server(r)
        PROVE  Ordered'
    BY <2>1, ServerOrdered DEF Server
  <2>2. CASE Connect \/ Disconnect \/ Persist \/ Crash
    BY <2>2, EnvironmentOrdered
  <2>3. CASE UNCHANGED <<sending, inputQueue>>
    BY <2>3 DEF inputQueue, Ordered
  <2>4. ASSUME NEW r \in Req, Host(r) \/ ((Provider(r) \/ Deadline(r)) /\ UNCHANGED serverVars)
        PROVE  Ordered'
    BY <2>3, <2>4 DEF Host, OtherThanNews, serverVars
  <2> QED BY <2>1, <2>2, <2>3, <2>4 DEF Next, vars, serverVars
<1>3. DeliveryInv /\ Definite /\ Ordered /\ [Next]_vars
        => [\A r \in Req \ lost : delivered'[r] # delivered[r] => before[r] = {}]_vars
  <2> SUFFICES ASSUME DeliveryInv, Definite, Ordered, [Next]_vars,
                      NEW q \in Req \ lost, delivered'[q] # delivered[q]
               PROVE  before[q] = {}
    OBVIOUS
  <2>1. HostInv
    BY DEF DeliveryInv
  <2>2. ASSUME NEW r \in Req, Inner(r) \/ Outer(r) \/ Provider(r) \/ Deadline(r)
        PROVE  op[q] \notin Resting
    BY <2>1, <2>2, HostDelivers
  <2>3. \E r \in Req : Inner(r) \/ Outer(r) \/ Provider(r) \/ Deadline(r)
    BY DEF Next, Request, Reconcile, Server, Start, Refuse, Send, Receive, Admit, Accept, Respond,
           Host, Connect, Disconnect, Persist, Crash, Native, NativeStart, NativeEnd, vars, hostVars
  <2>4. sending[q] # "queued"
    BY <2>2, <2>3 DEF Definite, DefiniteAt, Idle
  <2> QED BY <2>4 DEF Ordered
<1>4. DeliveryInv /\ Definite /\ [Next]_vars => Definite'
  BY DefiniteKeeps
<1> QED BY <1>1, <1>2, <1>3, <1>4, DeliveryInvariant, PTL DEF Spec, QueueIsKept
=============================================================================
