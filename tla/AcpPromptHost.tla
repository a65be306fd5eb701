---------------------------- MODULE AcpPromptHost ----------------------------
(***************************************************************************)
(* One chat session in the ACP runtime host, a process that outlives the   *)
(* server: the prompt operations of backend/acp-runtime-host-state.cts and *)
(* the turns and steers of backend/acp-runtime.cts, with the agent process *)
(* (the provider) behind them.                                             *)
(*                                                                         *)
(* A message starts a turn of its own or, when a turn runs and the message *)
(* allows it, is steered into that turn.  The provider is external: it     *)
(* answers when it likes, and nothing orders its answer to a steer before  *)
(* its report that the turn is over.  Whether a deadline has passed is a   *)
(* nondeterministic choice, made once.  Contents, cancellation of running  *)
(* turns, closing and blocked sessions are left out.                       *)
(***************************************************************************)
EXTENDS Naturals, Sequences

CONSTANTS Req,      \* request ids, one per message
          Prompts,  \* messages that must start a turn
          Steers,   \* messages that must join one; the others may do either
          Faults,   \* what may go wrong in an instance
          None

FaultKind == {"disconnect", "crash", "native", "steer-late", "turn-error"}

ASSUME RequestsAssumption ==
  /\ Prompts \subseteq Req /\ Steers \subseteq Req /\ Prompts \cap Steers = {}
  /\ None \notin Req
ASSUME FaultsAssumption == Faults \subseteq FaultKind

VARIABLES op,         \* the host's operation for a request
          expired,    \* operations whose admission deadline has passed
          stage,      \* where the operation's execution stands
          turn,       \* the session's active turn
          steer,      \* a request's steer at the provider
          delivered,  \* how often the provider took a message; 2 is "more"
          doubt       \* history: the host reported, or took, as not taken
                      \* a message that the provider may have

hostVars == <<op, expired, stage, turn, steer, delivered, doubt>>

(* A broken operation failed after the provider had its prompt.            *)
Status == {"none", "admitting", "owned", "settled", "failed", "broken"}
Stage == {"idle", "loop", "waiting", "preparing", "running", "answered",
          "tail", "steering"}
Turn == [owner : Req \cup {None}, running : BOOLEAN, settled : BOOLEAN,
         ended : BOOLEAN, tail : Seq(Req)]

HostTypeOK ==
  /\ op \in [Req -> Status]
  /\ expired \in SUBSET Req
  /\ stage \in [Req -> Stage]
  /\ turn \in Turn \cup {None}
  /\ steer \in [Req -> {"none", "pending", "taken", "refused"}]
  /\ delivered \in [Req -> 0..2]
  /\ doubt \in SUBSET Req

HostInit ==
  /\ op = [r \in Req |-> "none"] /\ expired = {}
  /\ stage = [r \in Req |-> "idle"] /\ turn = None
  /\ steer = [r \in Req |-> "none"]
  /\ delivered = [r \in Req |-> 0] /\ doubt = {}

-----------------------------------------------------------------------------
(* A user prompt or an adapter's own work owns a turn; steers queue behind *)
(* each other in its control tail.                                         *)

NewTurn(owner, running) == [owner |-> owner, running |-> running,
                            settled |-> FALSE, ended |-> FALSE, tail |-> <<>>]
Owns(r) == turn # None /\ turn.owner = r
Steerable == turn # None /\ turn.running /\ ~turn.settled
InTail(r) == turn # None /\ \E i \in DOMAIN turn.tail : turn.tail[i] = r

(* A steer runs after those before it, or finds that its turn is gone.     *)
Heads(r) == InTail(r) => Head(turn.tail) = r
LeaveTail(r) ==
  turn' = IF InTail(r) THEN [turn EXCEPT !.tail = Tail(@)] ELSE turn

Goto(r, next) == stage' = [stage EXCEPT ![r] = next]

(* finishTurn: whoever waits for the turn looks again.                     *)
Woken == [r \in Req |-> IF stage[r] = "waiting" THEN "loop" ELSE stage[r]]
EndTurn(r, next) ==
  IF Owns(r) THEN turn' = None /\ stage' = [Woken EXCEPT ![r] = next]
  ELSE UNCHANGED turn /\ Goto(r, next)

Take(r) == delivered' = [delivered EXCEPT ![r] = IF @ = 0 THEN 1 ELSE 2]
Becomes(r, status) == op' = [op EXCEPT ![r] = status] /\ expired' = expired \ {r}
Forget(r) == steer' = [steer EXCEPT ![r] = "none"]

(* An operation fails while it waits, before anything is dispatched.       *)
Fails(r) ==
  /\ Becomes(r, "failed") /\ Goto(r, "idle") /\ LeaveTail(r) /\ Forget(r)
  /\ UNCHANGED delivered

-----------------------------------------------------------------------------
(* Variant: a request id is executed whenever it is submitted.             *)
AdmitAgain(r, retry) ==
  /\ Becomes(r, "admitting") /\ Goto(r, "loop")
  /\ UNCHANGED <<turn, steer, delivered, doubt>>

(* submitPrompt: a request id is executed once, joined while it runs and   *)
(* answered from its operation afterwards; only a definite failure is      *)
(* executed again, and only on request.                                    *)
Admit(r, retry) ==
  IF op[r] = "none" \/ (op[r] \in {"failed", "broken"} /\ retry)
  THEN /\ Becomes(r, "admitting") /\ Goto(r, "loop")
       /\ UNCHANGED <<turn, steer, delivered, doubt>>
  ELSE UNCHANGED hostVars

(* The loop of submitMessage: join the running turn, ...                   *)
Join(r) ==
  /\ stage[r] = "loop" /\ r \notin Prompts /\ Steerable
  /\ turn' = [turn EXCEPT !.tail = Append(@, r)]
  /\ Goto(r, "tail")
  /\ UNCHANGED <<op, expired, steer, delivered, doubt>>

(* ... or wait until it is over, ...                                       *)
Await(r) ==
  /\ stage[r] = "loop" /\ r \notin Steers \cup expired /\ turn # None
  /\ r \in Prompts \/ ~Steerable
  /\ Goto(r, "waiting")
  /\ UNCHANGED <<op, expired, turn, steer, delivered, doubt>>

(* ... or begin one, ...                                                   *)
Begin(r) ==
  /\ stage[r] = "loop" /\ r \notin Steers \cup expired /\ turn = None
  /\ turn' = NewTurn(r, FALSE)
  /\ Goto(r, "preparing")
  /\ UNCHANGED <<op, expired, steer, delivered, doubt>>

(* ... or give up: the session is not ready, a steer finds no turn, or the *)
(* deadline has passed.                                                    *)
GiveUp(r) ==
  /\ \/ stage[r] = "loop"
     \/ stage[r] = "waiting" /\ r \in expired
     \/ stage[r] = "tail" /\ Heads(r) /\ r \in expired
  /\ Fails(r) /\ UNCHANGED doubt

(* prompt: after the configuration has settled the prompt goes to the      *)
(* provider, provided its turn is still the active one, ...                *)
Dispatch(r) ==
  /\ stage[r] = "preparing" /\ Owns(r) /\ r \notin expired
  /\ turn' = [turn EXCEPT !.running = TRUE]
  /\ Becomes(r, "owned") /\ Take(r) /\ Goto(r, "running")
  /\ UNCHANGED <<steer, doubt>>

(* ... or it was cancelled, replaced, late, or its model is gone.          *)
PrepareFails(r) ==
  /\ stage[r] = "preparing"
  /\ Becomes(r, "failed") /\ EndTurn(r, "idle")
  /\ UNCHANGED <<steer, delivered, doubt>>

(* The provider answers the prompt.                                        *)
Answer(r) ==
  /\ stage[r] = "running"
  /\ turn' = IF Owns(r) THEN [turn EXCEPT !.settled = TRUE] ELSE turn
  /\ Goto(r, "answered")
  /\ UNCHANGED <<op, expired, steer, delivered, doubt>>

(* The answer is handled behind the steers that the turn admitted.  Work   *)
(* the adapter started meanwhile may have replaced the turn.               *)
Finish(r) ==
  /\ stage[r] = "answered"
  /\ Owns(r) => turn.tail = <<>>
  /\ EndTurn(r, "idle")
  /\ \/ Becomes(r, "settled") /\ UNCHANGED doubt
     \/ /\ "turn-error" \in Faults
        /\ Becomes(r, "broken") /\ doubt' = doubt \cup {r}
  /\ UNCHANGED <<steer, delivered>>

-----------------------------------------------------------------------------
(* isSteerUnavailableError: the turn cannot be steered (any more).  A      *)
(* message that may start a turn does, after the present one.              *)
Unavailable(r) ==
  IF r \in Steers THEN Fails(r)
  ELSE /\ Goto(r, IF InTail(r) THEN "waiting" ELSE "loop") /\ LeaveTail(r)
       /\ Forget(r)
       /\ UNCHANGED <<op, expired, delivered>>

Steer(r) ==
  /\ stage[r] = "tail" /\ Heads(r) /\ r \notin expired
  /\ \/ /\ InTail(r) /\ ~turn.settled
        /\ steer' = [steer EXCEPT ![r] = "pending"]
        /\ Goto(r, "steering")
        /\ UNCHANGED <<op, expired, turn, delivered>>
     \/ (InTail(r) => turn.settled) /\ Unavailable(r)
  /\ UNCHANGED doubt

(* The provider takes the steer into its turn, or refuses it.              *)
TakeSteer(r) ==
  /\ stage[r] = "steering" /\ steer[r] = "pending" /\ InTail(r) /\ Steerable
  /\ steer' = [steer EXCEPT ![r] = "taken"] /\ Take(r)
  /\ UNCHANGED <<op, expired, stage, turn, doubt>>

RefuseSteer(r) ==
  /\ stage[r] = "steering" /\ steer[r] = "pending"
  /\ steer' = [steer EXCEPT ![r] = "refused"]
  /\ UNCHANGED <<op, expired, stage, turn, delivered, doubt>>

(* Variant: the operation is left as its kind of delivery.                 *)
SteeredAsKind(r) ==
  /\ stage[r] = "steering" /\ steer[r] = "taken" /\ InTail(r)
  /\ Becomes(r, "steer") /\ Goto(r, "idle") /\ LeaveTail(r) /\ Forget(r)
  /\ UNCHANGED <<delivered, doubt>>

(* Its acceptance settles the operation, if the turn is still the one.     *)
Steered(r) ==
  /\ stage[r] = "steering" /\ steer[r] = "taken" /\ InTail(r)
  /\ Becomes(r, "settled") /\ Goto(r, "idle") /\ LeaveTail(r) /\ Forget(r)
  /\ UNCHANGED <<delivered, doubt>>

NotSteered(r) ==
  /\ stage[r] = "steering"
  /\ \/ steer[r] = "refused" /\ (Unavailable(r) \/ Fails(r)) /\ UNCHANGED doubt
     \/ /\ steer[r] = "taken" /\ ~InTail(r)
        /\ Unavailable(r) /\ doubt' = doubt \cup {r}

(* The request times out, or the provider's connection fails; what was     *)
(* pending may still be taken.                                             *)
SteerTimeout(r) ==
  /\ "steer-late" \in Faults
  /\ stage[r] = "steering"
  /\ Becomes(r, "failed") /\ Goto(r, "idle") /\ LeaveTail(r) /\ Forget(r)
  /\ (steer[r] = "pending" /\ Take(r)) \/ UNCHANGED delivered
  /\ doubt' = doubt \cup {r}

(* applyNativeTurn: the adapter starts a turn on its own, or in the place  *)
(* of one that it has reported as completed, ...                           *)
NativeStart ==
  /\ "native" \in Faults
  /\ turn # None => turn.ended
  /\ turn' = NewTurn(None, TRUE)
  /\ stage' = Woken
  /\ UNCHANGED <<op, expired, steer, delivered, doubt>>

(* ... and reports the end of a turn: its own is over at once, a prompt's  *)
(* only when the prompt is answered.                                       *)
NativeEnd ==
  /\ "native" \in Faults /\ turn # None
  /\ IF turn.owner = None THEN turn' = None /\ stage' = Woken
     ELSE /\ turn' = [turn EXCEPT !.settled = TRUE, !.ended = TRUE]
          /\ UNCHANGED stage
  /\ UNCHANGED <<op, expired, steer, delivered, doubt>>

Deadline(r) ==
  /\ op[r] = "admitting" /\ r \notin expired
  /\ expired' = expired \cup {r}
  /\ UNCHANGED <<op, stage, turn, steer, delivered, doubt>>

(* What the host does on its own: its timers included, the provider not.   *)
Inner(r) == \/ Join(r) \/ Await(r) \/ Begin(r) \/ GiveUp(r) \/ PrepareFails(r)
            \/ Finish(r) \/ Steer(r) \/ NotSteered(r) \/ SteerTimeout(r)
(* Steps that make the provider the owner of the message.                  *)
Outer(r) == Dispatch(r) \/ Steered(r)
Provider(r) == Answer(r) \/ TakeSteer(r) \/ RefuseSteer(r)
Native == NativeStart \/ NativeEnd

=============================================================================
