-------------------------- MODULE MCComposerFaults --------------------------
(* Two instances of ComposerDelivery for TLC in one run, over the same     *)
(* requests: with crashes of the server, one of the messages a steer; and  *)
(* without them, one of the messages a prompt, with every other fault and  *)
(* with fairness.                                                          *)
EXTENDS ComposerDelivery

CONSTANT Other  \* the faults where nothing crashes

VARIABLE part

Lasting == INSTANCE ComposerDelivery WITH Prompts <- Steers, Steers <- {}, Faults <- Other

MCVars == <<part, vars>>

MCInit == part \in {"crashing", "lasting"} /\ Init
MCNext ==
  /\ UNCHANGED part
  /\ \/ part = "crashing" /\ Next
     \/ part = "lasting" /\ Lasting!Next

Goes(action) == part = "lasting" /\ action /\ UNCHANGED part
MCFairness ==
  /\ WF_MCVars(Goes(Lasting!Connect))
  /\ \A r \in Req : /\ WF_MCVars(Goes(Lasting!Server(r)))
                    /\ WF_MCVars(Goes(Lasting!Host(r)))
                    /\ WF_MCVars(Goes(Lasting!Deadline(r) /\ UNCHANGED serverVars))
MCSpec == MCInit /\ [][MCNext]_MCVars /\ MCFairness

(* While nothing crashes, every admission is decided (see MessagesSettle). *)
LastingMessagesSettle ==
  \A r \in Req : part = "lasting" /\ Pending(r) ~> ~Pending(r)
=============================================================================
