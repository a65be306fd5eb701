-------------------------- MODULE MCTerminalAgents --------------------------
(* The terminal agents, an agent whose host may be out of reach, and the   *)
(* control of a host, for TLC in one run, as independent instances: a      *)
(* behaviour takes the steps of one of them.                               *)
EXTENDS TerminalAgents, TLC

CONSTANTS c1, c2, c3,
          FarAgents, FarFaults  \* of the agent out of reach

VARIABLES part,
          farRecord, farMember, farRequestOf, farAlive, farProvider, farPresent, farStopped,
          farTomb, farStep, farWaiting, farAdmission, farTold, farMode, farListed, farTodo,
          farCrashes

farVars == <<farRecord, farMember, farRequestOf, farAlive, farProvider, farPresent, farStopped,
             farTomb, farStep, farWaiting, farAdmission, farTold, farMode, farListed, farTodo,
             farCrashes>>

Far == INSTANCE AgentLifecycle WITH
         Agents <- FarAgents, Faults <- FarFaults, record <- farRecord, member <- farMember,
         requestOf <- farRequestOf, alive <- farAlive, provider <- farProvider,
         present <- farPresent, stopped <- farStopped, tomb <- farTomb, step <- farStep,
         waiting <- farWaiting, admission <- farAdmission, told <- farTold, mode <- farMode,
         listed <- farListed, todo <- farTodo, crashes <- farCrashes

(* Two connections of one server and one of a newer server.                *)
MCConn == {c1, c2, c3}
MCGeneration == (c1 :> 1) @@ (c2 :> 1) @@ (c3 :> 2)

MCInit == /\ Init /\ Far!Init /\ HostControl!Init /\ part \in {"agents", "far", "host"}
          /\ part # "host" => live
MCNext ==
  /\ UNCHANGED part
  /\ \/ part = "agents" /\ Next /\ UNCHANGED <<farVars, hostVars>>
     \/ part = "far" /\ Far!Next /\ UNCHANGED <<vars, hostVars>>
     \/ part = "host" /\ HostControl!Next /\ UNCHANGED <<vars, farVars>>

(* Nothing is fair among the agents of the first part; at rest, those of   *)
(* the second have no fair step.  The host's are fair where it moves.      *)
Host(A) == part = "host" /\ A
MCSpec == /\ MCInit /\ [][MCNext]_<<part, vars, farVars, hostVars>>
          /\ Far!Fairness
          /\ WF_hostVars(Host(HostControl!Host))
          /\ WF_hostVars(Host(\E c \in Conn : HostControl!Rotates(c)))

(* Every operation on an agent, and the recovery, comes to an end, whether *)
(* the host is reached or not.                                             *)
FarOperationsEnd == Far!OperationsEnd

(* A server that registers with the host is answered, and no checkpoint    *)
(* stops the terminals for ever.                                           *)
ControlChanges == part = "host" => HostControl!ControlChanges
=============================================================================
