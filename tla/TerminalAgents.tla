-------------------------- MODULE TerminalAgents --------------------------
(* The lifecycle of the terminal agents and the control of the host that   *)
(* runs their terminals, side by side.                                     *)
EXTENDS AgentLifecycle

CONSTANTS Conn, Generation, Rotating, Breaking, Session, MaxWork

(* None is neither a connection nor a set of them, and generations are     *)
(* allocated from 1 on.                                                    *)
ASSUME HostAssumption ==
  /\ None \notin Conn
  /\ \A a, c \in Conn \cup {None} : {a, c} # None
  /\ Generation \in [Conn -> Nat \ {0}]

VARIABLES client, gone, queue, stage, upto, handoff, active, generation,
          admitted, running, works, rotation, phase, cut, frozen, live, up

hostVars == <<client, gone, queue, stage, upto, handoff, active, generation, admitted,
              running, works, rotation, phase, cut, frozen, live, up>>

HostControl == INSTANCE NativePtyHost

(* A mutation of a terminal has its effect only while its server is in     *)
(* control (see NativePtyHost).                                            *)
ControlIsExclusive == HostControl!ControlIsExclusive
=============================================================================
