---------------------------- MODULE StateFollower ----------------------------
(***************************************************************************)
(* What somebody is promised who watches a state from afar: what it shows  *)
(* as current was the state at one moment, and these moments only advance  *)
(* while it stays connected.  Implemented by AgentStateBroadcast (browser  *)
(* pages that watch the agents) and by AcpHostMirror (the server that      *)
(* watches its runtime host).                                              *)
(***************************************************************************)
EXTENDS Naturals, SequencesExt

CONSTANTS Viewer, State

VARIABLES log,    \* the published states, in order
          seen,   \* how many of them a viewer has come to, 0 for none
          clear,  \* the viewers that show their state as current
          shown   \* what each viewer shows

vars == <<log, seen, clear, shown>>

Init ==
  /\ log = <<>>
  /\ seen = [v \in Viewer |-> 0]
  /\ clear = {}
  /\ shown \in [Viewer -> State]

Publish ==
  /\ log' \in Seq(State) /\ IsPrefix(log, log')
  /\ UNCHANGED <<seen, clear, shown>>

Show(v) ==
  /\ \E n \in (seen[v] .. Len(log)) \ {0} :
       seen' = [seen EXCEPT ![v] = n] /\ shown' = [shown EXCEPT ![v] = log[n]]
  /\ clear' = clear \cup {v}
  /\ UNCHANGED log

(* The viewer shows something that it does not claim to be current.        *)
Blur(v) ==
  /\ clear' = clear \ {v}
  /\ \E s \in State : shown' = [shown EXCEPT ![v] = s]
  /\ UNCHANGED <<log, seen>>

Leave(v) ==
  /\ clear' = clear \ {v} /\ seen' = [seen EXCEPT ![v] = 0]
  /\ UNCHANGED <<log, shown>>

Next == Publish \/ \E v \in Viewer : Show(v) \/ Blur(v) \/ Leave(v)

Spec == Init /\ [][Next]_vars
=============================================================================
