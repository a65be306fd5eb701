------------------------- MODULE MCInputsAndUpdates -------------------------
(* The inputs of a terminal and the self-update for TLC in one run.  They  *)
(* share no state: a behaviour takes the steps of one of them.  The short  *)
(* inputs, the interrupts and the operation ids are symmetric.             *)
EXTENDS TerminalInput, UpdateOperation, TLC

VARIABLE part

Symmetry == Permutations(Inputs \ Long) \cup Permutations(Interrupts) \cup Permutations(Op)

MCInit == part \in {"inputs", "update"} /\ Init /\ UpdateInit
MCNext ==
  /\ UNCHANGED part
  /\ \/ part = "inputs" /\ Next /\ UNCHANGED updateVars
     \/ part = "update" /\ UpdateNext /\ UNCHANGED vars
MCSpec == MCInit /\ [][MCNext]_<<part, vars, updateVars>>
=============================================================================
