--------------------------- MODULE MCGenerations ---------------------------
(* Both allocators for TLC in one run, as independent instances: a         *)
(* behaviour takes the steps of one of them.  Process incarnations are     *)
(* symmetric.                                                              *)
EXTENDS Generations, FiniteSets, TLC

ASSUME DisturbancesAssumption == Disturbances \subseteq {"stall", "breaker_dies"}

VARIABLE part

ProcSymmetry == Permutations(Proc)

MCInit == part \in {"native", "acp"} /\ FileInit /\ Acp!Init
MCNext ==
  /\ UNCHANGED part
  /\ \/ part = "native" /\ FileNext /\ UNCHANGED acpVars
     \/ part = "acp" /\ Acp!Next /\ UNCHANGED allVars
MCSpec == MCInit /\ [][MCNext]_<<part, allVars, acpVars>>

(* Bound for the native generations: one process stays away; of the others *)
(* each publishes one claim, and one that alone has published comes back   *)
(* for a second one.                                                       *)
StaysAway(p) == seq[p] = 0 /\ pc[p] = "idle" /\ seen[p] = NoClaim
ComesBack(p) == seq[p] = 2 \/ (seq[p] = 1 /\ pc[p] \in Acquiring)
FewReturns ==
  /\ \E p \in Proc : StaysAway(p)
  /\ \A p, q \in Proc : ComesBack(p) /\ q # p => seq[q] = 0

(* Bound for the ACP controllers: the last process begins when two have    *)
(* died.                                                                   *)
Began == {p \in Proc : acpPc[p] # "idle" \/ acpSeq[p] > 0}
Died == {p \in Proc : acpPc[p] = "dead"}
LastAfterDeaths == Began = Proc => Cardinality(Died) >= 2
=============================================================================
