---------------------- MODULE MCAcpControllerGeneration ----------------------
(* Instances of AcpControllerGeneration for TLC: processes are symmetric.  *)
EXTENDS AcpControllerGeneration, TLC

ProcSymmetry == Permutations(Proc)
=============================================================================
