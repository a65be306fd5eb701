----------------------------- MODULE MCOrderly -----------------------------
(* Two independent instances for TLC in one run, each with the fairness of *)
(* its own module: the file lock, and the self-update.  A behaviour takes  *)
(* the steps of one of them; of the other nothing is running.              *)
EXTENDS UpdateOperation

CONSTANTS Proc, MaxClaims, NoClaim

VARIABLES part, lock, staged, pc, seq, seen, outcome, waits, retried, pending

L == INSTANCE ProcessFileLock

lockVars == <<lock, staged, pc, seq, seen, outcome, waits, retried, pending>>

MCInit ==
  /\ part \in {"lock", "update"}
  /\ UpdateInit
  /\ IF part = "lock" THEN L!Init
     ELSE /\ lock = L!NoLock /\ staged = {} /\ pc = [p \in Proc |-> "dead"]
          /\ seq = [p \in Proc |-> 0] /\ seen = [p \in Proc |-> NoClaim]
          /\ outcome = [p \in Proc |-> "failed"]
          /\ waits = [p \in Proc |-> FALSE] /\ retried = waits /\ pending = waits

MCNext ==
  /\ UNCHANGED part
  /\ \/ part = "update" /\ AttendedNext /\ UNCHANGED lockVars
     \/ part = "lock" /\ L!OrderlyNext /\ UNCHANGED updateVars

MCSpec ==
  /\ MCInit /\ [][MCNext]_<<part, updateVars, lockVars>>
  /\ AttendedFairness /\ L!OrderlyFairness

(* The lock's promise to those that wait (see ProcessFileLock).            *)
DeadClaimIsReclaimed == L!DeadClaimIsReclaimed
=============================================================================
