------------------------ MODULE NativePtyGeneration ------------------------
(***************************************************************************)
(* allocateGeneration of backend/native-pty-controller-generation.cts: the *)
(* generation file is read and replaced under the process-owned file lock, *)
(* by processes that may die anywhere.  One instance stands for one        *)
(* generation file (controller or runtime) with its own lock.              *)
(***************************************************************************)
EXTENDS ProcessFileLock

VARIABLES file,   \* the generation file; 0 while it is absent
          work,   \* how far the holder is: "none", "read" or "done"
          next,   \* the generation it computed from what it read
          issued  \* every generation published, with the claim it went to

fileVars == <<file, work, next, issued>>
allVars == <<vars, fileVars>>

FileTypeOK ==
  /\ TypeOK
  /\ file \in Nat
  /\ work \in [Proc -> {"none", "read", "done"}]
  /\ next \in [Proc -> Nat]
  /\ issued \in SUBSET [gen : Nat, to : Claim]

FileInit ==
  /\ Init
  /\ file = 0
  /\ work = [p \in Proc |-> "none"]
  /\ next = [p \in Proc |-> 0]
  /\ issued = {}

(* acquireGenerationLock: attempts that never wait inside the lock         *)
(* primitive, each preceded by the recovery of a pending release; the      *)
(* event loop is free between two of them.                                 *)
Attempt(p) ==
  /\ Begin(p)
  /\ ~waits'[p]
  /\ UNCHANGED fileVars

LockProgress(p) ==
  /\ AcquireStep(p) \/ ReleaseStep(p)
  /\ UNCHANGED fileVars

(* Variant: the file is read before the lock is acquired.                  *)
ReadUnlocked(p) ==
  /\ ~Dead(p) /\ work[p] = "none"
  /\ next' = [next EXCEPT ![p] = file + 1]
  /\ work' = [work EXCEPT ![p] = "read"]
  /\ UNCHANGED <<vars, file, issued>>

(* Read the file and add one.                                              *)
ReadCurrent(p) ==
  /\ Holds(p) /\ work[p] = "none"
  /\ next' = [next EXCEPT ![p] = file + 1]
  /\ work' = [work EXCEPT ![p] = "read"]
  /\ UNCHANGED <<vars, file, issued>>

(* The rename of the written temporary file onto the generation file.      *)
Commit(p) ==
  /\ Holds(p) /\ work[p] = "read"
  /\ file' = next[p]
  /\ issued' = issued \cup {[gen |-> next[p], to |-> Mine(p)]}
  /\ work' = [work EXCEPT ![p] = "done"]
  /\ UNCHANGED <<vars, next>>

(* A read, write or rename fails: the lock is still released, the caller   *)
(* gets the error instead of a generation.                                 *)
FileFault(p) ==
  /\ Holds(p) /\ work[p] \in {"none", "read"}
  /\ work' = [work EXCEPT ![p] = "done"]
  /\ UNCHANGED <<vars, file, next, issued>>

(* Release without waiting: one that cannot be proven fails the call       *)
(* and stays pending in the lock primitive.                                *)
Finish(p) ==
  /\ work[p] = "done"
  /\ Release(p)
  /\ work' = [work EXCEPT ![p] = "none"]
  /\ UNCHANGED <<file, next, issued>>

Disturb(p) == (Fault(p) \/ Die(p)) /\ UNCHANGED fileVars

FileNext == \E p \in Proc :
  \/ Attempt(p) \/ LockProgress(p) \/ Disturb(p)
  \/ ReadCurrent(p) \/ Commit(p) \/ FileFault(p) \/ Finish(p)

FileSpec == FileInit /\ [][FileNext]_allVars

-----------------------------------------------------------------------------
(* The generation a holder computed is still one more than the file says,  *)
(* although others ran, died and broke locks since it read the file.       *)
ReadIsCurrent ==
  \A p \in Proc : Holds(p) /\ work[p] = "read" => next[p] = file + 1

(* No published generation exceeds what the file remembers, so no later    *)
(* allocation can repeat one.                                              *)
FileRemembersIssued == \A a \in issued : a.gen \in 1 .. file

(* Each publication hands out a generation above all earlier ones.         *)
Allocator == INSTANCE GenerationAllocator
Fenced == Allocator!Spec
=============================================================================
