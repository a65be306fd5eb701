----------------------- MODULE AcpControllerGeneration -----------------------
(***************************************************************************)
(* allocateAcpRuntimeHostControllerGeneration of                           *)
(* backend/acp-runtime-host-controller.cts: Farming servers number         *)
(* themselves through a generation file guarded by a lock directory of     *)
(* its own, older than ProcessFileLock.  A breaker of a stale lock moves   *)
(* the directory aside first and looks at what it moved afterwards.        *)
(*                                                                         *)
(* One element of Proc is one process, which runs at most one allocation   *)
(* at a time.  MaxRunning bounds how many processes allocate at once, and  *)
(* Disturbances names what may happen to them apart from dying elsewhere:  *)
(* "stall", a live process needs more than staleLockMs between two steps;  *)
(* "breaker_dies", a process dies with a directory moved aside.            *)
(***************************************************************************)
EXTENDS Integers, FiniteSets

CONSTANTS Proc,        \* processes
          MaxClaims,   \* bound: lock directories one process may publish
          MaxRunning,  \* how many processes may be allocating at a time
          Disturbances,
          None         \* no directory, or no owner read

(* A lock directory is known by the claim it was created for (its inode    *)
(* and its nonce); "owned" says that owner.json is still in it.            *)
Claim == [owner : Proc, seq : 1 .. MaxClaims]
Dir == [claim : Claim, owned : BOOLEAN]

VARIABLES lock,    \* the directory at the lock path
          pc,      \* where each process is; "dead" once it died
          seq,     \* directories this process has published
          inode,   \* the directory a breaker looked at with stat
          nonce,   \* the owner it read, None when it read no owner
          moved,   \* the directory it moved aside
          file,    \* the generation file; 0 while it is absent
          next,    \* the generation computed from what was read
          issued   \* every generation published, with the claim it went to

vars == <<lock, pc, seq, inode, nonce, moved, file, next, issued>>
breakerVars == <<inode, nonce, moved>>
fileVars == <<file, next, issued>>

Breaking == {"stat", "owner", "recheck", "move", "settle"}
Holding == {"read", "commit"}
Releasing == {"verify", "unlink", "rmdir"}

TypeOK ==
  /\ lock \in Dir \cup {None}
  /\ pc \in [Proc -> {"idle", "publish", "dead"} \cup Breaking \cup Holding
                      \cup Releasing]
  /\ seq \in [Proc -> 0 .. MaxClaims]
  /\ inode \in [Proc -> Claim \cup {None}]
  /\ nonce \in [Proc -> Claim \cup {None}]
  /\ moved \in [Proc -> Dir \cup {None}]
  /\ file \in Nat
  /\ next \in [Proc -> Nat]
  /\ issued \in SUBSET [gen : Nat, to : Claim]

Init ==
  /\ lock = None
  /\ pc = [p \in Proc |-> "idle"]
  /\ seq = [p \in Proc |-> 0]
  /\ inode = [p \in Proc |-> None]
  /\ nonce = [p \in Proc |-> None]
  /\ moved = [p \in Proc |-> None]
  /\ file = 0
  /\ next = [p \in Proc |-> 0]
  /\ issued = {}

Goto(p, phase) == pc' = [pc EXCEPT ![p] = phase]
Running == {p \in Proc : pc[p] \notin {"idle", "dead"}}
Mine(p) == [owner |-> p, seq |-> seq[p]]
OwnerAt(dir) == IF dir = None \/ ~dir.owned THEN None ELSE dir.claim
Absent == lock = None
Vacant == OwnerAt(lock) = None

-----------------------------------------------------------------------------
(* Acquisition.                                                            *)

Begin(p) ==
  /\ pc[p] = "idle"
  /\ seq[p] < MaxClaims
  /\ Cardinality(Running) < MaxRunning
  /\ Goto(p, "publish")
  /\ UNCHANGED <<lock, seq, breakerVars, fileVars>>

(* Rename of the complete candidate onto the lock path, which replaces an  *)
(* absent or an empty directory; otherwise the holder is looked at.        *)
Publish(p) ==
  /\ pc[p] = "publish"
  /\ \/ /\ Vacant
        /\ seq' = [seq EXCEPT ![p] = @ + 1]
        /\ lock' = [claim |-> [owner |-> p, seq |-> seq[p] + 1], owned |-> TRUE]
        /\ Goto(p, "read")
     \/ /\ ~Vacant
        /\ Goto(p, "stat")
        /\ UNCHANGED <<lock, seq>>
  /\ UNCHANGED <<breakerVars, fileVars>>

(* The age of the directory: a young one, or one that went away (ENOENT),  *)
(* leads to the retry delay.  It grows old when its owner is dead; one     *)
(* that was emptied since Publish failed is young unless p itself stalled. *)
Stat(p) ==
  /\ pc[p] = "stat"
  /\ \/ Goto(p, "publish") /\ UNCHANGED inode
     \/ /\ ~Absent
        /\ \/ lock.owned /\ pc[lock.claim.owner] = "dead"
           \/ "stall" \in Disturbances
        /\ inode' = [inode EXCEPT ![p] = lock.claim]
        /\ Goto(p, "owner")
  /\ UNCHANGED <<lock, seq, nonce, moved, fileVars>>

(* Variant: the directory is remembered instead of the nonce in it.        *)
ReadWholeOwner(p) ==
  /\ pc[p] = "owner"
  /\ nonce' = [nonce EXCEPT ![p] = lock]
  /\ Goto(p, IF OwnerAt(lock) = None THEN "move"
             ELSE IF pc[lock.claim.owner] = "dead" THEN "recheck"
             ELSE "publish")
  /\ UNCHANGED <<lock, seq, inode, moved, fileVars>>

(* readOwner: an old directory without an owner is moved aside unchecked,  *)
(* one whose owner's PID is gone goes on to the second readOwner, and one  *)
(* whose owner lives is left alone.                                        *)
ReadOwner(p) ==
  /\ pc[p] = "owner"
  /\ nonce' = [nonce EXCEPT ![p] = OwnerAt(lock)]
  /\ Goto(p, IF OwnerAt(lock) = None THEN "move"
             ELSE IF pc[lock.claim.owner] = "dead" THEN "recheck"
             ELSE "publish")
  /\ UNCHANGED <<lock, seq, inode, moved, fileVars>>

(* The second readOwner: the same nonce, or back to the retry delay.       *)
Recheck(p) ==
  /\ pc[p] = "recheck"
  /\ Goto(p, IF OwnerAt(lock) = nonce[p] THEN "move" ELSE "publish")
  /\ UNCHANGED <<lock, seq, breakerVars, fileVars>>

(* Rename of the lock path to a unique name: whatever is there by now.     *)
Move(p) ==
  /\ pc[p] = "move"
  /\ moved' = [moved EXCEPT ![p] = lock]
  /\ lock' = None
  /\ Goto(p, "settle")
  /\ UNCHANGED <<seq, inode, nonce, fileVars>>

(* What was moved is deleted when it is what was meant, and put back onto  *)
(* an absent or empty lock path when it has another owner.                 *)
Meant(p) == /\ OwnerAt(moved[p]) = nonce[p]
            /\ nonce[p] = None => moved[p] # None /\ moved[p].claim = inode[p]

(* Variant: a directory moved by mistake is not put back.                  *)
SettleDiscarding(p) ==
  /\ pc[p] = "settle"
  /\ moved' = [moved EXCEPT ![p] = None]
  /\ Goto(p, "publish")
  /\ UNCHANGED <<lock, seq, inode, nonce, fileVars>>

Settle(p) ==
  /\ pc[p] = "settle"
  /\ lock' = IF ~Meant(p) /\ OwnerAt(moved[p]) # None /\ Vacant
             THEN moved[p] ELSE lock
  /\ moved' = [moved EXCEPT ![p] = None]
  /\ Goto(p, "publish")
  /\ UNCHANGED <<seq, inode, nonce, fileVars>>

(* The deadline passed, or a call failed with another error.               *)
GiveUp(p) ==
  /\ pc[p] = "publish"
  /\ Goto(p, "idle")
  /\ UNCHANGED <<lock, seq, breakerVars, fileVars>>

-----------------------------------------------------------------------------
(* The generation file, and the release.                                   *)

ReadCurrent(p) ==
  /\ pc[p] = "read"
  /\ next' = [next EXCEPT ![p] = file + 1]
  /\ Goto(p, "commit")
  /\ UNCHANGED <<lock, seq, breakerVars, file, issued>>

Commit(p) ==
  /\ pc[p] = "commit"
  /\ file' = next[p]
  /\ issued' = issued \cup {[gen |-> next[p], to |-> Mine(p)]}
  /\ Goto(p, "verify")
  /\ UNCHANGED <<lock, seq, breakerVars, next>>

(* A failed read or write of the generation file still releases the lock.  *)
FileFault(p) ==
  /\ pc[p] \in Holding
  /\ Goto(p, "verify")
  /\ UNCHANGED <<lock, seq, breakerVars, fileVars>>

(* Only the directory with the own nonce is removed.                       *)
Verify(p) ==
  /\ pc[p] = "verify"
  /\ Goto(p, IF OwnerAt(lock) = Mine(p) THEN "unlink" ELSE "idle")
  /\ UNCHANGED <<lock, seq, breakerVars, fileVars>>

(* The recursive removal: first owner.json, then the empty directory,      *)
(* each in whatever directory is at the lock path by then.                 *)
Unlink(p) ==
  /\ pc[p] = "unlink"
  /\ lock' = IF Absent THEN None ELSE [lock EXCEPT !.owned = FALSE]
  /\ Goto(p, "rmdir")
  /\ UNCHANGED <<seq, breakerVars, fileVars>>

Rmdir(p) ==
  /\ pc[p] = "rmdir"
  /\ lock' = IF Vacant THEN None ELSE lock
  /\ Goto(p, "idle")
  /\ UNCHANGED <<seq, breakerVars, fileVars>>

(* The process dies; what it moved aside stays aside.                      *)
Die(p) ==
  /\ pc[p] # "dead"
  /\ pc[p] = "settle" => "breaker_dies" \in Disturbances
  /\ Goto(p, "dead")
  /\ moved' = [moved EXCEPT ![p] = None]
  /\ UNCHANGED <<lock, seq, inode, nonce, fileVars>>

-----------------------------------------------------------------------------
Next == \E p \in Proc :
  \/ Begin(p) \/ Publish(p) \/ Stat(p) \/ ReadOwner(p) \/ Recheck(p)
  \/ Move(p) \/ Settle(p) \/ GiveUp(p)
  \/ ReadCurrent(p) \/ Commit(p) \/ FileFault(p)
  \/ Verify(p) \/ Unlink(p) \/ Rmdir(p) \/ Die(p)

Spec == Init /\ [][Next]_vars

-----------------------------------------------------------------------------
(* No two processes work on the generation file at the same time.          *)
OneWriter == \A p, q \in Proc : pc[p] \in Holding /\ pc[q] \in Holding => p = q

(* What a writer computed is still one more than what the file says.       *)
ReadIsCurrent == \A p \in Proc : pc[p] = "commit" => next[p] = file + 1

(* Each generation published is above all earlier ones.                    *)
Allocator == INSTANCE GenerationAllocator
Fenced == Allocator!Spec
=============================================================================
