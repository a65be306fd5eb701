--------------------- MODULE NativePtyGeneration_proofs ---------------------
(***************************************************************************)
(* For every number of processes: the lock is exclusive and recovers from  *)
(* dead owners without breaking a live claim (ProcessFileLock), and a      *)
(* generation allocated under it is above every generation allocated       *)
(* before it (NativePtyGeneration); and the same for the ACP controllers   *)
(* and their older lock, two at a time (AcpControllerGeneration).          *)
(*                                                                         *)
(* The lock: a claim on disk always carries its owner's latest sequence    *)
(* number, so a breaker's stale observation can never equal a later claim; *)
(* and two breakers that still face the claim they observed would need the *)
(* same marker in the same directory.                                      *)
(*                                                                         *)
(* The generations: only one process is between its read of the file and   *)
(* its rename, so the file is still what that process read.                *)
(*                                                                         *)
(* The older lock: of two processes at most one is a live holder, and its  *)
(* directory is at the lock path or in the hands of the other, which puts  *)
(* it back because it is not the one that it judged dead.                  *)
(***************************************************************************)
EXTENDS Generations, FiniteSetTheorems, TLAPS

Breaking == {"reread", "break", "unmark"}

(* Process p is inside tryReclaimDeadClaim, past its marker, and the       *)
(* directory at the lock path still holds the claim it observed.           *)
Pinned(p) == pc[p] \in Breaking /\ lock.claim = seen[p]

(* Claims on disk and in memory are no newer than their owner.             *)
ClaimsFresh ==
  /\ Locked => lock.claim.seq = seq[lock.claim.owner]
  /\ \A p \in Proc : seen[p] # NoClaim => seen[p].seq <= seq[seen[p].owner]

OwnerHolds ==
  \A p \in Proc :
    pc[p] \in {"held", "rename"} => Locked /\ lock.claim = Mine(p)

Observed ==
  \A p \in Proc :
    /\ pc[p] \in {"judge", "mark"} \cup Breaking => seen[p] # NoClaim
    /\ pc[p] \in {"mark"} \cup Breaking => Dead(seen[p].owner)

Pins ==
  /\ \A p \in Proc : pc[p] = "break" => lock.claim = seen[p]
  /\ \A p \in Proc : Pinned(p) => seen[p] \in lock.markers
  /\ \A p, q \in Proc : Pinned(p) /\ Pinned(q) => p = q

(* A process that will publish has not used up its claims, and nothing is  *)
(* left to release while a process acquires or holds.                      *)
WithinBound ==
  \A p \in Proc :
    /\ pc[p] \in Acquiring => seq[p] < MaxClaims
    /\ pc[p] \in Releasing /\ pending[p] => seq[p] < MaxClaims
    /\ pc[p] \in Acquiring \cup {"held"} => ~pending[p]

IInv == /\ TypeOK /\ WithinBound /\ ClaimsFresh /\ OwnerHolds
        /\ LiveClaimAccounted /\ Observed /\ Pins

LEMMA InitIInv == Init => IInv
BY MaxClaimsAssumption, NoClaimAssumption
   DEF Init, IInv, TypeOK, WithinBound, ClaimsFresh, OwnerHolds,
       LiveClaimAccounted, Observed, Pins, Pinned, Breaking, NoLock, Locked,
       Phases, Acquiring, Releasing, Claim

-----------------------------------------------------------------------------
(* Every step preserves the type invariant and the bound.                  *)

LEMMA ClaimsInRange ==
  ASSUME TypeOK, NEW p \in Proc, seq[p] < MaxClaims
  PROVE  Candidate(p) \in Claim
BY MaxClaimsAssumption DEF TypeOK, Candidate, Claim

LEMMA TypeNext ==
  ASSUME TypeOK, WithinBound, Observed, [Next]_vars
  PROVE  TypeOK' /\ WithinBound'
<1> USE DEF Goto, Phases, Acquiring, Releasing
<1>0. CASE UNCHANGED vars
  BY <1>0 DEF vars, TypeOK, WithinBound
<1>1. ASSUME NEW p \in Proc, Begin(p) PROVE TypeOK' /\ WithinBound'
  BY <1>1 DEF TypeOK, WithinBound, Begin
<1>2. ASSUME NEW p \in Proc, Stage(p) PROVE TypeOK' /\ WithinBound'
  BY <1>2, ClaimsInRange, MaxClaimsAssumption DEF TypeOK, WithinBound, Stage, Candidate, Claim
<1>3. ASSUME NEW p \in Proc, Publish(p) PROVE TypeOK' /\ WithinBound'
  BY <1>3, ClaimsInRange, MaxClaimsAssumption, SMTT(60) DEF TypeOK, WithinBound, Publish, Candidate, Claim
<1>4. ASSUME NEW p \in Proc, Inspect(p) PROVE TypeOK' /\ WithinBound'
  BY <1>4 DEF TypeOK, WithinBound, Inspect
<1>5. ASSUME NEW p \in Proc, JudgeDead(p) PROVE TypeOK' /\ WithinBound'
  BY <1>5 DEF TypeOK, WithinBound, JudgeDead
<1>6. ASSUME NEW p \in Proc, JudgeUnproven(p) PROVE TypeOK' /\ WithinBound'
  BY <1>6 DEF TypeOK, WithinBound, JudgeUnproven
<1>7. ASSUME NEW p \in Proc, Mark(p) PROVE TypeOK' /\ WithinBound'
  <2>1. seen[p] \in Claim
    BY <1>7, NoClaimAssumption DEF Mark, Observed, TypeOK
  <2>2. lock' \in [claim : Claim \cup {NoClaim}, markers : SUBSET Claim]
    BY <1>7, <2>1 DEF Mark, TypeOK
  <2>3. TypeOK'
    BY <1>7, <2>2, ZenonT(60) DEF TypeOK, Mark, AfterReclaim
  <2>4. WithinBound'
    BY <1>7 DEF TypeOK, WithinBound, Mark, AfterReclaim
  <2> QED
    BY <2>3, <2>4
<1>8. ASSUME NEW p \in Proc, RereadSame(p) PROVE TypeOK' /\ WithinBound'
  BY <1>8 DEF TypeOK, WithinBound, RereadSame
<1>9. ASSUME NEW p \in Proc, RereadOther(p) PROVE TypeOK' /\ WithinBound'
  BY <1>9 DEF TypeOK, WithinBound, RereadOther
<1>10. ASSUME NEW p \in Proc, Break(p) PROVE TypeOK' /\ WithinBound'
  BY <1>10 DEF TypeOK, WithinBound, Break, NoLock
<1>11. ASSUME NEW p \in Proc, Unmark(p) PROVE TypeOK' /\ WithinBound'
  BY <1>11, ZenonT(60) DEF TypeOK, WithinBound, Unmark, AfterReclaim
<1>12. ASSUME NEW p \in Proc, Blocked(p) PROVE TypeOK' /\ WithinBound'
  BY <1>12 DEF TypeOK, WithinBound, Blocked
<1>13. ASSUME NEW p \in Proc, Verify(p) PROVE TypeOK' /\ WithinBound'
  <2>1. TypeOK'
    BY <1>13 DEF TypeOK, Verify, Released
  <2>2. CASE pending[p]
    BY <1>13, <2>1, <2>2 DEF TypeOK, WithinBound, Verify, Released
  <2>3. CASE ~pending[p]
    BY <1>13, <2>1, <2>3 DEF TypeOK, WithinBound, Verify, Released
  <2> QED
    BY <2>1, <2>2, <2>3
<1>14. ASSUME NEW p \in Proc, Rename(p) PROVE TypeOK' /\ WithinBound'
  <2>0. lock' \in [claim : Claim \cup {NoClaim}, markers : SUBSET Claim]
    BY <1>14 DEF TypeOK, Rename, NoLock
  <2>1. TypeOK'
    BY <1>14, <2>0 DEF TypeOK, Rename, Released
  <2>2. CASE pending[p]
    BY <1>14, <2>1, <2>2 DEF TypeOK, WithinBound, Rename, Released
  <2>3. CASE ~pending[p]
    BY <1>14, <2>1, <2>3 DEF TypeOK, WithinBound, Rename, Released
  <2> QED
    BY <2>1, <2>2, <2>3
<1>15. ASSUME NEW p \in Proc, Unproven(p) PROVE TypeOK' /\ WithinBound'
  <2>1. CASE waits[p] /\ Goto(p, "verify") /\ UNCHANGED pending
    BY <1>15, <2>1 DEF TypeOK, WithinBound, Unproven
  <2>2. CASE pending' = [pending EXCEPT ![p] = TRUE] /\ Goto(p, "idle")
    <3>1. TypeOK'
      BY <1>15, <2>2 DEF TypeOK, Unproven
    <3>2. WithinBound'
      BY <1>15, <2>2 DEF TypeOK, WithinBound, Unproven
    <3> QED
      BY <3>1, <3>2
  <2> QED
    BY <1>15, <2>1, <2>2 DEF Unproven
<1>16. ASSUME NEW p \in Proc, Release(p) PROVE TypeOK' /\ WithinBound'
  BY <1>16 DEF TypeOK, WithinBound, Release
<1>17. ASSUME NEW p \in Proc, Fault(p) PROVE TypeOK' /\ WithinBound'
  BY <1>17, ClaimsInRange, MaxClaimsAssumption, ZenonT(60) DEF TypeOK, WithinBound, Fault, AfterReclaim
<1>18. ASSUME NEW p \in Proc, Die(p) PROVE TypeOK' /\ WithinBound'
  BY <1>18 DEF TypeOK, WithinBound, Die
<1> QED
  BY <1>0, <1>1, <1>2, <1>3, <1>4, <1>5, <1>6, <1>7, <1>8, <1>9, <1>10,
     <1>11, <1>12, <1>13, <1>14, <1>15, <1>16, <1>17, <1>18
     DEF Next, LockStep, AcquireStep, ReleaseStep

-----------------------------------------------------------------------------
(* The parts of the invariant about claims and observations.               *)

(* Steps that leave the directory, the sequence numbers and all            *)
(* observations alone.                                                     *)
Local(p) == \/ Begin(p) \/ Stage(p) \/ JudgeDead(p) \/ JudgeUnproven(p)
            \/ RereadSame(p) \/ RereadOther(p) \/ Blocked(p) \/ Release(p)
            \/ Verify(p) \/ Unproven(p) \/ Fault(p) \/ Die(p)

LEMMA LocalSteps ==
  ASSUME NEW p \in Proc, Local(p)
  PROVE  UNCHANGED <<lock, seq, seen>>
BY DEF Local, Begin, Stage, JudgeDead, JudgeUnproven, RereadSame,
       RereadOther, Blocked, Release, Verify, Unproven, Fault, Die

LEMMA StepCases ==
  ASSUME [Next]_vars
  PROVE  \/ UNCHANGED vars
         \/ \E p \in Proc : \/ Local(p) \/ Publish(p) \/ Inspect(p) \/ Mark(p)
                            \/ Break(p) \/ Unmark(p) \/ Rename(p)
BY DEF Next, LockStep, AcquireStep, ReleaseStep, Local

LEMMA ClaimsFreshNext ==
  ASSUME TypeOK, WithinBound, ClaimsFresh, [Next]_vars
  PROVE  ClaimsFresh'
<1>0. CASE UNCHANGED vars
  BY <1>0 DEF vars, ClaimsFresh, Locked
<1>1. ASSUME NEW p \in Proc, Local(p) PROVE ClaimsFresh'
  BY <1>1, LocalSteps DEF ClaimsFresh, Locked
<1>2. ASSUME NEW p \in Proc, Publish(p) PROVE ClaimsFresh'
  BY <1>2 DEF ClaimsFresh, Locked, Publish, Candidate, TypeOK, Claim
<1>3. ASSUME NEW p \in Proc, Inspect(p) PROVE ClaimsFresh'
  BY <1>3 DEF ClaimsFresh, Locked, Inspect, TypeOK, Claim
<1>4. ASSUME NEW p \in Proc, Mark(p) \/ Unmark(p) PROVE ClaimsFresh'
  <2>1. UNCHANGED <<lock.claim, seq, seen>>
    BY <1>4 DEF Mark, Unmark, TypeOK
  <2> QED
    BY <2>1 DEF ClaimsFresh, Locked
<1>5. ASSUME NEW p \in Proc, Break(p) \/ Rename(p) PROVE ClaimsFresh'
  BY <1>5 DEF ClaimsFresh, Locked, Break, Rename, NoLock
<1> QED
  BY <1>0, <1>1, <1>2, <1>3, <1>4, <1>5, StepCases

LEMMA DeadStaysDead ==
  ASSUME TypeOK, [Next]_vars, NEW q \in Proc, Dead(q)
  PROVE  Dead(q)'
<1> USE DEF Goto, Dead, TypeOK
<1>0. CASE UNCHANGED vars
  BY <1>0 DEF vars
<1>1. ASSUME NEW p \in Proc, Local(p) PROVE Dead(q)'
  BY <1>1 DEF Local, Begin, Stage, JudgeDead, JudgeUnproven, RereadSame,
     RereadOther, Blocked, Release, Verify, Released, Unproven, Fault,
     AfterReclaim, Die
<1>2. ASSUME NEW p \in Proc, Publish(p) \/ Inspect(p) \/ Break(p)
      PROVE  Dead(q)'
  BY <1>2 DEF Publish, Inspect, Break
<1>3. ASSUME NEW p \in Proc, Mark(p) \/ Unmark(p) \/ Rename(p)
      PROVE  Dead(q)'
  BY <1>3 DEF Mark, Unmark, AfterReclaim, Rename, Released
<1> QED
  BY <1>0, <1>1, <1>2, <1>3, StepCases

LEMMA ObservedNext ==
  ASSUME TypeOK, Observed, [Next]_vars, NEW q \in Proc
  PROVE  /\ (pc[q] \in {"judge", "mark"} \cup Breaking => seen[q] # NoClaim)'
         /\ (pc[q] \in {"mark"} \cup Breaking => Dead(seen[q].owner))'
<1> USE DEF Goto, Breaking
<1> DEFINE Early == pc[q] \in {"judge", "mark"} \cup Breaking
           Late == pc[q] \in {"mark"} \cup Breaking
<1>0. \A r \in Proc : Dead(r) => Dead(r)'
  BY DeadStaysDead
<1>1. CASE UNCHANGED vars
  BY <1>1 DEF vars, Observed, Dead
<1>2. ASSUME NEW p \in Proc, Local(p)
      PROVE  /\ UNCHANGED seen
             /\ Early' => Early
             /\ Late' => Late \/ (Early /\ Dead(seen[q].owner))
  BY <1>2 DEF TypeOK, Local, Begin, Stage, JudgeDead, JudgeUnproven,
     RereadSame, RereadOther, Blocked, Release, Verify, Released, Unproven,
     Fault, AfterReclaim, Die
<1>3. ASSUME NEW p \in Proc, Publish(p) \/ Break(p) \/ Rename(p)
      PROVE  UNCHANGED seen /\ (Early' => Early) /\ (Late' => Late)
  BY <1>3 DEF TypeOK, Publish, Break, Rename, Released
<1>4. ASSUME NEW p \in Proc, Mark(p) \/ Unmark(p)
      PROVE  UNCHANGED seen /\ (Early' => Early) /\ (Late' => Late)
  BY <1>4 DEF TypeOK, Mark, Unmark, AfterReclaim
<1>5. ASSUME NEW p \in Proc, Inspect(p)
      PROVE  /\ Early' => seen'[q] # NoClaim
             /\ Late' => Late /\ seen'[q] = seen[q]
  BY <1>5 DEF TypeOK, Inspect, Locked, Observed
<1>6. seen[q] # NoClaim => seen[q].owner \in Proc
  BY DEF TypeOK, Claim
<1> QED
  BY <1>0, <1>1, <1>2, <1>3, <1>4, <1>5, <1>6, StepCases DEF Observed, Dead

(* A breaker renames away a dead process's claim.                          *)
LEMMA BreakTakesDead ==
  ASSUME IInv, NEW p \in Proc, Break(p), NEW q \in Proc, ~Dead(q)
  PROVE  lock.claim # Mine(q)
BY DEF IInv, Pins, Observed, Breaking, Break, Mine, Dead

LEMMA OwnerHoldsNext ==
  ASSUME IInv, [Next]_vars, NEW q \in Proc
  PROVE  (pc[q] \in {"held", "rename"} => Locked /\ lock.claim = Mine(q))'
<1> USE DEF Goto, Mine, Locked
<1> DEFINE Owns == pc[q] \in {"held", "rename"}
<1>0. TypeOK /\ (Owns => Locked /\ lock.claim = Mine(q))
  BY DEF IInv, OwnerHolds
<1>1. CASE UNCHANGED vars
  BY <1>0, <1>1 DEF vars
<1>2. ASSUME NEW p \in Proc, Local(p)
      PROVE  Owns' => Owns \/ (p = q /\ Locked /\ lock.claim = Mine(q))
  <2>1. CASE Begin(p) \/ Stage(p) \/ JudgeDead(p) \/ JudgeUnproven(p)
    BY <1>0, <2>1 DEF TypeOK, Begin, Stage, JudgeDead, JudgeUnproven
  <2>2. CASE RereadSame(p) \/ RereadOther(p) \/ Blocked(p) \/ Release(p)
    BY <1>0, <2>2 DEF TypeOK, RereadSame, RereadOther, Blocked, Release
  <2>3. CASE Verify(p)
    BY <1>0, <2>3 DEF TypeOK, Verify, Released
  <2>4. CASE Unproven(p) \/ Fault(p) \/ Die(p)
    BY <1>0, <2>4 DEF TypeOK, Unproven, Fault, AfterReclaim, Die
  <2> QED
    BY <1>2, <2>1, <2>2, <2>3, <2>4 DEF Local
<1>3. ASSUME NEW p \in Proc, Publish(p) PROVE Owns' => (Locked /\ lock.claim = Mine(q))'
  <2>1. CASE p = q
    <3>1. seq[p] < MaxClaims
      BY <1>3 DEF IInv, WithinBound, Acquiring, Publish
    <3>2. Candidate(p) # NoClaim
      BY <1>0, <3>1, ClaimsInRange, NoClaimAssumption
    <3>3. CASE ~Locked /\ Candidate(p) \in staged
      BY <1>0, <1>3, <2>1, <3>2, <3>3 DEF TypeOK, Publish, Candidate
    <3>4. CASE Locked \/ Candidate(p) \notin staged
      BY <1>0, <1>3, <2>1, <3>4 DEF TypeOK, Publish
    <3> QED
      BY <3>3, <3>4
  <2>2. CASE p # q /\ Locked
    BY <1>0, <1>3, <2>2 DEF TypeOK, Publish
  <2>3. CASE p # q /\ ~Locked
    <3>1. Owns' => Owns
      BY <1>0, <1>3, <2>3 DEF TypeOK, Publish
    <3>2. ~Owns
      BY <1>0, <2>3
    <3> QED
      BY <3>1, <3>2
  <2> QED
    BY <2>1, <2>2, <2>3
<1>4. ASSUME NEW p \in Proc, Inspect(p) \/ Mark(p) \/ Unmark(p)
      PROVE  UNCHANGED <<lock.claim, seq>> /\ (Owns' => Owns)
  BY <1>0, <1>4 DEF TypeOK, Inspect, Mark, Unmark, AfterReclaim
<1>5. ASSUME NEW p \in Proc, Break(p) PROVE ~Owns'
  <2>1. Owns' => Owns /\ ~Dead(q)
    BY <1>0, <1>5 DEF TypeOK, Break, Dead
  <2> QED
    BY <1>0, <1>5, <2>1, BreakTakesDead
<1>6. ASSUME NEW p \in Proc, Rename(p) PROVE ~Owns'
  <2>1. pc[p] = "rename" /\ lock.claim = Mine(p)
    BY <1>6 DEF IInv, OwnerHolds, Rename
  <2>2. Owns' => Owns /\ p # q
    BY <1>0, <1>6 DEF TypeOK, Rename, Released
  <2> QED
    BY <1>0, <2>1, <2>2
<1> QED
  BY <1>0, <1>1, <1>2, <1>3, <1>4, <1>5, <1>6, StepCases, LocalSteps

LEMMA LiveClaimAccountedNext ==
  ASSUME IInv, [Next]_vars, NEW q \in Proc
  PROVE  (Locked /\ lock.claim.owner = q =>
            \/ pc[q] \in {"held", "dead"} \cup Releasing
            \/ pc[q] = "idle" /\ pending[q])'
<1> USE DEF Goto, Mine, Releasing
<1> DEFINE Named == Locked /\ lock.claim.owner = q
           Aware == \/ pc[q] \in {"held", "dead"} \cup Releasing
                    \/ pc[q] = "idle" /\ pending[q]
<1>0. TypeOK /\ (Named => Aware /\ lock.claim = Mine(q))
  BY DEF IInv, LiveClaimAccounted, ClaimsFresh, TypeOK, Locked, Claim
<1>1. CASE UNCHANGED vars
  BY <1>0, <1>1 DEF vars, Locked
<1>2. ASSUME NEW p \in Proc, Local(p) PROVE Named' => Aware'
  <2>1. Named' => Named
    BY <1>2, LocalSteps DEF Locked
  <2>2. CASE Begin(p)
    BY <1>0, <2>1, <2>2 DEF TypeOK, Begin
  <2>3. CASE Stage(p) \/ JudgeDead(p) \/ JudgeUnproven(p)
    BY <1>0, <2>1, <2>3 DEF TypeOK, Stage, JudgeDead, JudgeUnproven
  <2>4. CASE RereadSame(p) \/ RereadOther(p) \/ Blocked(p) \/ Release(p)
    BY <1>0, <2>1, <2>4 DEF TypeOK, RereadSame, RereadOther, Blocked, Release
  <2>5. CASE Verify(p)
    BY <1>0, <2>1, <2>5 DEF TypeOK, Verify, Released, Locked
  <2>6. CASE Unproven(p)
    BY <1>0, <2>1, <2>6 DEF TypeOK, Unproven
  <2>7. CASE Fault(p)
    BY <1>0, <2>1, <2>7 DEF TypeOK, Fault, AfterReclaim
  <2>8. CASE Die(p)
    BY <1>0, <2>1, <2>8 DEF TypeOK, Die
  <2> QED
    BY <1>2, <2>2, <2>3, <2>4, <2>5, <2>6, <2>7, <2>8 DEF Local
<1>3. ASSUME NEW p \in Proc, Publish(p) PROVE Named' => Aware'
  BY <1>0, <1>3 DEF TypeOK, Publish, Candidate, Locked
<1>4. ASSUME NEW p \in Proc, Inspect(p) \/ Mark(p) \/ Unmark(p)
      PROVE  Named' => Aware'
  BY <1>0, <1>4 DEF TypeOK, Inspect, Mark, Unmark, AfterReclaim, Locked
<1>5. ASSUME NEW p \in Proc, Break(p) \/ Rename(p) PROVE Named' => Aware'
  BY <1>0, <1>5 DEF Break, Rename, NoLock, Locked
<1> QED
  BY <1>1, <1>2, <1>3, <1>4, <1>5, StepCases

(* The three facts about breakers, for two of them at a time.              *)
LEMMA PinsNext ==
  ASSUME IInv, [Next]_vars, NEW q \in Proc, NEW r \in Proc
  PROVE  /\ (pc[q] = "break" => lock.claim = seen[q])'
         /\ (Pinned(q) => seen[q] \in lock.markers)'
         /\ (Pinned(q) /\ Pinned(r) => q = r)'
<1> USE DEF Goto, Pinned, Breaking
<1>0. /\ TypeOK /\ Observed
      /\ \A p \in Proc : pc[p] = "break" => lock.claim = seen[p]
      /\ \A p \in Proc : Pinned(p) => seen[p] \in lock.markers
      /\ \A p1, p2 \in Proc : Pinned(p1) /\ Pinned(p2) => p1 = p2
  BY DEF IInv, Pins
<1> DEFINE Goal(u) == /\ (pc[u] = "break" => lock.claim = seen[u])'
                      /\ (Pinned(u) => seen[u] \in lock.markers)'
<1>1. CASE UNCHANGED vars
  BY <1>0, <1>1 DEF vars
<1>2. ASSUME NEW p \in Proc, Local(p)
      PROVE  /\ Goal(q) /\ (Pinned(q)' => Pinned(q))
             /\ Pinned(r)' => Pinned(r)
  <2>1. UNCHANGED <<lock, seen>>
    BY <1>2, LocalSteps
  <2>2. \A u \in Proc : (pc[u] \in Breaking)' => pc[u] \in Breaking
    BY <1>0, <1>2 DEF TypeOK, Local, Begin, Stage, JudgeDead, JudgeUnproven,
       RereadSame, RereadOther, Blocked, Release, Verify, Released, Unproven,
       Fault, AfterReclaim, Die
  <2>3. (pc[q] = "break")' => pc[q] = "break" \/ lock.claim = seen[q]
    BY <1>0, <1>2 DEF TypeOK, Local, Begin, Stage, JudgeDead, JudgeUnproven,
       RereadSame, RereadOther, Blocked, Release, Verify, Released, Unproven,
       Fault, AfterReclaim, Die
  <2> QED
    BY <1>0, <2>1, <2>2, <2>3
<1>3. ASSUME NEW p \in Proc, Publish(p)
      PROVE  Goal(q) /\ (Pinned(q)' => Pinned(q)) /\ (Pinned(r)' => Pinned(r))
  <2>1. \A u \in Proc : u # p => pc'[u] = pc[u]
    BY <1>0, <1>3 DEF TypeOK, Publish
  <2>2. pc'[p] \notin Breaking /\ UNCHANGED seen
    BY <1>0, <1>3 DEF TypeOK, Publish
  <2>3. lock' = lock \/ (~Locked /\ lock'.claim = Candidate(p))
    BY <1>3 DEF Publish
  <2>4. \A u \in Proc : seen[u] # NoClaim => seen[u] # Candidate(p)
    BY <1>0 DEF IInv, ClaimsFresh, TypeOK, Candidate, Claim
  <2> QED
    BY <1>0, <2>1, <2>2, <2>3, <2>4 DEF Observed, Locked
<1>4. ASSUME NEW p \in Proc, Inspect(p)
      PROVE  Goal(q) /\ (Pinned(q)' => Pinned(q)) /\ (Pinned(r)' => Pinned(r))
  BY <1>0, <1>4 DEF TypeOK, Inspect
<1>5. ASSUME NEW p \in Proc, Mark(p)
      PROVE  Goal(q) /\ (Pinned(q)' /\ Pinned(r)' => q = r)
  <2>1. CASE lock' = lock /\ pc'[p] \notin Breaking
    BY <1>0, <1>5, <2>1 DEF TypeOK, Mark, AfterReclaim
  <2>2. CASE /\ seen[p] \notin lock.markers
             /\ lock' = [lock EXCEPT !.markers = @ \cup {seen[p]}]
    BY <1>0, <1>5, <2>2 DEF TypeOK, Mark, AfterReclaim
  <2> QED
    BY <1>0, <1>5, <2>1, <2>2 DEF TypeOK, Mark, AfterReclaim
<1>6. ASSUME NEW p \in Proc, Break(p) \/ Rename(p), NEW u \in Proc
      PROVE  Goal(u) /\ (Pinned(u)' => Pinned(u))
  <2>1. lock' = lock \/ lock'.claim = NoClaim
    BY <1>6 DEF Break, Rename, NoLock
  <2>2. UNCHANGED seen /\ ((pc[u] \in Breaking)' => pc[u] \in Breaking)
    BY <1>0, <1>6 DEF TypeOK, Break, Rename, Released
  <2>3. (pc[u] = "break")' => pc[u] = "break" /\ lock' = lock
    <3>1. CASE Break(p)
      BY <1>0, <3>1 DEF TypeOK, Break
    <3>2. CASE Rename(p) /\ pc[u] = "break"
      <4>1. lock.claim = Mine(p) /\ lock.claim = seen[u] /\ Dead(seen[u].owner)
        BY <1>0, <3>2 DEF IInv, OwnerHolds, Rename, Observed
      <4> QED
        BY <3>2, <4>1 DEF Rename, Mine, Dead
    <3>3. CASE Rename(p) /\ pc[u] # "break"
      BY <1>0, <3>3 DEF TypeOK, Rename, Released
    <3> QED
      BY <1>6, <3>1, <3>2, <3>3
  <2> QED
    BY <1>0, <2>1, <2>2, <2>3 DEF Observed
<1>7. ASSUME NEW p \in Proc, Unmark(p)
      PROVE  Goal(q) /\ (Pinned(q)' => Pinned(q)) /\ (Pinned(r)' => Pinned(r))
  BY <1>0, <1>7 DEF TypeOK, Unmark, AfterReclaim
<1> QED
  BY <1>0, <1>1, <1>2, <1>3, <1>4, <1>5, <1>6, <1>7, StepCases

LEMMA NextIInv == IInv /\ [Next]_vars => IInv'
<1> SUFFICES ASSUME IInv, [Next]_vars PROVE IInv'
  OBVIOUS
<1>1. TypeOK' /\ WithinBound'
  BY TypeNext DEF IInv
<1>2. ClaimsFresh'
  BY ClaimsFreshNext DEF IInv
<1>3. Observed'
  BY ObservedNext DEF IInv, Observed
<1>4. OwnerHolds'
  BY OwnerHoldsNext DEF OwnerHolds
<1>5. LiveClaimAccounted'
  BY LiveClaimAccountedNext DEF LiveClaimAccounted
<1>6. Pins'
  BY PinsNext DEF Pins
<1> QED
  BY <1>1, <1>2, <1>3, <1>4, <1>5, <1>6 DEF IInv

THEOREM InductiveInvariant == Spec => []IInv
BY InitIInv, NextIInv, PTL DEF Spec

-----------------------------------------------------------------------------
(* The properties the runs check, for every instance.                      *)

(* Type correctness of the lock protocol.                                  *)
THEOREM TypeCorrect == Spec => []TypeOK
BY InductiveInvariant, PTL DEF IInv

LEMMA IInvExclusive == IInv => MutualExclusion
<1>1. ASSUME IInv, NEW p \in Proc, Holds(p) PROVE lock.claim.owner = p
  <2>1. lock.claim = Mine(p)
    BY <1>1 DEF IInv, OwnerHolds, Holds
  <2> QED
    BY <2>1 DEF Mine
<1> QED
  BY <1>1 DEF MutualExclusion

(* Two processes never hold the same file lock, whatever crashed in        *)
(* between and however stale the observation a breaker acts on.            *)
THEOREM LockIsExclusive == Spec => []MutualExclusion
BY IInvExclusive, InductiveInvariant, PTL

(* The lock directory names the process that holds it.                     *)
THEOREM HolderIsNamed == Spec => []HolderIsPublished
<1>1. IInv => HolderIsPublished
  BY DEF IInv, OwnerHolds, HolderIsPublished, Holds
<1> QED
  BY <1>1, InductiveInvariant, PTL

(* A live process accounts for every claim it has on disk.                 *)
THEOREM ClaimsAreAccounted == Spec => []LiveClaimAccounted
BY InductiveInvariant, PTL DEF IInv

(* A breaker renames the lock path only while it still is what it saw.     *)
THEOREM BreakersAreCurrent == Spec => []BreakIsCurrent
<1>1. IInv => BreakIsCurrent
  BY DEF IInv, BreakIsCurrent, Pins, Pinned, Breaking, Observed
<1> QED
  BY <1>1, InductiveInvariant, PTL

(* No step takes a live process's claim off the lock path but that         *)
(* process's own release.                                                  *)
THEOREM LiveClaimsSurvive == Spec => LiveClaimNeverBroken
<1> DEFINE Fair == Locked /\ lock'.claim # lock.claim =>
                     /\ lock'.claim = NoClaim
                     /\ LET p == lock.claim.owner
                        IN  Dead(p) \/ (pc[p] = "rename" /\ pc'[p] # "rename")
<1>1. IInv /\ [Next]_vars => [Fair]_vars
  <2> SUFFICES ASSUME IInv, [Next]_vars, Locked, lock'.claim # lock.claim
               PROVE  Fair
    BY DEF Locked
  <2>0. TypeOK
    BY DEF IInv
  <2>1. CASE UNCHANGED vars
    BY <2>1 DEF vars
  <2>2. ASSUME NEW p \in Proc,
               Local(p) \/ Publish(p) \/ Inspect(p) \/ Mark(p) \/ Unmark(p)
        PROVE  FALSE
    BY <2>0, <2>2, LocalSteps DEF TypeOK, Publish, Inspect, Mark, Unmark
  <2>3. ASSUME NEW p \in Proc, Break(p) PROVE Fair
    BY <2>3 DEF IInv, Break, NoLock, Pins, Observed, Breaking
  <2>4. ASSUME NEW p \in Proc, Rename(p) PROVE Fair
    BY <2>0, <2>4 DEF IInv, TypeOK, Rename, Released, Goto, NoLock,
       OwnerHolds, Mine
  <2> QED
    BY <2>1, <2>2, <2>3, <2>4, StepCases
<1> QED
  BY <1>1, InductiveInvariant, PTL DEF Spec, LiveClaimNeverBroken
-----------------------------------------------------------------------------
(* Work in progress belongs to the process that holds, or that died.       *)
Working == \A p \in Proc : work[p] # "none" => pc[p] \in {"held", "dead"}

FileTypes ==
  /\ file \in Nat
  /\ work \in [Proc -> {"none", "read", "done"}]
  /\ next \in [Proc -> Nat]

FInv == /\ IInv /\ FileTypes /\ Working
        /\ ReadIsCurrent /\ FileRemembersIssued

LEMMA FileInitFInv == FileInit => FInv
BY InitIInv DEF FileInit, FInv, FileTypes, Working, ReadIsCurrent,
   FileRemembersIssued

(* The allocator takes the lock's own steps and no others.                 *)
LEMMA FileStepIsLockStep ==
  ASSUME [FileNext]_allVars
  PROVE  [Next]_vars
BY DEF FileNext, allVars, vars, Attempt, LockProgress, ReadCurrent, Commit,
   FileFault, Finish, Disturb, Next, LockStep

(* A lock step of one process does not make a process hold that has work   *)
(* in progress, nor take the lock from one.                                *)
LEMMA LockStepKeepsWorkers ==
  ASSUME TypeOK, Working, NEW p \in Proc,
         Begin(p) \/ AcquireStep(p) \/ ReleaseStep(p) \/ Fault(p) \/ Die(p),
         NEW q \in Proc, work[q] # "none"
  PROVE  pc'[q] \in {"held", "dead"} /\ (pc'[q] = "held" => pc[q] = "held")
<1> USE DEF TypeOK, Goto
<1>1. pc[q] \in {"held", "dead"}
  BY DEF Working
<1>2. CASE Begin(p) \/ Die(p)
  BY <1>1, <1>2 DEF Begin, Die
<1>3. CASE ReleaseStep(p)
  BY <1>1, <1>3 DEF ReleaseStep, Verify, Rename, Unproven, Released
<1>4. CASE Stage(p) \/ Publish(p) \/ Inspect(p) \/ JudgeDead(p) \/ JudgeUnproven(p)
  BY <1>1, <1>4 DEF Stage, Publish, Inspect, JudgeDead, JudgeUnproven
<1>5. CASE \/ Mark(p) \/ RereadSame(p) \/ RereadOther(p) \/ Break(p)
           \/ Unmark(p) \/ Blocked(p)
  BY <1>1, <1>5 DEF Mark, RereadSame, RereadOther, Break, Unmark, Blocked,
     AfterReclaim
<1>6. CASE Fault(p)
  BY <1>1, <1>6 DEF Fault, AfterReclaim
<1> QED
  BY <1>2, <1>3, <1>4, <1>5, <1>6 DEF AcquireStep

LEMMA FileNextFInv ==
  ASSUME FInv, [FileNext]_allVars
  PROVE  FInv'
<1> USE DEF FInv, FileTypes, Working, ReadIsCurrent, FileRemembersIssued, Holds
<1>0. IInv' /\ TypeOK
  BY FileStepIsLockStep, NextIInv DEF IInv
<1>1. CASE UNCHANGED allVars
  BY <1>0, <1>1 DEF allVars, vars, fileVars
<1>2. ASSUME NEW p \in Proc,
             \/ Attempt(p) \/ LockProgress(p) \/ Disturb(p)
      PROVE  FInv'
  <2>1. UNCHANGED fileVars
    BY <1>2 DEF Attempt, LockProgress, Disturb
  <2>2. Begin(p) \/ AcquireStep(p) \/ ReleaseStep(p) \/ Fault(p) \/ Die(p)
    BY <1>2 DEF Attempt, LockProgress, Disturb
  <2>3. \A q \in Proc : work[q] # "none" =>
          pc'[q] \in {"held", "dead"} /\ (pc'[q] = "held" => pc[q] = "held")
    BY <1>0, <2>2, LockStepKeepsWorkers
  <2> QED
    BY <1>0, <2>1, <2>3 DEF fileVars
<1>3. ASSUME NEW p \in Proc, ReadCurrent(p) PROVE FInv'
  BY <1>0, <1>3 DEF ReadCurrent, vars
<1>4. ASSUME NEW p \in Proc, Commit(p) PROVE FInv'
  <2>1. \A q \in Proc : Holds(q) => q = p
    BY <1>0, <1>4, IInvExclusive DEF MutualExclusion, Commit
  <2>2. file' = file + 1 /\ work'[p] = "done"
    BY <1>4 DEF Commit
  <2>3. /\ FileTypes' /\ Working'
    BY <1>0, <1>4, <2>2 DEF Commit, vars
  <2>4. ReadIsCurrent'
    BY <1>4, <2>1, <2>2 DEF Commit, vars
  <2>5. FileRemembersIssued'
    BY <1>4, <2>2 DEF Commit
  <2> QED
    BY <1>0, <2>3, <2>4, <2>5
<1>5. ASSUME NEW p \in Proc, FileFault(p) PROVE FInv'
  BY <1>0, <1>5 DEF FileFault, vars
<1>6. ASSUME NEW p \in Proc, Finish(p) PROVE FInv'
  <2>1. \A q \in Proc : q # p => pc'[q] = pc[q]
    BY <1>0, <1>6 DEF Finish, Release, Goto, TypeOK
  <2> QED
    BY <1>0, <1>6, <2>1 DEF Finish
<1> QED
  BY <1>1, <1>2, <1>3, <1>4, <1>5, <1>6 DEF FileNext

THEOREM FileInvariant == FileSpec => []FInv
BY FileInitFInv, FileNextFInv, PTL DEF FileSpec

(* Nobody changes the file between a holder's read and its rename.         *)
THEOREM ReadStaysCurrent == FileSpec => []ReadIsCurrent
BY FileInvariant, PTL DEF FInv

(* Generations are handed out in strictly increasing order.                *)
THEOREM GenerationsAreFenced == FileSpec => Fenced
<1>1. FileInit => Allocator!Init
  BY DEF FileInit, Allocator!Init
<1>2. FInv /\ [FileNext]_allVars => [Allocator!Issue]_issued
  <2> SUFFICES ASSUME FInv, [FileNext]_allVars, issued' # issued
               PROVE  Allocator!Issue
    OBVIOUS
  <2>1. PICK p \in Proc : Commit(p)
    BY DEF FileNext, Attempt, LockProgress, ReadCurrent, FileFault, Finish,
       Disturb, allVars, fileVars
  <2> DEFINE a == [gen |-> next[p], to |-> Mine(p)]
  <2>2. next[p] = file + 1 /\ issued' = issued \cup {a}
    BY <2>1 DEF FInv, ReadIsCurrent, Commit
  <2>3. a.gen \in Nat \ {0} /\ \A b \in issued : a.gen > b.gen
    BY <2>2 DEF FInv, FileTypes, FileRemembersIssued
  <2>4. a \in issued' \ issued
    BY <2>2, <2>3
  <2> QED
    BY <2>2, <2>3, <2>4 DEF Allocator!Issue
<1> QED
  BY <1>1, <1>2, FileInvariant, PTL DEF FileSpec, Fenced, Allocator!Spec

-----------------------------------------------------------------------------
(* The older lock of the ACP runtime host's controllers.  It is exclusive  *)
(* as long as at most two processes allocate at a time and none dies while *)
(* it has a directory moved aside: then a live holder's directory is at    *)
(* the lock path, or the other process has it aside, sees that it is not   *)
(* what it judged dead, and puts it back before it does anything else.     *)

(* The number of directories that a process publishes does not matter.     *)
AcpClaims == [owner : Proc, seq : Nat]
AcpDirs == [claim : AcpClaims, owned : BOOLEAN]

TwoAtATime ==
  /\ MaxRunning \in 0 .. 2 /\ "breaker_dies" \notin Disturbances
  /\ None \notin AcpClaims \cup AcpDirs

AcpTypes ==
  /\ acpLock \in AcpDirs \cup {None}
  /\ acpPc \in [Proc -> {"idle", "publish", "dead"} \cup Acp!Breaking \cup Acp!Holding
                         \cup Acp!Releasing]
  /\ acpSeq \in [Proc -> Nat]
  /\ nonce \in [Proc -> AcpClaims \cup {None}]
  /\ moved \in [Proc -> AcpDirs \cup {None}]
  /\ acpFile \in Nat /\ acpNext \in [Proc -> Nat]

Few == /\ IsFiniteSet(Acp!Running)
       /\ \A p, q, r \in Acp!Running : p = q \/ p = r \/ q = r

(* A process has the lock until it removes the owner from its directory.   *)
Owning == Acp!Holding \cup {"verify", "unlink"}
Directory(p) == [claim |-> Acp!Mine(p), owned |-> TRUE]
Kept(p) == \/ acpLock = Directory(p)
           \/ acpLock = None /\ \E q \in Proc : acpPc[q] = "settle" /\ moved[q] = Directory(p)
OwnersKeep == \A p \in Proc : acpPc[p] \in Owning => Kept(p)

(* What a breaker goes on to move was owned by a dead process.             *)
JudgedDead == \A p \in Proc :
                acpPc[p] \in {"recheck", "move", "settle"} /\ nonce[p] # None
                  => acpPc[nonce[p].owner] = "dead"

AcpFileFollows ==
  /\ \A p \in Proc : acpPc[p] = "commit" => acpNext[p] = acpFile + 1
  /\ \A b \in acpIssued : b.gen \in Nat /\ b.gen <= acpFile

AcpInv == AcpTypes /\ Few /\ OwnersKeep /\ JudgedDead /\ AcpFileFollows

(* Two members of a set with fewer than two are the same.                  *)
LEMMA FewerThanTwo ==
  ASSUME NEW S, IsFiniteSet(S), Acp!Cardinality(S) < 2
  PROVE  \A x, y \in S : x = y
<1>1. Acp!Cardinality(S) = Cardinality(S)
  BY DEF Acp!Cardinality, Cardinality
<1>2. Cardinality(S) = 0 \/ Cardinality(S) = 1
  BY <1>1, FS_CardinalityType
<1>3. CASE Cardinality(S) = 0
  BY <1>3, FS_EmptySet
<1>4. CASE Cardinality(S) = 1
  BY <1>4, FS_Singleton
<1> QED
  BY <1>2, <1>3, <1>4

LEMMA DirectoryIs ==
  ASSUME TwoAtATime, AcpTypes, NEW p \in Proc
  PROVE  /\ Directory(p) \in AcpDirs /\ Directory(p) # None
         /\ Acp!OwnerAt(Directory(p)) = Acp!Mine(p) /\ Acp!Mine(p) # None
<1>1. Acp!Mine(p) \in AcpClaims
  BY DEF AcpTypes, AcpClaims, Acp!Mine
<1>2. Directory(p) \in AcpDirs /\ Directory(p).claim = Acp!Mine(p) /\ Directory(p).owned = TRUE
  BY <1>1 DEF AcpDirs, Directory
<1> QED
  BY <1>1, <1>2 DEF TwoAtATime, Acp!OwnerAt

LEMMA OneOwner ==
  ASSUME TwoAtATime, AcpInv, NEW p \in Proc, NEW q \in Proc, acpPc[p] \in Owning, acpPc[q] \in Owning
  PROVE  p = q
<1>1. Kept(p) /\ Kept(q)
  BY DEF AcpInv, OwnersKeep
<1>2. CASE acpLock = Directory(p) /\ acpLock = Directory(q)
  BY <1>2 DEF Directory, Acp!Mine
<1>3. CASE acpLock = None
  <2>1. PICK r \in Proc : acpPc[r] = "settle"
    <3>1. acpLock # Directory(p)
      BY <1>3, DirectoryIs DEF AcpInv
    <3> QED
      BY <1>1, <3>1 DEF Kept
  <2>2. {p, q, r} \subseteq Acp!Running /\ p # r /\ q # r
    BY <2>1 DEF Acp!Running, Owning, Acp!Holding
  <2> QED
    BY <2>2 DEF AcpInv, Few
<1> QED
  BY <1>1, <1>2, <1>3 DEF Kept


-----------------------------------------------------------------------------
(* The steps of one process.                                               *)
AcpStep(p) ==
  \/ Acp!Begin(p) \/ Acp!Publish(p) \/ Acp!Stat(p) \/ Acp!ReadOwner(p) \/ Acp!Recheck(p)
  \/ Acp!Move(p) \/ Acp!Settle(p) \/ Acp!GiveUp(p)
  \/ Acp!ReadCurrent(p) \/ Acp!Commit(p) \/ Acp!FileFault(p)
  \/ Acp!Verify(p) \/ Acp!Unlink(p) \/ Acp!Rmdir(p) \/ Acp!Die(p)

AcpPhase == {"idle", "publish", "dead"} \cup Acp!Breaking \cup Acp!Holding \cup Acp!Releasing

LEMMA AcpMovesOne ==
  ASSUME AcpTypes, NEW p \in Proc, AcpStep(p)
  PROVE  /\ acpPc[p] # "dead" /\ acpPc' \in [Proc -> AcpPhase]
         /\ \A q \in Proc \ {p} : acpPc'[q] = acpPc[q]
         /\ acpPc[p] = "idle" => Acp!Begin(p) \/ acpPc'[p] = "dead"
<1> USE DEF Acp!Goto, AcpPhase, AcpTypes, Acp!Breaking, Acp!Holding, Acp!Releasing
<1>1. CASE \/ Acp!Begin(p) \/ Acp!Publish(p) \/ Acp!Stat(p) \/ Acp!GiveUp(p) \/ Acp!Die(p)
           \/ Acp!ReadCurrent(p) \/ Acp!Commit(p) \/ Acp!FileFault(p)
  BY <1>1 DEF Acp!Begin, Acp!Publish, Acp!Stat, Acp!GiveUp, Acp!Die, Acp!ReadCurrent, Acp!Commit,
              Acp!FileFault
<1>2. CASE Acp!ReadOwner(p) \/ Acp!Recheck(p) \/ Acp!Verify(p)
  <2>1. \E s \in {"move", "recheck", "publish", "unlink", "idle"} : acpPc' = [acpPc EXCEPT ![p] = s]
    BY <1>2 DEF Acp!ReadOwner, Acp!Recheck, Acp!Verify
  <2> QED
    BY <1>2, <2>1 DEF Acp!ReadOwner, Acp!Recheck, Acp!Verify
<1>3. CASE Acp!Move(p) \/ Acp!Settle(p) \/ Acp!Unlink(p) \/ Acp!Rmdir(p)
  BY <1>3 DEF Acp!Move, Acp!Settle, Acp!Unlink, Acp!Rmdir
<1> QED
  BY <1>1, <1>2, <1>3 DEF AcpStep

LEMMA AcpTypesKept ==
  ASSUME TwoAtATime, AcpTypes, NEW p \in Proc, AcpStep(p)
  PROVE  AcpTypes'
<1>1. acpPc' \in [Proc -> AcpPhase]
  BY AcpMovesOne
<1> USE DEF AcpTypes
<1>2. acpLock' \in AcpDirs \cup {None} /\ acpSeq' \in [Proc -> Nat]
  <2>1. CASE Acp!Publish(p)
    <3>1. [owner |-> p, seq |-> acpSeq[p] + 1] \in AcpClaims
      BY DEF AcpClaims
    <3> DEFINE x == [owner |-> p, seq |-> acpSeq[p] + 1]
    <3> HIDE DEF x
    <3>2. [claim |-> x, owned |-> TRUE] \in AcpDirs
      BY <3>1 DEF AcpDirs, x
    <3>3. /\ acpLock' = acpLock \/ acpLock' = [claim |-> x, owned |-> TRUE]
          /\ acpSeq' = acpSeq \/ acpSeq' = [acpSeq EXCEPT ![p] = @ + 1]
      BY <2>1 DEF Acp!Publish, x
    <3>4. acpLock' \in AcpDirs \cup {None}
      BY <3>2, <3>3
    <3>5. acpSeq' \in [Proc -> Nat]
      BY <3>3
    <3> QED
      BY <3>4, <3>5
  <2>2. CASE Acp!Unlink(p)
    BY <2>2 DEF Acp!Unlink, Acp!Absent, AcpDirs
  <2>3. CASE \/ Acp!Move(p) \/ Acp!Settle(p) \/ Acp!Rmdir(p)
    BY <2>3 DEF Acp!Move, Acp!Settle, Acp!Rmdir
  <2>4. CASE UNCHANGED <<acpLock, acpSeq>>
    BY <2>4
  <2> QED
    BY <2>1, <2>2, <2>3, <2>4 DEF AcpStep, Acp!Begin, Acp!Stat, Acp!ReadOwner, Acp!Recheck,
       Acp!GiveUp, Acp!ReadCurrent, Acp!Commit, Acp!FileFault, Acp!Verify, Acp!Die
<1>3. nonce' \in [Proc -> AcpClaims \cup {None}] /\ moved' \in [Proc -> AcpDirs \cup {None}]
  <2>1. CASE Acp!ReadOwner(p)
    <3>1. Acp!OwnerAt(acpLock) \in AcpClaims \cup {None}
      BY DEF Acp!OwnerAt, AcpDirs
    <3> QED
      BY <2>1, <3>1 DEF Acp!ReadOwner
  <2>2. CASE Acp!Move(p) \/ Acp!Settle(p) \/ Acp!Die(p)
    BY <2>2 DEF Acp!Move, Acp!Settle, Acp!Die
  <2>3. CASE UNCHANGED <<nonce, moved>>
    BY <2>3
  <2> QED
    BY <2>1, <2>2, <2>3 DEF AcpStep, Acp!Begin, Acp!Publish, Acp!Stat, Acp!Recheck, Acp!GiveUp,
       Acp!ReadCurrent, Acp!Commit, Acp!FileFault, Acp!Verify, Acp!Unlink, Acp!Rmdir, Acp!breakerVars
<1>4. acpFile' \in Nat /\ acpNext' \in [Proc -> Nat]
  <2>1. CASE Acp!ReadCurrent(p) \/ Acp!Commit(p)
    BY <2>1 DEF Acp!ReadCurrent, Acp!Commit
  <2>2. CASE UNCHANGED <<acpFile, acpNext>>
    BY <2>2
  <2> QED
    BY <2>1, <2>2 DEF AcpStep, Acp!Begin, Acp!Publish, Acp!Stat, Acp!ReadOwner, Acp!Recheck, Acp!Move,
       Acp!Settle, Acp!GiveUp, Acp!FileFault, Acp!Verify, Acp!Unlink, Acp!Rmdir, Acp!Die, Acp!fileVars
<1> QED
  BY <1>1, <1>2, <1>3, <1>4 DEF AcpPhase

LEMMA FewKept ==
  ASSUME TwoAtATime, AcpTypes, Few, NEW p \in Proc, AcpStep(p)
  PROVE  Few'
<1>1. /\ acpPc' \in [Proc -> AcpPhase] /\ \A q \in Proc \ {p} : acpPc'[q] = acpPc[q]
      /\ acpPc[p] = "idle" => Acp!Begin(p) \/ acpPc'[p] = "dead"
  BY AcpMovesOne
<1>2. CASE Acp!Begin(p)
  <2>1. Acp!Cardinality(Acp!Running) < 2
    <3>1. Acp!Cardinality(Acp!Running) = Cardinality(Acp!Running)
      BY DEF Acp!Cardinality, Cardinality
    <3>2. Acp!Cardinality(Acp!Running) \in Nat
      BY <3>1, FS_CardinalityType DEF Few
    <3> QED
      BY <1>2, <3>2 DEF Acp!Begin, TwoAtATime
  <2>2. \A x, y \in Acp!Running : x = y
    BY <2>1, FewerThanTwo DEF Few
  <2>3. (Acp!Running)' = Acp!Running \cup {p}
    BY <1>2 DEF Acp!Begin, Acp!Goto, Acp!Running, AcpTypes
  <2>4. IsFiniteSet(Acp!Running \cup {p})
    BY FS_AddElement DEF Few
  <2> QED
    BY <2>2, <2>3, <2>4 DEF Few
<1>3. CASE ~Acp!Begin(p)
  <2>1. (Acp!Running)' \subseteq Acp!Running
    BY <1>1, <1>3, AcpMovesOne DEF Acp!Running
  <2>2. IsFiniteSet((Acp!Running)')
    BY <2>1, FS_Subset DEF Few
  <2> QED
    BY <2>1, <2>2 DEF Few
<1> QED
  BY <1>2, <1>3

(* The dead stay dead.                                                     *)
LEMMA JudgedKept ==
  ASSUME TwoAtATime, AcpTypes, JudgedDead, NEW p \in Proc, AcpStep(p)
  PROVE  JudgedDead'
<1>1. /\ acpPc[p] # "dead" /\ \A q \in Proc \ {p} : acpPc'[q] = acpPc[q]
  BY AcpMovesOne
<1>2. \A q \in Proc \ {p} : nonce'[q] = nonce[q]
  BY DEF AcpTypes, AcpStep, Acp!Begin, Acp!Publish, Acp!Stat, Acp!ReadOwner, Acp!Recheck, Acp!Move,
     Acp!Settle, Acp!GiveUp, Acp!ReadCurrent, Acp!Commit, Acp!FileFault, Acp!Verify, Acp!Unlink,
     Acp!Rmdir, Acp!Die, Acp!breakerVars
<1>3. \A q \in Proc : acpPc[q] = "dead" => acpPc'[q] = "dead"
  BY <1>1
<1>4. \A q \in Proc : nonce[q] # None => nonce[q].owner \in Proc
  BY DEF AcpTypes, AcpClaims
<1>5. ASSUME NEW q \in Proc \ {p}, acpPc'[q] \in {"recheck", "move", "settle"}, nonce'[q] # None
      PROVE  acpPc'[nonce'[q].owner] = "dead"
  BY <1>1, <1>2, <1>3, <1>4, <1>5 DEF JudgedDead
<1>6. ASSUME acpPc'[p] \in {"recheck", "move", "settle"}, nonce'[p] # None
      PROVE  acpPc'[nonce'[p].owner] = "dead"
  <2>1. CASE Acp!ReadOwner(p)
    <3>1. nonce'[p] = Acp!OwnerAt(acpLock)
      BY <2>1 DEF Acp!ReadOwner, AcpTypes
    <3>2. nonce'[p] = acpLock.claim /\ acpLock.claim.owner \in Proc
      BY <1>6, <3>1 DEF Acp!OwnerAt, AcpTypes, AcpDirs, AcpClaims
    <3>3. acpPc[acpLock.claim.owner] = "dead"
      BY <1>6, <2>1, <3>1 DEF Acp!ReadOwner, Acp!Goto, AcpTypes
    <3> QED
      BY <1>3, <3>2, <3>3
  <2>2. CASE Acp!Recheck(p) \/ Acp!Move(p)
    <3>1. nonce' = nonce /\ acpPc[p] \in {"recheck", "move"}
      BY <2>2 DEF Acp!Recheck, Acp!Move, Acp!breakerVars
    <3> QED
      BY <1>3, <1>4, <1>6, <3>1 DEF JudgedDead
  <2>3. CASE ~(Acp!ReadOwner(p) \/ Acp!Recheck(p) \/ Acp!Move(p))
    <3>1. acpPc'[p] \notin {"recheck", "move", "settle"}
      BY <2>3 DEF AcpTypes, AcpStep, Acp!Begin, Acp!Publish, Acp!Stat, Acp!Settle, Acp!GiveUp,
         Acp!ReadCurrent, Acp!Commit, Acp!FileFault, Acp!Verify, Acp!Unlink, Acp!Rmdir, Acp!Die, Acp!Goto
    <3> QED
      BY <1>6, <3>1
  <2> QED
    BY <2>1, <2>2, <2>3
<1> QED
  BY <1>5, <1>6 DEF JudgedDead


-----------------------------------------------------------------------------
(* The lock stays with its owner.                                          *)
LEMMA SameKeeps ==
  ASSUME NEW p \in Proc, Kept(p), acpLock' = acpLock, acpSeq' = acpSeq,
         \A q \in Proc : acpPc[q] = "settle" => acpPc'[q] = "settle" /\ moved'[q] = moved[q]
  PROVE  Kept(p)'
BY DEF Kept, Directory, Acp!Mine

(* While another process owns the lock, whoever else runs is the only one. *)
LEMMA OwnerAndOne ==
  ASSUME TwoAtATime, AcpInv, NEW p \in Proc, acpPc[p] \in Owning,
         NEW q \in Proc \ {p}, acpPc[q] \notin {"idle", "dead"}
  PROVE  /\ acpPc[q] \notin Owning
         /\ \/ acpLock = Directory(p)
            \/ acpLock = None /\ acpPc[q] = "settle" /\ moved[q] = Directory(p)
<1>1. acpPc[q] \notin Owning
  BY OneOwner
<1>2. Kept(p)
  BY DEF AcpInv, OwnersKeep
<1>3. \A r \in Proc : acpPc[r] = "settle" => r = q
  <2> SUFFICES ASSUME NEW r \in Proc, acpPc[r] = "settle" PROVE r = q
    OBVIOUS
  <2>1. {p, q, r} \subseteq Acp!Running /\ p # r
    BY DEF Acp!Running, Owning, Acp!Holding
  <2> QED
    BY <2>1 DEF AcpInv, Few
<1> QED
  BY <1>1, <1>2, <1>3 DEF Kept

LEMMA OthersKeepIt ==
  ASSUME TwoAtATime, AcpInv, NEW p \in Proc, acpPc[p] \in Owning,
         NEW q \in Proc \ {p}, AcpStep(q)
  PROVE  Kept(p)'
<1>1. Kept(p) /\ AcpTypes /\ Directory(p) # None /\ Acp!OwnerAt(Directory(p)) = Acp!Mine(p)
      /\ Acp!Mine(p) # None /\ AcpTypes'
  BY DirectoryIs, AcpTypesKept DEF AcpInv, OwnersKeep
<1>2. /\ acpPc[q] # "dead" /\ \A r \in Proc \ {q} : acpPc'[r] = acpPc[r]
  BY <1>1, AcpMovesOne
<1>3. acpPc[q] \notin {"idle", "dead"} =>
        /\ acpPc[q] \notin Owning
        /\ \/ acpLock = Directory(p)
           \/ acpLock = None /\ acpPc[q] = "settle" /\ moved[q] = Directory(p)
  BY OwnerAndOne
<1>4. CASE acpPc[q] # "settle" /\ UNCHANGED <<acpLock, acpSeq, moved>>
  BY <1>1, <1>2, <1>4, SameKeeps
<1>5. CASE Acp!Die(q)
  <2>1. acpPc[q] # "settle" /\ UNCHANGED <<acpLock, acpSeq>>
    BY <1>5 DEF Acp!Die, TwoAtATime
  <2>2. \A r \in Proc \ {q} : moved'[r] = moved[r]
    BY <1>1, <1>5 DEF Acp!Die, AcpTypes
  <2> QED
    BY <1>1, <1>2, <2>1, <2>2, SameKeeps
<1>6. CASE Acp!Publish(q)
  <2>1. acpLock = Directory(p)
    BY <1>3, <1>6 DEF Acp!Publish
  <2>2. ~Acp!Vacant
    BY <1>1, <2>1 DEF Acp!Vacant
  <2> QED
    BY <1>4, <1>6, <2>2 DEF Acp!Publish, Acp!breakerVars
<1>7. CASE Acp!Move(q)
  <2>1. acpLock = Directory(p) /\ acpLock' = None /\ acpSeq' = acpSeq
    BY <1>3, <1>7 DEF Acp!Move
  <2>2. acpPc'[q] = "settle" /\ moved'[q] = acpLock
    BY <1>1, <1>7 DEF Acp!Move, Acp!Goto, AcpTypes
  <2> QED
    BY <2>1, <2>2 DEF Kept, Directory, Acp!Mine
<1>8. CASE Acp!Settle(q)
  <2>1. acpSeq' = acpSeq /\ acpPc[q] = "settle"
    BY <1>8 DEF Acp!Settle
  <2>2. CASE acpLock = Directory(p)
    <3>1. ~Acp!Vacant
      BY <1>1, <2>2 DEF Acp!Vacant
    <3> QED
      BY <1>8, <2>1, <2>2, <3>1 DEF Acp!Settle, Kept, Directory, Acp!Mine
  <2>3. CASE acpLock = None /\ moved[q] = Directory(p)
    <3>1. ~Acp!Meant(q)
      <4>1. nonce[q] # None => acpPc[nonce[q].owner] = "dead"
        BY <2>1 DEF AcpInv, JudgedDead
      <4>2. nonce[q] # Acp!Mine(p)
        BY <1>1, <4>1 DEF Acp!Mine, Owning, Acp!Holding
      <4> QED
        BY <1>1, <2>3, <4>2 DEF Acp!Meant
    <3>2. Acp!Vacant
      BY <2>3 DEF Acp!Vacant, Acp!OwnerAt
    <3>3. acpLock' = Directory(p)
      BY <1>1, <1>8, <2>3, <3>1, <3>2 DEF Acp!Settle
    <3> QED
      BY <2>1, <3>3 DEF Kept, Directory, Acp!Mine
  <2> QED
    BY <1>3, <2>1, <2>2, <2>3
<1>9. CASE Acp!Unlink(q)
  BY <1>3, <1>9 DEF Acp!Unlink, Owning
<1>10. CASE Acp!Rmdir(q)
  <2>1. acpLock = Directory(p) /\ acpPc[q] # "settle"
    BY <1>3, <1>10 DEF Acp!Rmdir
  <2>2. ~Acp!Vacant
    BY <1>1, <2>1 DEF Acp!Vacant
  <2> QED
    BY <1>4, <1>10, <2>1, <2>2 DEF Acp!Rmdir, Acp!breakerVars
<1>11. CASE Acp!Begin(q) \/ Acp!Stat(q) \/ Acp!ReadOwner(q) \/ Acp!Recheck(q) \/ Acp!GiveUp(q)
  <2>1. UNCHANGED <<acpLock, acpSeq, moved>> /\ acpPc[q] # "settle"
    BY <1>11 DEF Acp!Begin, Acp!Stat, Acp!ReadOwner, Acp!Recheck, Acp!GiveUp, Acp!breakerVars
  <2> QED
    BY <1>4, <2>1
<1>12. CASE Acp!ReadCurrent(q) \/ Acp!Commit(q) \/ Acp!FileFault(q) \/ Acp!Verify(q)
  <2>1. UNCHANGED <<acpLock, acpSeq, moved>> /\ acpPc[q] # "settle"
    BY <1>12 DEF Acp!ReadCurrent, Acp!Commit, Acp!FileFault, Acp!Verify, Acp!breakerVars, Acp!Holding
  <2> QED
    BY <1>4, <2>1
<1> QED
  BY <1>5, <1>6, <1>7, <1>8, <1>9, <1>10, <1>11, <1>12 DEF AcpStep

LEMMA OwnKeepsIt ==
  ASSUME TwoAtATime, AcpInv, NEW p \in Proc, AcpStep(p), acpPc'[p] \in Owning
  PROVE  Kept(p)'
<1>1. AcpTypes
  BY DEF AcpInv
<1>2. CASE Acp!Publish(p)
  <2>1. /\ acpSeq' = [acpSeq EXCEPT ![p] = @ + 1]
        /\ acpLock' = [claim |-> [owner |-> p, seq |-> acpSeq[p] + 1], owned |-> TRUE]
    BY <1>1, <1>2 DEF Acp!Publish, Acp!Goto, AcpTypes, Owning, Acp!Holding
  <2>2. acpSeq'[p] = acpSeq[p] + 1
    BY <1>1, <2>1 DEF AcpTypes
  <2> QED
    BY <2>1, <2>2 DEF Kept, Directory, Acp!Mine
<1>3. CASE Acp!ReadCurrent(p) \/ Acp!Commit(p) \/ Acp!FileFault(p) \/ Acp!Verify(p)
  <2>1. /\ UNCHANGED <<acpLock, acpSeq, moved>> /\ acpPc[p] \in Owning /\ acpPc[p] # "settle"
    BY <1>3 DEF Acp!ReadCurrent, Acp!Commit, Acp!FileFault, Acp!Verify, Acp!breakerVars, Owning,
                Acp!Holding
  <2>2. Kept(p) /\ \A r \in Proc \ {p} : acpPc'[r] = acpPc[r]
    BY <1>1, <2>1, AcpMovesOne DEF AcpInv, OwnersKeep
  <2> QED
    BY <2>1, <2>2, SameKeeps
<1>4. CASE ~(\/ Acp!Publish(p) \/ Acp!ReadCurrent(p) \/ Acp!Commit(p) \/ Acp!FileFault(p)
             \/ Acp!Verify(p))
  <2>1. acpPc'[p] \notin Owning
    BY <1>1, <1>4
    DEF AcpTypes, AcpStep, Acp!Begin, Acp!Stat, Acp!ReadOwner, Acp!Recheck, Acp!Move, Acp!Settle,
        Acp!GiveUp, Acp!Unlink, Acp!Rmdir, Acp!Die, Acp!Goto, Owning, Acp!Holding
  <2> QED
    BY <2>1
<1> QED
  BY <1>2, <1>3, <1>4

LEMMA OwnersKept ==
  ASSUME TwoAtATime, AcpInv, NEW p \in Proc, AcpStep(p)
  PROVE  OwnersKeep'
<1> SUFFICES ASSUME NEW q \in Proc, acpPc'[q] \in Owning PROVE Kept(q)'
  BY DEF OwnersKeep
<1>1. CASE q = p
  BY <1>1, OwnKeepsIt
<1>2. CASE q # p
  <2>1. acpPc[q] \in Owning
    BY <1>2, AcpMovesOne DEF AcpInv
  <2> QED
    BY <1>2, <2>1, OthersKeepIt
<1> QED
  BY <1>1, <1>2

(* The generation file changes only in the hands of the one owner.         *)
LEMMA AcpFileKept ==
  ASSUME TwoAtATime, AcpInv, NEW p \in Proc, AcpStep(p)
  PROVE  AcpFileFollows' /\ [Acp!Allocator!Issue]_acpIssued
<1>1. AcpTypes /\ AcpFileFollows /\ \A q \in Proc \ {p} : acpPc'[q] = acpPc[q]
  BY AcpMovesOne DEF AcpInv
<1>2. CASE Acp!ReadCurrent(p)
  <2>1. /\ acpFile' = acpFile /\ acpIssued' = acpIssued
        /\ acpNext' = [acpNext EXCEPT ![p] = acpFile + 1]
    BY <1>2 DEF Acp!ReadCurrent
  <2> QED
    BY <1>1, <2>1 DEF AcpFileFollows, AcpTypes
<1>3. CASE Acp!Commit(p)
  <2> DEFINE a == [gen |-> acpNext[p], to |-> Acp!Mine(p)]
  <2>1. /\ acpPc[p] = "commit" /\ acpFile' = acpNext[p] /\ acpNext' = acpNext
        /\ acpIssued' = acpIssued \cup {a} /\ acpPc'[p] = "verify"
    BY <1>1, <1>3 DEF Acp!Commit, Acp!Goto, AcpTypes
  <2>2. acpNext[p] = acpFile + 1 /\ acpFile \in Nat /\ a.gen = acpFile + 1
    BY <1>1, <2>1 DEF AcpFileFollows, AcpTypes
  <2>3. \A q \in Proc : acpPc'[q] # "commit"
    <3>1. \A q \in Proc : acpPc[q] = "commit" => q = p
      BY <2>1, OneOwner DEF Owning, Acp!Holding
    <3> QED
      BY <1>1, <2>1, <3>1
  <2> HIDE DEF a
  <2>4. \A b \in acpIssued : b.gen \in Nat /\ b.gen <= acpFile
    BY <1>1 DEF AcpFileFollows
  <2>5. AcpFileFollows'
    BY <2>1, <2>2, <2>3, <2>4 DEF AcpFileFollows
  <2>6. a \notin acpIssued /\ a.gen \in Nat \ {0} /\ \A b \in acpIssued : a.gen > b.gen
    BY <2>2, <2>4
  <2>7. Acp!Allocator!Issue
    BY <2>1, <2>6 DEF Acp!Allocator!Issue
  <2> QED
    BY <2>5, <2>7
<1>4. CASE ~Acp!ReadCurrent(p) /\ ~Acp!Commit(p)
  <2>1. UNCHANGED <<acpFile, acpNext, acpIssued>> /\ acpPc'[p] # "commit"
    BY <1>1, <1>4
    DEF AcpTypes, AcpStep, Acp!Begin, Acp!Publish, Acp!Stat, Acp!ReadOwner, Acp!Recheck, Acp!Move,
        Acp!Settle, Acp!GiveUp, Acp!FileFault, Acp!Verify, Acp!Unlink, Acp!Rmdir, Acp!Die, Acp!Goto,
        Acp!fileVars
  <2> QED
    BY <1>1, <2>1 DEF AcpFileFollows
<1> QED
  BY <1>2, <1>3, <1>4

LEMMA AcpNextKeeps ==
  ASSUME TwoAtATime, AcpInv, [Acp!Next]_(Acp!vars)
  PROVE  AcpInv' /\ [Acp!Allocator!Issue]_acpIssued
<1>1. CASE UNCHANGED Acp!vars
  BY <1>1 DEF Acp!vars, AcpInv, AcpTypes, Few, Acp!Running, OwnersKeep, Kept, Directory, Acp!Mine,
              JudgedDead, AcpFileFollows
<1>2. ASSUME NEW p \in Proc, AcpStep(p) PROVE AcpInv' /\ [Acp!Allocator!Issue]_acpIssued
  BY <1>2, AcpTypesKept, FewKept, JudgedKept, OwnersKept, AcpFileKept DEF AcpInv
<1> QED
  BY <1>1, <1>2 DEF Acp!Next, AcpStep

LEMMA AcpInitHolds ==
  ASSUME TwoAtATime, Acp!Init
  PROVE  AcpInv
<1>1. AcpTypes /\ JudgedDead /\ AcpFileFollows /\ OwnersKeep
  BY DEF Acp!Init, AcpTypes, JudgedDead, AcpFileFollows, OwnersKeep, Owning, Acp!Holding
<1>2. Acp!Running = {}
  BY DEF Acp!Init, Acp!Running
<1>3. Few
  BY <1>2, FS_EmptySet DEF Few
<1> QED
  BY <1>1, <1>3 DEF AcpInv

(* Where every live holder's directory is, and what a breaker knows of the *)
(* one it moves (acp-runtime-host-controller.cts, withControllerLock).     *)
THEOREM AcpInvariant ==
  ASSUME TwoAtATime
  PROVE  Acp!Spec => []AcpInv
<1>1. Acp!Init => AcpInv
  BY AcpInitHolds
<1>2. AcpInv /\ [Acp!Next]_(Acp!vars) => AcpInv'
  BY AcpNextKeeps
<1> QED
  BY <1>1, <1>2, PTL DEF Acp!Spec

(* Of two allocators at a time never both work on the generation file,     *)
(* however long they stall, and although a breaker may take the lock of    *)
(* the living and only then look at it.                                    *)
THEOREM WritersAreSingle ==
  ASSUME TwoAtATime
  PROVE  Acp!Spec => []OneWriter
<1>1. AcpInv => OneWriter
  BY OneOwner DEF OneWriter, Acp!OneWriter, Owning
<1> QED
  BY <1>1, AcpInvariant, PTL

(* Then each controller's generation is larger than all that were handed   *)
(* out before, as the generation allocator promises.                       *)
THEOREM AcpGenerationsAreFenced ==
  ASSUME TwoAtATime
  PROVE  Acp!Spec => AcpFenced
<1>1. Acp!Init => Acp!Allocator!Init
  BY DEF Acp!Init, Acp!Allocator!Init
<1>2. AcpInv /\ [Acp!Next]_(Acp!vars) => [Acp!Allocator!Issue]_acpIssued
  BY AcpNextKeeps
<1> QED
  BY <1>1, <1>2, AcpInvariant, PTL DEF Acp!Spec, AcpFenced, Acp!Fenced, Acp!Allocator!Spec
=============================================================================
