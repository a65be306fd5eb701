-------------------------- MODULE ProcessFileLock --------------------------
(***************************************************************************)
(* The exact-process file claim of backend/process-owned-file-lock.cts: a  *)
(* directory <file>.lock whose owner.json names the process that holds it. *)
(*                                                                         *)
(* One element of Proc is one incarnation of a process: a restart, also    *)
(* one that reuses a PID, is another element, because the code identifies  *)
(* a holder by PID, process group and start time together.  Every file     *)
(* system call and every process probe is an action of its own, so that    *)
(* any other process may run, or this one may die, between two of them.    *)
(***************************************************************************)
EXTENDS Integers

CONSTANTS Proc,       \* process incarnations
          MaxClaims,  \* bound: claims one incarnation may publish
          NoClaim     \* what a read of an absent lock directory yields

(* The claim identity is the owner's identity and a fresh token; the n-th  *)
(* claim of a process stands for the n-th random UUID it draws.            *)
Claim == [owner : Proc, seq : 1 .. MaxClaims]

ASSUME MaxClaimsAssumption == MaxClaims \in Nat \ {0}
ASSUME NoClaimAssumption == NoClaim \notin Claim

VARIABLES lock,     \* the lock directory: the claim in it, the markers in it
          staged,   \* staging directories not yet renamed into place
          pc,       \* where each process is; "dead" once it died
          seq,      \* claims this process has published
          seen,     \* the holder this process read
          outcome,  \* what tryReclaimDeadClaim is about to return
          waits,    \* lockTimeoutMs > 0
          retried,  \* a non-waiting writer is on its second attempt
          pending   \* pendingLockReleases holds this process's last claim

vars == <<lock, staged, pc, seq, seen, outcome, waits, retried, pending>>

Acquiring == {"stage", "publish", "inspect", "judge", "mark", "reread",
              "break", "unmark", "blocked"}
Releasing == {"verify", "rename", "unproven"}
Phases == {"idle", "held", "dead"} \cup Acquiring \cup Releasing

NoLock == [claim |-> NoClaim, markers |-> {}]
Locked == lock.claim # NoClaim
Dead(p) == pc[p] = "dead"

Mine(p) == [owner |-> p, seq |-> seq[p]]
Candidate(p) == [owner |-> p, seq |-> seq[p] + 1]

TypeOK ==
  /\ lock \in [claim : Claim \cup {NoClaim}, markers : SUBSET Claim]
  /\ staged \in SUBSET Claim
  /\ pc \in [Proc -> Phases]
  /\ seq \in [Proc -> 0 .. MaxClaims]
  /\ seen \in [Proc -> Claim \cup {NoClaim}]
  /\ outcome \in [Proc -> {"reclaimed", "gone", "failed"}]
  /\ waits \in [Proc -> BOOLEAN]
  /\ retried \in [Proc -> BOOLEAN]
  /\ pending \in [Proc -> BOOLEAN]

Init ==
  /\ lock = NoLock
  /\ staged = {}
  /\ pc = [p \in Proc |-> "idle"]
  /\ seq = [p \in Proc |-> 0]
  /\ seen = [p \in Proc |-> NoClaim]
  /\ outcome = [p \in Proc |-> "failed"]
  /\ waits = [p \in Proc |-> FALSE]
  /\ retried = [p \in Proc |-> FALSE]
  /\ pending = [p \in Proc |-> FALSE]

Goto(p, phase) == pc' = [pc EXCEPT ![p] = phase]

-----------------------------------------------------------------------------
(* Acquisition.                                                            *)

(* A caller enters: a release that an earlier call could not prove is      *)
(* retried before anything is acquired.                                    *)
Begin(p) ==
  /\ pc[p] = "idle"
  /\ seq[p] < MaxClaims
  /\ \E w \in BOOLEAN : waits' = [waits EXCEPT ![p] = w]
  /\ retried' = [retried EXCEPT ![p] = FALSE]
  /\ Goto(p, IF pending[p] THEN "verify" ELSE "stage")
  /\ UNCHANGED <<lock, staged, seq, seen, outcome, pending>>

(* Build the complete claim beside the lock.  While no lock directory      *)
(* exists, staging directories older than the grace window are swept       *)
(* first; a publisher slower than the window loses its own to a sweep.     *)
Stage(p) ==
  /\ pc[p] = "stage"
  /\ \E orphans \in SUBSET staged :
       /\ orphans # {} => ~Locked
       /\ staged' = (staged \ orphans) \cup {Candidate(p)}
  /\ Goto(p, "publish")
  /\ UNCHANGED <<lock, seq, seen, outcome, waits, retried, pending>>

(* The rename of the staging directory onto the lock path: it succeeds on  *)
(* an absent path, meets a holder, or finds its staging directory swept.   *)
Publish(p) ==
  /\ pc[p] = "publish"
  /\ staged' = staged \ {Candidate(p)}
  /\ \/ /\ Candidate(p) \in staged /\ ~Locked
        /\ lock' = [claim |-> Candidate(p), markers |-> {}]
        /\ seq' = [seq EXCEPT ![p] = @ + 1]
        /\ Goto(p, "held")
     \/ /\ Candidate(p) \in staged /\ Locked
        /\ Goto(p, "inspect")
        /\ UNCHANGED <<lock, seq>>
     \/ /\ Candidate(p) \notin staged
        /\ Goto(p, "blocked")
        /\ UNCHANGED <<lock, seq>>
  /\ UNCHANGED <<seen, outcome, waits, retried, pending>>

(* Variant: an observed directory is broken without asking whether its     *)
(* owner lives, or whether there was an owner to read.                     *)
InspectUnjudged(p) ==
  /\ pc[p] = "inspect"
  /\ seen' = [seen EXCEPT ![p] = lock.claim]
  /\ Goto(p, "mark")
  /\ UNCHANGED <<lock, staged, seq, outcome, waits, retried, pending>>

(* readLockClaim: the holder, or nothing when the directory went away.     *)
Inspect(p) ==
  /\ pc[p] = "inspect"
  /\ seen' = [seen EXCEPT ![p] = lock.claim]
  /\ Goto(p, IF Locked THEN "judge" ELSE "blocked")
  /\ UNCHANGED <<lock, staged, seq, outcome, waits, retried, pending>>

(* claimLiveness proves the holder gone, which only a dead one can be.     *)
JudgeDead(p) ==
  /\ pc[p] = "judge"
  /\ Dead(seen[p].owner)
  /\ waits[p] \/ ~retried[p]
  /\ Goto(p, "mark")
  /\ UNCHANGED <<lock, staged, seq, seen, outcome, waits, retried, pending>>

(* It finds the holder running, or cannot tell: an inspection that fails   *)
(* is no proof.  Or the one reclaim of a non-waiting writer is spent.      *)
JudgeUnproven(p) ==
  /\ pc[p] = "judge"
  /\ Goto(p, "blocked")
  /\ UNCHANGED <<lock, staged, seq, seen, outcome, waits, retried, pending>>

(* A retry after a reclaim: immediate, unless a non-waiting writer has     *)
(* spent its second attempt.                                               *)
AfterReclaim(p, result) ==
  IF result # "failed" /\ (waits[p] \/ ~retried[p])
  THEN /\ retried' = [retried EXCEPT ![p] = ~waits[p]]
       /\ Goto(p, "stage")
  ELSE /\ Goto(p, "blocked")
       /\ UNCHANGED retried

(* Variant: the marker is created without O_EXCL semantics.                *)
MarkShared(p) ==
  /\ pc[p] = "mark"
  /\ \/ /\ ~Locked
        /\ AfterReclaim(p, "gone")
        /\ UNCHANGED lock
     \/ /\ Locked
        /\ lock' = [lock EXCEPT !.markers = @ \cup {seen[p]}]
        /\ Goto(p, "reread")
        /\ UNCHANGED retried
  /\ UNCHANGED <<staged, seq, seen, outcome, waits, pending>>

(* mkdir of the marker keyed to the observed token, inside whatever        *)
(* directory is at the lock path by now.                                   *)
Mark(p) ==
  /\ pc[p] = "mark"
  /\ \/ /\ ~Locked
        /\ AfterReclaim(p, "gone")
        /\ UNCHANGED lock
     \/ /\ Locked /\ seen[p] \in lock.markers
        /\ AfterReclaim(p, "failed")
        /\ UNCHANGED lock
     \/ /\ Locked /\ seen[p] \notin lock.markers
        /\ lock' = [lock EXCEPT !.markers = @ \cup {seen[p]}]
        /\ Goto(p, "reread")
        /\ UNCHANGED retried
  /\ UNCHANGED <<staged, seq, seen, outcome, waits, pending>>

(* Variant: the claim under the marker is not compared with the observed   *)
(* one.                                                                    *)
RereadAnything(p) ==
  /\ pc[p] = "reread"
  /\ Goto(p, "break")
  /\ UNCHANGED <<lock, staged, seq, seen, outcome, waits, retried, pending>>

(* Under the marker: the same claim, and still proven dead.                *)
RereadSame(p) ==
  /\ pc[p] = "reread"
  /\ lock.claim = seen[p]
  /\ Dead(seen[p].owner)
  /\ Goto(p, "break")
  /\ UNCHANGED <<lock, staged, seq, seen, outcome, waits, retried, pending>>

(* Another claim, none, or no proof of death this time.                    *)
RereadOther(p) ==
  /\ pc[p] = "reread"
  /\ outcome' = [outcome EXCEPT ![p] = "failed"]
  /\ Goto(p, "unmark")
  /\ UNCHANGED <<lock, staged, seq, seen, waits, retried, pending>>

(* The rename of the lock path: it takes whatever directory is there.      *)
Break(p) ==
  /\ pc[p] = "break"
  /\ lock' = NoLock
  /\ outcome' = [outcome EXCEPT ![p] = IF Locked THEN "reclaimed" ELSE "gone"]
  /\ Goto(p, "unmark")
  /\ UNCHANGED <<staged, seq, seen, waits, retried, pending>>

(* Variant: the marker is removed only after a successful reclaim.         *)
UnmarkReclaimed(p) ==
  /\ pc[p] = "unmark"
  /\ lock' = IF outcome[p] = "failed" THEN lock
             ELSE [lock EXCEPT !.markers = @ \ {seen[p]}]
  /\ AfterReclaim(p, outcome[p])
  /\ UNCHANGED <<staged, seq, seen, outcome, waits, pending>>

(* The finally block: remove this observation's marker from whatever       *)
(* directory is at the lock path, and return the outcome.                  *)
Unmark(p) ==
  /\ pc[p] = "unmark"
  /\ lock' = [lock EXCEPT !.markers = @ \ {seen[p]}]
  /\ AfterReclaim(p, outcome[p])
  /\ UNCHANGED <<staged, seq, seen, outcome, waits, pending>>

(* The common bounded boundary: sleep and try again, or give up.  A        *)
(* non-waiting writer always gives up.                                     *)
Blocked(p) ==
  /\ pc[p] = "blocked"
  /\ \/ waits[p] /\ Goto(p, "stage")
     \/ Goto(p, "idle")
  /\ UNCHANGED <<lock, staged, seq, seen, outcome, waits, retried, pending>>

-----------------------------------------------------------------------------
(* Release.                                                                *)

Release(p) ==
  /\ pc[p] = "held"
  /\ Goto(p, "verify")
  /\ UNCHANGED <<lock, staged, seq, seen, outcome, waits, retried, pending>>

(* A proven release: a retried one goes on to the acquisition it preceded. *)
Released(p) ==
  /\ pending' = [pending EXCEPT ![p] = FALSE]
  /\ Goto(p, IF pending[p] THEN "stage" ELSE "idle")

(* readLockClaimStrict: a marker in the directory makes it unverifiable.   *)
Verify(p) ==
  /\ pc[p] = "verify"
  /\ \/ /\ ~Locked \/ (lock.markers = {} /\ lock.claim # Mine(p))
        /\ Released(p)
     \/ /\ Locked /\ lock.markers # {}
        /\ Goto(p, "unproven")
        /\ UNCHANGED pending
     \/ /\ Locked /\ lock.markers = {} /\ lock.claim = Mine(p)
        /\ Goto(p, "rename")
        /\ UNCHANGED pending
  /\ UNCHANGED <<lock, staged, seq, seen, outcome, waits, retried>>

Rename(p) ==
  /\ pc[p] = "rename"
  /\ \/ /\ Locked
        /\ lock' = NoLock
        /\ Released(p)
     \/ /\ ~Locked
        /\ Goto(p, "unproven")
        /\ UNCHANGED <<lock, pending>>
  /\ UNCHANGED <<staged, seq, seen, outcome, waits, retried>>

(* Variant: a release that gave up is not remembered.                      *)
UnprovenForgotten(p) ==
  /\ pc[p] = "unproven"
  /\ Goto(p, IF waits[p] THEN "verify" ELSE "idle")
  /\ UNCHANGED <<lock, staged, seq, seen, outcome, waits, retried, pending>>

(* The bounded boundary of a release: retry, or give up and remember the   *)
(* claim in pendingLockReleases.                                           *)
Unproven(p) ==
  /\ pc[p] = "unproven"
  /\ \/ /\ waits[p]
        /\ Goto(p, "verify")
        /\ UNCHANGED pending
     \/ /\ pending' = [pending EXCEPT ![p] = TRUE]
        /\ Goto(p, "idle")
  /\ UNCHANGED <<lock, staged, seq, seen, outcome, waits, retried>>

-----------------------------------------------------------------------------
(* Failures.                                                               *)

(* A file system call fails: publication throws, a reclaim rename counts   *)
(* as failed, a marker stays behind, a release stays unproven.             *)
Fault(p) ==
  /\ \/ /\ pc[p] = "publish"
        /\ staged' = staged \ {Candidate(p)}
        /\ Goto(p, "idle")
        /\ UNCHANGED <<outcome, retried>>
     \/ /\ pc[p] = "break"
        /\ outcome' = [outcome EXCEPT ![p] = "failed"]
        /\ Goto(p, "unmark")
        /\ UNCHANGED <<staged, retried>>
     \/ /\ pc[p] = "unmark"
        /\ AfterReclaim(p, outcome[p])
        /\ UNCHANGED <<staged, outcome>>
     \/ /\ pc[p] \in {"verify", "rename"}
        /\ Goto(p, "unproven")
        /\ UNCHANGED <<staged, outcome, retried>>
  /\ UNCHANGED <<lock, seq, seen, waits, pending>>

(* The process dies wherever it is; its memory goes, its files stay.       *)
Die(p) ==
  /\ ~Dead(p)
  /\ Goto(p, "dead")
  /\ pending' = [pending EXCEPT ![p] = FALSE]
  /\ UNCHANGED <<lock, staged, seq, seen, outcome, waits, retried>>

-----------------------------------------------------------------------------
AcquireStep(p) == \/ Stage(p) \/ Publish(p) \/ Inspect(p)
                  \/ JudgeDead(p) \/ JudgeUnproven(p) \/ Mark(p)
                  \/ RereadSame(p) \/ RereadOther(p) \/ Break(p) \/ Unmark(p)
                  \/ Blocked(p)
ReleaseStep(p) == Verify(p) \/ Rename(p) \/ Unproven(p)

(* What the primitive does by itself; Release is the caller's decision.    *)
LockStep(p) == Begin(p) \/ AcquireStep(p) \/ ReleaseStep(p)

Next == \E p \in Proc : LockStep(p) \/ Release(p) \/ Fault(p) \/ Die(p)

Spec == Init /\ [][Next]_vars

-----------------------------------------------------------------------------
(* Safety.                                                                 *)

(* A process counts as the holder from the acquisition that returned to it *)
(* to its call of release.                                                 *)
Holds(p) == pc[p] = "held"

(* No two processes are between acquireProcessFileLock and release at the  *)
(* same time, whatever breakers saw, however long ago they saw it.         *)
MutualExclusion == \A p, q \in Proc : Holds(p) /\ Holds(q) => p = q

(* A process that holds the lock is the one its directory names: no        *)
(* breaker acting on an older observation took the directory away.         *)
HolderIsPublished == \A p \in Proc : Holds(p) => lock.claim = Mine(p)

(* A claim on disk whose process is alive is never forgotten by it: the    *)
(* process is holding or releasing that claim, or remembers to release it  *)
(* before it acquires again.  So nobody waits for a lock it owns itself.   *)
LiveClaimAccounted ==
  \A p \in Proc :
    Locked /\ lock.claim.owner = p =>
      \/ pc[p] \in {"held", "dead"} \cup Releasing
      \/ pc[p] = "idle" /\ pending[p]

(* A breaker about to rename the lock path still faces the dead claim it   *)
(* observed, under its own marker, and no second breaker faces it.         *)
BreakIsCurrent ==
  \A p \in Proc : pc[p] = "break" =>
    /\ lock.claim = seen[p]
    /\ Dead(seen[p].owner)
    /\ seen[p] \in lock.markers
    /\ \A q \in Proc : pc[q] = "break" => q = p

(* A claim leaves the lock path only by its own process's release, or      *)
(* after that process died; and it is never replaced in one step.          *)
LiveClaimNeverBroken ==
  [][Locked /\ lock'.claim # lock.claim =>
       /\ lock'.claim = NoClaim
       /\ LET p == lock.claim.owner
          IN  Dead(p) \/ (pc[p] = "rename" /\ pc'[p] # "rename")]_vars

-----------------------------------------------------------------------------
(* Liveness, when no breaker dies inside tryReclaimDeadClaim and the file  *)
(* system does not fail: a process may die only while it holds the lock.   *)

OrderlyNext == \E p \in Proc : \/ LockStep(p) \/ Release(p)
                               \/ Holds(p) /\ Die(p)

(* The event loop of a running process keeps executing its calls, and a    *)
(* supervisor keeps asking for the lock; the inspection of a dead process  *)
(* does not fail every time it is tried.                                   *)
OrderlyFairness ==
  \A p \in Proc : /\ WF_vars(LockStep(p) \/ Release(p))
                  /\ SF_vars(JudgeDead(p)) /\ SF_vars(RereadSame(p))
OrderlySpec == Init /\ [][OrderlyNext]_vars /\ OrderlyFairness

(* A dead process's claim does not block the others for good: as long as   *)
(* some process still asks, no such claim is at the path in the end.       *)
DeadClaimed == Locked /\ Dead(lock.claim.owner)
DeadClaimIsReclaimed ==
  DeadClaimed ~> (~DeadClaimed \/ \A p \in Proc : Dead(p) \/ seq[p] = MaxClaims)
=============================================================================
