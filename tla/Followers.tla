----------------------------- MODULE Followers -----------------------------
(* Three copies that follow what changes elsewhere, side by side: the      *)
(* pages that follow the server's agents and the server that follows its   *)
(* ACP runtime host, which both implement StateFollower, and an inventory  *)
(* that is read from files.                                                *)
EXTENDS AgentStateBroadcast

CONSTANTS Text, MaxBindings, MaxLog, MaxEvents, MaxHeld, Faults, MaxHostFaults,
          Options, MaxAttempts, NumFiles, MaxFileChanges, MaxInvalidations, MaxRestarts

ASSUME MirrorAssumption ==
  /\ MaxBindings \in Nat /\ MaxLog \in Nat /\ MaxHostFaults \in Nat
  /\ MaxEvents \in Nat \ {0} /\ MaxHeld \in Nat /\ Text # {}
  /\ Faults \subseteq {"closed", "host-dies", "late", "read"}

ASSUME CacheAssumption ==
  /\ NumFiles \in Nat
  /\ Options \subseteq [loose : SUBSET (1 .. NumFiles), changing : BOOLEAN]

VARIABLES hostLog, news, host, used, conn, hostClient, orphan, facade, hostFaults
VARIABLES options, files, value, print, generation, snapshot, pc, scan, known, attempt, since,
          answer, loadedAt, began, calledAt, restarts

mirrorVars == <<hostLog, news, host, used, conn, hostClient, orphan, facade, hostFaults>>
cacheVars == <<options, files, value, print, generation, snapshot, pc, scan, known, attempt,
               since, answer, loadedAt, began, calledAt, restarts>>

Mirror == INSTANCE AcpHostMirror WITH
            MaxBuffered <- MaxHeld, MaxFaults <- MaxHostFaults,
            log <- hostLog, client <- hostClient, faults <- hostFaults

Cache == INSTANCE InventoryCache WITH
           MaxChanges <- MaxFileChanges, log <- files, asked <- calledAt

(* The server's copies of what its host knows (see AcpHostMirror).         *)
MirrorIsHost == Mirror!MirrorIsHost
MirrorFollows == Mirror!Follows

(* What the cache answers is not older than the request (InventoryCache).  *)
AnswersAreCurrent == Cache!AnswersAreCurrent
=============================================================================
