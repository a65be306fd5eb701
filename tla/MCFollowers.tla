---------------------------- MODULE MCFollowers ----------------------------
(* The three followers for TLC in one run, as independent instances: a     *)
(* behaviour takes the steps of one of them.                               *)
EXTENDS Followers, TLC

CONSTANTS p1, p2

VARIABLE part

MCOptions == [loose : {{}, {2}}, changing : BOOLEAN]
MCVersion == 0 .. 1
MCTrouble == (p1 :> {"clogged"}) @@ (p2 :> {"closed", "late"})
MCStart == {[i \in Item |-> IF i = Metadata THEN 0 ELSE 1]}

(* Bound: the last of the changes is one that is not announced.            *)
LastIsQuiet == changes' = changes \/ changes' < MaxChanges \/ truth'[Metadata] # truth[Metadata]

MCInit == /\ Init /\ Mirror!Init /\ Cache!Init /\ part \in {"pages", "mirror", "cache"}
          /\ part # "cache" => options = [loose |-> {}, changing |-> FALSE]
MCNext ==
  /\ UNCHANGED part
  /\ \/ part = "pages" /\ Next /\ LastIsQuiet /\ UNCHANGED <<mirrorVars, cacheVars>>
     \/ part = "mirror" /\ Mirror!Next /\ UNCHANGED <<vars, cacheVars>>
     \/ part = "cache" /\ Cache!Next /\ UNCHANGED <<vars, mirrorVars>>
MCVars == <<part, vars, mirrorVars, cacheVars>>
MCFairness ==
  /\ WF_MCVars(part = "pages" /\ Runs /\ UNCHANGED <<part, mirrorVars, cacheVars>>)
  /\ WF_MCVars(part = "mirror" /\ (Mirror!Host \/ Mirror!Server)
                /\ UNCHANGED <<part, vars, cacheVars>>)
MCSpec == MCInit /\ [][MCNext]_MCVars /\ MCFairness

(* When changes and faults have stopped, the server's client mirrors what  *)
(* the host knows and every page shows the agents as they are.             *)
MirrorCatchesUp == part = "mirror" => Mirror!MirrorCatchesUp
PartPagesCatchUp == part = "pages" => PagesCatchUp
=============================================================================
