------------------------ MODULE GenerationAllocator ------------------------
(***************************************************************************)
(* What an allocator of controller or runtime generations promises its     *)
(* callers: every generation handed out is larger than every one handed    *)
(* out before, whoever it went to, so that "newer than" orders the holders *)
(* and a fence can reject the older ones.                                  *)
(***************************************************************************)
EXTENDS Integers

VARIABLE issued  \* the generations handed out so far, each with its receiver

Init == issued = {}

Issue ==
  \E a \in issued' \ issued :
    /\ a.gen \in Nat \ {0}
    /\ \A b \in issued : a.gen > b.gen
    /\ issued' = issued \cup {a}

Spec == Init /\ [][Issue]_issued
=============================================================================
