------------------------------ MODULE MCTokenSwap ------------------------------
(***************************************************************************)
(* Three deployments of TokenSwap for TLC: one where everything may fail   *)
(* and the upstream provider rotates its refresh tokens, one where only    *)
(* the upstream provider fails, and that one with a token storage that has *)
(* no take().                                                              *)
(***************************************************************************)
EXTENDS TokenSwap, TLC

MCDeployment ==
    {[rotates |-> TRUE, reliable |-> FALSE, prompt |-> FALSE, atomicTake |-> TRUE,
      lifetimes |-> {2}, jwts |-> 6, maxTime |-> 3],
     [rotates |-> FALSE, reliable |-> TRUE, prompt |-> TRUE, atomicTake |-> TRUE,
      lifetimes |-> {1, 3}, jwts |-> 5, maxTime |-> 2],
     [rotates |-> FALSE, reliable |-> TRUE, prompt |-> TRUE, atomicTake |-> FALSE,
      lifetimes |-> {2}, jwts |-> 4, maxTime |-> 2]}

MCSymmetry == Permutations(Slot) \cup Permutations(Instance)
================================================================================
