------------------------------- MODULE MCLists --------------------------------
(* The instance of FlyList that TLC checks. *)
EXTENDS FlyList

Symmetry == Permutations(Threads) \cup Permutations(Blocks)
            \cup Permutations(Lists) \cup Permutations(Els)
==============================================================================
