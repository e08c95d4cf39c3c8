------------------------------ MODULE MCKeeper ------------------------------
(* Instances of Keeper for TLC: the symmetry of the resolves and of the    *)
(* configurations, which the configurations give as model values.          *)
EXTENDS Keeper, TLC

CallSymmetry == Permutations(Calls) \cup Permutations(Bound)
=============================================================================
