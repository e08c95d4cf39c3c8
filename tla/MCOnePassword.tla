--------------------------- MODULE MCOnePassword ---------------------------
(* Instances of OnePassword for TLC: the model values the configurations   *)
(* give Calls and Tokens, and the symmetry of the resolves.                 *)
EXTENDS OnePassword, TLC

CallSymmetry == Permutations(Calls) \cup Permutations(Tokens)
=============================================================================
