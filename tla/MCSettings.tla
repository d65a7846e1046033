----------------------------- MODULE MCSettings -----------------------------
(* Settings with interchangeable folders and calls, for TLC.               *)
EXTENDS Settings, TLC

Symmetry == Permutations(Folders) \union Permutations(Calls)

=============================================================================
