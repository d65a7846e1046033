---------------------------- MODULE MCOpenFiles -----------------------------
(* OpenFiles with callers and writes that can be exchanged for each other. *)
EXTENDS OpenFiles, TLC

Symmetry == Permutations(Callers) \union Permutations(Edits)

=============================================================================
