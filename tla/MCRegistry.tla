----------------------------- MODULE MCRegistry -----------------------------
(* Model-checking instances of Registry.                                   *)
EXTENDS Registry, TLC

\* Handle numbers, environments and directories are interchangeable.
Symmetry == Permutations(Ops) \cup Permutations(Envs) \cup Permutations(Inodes)
=============================================================================
