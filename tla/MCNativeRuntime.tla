-------------------------- MODULE MCNativeRuntime --------------------------
(* Model-checking instances of NativeRuntime.                              *)
EXTENDS NativeRuntime, TLC

\* Command identities are interchangeable.
CmdSymmetry == Permutations(Cmds)
=============================================================================
