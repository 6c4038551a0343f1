---------------------------- MODULE MCGitWrites ----------------------------
(* Instances of GitWrites for TLC. *)
EXTENDS GitWrites, TLC

CONSTANTS a1, a2, i1, i2, p1, r1

OneRepo == (p1 :> r1)

Symmetry == Permutations(Agent) \union Permutations(Id)
=============================================================================
