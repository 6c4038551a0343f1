---------------------------- MODULE MCGitJournal ----------------------------
(* Instances of GitJournal for TLC. *)
EXTENDS GitJournal, TLC

CONSTANTS a1, a2, i1, i2, p1, p2, r1, r2

\* One payload, and two payloads that name a repository each.
OneRepo   == (p1 :> r1)
TwoRepos  == (p1 :> r1 @@ p2 :> r2)

\* Processes and operations differ only in name, on one payload.
Symmetry == Permutations(Agent) \union Permutations(Id) \union Permutations(Payload)
NameSymmetry == Permutations(Agent) \union Permutations(Id)

=============================================================================
