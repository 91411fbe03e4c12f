-------------------------- MODULE MCProofService --------------------------
(* The commands for model checking: two agents and small trees.            *)
EXTENDS ProofService, TLC

Fork == {<<1>>, <<1, 1>>, <<1, 2>>}
Chain == {<<1>>, <<1, 1>>, <<1, 1, 1>>}
OnlyRoot == {<<1>>}
Pair == {<<1>>, <<1, 1>>}
Wide == Fork \cup {<<1, 3>>, <<1, 1, 1>>, <<1, 1, 1, 1>>}

Symmetry == Permutations(Agents) \cup Permutations(Challenges)
===========================================================================
