------------------------------- MODULE MCPacks -------------------------------
(* A small instance of Packs for TLC. *)
EXTENDS Packs, TLC

CONSTANTS admin, ann, p1, p2, q1, q2

(* Names "A" and "A 2", whose slugs meet. *)
Names == {<<0>>, <<0, 2>>}
Symmetry == Permutations(Requests) \cup Permutations(Packs)
=============================================================================
