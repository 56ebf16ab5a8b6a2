----------------------------- MODULE MCUploads ------------------------------
(* Small instances of Uploads for TLC. *)
EXTENDS Uploads, TLC

CONSTANTS a1, a2, u1, u2, s1, s2, h1, h2, g1, c1, c2

Symmetry == Permutations(Handlers) \cup Permutations(Users)
            \cup Permutations(Sessions) \cup Permutations(Chunks)
=============================================================================
