--------------------------- MODULE MCBuildQueue -----------------------------
(* A small instance of BuildQueue for TLC. *)
EXTENDS BuildQueue

CONSTANTS b1, r1, r2
=============================================================================
