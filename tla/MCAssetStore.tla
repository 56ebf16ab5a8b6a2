--------------------------- MODULE MCAssetStore -----------------------------
(* Small instances of AssetStore for TLC. *)
EXTENDS AssetStore, TLC

CONSTANTS a1, a2, h1, h2, u1, g1, g2

Symmetry == Permutations(Shas) \cup Permutations(Committers)
            \cup Permutations(Collectors)
=============================================================================
