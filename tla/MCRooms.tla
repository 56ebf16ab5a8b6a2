------------------------------ MODULE MCRooms -------------------------------
(* Small instances of Rooms for TLC. *)
EXTENDS Rooms, TLC

CONSTANTS p1, p2, u1, s1, s2, h1, h2

OneUser == s1 :> u1 @@ s2 :> u1
Symmetry == Permutations(Sockets) \cup Permutations(Handlers)
=============================================================================
