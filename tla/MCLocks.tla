------------------------------ MODULE MCLocks -------------------------------
(* A small instance of Locks for TLC: one user with two devices, another
   with one.                                                               *)
EXTENDS Locks, TLC

CONSTANTS e1, d1, d2, d3, u1, u2, r1, r2

ThreeDevices == d1 :> u1 @@ d2 :> u1 @@ d3 :> u2
\* The devices of the first user may be exchanged.
Symmetry == Permutations(Requests) \cup {d1 :> d2 @@ d2 :> d1}
=============================================================================
