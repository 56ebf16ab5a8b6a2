----------------------------- MODULE MCAccounts -----------------------------
(* A small instance of Accounts for TLC. *)
EXTENDS Accounts, TLC

CONSTANTS admin, user, c1, d1, d2, q1, q2

Approved == {[status |-> "approved", role |-> "member"]}
Symmetry == Permutations(Requests) \cup Permutations(Devices)
=============================================================================
