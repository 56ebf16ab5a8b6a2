---------------------------- MODULE MCWorkspace -----------------------------
(* Small instances of Workspace for TLC. *)
EXTENDS Workspace, TLC

CONSTANTS o1, o2, s1, s2, c1, c2, e1, h1, h2, p1, p2

\* Two devices: c1 sends o1, c2 sends o2.
McAuthor == o1 :> c1 @@ o2 :> c2
McTouches == o1 :> {e1} @@ o2 :> {e1}
McUntouched == [o \in Ops |-> {}]

OneProc == h1 :> p1 @@ h2 :> p1
TwoProcs == h1 :> p1 @@ h2 :> p2
=============================================================================
