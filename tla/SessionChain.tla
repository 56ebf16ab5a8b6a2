---------------------------- MODULE SessionChain ----------------------------
(***************************************************************************)
(* What a login session promises, whatever the order in which requests,    *)
(* locks and crashes meet.  A session is a chain of refresh tokens: it is  *)
(* opened with the first one, each renewal makes the next one the only     *)
(* valid one, a token reaches the app once and only while it is the        *)
(* current one, and a session that has ended stays ended.                  *)
(***************************************************************************)
EXTENDS Naturals

CONSTANTS Sessions

VARIABLES
    token,   \* number of the current token, 0 before the session is opened
    ended,   \* whether the session has ended
    held     \* the last token the app was given, 0 when none

vars == <<token, ended, held>>

Init ==
    /\ token \in [Sessions -> 0 .. 1]
    /\ ended = [s \in Sessions |-> FALSE]
    /\ held \in [Sessions -> 0 .. 1] /\ \A s \in Sessions : held[s] <= token[s]

Open(s) ==
    /\ token[s] = 0
    /\ token' = [token EXCEPT ![s] = 1]
    /\ UNCHANGED <<ended, held>>

Renew(s) ==
    /\ token[s] > 0 /\ ~ended[s]
    /\ held[s] = token[s]
    /\ token' = [token EXCEPT ![s] = @ + 1]
    /\ UNCHANGED <<ended, held>>

Hand(s) ==
    /\ held[s] < token[s]
    /\ held' = [held EXCEPT ![s] = token[s]]
    /\ UNCHANGED <<token, ended>>

\* Locking a user ends several sessions at once.
End(S) ==
    /\ \A s \in S : token[s] > 0
    /\ ended' = [s \in Sessions |-> IF s \in S THEN TRUE ELSE ended[s]]
    /\ UNCHANGED <<token, held>>

Next ==
    \/ \E s \in Sessions : Open(s) \/ Renew(s) \/ Hand(s)
    \/ \E S \in SUBSET Sessions : End(S)

Spec == Init /\ [][Next]_vars
=============================================================================
