---------------------------- MODULE WorkspaceLog ----------------------------
(***************************************************************************)
(* What the live-workspace endpoints promise to the members of a pack:     *)
(* the collaboration head is seeded once and afterwards is a log of        *)
(* accepted operations that only ever grows at its end, one operation per  *)
(* version, and an operation id is not accepted again while it is among    *)
(* the last Window accepted ones.  How requests, retries, queues, receipts *)
(* and crashes bring this about is the business of module Workspace, which *)
(* implements this specification.                                          *)
(***************************************************************************)
EXTENDS Naturals, Sequences

CONSTANTS
    Ops,      \* operation ids
    Seeds,    \* projects a pack's workspace can be initialized with
    None,     \* no project, not a seed: the workspace does not exist yet
    Window    \* how many accepted ids are remembered for certain

VARIABLES
    seed,     \* the project the log starts from, or None
    log       \* accepted operation ids, oldest first

logVars == <<seed, log>>

LogInit == seed = None /\ log = <<>>

\* The positions of the last Window entries of the log.
Remembered == {i \in 1..Len(log) : Len(log) - i < Window}

Initialize(s) ==
    /\ seed = None
    /\ seed' = s
    /\ UNCHANGED log

Accept(o) ==
    /\ seed # None
    /\ \A i \in Remembered : log[i] # o
    /\ log' = Append(log, o)
    /\ UNCHANGED seed

LogNext == (\E s \in Seeds : Initialize(s)) \/ (\E o \in Ops : Accept(o))

LogSpec == LogInit /\ [][LogNext]_logVars
=============================================================================
