------------------------- MODULE MCBlueprintRuntime -------------------------
(***************************************************************************)
(* TLC instances of BlueprintRuntime.                                      *)
(***************************************************************************)
EXTENDS BlueprintRuntime, TLC

CONSTANTS c1, c2, c3, p1, p2

\* The second call starts a run with an interpreter of its own.
OnePlan == [c \in Calls |-> IF c = c2 THEN p2 ELSE None]
\* Only the first project has an environment of its own.
OneVenv == [c \in Calls |-> IF c = c1 THEN p1 ELSE None]
\* There is one in the PATH.
Everywhere == [c \in Calls |-> p1]
=============================================================================
