---------------------------- MODULE MCSessionLoop ----------------------------
\* Three prompts, a shell and two cancellations of one session.
EXTENDS SessionLoop, TLC

CONSTANTS p1, p2, p3, h1, c1, c2

\* Prompts, and cancellations, are alike.  (Not for liveness.)
Alike == Permutations({p1, p2, p3}) \cup Permutations({c1, c2})

=============================================================================
