----------------------------- MODULE MCRequestView -----------------------------
(* The instance of RequestView for TLC: one session, a request for one       *)
(* pattern and one for two.                                                  *)
EXTENDS RequestView

CONSTANTS s1, pa, pb

OneSession == [r \in Requests |-> s1]
OneThenTwo == [r \in Requests |-> IF r = 1 THEN {pa} ELSE {pa, pb}]
AllAsk == [p \in Patterns |-> "ask"]

=============================================================================
