---------------------------- MODULE MCSharedLease ----------------------------
(***************************************************************************)
(* TLC instances of SharedLease: publishes of two agents, and a reader.    *)
(***************************************************************************)
EXTENDS SharedLease, TLC

CONSTANTS w1, w2, w3, r1, r2

SwapReaders == Permutations(Readers)

TwoAgents == w1 :> "a" @@ w2 :> "b" @@ w3 :> "a"
=============================================================================
