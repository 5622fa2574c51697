--------------------------- MODULE MCBrokerGather ---------------------------
(***************************************************************************)
(* TLC instances of BrokerGather: two agents that gather from each other   *)
(* under the same id while one of them loses its connection and comes      *)
(* back.                                                                   *)
(***************************************************************************)
EXTENDS BrokerGather, TLC

CONSTANTS o, w, o1, o2, w1, r1, r2, id

TwoOrchestrators == o1 :> o @@ o2 :> o @@ w1 :> w
SameId == [r \in Requests |-> id]
Senders == r1 :> o1 @@ r2 :> w1
EachOther == r1 :> <<w>> @@ r2 :> <<o>>
=============================================================================
