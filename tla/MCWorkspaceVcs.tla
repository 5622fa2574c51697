--------------------------- MODULE MCWorkspaceVcs ---------------------------
(***************************************************************************)
(* TLC instances of WorkspaceVcs: two agents that share one file and add   *)
(* or delete another.                                                      *)
(***************************************************************************)
EXTENDS WorkspaceVcs, TLC

CONSTANTS a, b, shared, other, top, bottom, ea1, ea2, eb1, eb2, u1, original

OneEdit == a :> {ea1} @@ b :> {eb1}
TwoEdits == a :> {ea1, ea2} @@ b :> {eb1}
RegionSymmetry == Permutations({top, bottom})
OwnScope == a :> Paths @@ b :> {shared}
=============================================================================
