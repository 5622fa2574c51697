--------------------------- MODULE MCSyncReplica ---------------------------
(***************************************************************************)
(* Instance of SyncReplica for TLC.                                        *)
(***************************************************************************)
EXTENDS SyncReplica

CONSTANTS s1, s2, l1, l2, r1, r2

\* Both requests are about the same session.
AboutOne == [r \in Requests |-> s1]

=============================================================================
