--------------------------- MODULE LogReplication ---------------------------
(***************************************************************************)
(* What the event log of sync/index.ts promises.  The events of a session  *)
(* have one order, given by the device that writes it; every other device  *)
(* holds the beginning of that order, and comes to hold more of it.        *)
(***************************************************************************)
EXTENDS Naturals, Sequences

CONSTANTS Devices, Sessions, Event

VARIABLES
  truth, \* the events of a session, in the order they were written
  copy   \* the events of a session a device has stored

Beginning(s, t) ==
  /\ Len(s) <= Len(t)
  /\ \A i \in 1..Len(s) : s[i] = t[i]

Init ==
  /\ truth = [s \in Sessions |-> <<>>]
  /\ copy = [d \in Devices |-> [s \in Sessions |-> <<>>]]

\* A device that has everything writes the next event; the event may be the
\* one that makes it forget the session.
Write(d, s) ==
  /\ copy[d][s] = truth[s]
  /\ \E e \in Event : truth' = [truth EXCEPT ![s] = Append(@, e)]
  /\ \E kept \in {truth'[s], <<>>} : copy' = [copy EXCEPT ![d][s] = kept]

\* A device stores events it did not have, of any number of sessions.
Learn(d) ==
  /\ copy' \in [Devices -> [Sessions -> Seq(Event)]]
  /\ \A s \in Sessions :
       Beginning(copy[d][s], copy'[d][s]) /\ Beginning(copy'[d][s], truth[s])
  /\ \A other \in Devices \ {d} : copy'[other] = copy[other]
  /\ UNCHANGED truth

Forget(d, s) ==
  /\ copy' = [copy EXCEPT ![d][s] = <<>>]
  /\ UNCHANGED truth

Next == \E d \in Devices : Learn(d) \/ \E s \in Sessions : Write(d, s) \/ Forget(d, s)

Spec == Init /\ [][Next]_<<truth, copy>>

=============================================================================
