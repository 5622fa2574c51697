---------------------------- MODULE BrokerGather ----------------------------
(***************************************************************************)
(* The TCP broker (broker.py): the registry of connected agents and        *)
(* batch_gather, which sends one message to every target, collects their   *)
(* replies and answers the initiator with one gather_result.               *)
(*                                                                         *)
(* Every connection has a handler task, every batch_gather a task of its   *)
(* own, and a heartbeat task evicts silent agents.  They share _agents,    *)
(* _last_seen and _gathers under one lock; an action is the code between   *)
(* two points where such a task may wait for that lock or for a socket.    *)
(***************************************************************************)
EXTENDS Naturals, Sequences, FiniteSets

CONSTANTS
  Agents,
  Conns,      \* connections
  AgentOf,    \* agent_id that registers on a connection
  Requests,   \* batch_gather frames
  Ids,        \* their gather ids, which a client may use again
  IdOf,
  Initiator,  \* connection that sends a request
  Items,      \* targets of a request, in order
  Silent,     \* bound: agents that may stay silent beyond the stale threshold
  Broken,     \* bound: connections that may fail
  Heart,      \* the heartbeat task
  None

ASSUME GatherAssumption ==
  /\ AgentOf \in [Conns -> Agents]
  /\ IdOf \in [Requests -> Ids]
  /\ Initiator \in [Requests -> Conns]
  /\ Items \in [Requests -> Seq(Agents)]
  /\ \A r \in Requests : Items[r] # <<>>
  /\ Heart \notin Conns
  /\ None \notin Conns \cup Requests \cup Agents

VARIABLES
  agents,    \* _agents
  lastSeen,  \* _last_seen: fresh, old (beyond the threshold) or absent
  conn,      \* handler of a connection: new, up, leaving, closed
  closing,   \* connections whose writer is_closing()
  evicted,   \* agents the heartbeat has still to run _agent_left for
  toDrop,    \* a task in _agent_left: the gathers it found owned by the agent
  toFail,    \* and the gathers it found waiting for the agent
  gathers,   \* _gathers
  replies,   \* GatherState.replies
  pc,        \* progress of a request's task
  sent,      \* items it has dispatched
  awaits,    \* the gather whose done_event it waits for
  owed,      \* <<request, target>>: delivered, the answer is still to come
  results    \* gather_results written to the initiator

vars == <<agents, lastSeen, conn, closing, evicted, toDrop, toFail, gathers,
          replies, pc, sent, awaits, owed, results>>

links == <<agents, lastSeen, conn, closing>>
leaving == <<evicted, toDrop, toFail>>
tasks == <<pc, sent, awaits>>

Leavers == Conns \cup {Heart}
Expected(r) == {Items[r][k] : k \in DOMAIN Items[r]}
InitiatorId(r) == AgentOf[Initiator[r]]

\* Faulty: the last reply but one completes the gather.
CompleteEarly(r) == Cardinality(Expected(r) \ replies[r]) <= 1

\* done_event is set by the reply that makes this true, and never cleared.
Complete(r) == Expected(r) \subseteq replies[r]
Online(a) == agents[a] # None /\ agents[a] \notin closing

Init ==
  /\ agents = [a \in Agents |-> None]
  /\ lastSeen = [a \in Agents |-> "absent"]
  /\ conn = [c \in Conns |-> "new"]
  /\ closing = {}
  /\ evicted = {}
  /\ toDrop = [l \in Leavers |-> {}]
  /\ toFail = toDrop
  /\ gathers = [i \in Ids |-> None]
  /\ replies = [r \in Requests |-> {}]
  /\ pc = [r \in Requests |-> "new"]
  /\ sent = [r \in Requests |-> 0]
  /\ awaits = [r \in Requests |-> None]
  /\ owed = {}
  /\ results = [r \in Requests |-> <<>>]

-----------------------------------------------------------------------------
(***************************************************************************)
(* Connections.                                                            *)
(***************************************************************************)

\* A second connection for a registered agent is refused and closed.
Register(c) ==
  LET a == AgentOf[c] IN
  /\ conn[c] = "new"
  /\ \/ /\ agents[a] # None
        /\ conn' = [conn EXCEPT ![c] = "closed"]
        /\ closing' = closing \cup {c}
        /\ UNCHANGED <<agents, lastSeen>>
     \/ /\ agents[a] = None
        /\ agents' = [agents EXCEPT ![a] = c]
        /\ lastSeen' = [lastSeen EXCEPT ![a] = "fresh"]
        /\ conn' = [conn EXCEPT ![c] = "up"]
        /\ UNCHANGED closing
  /\ UNCHANGED <<leaving, gathers, replies, tasks, owed, results>>

\* A frame comes on a registered connection.
Hears(c) ==
  /\ conn[c] = "up"
  /\ lastSeen' = [lastSeen EXCEPT ![AgentOf[c]] = "fresh"]

\* A frame that asks for nothing: a pong.
Pong(c) ==
  /\ Hears(c)
  /\ UNCHANGED <<agents, conn, closing, leaving, gathers, replies, tasks, owed, results>>

\* No frame of an agent comes for longer than the stale threshold.
Silence(a) ==
  /\ a \in Silent
  /\ agents[a] # None /\ lastSeen[a] = "fresh"
  /\ lastSeen' = [lastSeen EXCEPT ![a] = "old"]
  /\ UNCHANGED <<agents, conn, closing, leaving, gathers, replies, tasks, owed, results>>

\* The transport is lost: the writer is closing, the handler not yet at its end.
Lose(c) ==
  /\ c \in Broken \ closing
  /\ conn[c] = "up"
  /\ closing' = closing \cup {c}
  /\ UNCHANGED <<agents, lastSeen, conn, leaving, gathers, replies, tasks, owed, results>>

\* One round of the heartbeat forgets the agents it finds stale.  Their
\* connections stay open.
Stale == {a \in Agents : agents[a] # None /\ (agents[a] \in closing \/ lastSeen[a] # "fresh")}

Beat ==
  /\ evicted = {} /\ toDrop[Heart] = {} /\ toFail[Heart] = {}
  /\ Stale # {}
  /\ agents' = [a \in Agents |-> IF a \in Stale THEN None ELSE agents[a]]
  /\ lastSeen' = [a \in Agents |-> IF a \in Stale THEN "absent" ELSE lastSeen[a]]
  /\ evicted' = Stale
  /\ UNCHANGED <<conn, closing, toDrop, toFail, gathers, replies, tasks, owed, results>>

-----------------------------------------------------------------------------
(***************************************************************************)
(* Ending a gather.                                                        *)
(***************************************************************************)

\* gather_result to the initiator, unless its writer is closing.
Tell(r, ok) ==
  results' = IF Initiator[r] \in closing THEN results
             ELSE [results EXCEPT ![r] = Append(@, [ok |-> ok, replies |-> replies[r]])]

\* Faulty: the result is written without taking the gather out first.
FailKeepsGather(i) ==
  /\ UNCHANGED gathers
  /\ IF gathers[i] = None THEN UNCHANGED results ELSE Tell(gathers[i], FALSE)

\* _pop_gather and, if there was one, its failure.
Fail(i) ==
  /\ gathers' = [gathers EXCEPT ![i] = None]
  /\ IF gathers[i] = None THEN UNCHANGED results ELSE Tell(gathers[i], FALSE)

-----------------------------------------------------------------------------
(***************************************************************************)
(* _agent_left, run by a connection's handler or by the heartbeat.         *)
(***************************************************************************)

\* The gathers to drop and to fail are listed under the lock.
Scan(l, a) ==
  LET open == {i \in Ids : gathers[i] # None}
      own == {i \in open : InitiatorId(gathers[i]) = a} IN
  /\ toDrop' = [toDrop EXCEPT ![l] = own]
  /\ toFail' = [toFail EXCEPT ![l] =
       {i \in open \ own : a \in Expected(gathers[i]) \ replies[gathers[i]]}]

\* The handler's read fails.
Leave(c) ==
  /\ conn[c] = "up"
  /\ c \in Broken
  /\ conn' = [conn EXCEPT ![c] = "leaving"]
  /\ Scan(c, AgentOf[c])
  /\ UNCHANGED <<agents, lastSeen, closing, evicted, gathers, replies, tasks, owed, results>>

LeaveEvicted(a) ==
  /\ a \in evicted
  /\ toDrop[Heart] = {} /\ toFail[Heart] = {}
  /\ evicted' = evicted \ {a}
  /\ Scan(Heart, a)
  /\ UNCHANGED <<links, gathers, replies, tasks, owed, results>>

\* Each listed gather is popped under the lock of its own.
LeftDrop(l, i) ==
  /\ i \in toDrop[l]
  /\ gathers' = [gathers EXCEPT ![i] = None]
  /\ toDrop' = [toDrop EXCEPT ![l] = @ \ {i}]
  /\ UNCHANGED <<links, evicted, toFail, replies, tasks, owed, results>>

LeftFail(l, i) ==
  /\ toDrop[l] = {}
  /\ i \in toFail[l]
  /\ Fail(i)
  /\ toFail' = [toFail EXCEPT ![l] = @ \ {i}]
  /\ UNCHANGED <<links, evicted, toDrop, replies, tasks, owed>>

\* The handler ends: it takes out its own writer only, but the agent's
\* _last_seen whoever is registered now.
LeftEnd(c) ==
  LET a == AgentOf[c] IN
  /\ conn[c] = "leaving"
  /\ toDrop[c] = {} /\ toFail[c] = {}
  /\ agents' = [agents EXCEPT ![a] = IF @ = c THEN None ELSE @]
  /\ lastSeen' = [lastSeen EXCEPT ![a] = "absent"]
  /\ conn' = [conn EXCEPT ![c] = "closed"]
  /\ closing' = closing \cup {c}
  /\ UNCHANGED <<leaving, gathers, replies, tasks, owed, results>>

-----------------------------------------------------------------------------
(***************************************************************************)
(* The task of a batch_gather.                                             *)
(***************************************************************************)

\* The frame arrives and gets its task, which runs when the handler waits next:
\* the initiator may be gone by then.
Ask(r) ==
  /\ pc[r] = "new"
  /\ Hears(Initiator[r])
  /\ pc' = [pc EXCEPT ![r] = "asked"]
  /\ UNCHANGED <<agents, conn, closing, leaving, gathers, replies, sent, awaits,
                 owed, results>>

Accept(r) ==
  /\ pc[r] = "asked"
  /\ \/ /\ gathers[IdOf[r]] # None
        /\ Tell(r, FALSE)
        /\ pc' = [pc EXCEPT ![r] = "end"]
        /\ UNCHANGED gathers
     \/ /\ gathers[IdOf[r]] = None
        /\ \E a \in Expected(r) : ~Online(a)
        /\ Tell(r, FALSE)
        /\ pc' = [pc EXCEPT ![r] = "end"]
        /\ UNCHANGED gathers
     \/ /\ gathers[IdOf[r]] = None
        /\ \A a \in Expected(r) : Online(a)
        /\ gathers' = [gathers EXCEPT ![IdOf[r]] = r]
        /\ pc' = [pc EXCEPT ![r] = "dispatch"]
        /\ UNCHANGED results
  /\ UNCHANGED <<links, leaving, replies, sent, awaits, owed>>

\* One target: gone, reached, or its socket fails.  A task whose gather has
\* been taken from it goes on all the same, and fails whatever has its id.
Dispatch(r) ==
  LET a == Items[r][sent[r] + 1] IN
  /\ pc[r] = "dispatch"
  /\ sent[r] < Len(Items[r])
  /\ \/ /\ Online(a)
        /\ sent' = [sent EXCEPT ![r] = @ + 1]
        /\ owed' = owed \cup {<<r, a>>}
        /\ UNCHANGED <<gathers, results, pc>>
     \/ /\ ~Online(a)
        /\ Fail(IdOf[r])
        /\ pc' = [pc EXCEPT ![r] = "end"]
        /\ UNCHANGED <<sent, owed>>
     \/ /\ Online(a) /\ conn[agents[a]] = "leaving"
        /\ Fail(IdOf[r])
        /\ pc' = [pc EXCEPT ![r] = "end"]
        /\ UNCHANGED <<sent, owed>>
  /\ UNCHANGED <<links, leaving, replies, awaits>>

\* All dispatched: wait for the gather that has the id now, if any.
Await(r) ==
  /\ pc[r] = "dispatch"
  /\ sent[r] = Len(Items[r])
  /\ awaits' = [awaits EXCEPT ![r] = gathers[IdOf[r]]]
  /\ pc' = [pc EXCEPT ![r] = IF gathers[IdOf[r]] = None THEN "end" ELSE "wait"]
  /\ UNCHANGED <<links, leaving, gathers, replies, sent, owed, results>>

\* done_event is set, by the last reply.
Done(r) ==
  LET g == gathers[IdOf[r]] IN
  /\ pc[r] = "wait"
  /\ Complete(awaits[r])
  /\ IF g = None \/ ~Complete(g) THEN UNCHANGED <<gathers, results>>
     ELSE gathers' = [gathers EXCEPT ![IdOf[r]] = None] /\ Tell(g, TRUE)
  /\ pc' = [pc EXCEPT ![r] = "end"]
  /\ UNCHANGED <<links, leaving, replies, sent, awaits, owed>>

\* The initiator's writer is found closing, by a look every second.
InitiatorClosed(r) ==
  /\ pc[r] = "wait"
  /\ Initiator[r] \in closing
  /\ gathers' = [gathers EXCEPT ![IdOf[r]] = None]
  /\ pc' = [pc EXCEPT ![r] = "end"]
  /\ UNCHANGED <<links, leaving, replies, sent, awaits, owed, results>>

\* timeout_sec is over: the gather is looked up under the lock and
\* popped under the lock again.
Timeout(r) ==
  LET g == gathers[IdOf[r]] IN
  /\ pc[r] = "wait"
  /\ ~Complete(awaits[r])
  /\ pc' = [pc EXCEPT ![r] = IF g = None THEN "end" ELSE "timeout"]
  /\ UNCHANGED <<links, leaving, gathers, replies, sent, awaits, owed, results>>

\* Faulty: the initiator hears of the timeout, the gather stays.
TimeoutTells(r) ==
  /\ pc[r] = "timeout"
  /\ FailKeepsGather(IdOf[r])
  /\ pc' = [pc EXCEPT ![r] = "end"]
  /\ UNCHANGED <<links, leaving, replies, sent, awaits, owed>>

TimeoutPop(r) ==
  /\ pc[r] = "timeout"
  /\ Fail(IdOf[r])
  /\ pc' = [pc EXCEPT ![r] = "end"]
  /\ UNCHANGED <<links, leaving, replies, sent, awaits, owed>>

-----------------------------------------------------------------------------
(***************************************************************************)
(* Replies.                                                                *)
(***************************************************************************)

\* _on_gather_reply: a worker answers what it got for request r, on the
\* connection it has now; the reply counts for the gather that has r's id.
Reply(r, a) ==
  LET g == gathers[IdOf[r]] IN
  /\ <<r, a>> \in owed
  /\ \E c \in Conns : AgentOf[c] = a /\ Hears(c)
  /\ owed' = owed \ {<<r, a>>}
  /\ IF g # None /\ InitiatorId(g) = InitiatorId(r) /\ a \in Expected(g) \ replies[g]
     THEN replies' = [replies EXCEPT ![g] = @ \cup {a}]
     ELSE UNCHANGED replies
  /\ UNCHANGED <<agents, conn, closing, leaving, gathers, tasks, results>>

-----------------------------------------------------------------------------
LeftStep(l) ==
  \/ \E i \in Ids : LeftDrop(l, i) \/ LeftFail(l, i)
  \/ l = Heart /\ \E a \in Agents : LeaveEvicted(a)
  \/ l # Heart /\ LeftEnd(l)

TaskStep(r) ==
  \/ Accept(r) \/ Dispatch(r) \/ Await(r)
  \/ Done(r) \/ InitiatorClosed(r) \/ Timeout(r) \/ TimeoutPop(r)

Next ==
  \/ \E c \in Conns : Register(c) \/ Pong(c) \/ Lose(c) \/ Leave(c)
  \/ \E a \in Agents : Silence(a)
  \/ Beat
  \/ \E l \in Leavers : LeftStep(l)
  \/ \E r \in Requests : Ask(r) \/ TaskStep(r)
  \/ \E r \in Requests, a \in Agents : Reply(r, a)

Spec == Init /\ [][Next]_vars

\* The event loop runs a ready task, and a wait ends by its timeout at last.
Fairness == \A r \in Requests : WF_vars(TaskStep(r))

FairSpec == Spec /\ Fairness

-----------------------------------------------------------------------------
(***************************************************************************)
(* Properties.                                                             *)
(***************************************************************************)

TypeOK ==
  /\ agents \in [Agents -> Conns \cup {None}]
  /\ lastSeen \in [Agents -> {"fresh", "old", "absent"}]
  /\ conn \in [Conns -> {"new", "up", "leaving", "closed"}]
  /\ closing \subseteq Conns
  /\ evicted \subseteq Agents
  /\ toDrop \in [Leavers -> SUBSET Ids] /\ toFail \in [Leavers -> SUBSET Ids]
  /\ gathers \in [Ids -> Requests \cup {None}]
  /\ replies \in [Requests -> SUBSET Agents]
  /\ pc \in [Requests -> {"new", "asked", "dispatch", "wait", "timeout", "end"}]
  /\ sent \in [Requests -> Nat] /\ \A r \in Requests : sent[r] <= Len(Items[r])
  /\ awaits \in [Requests -> Requests \cup {None}]
  /\ owed \subseteq Requests \X Agents

\* A batch_gather is answered at most once, although its own task, the tasks of
\* leaving connections, the heartbeat and a task left over from an earlier
\* gather with the same id may all end it.
OneResult == \A r \in Requests : Len(results[r]) <= 1

\* ok means that every target has replied.
OkMeansAll ==
  \A r \in Requests : \A k \in DOMAIN results[r] :
    results[r][k].ok => results[r][k].replies = Expected(r)

\* A registered gather has a task that will take it out again: none stays in
\* _gathers for ever, where its id would be refused as duplicate.
GatherIsServed ==
  \A i \in Ids : gathers[i] # None =>
    IdOf[gathers[i]] = i /\ pc[gathers[i]] \in {"dispatch", "wait", "timeout"}

\* And it does take it out, whatever its targets and its initiator do.
GatherEnds ==
  \A r \in Requests : gathers[IdOf[r]] = r ~> gathers[IdOf[r]] # r
=============================================================================
