----------------------------- MODULE SyncReplica -----------------------------
(***************************************************************************)
(* Sessions of the GuLiCode server as event logs (sync/index.ts), and the  *)
(* protocol that keeps the control server's copy of a remote workspace's   *)
(* sessions (control-plane/workspace.ts, server/fence.ts, server/proxy.ts, *)
(* server/routes/instance/sync.ts): sync loops that read the history and   *)
(* then follow the event stream, requests forwarded to the workspace whose *)
(* answer waits for the copy, the restore that hands a session over to the *)
(* workspace in batches, and the removal of the workspace.                 *)
(*                                                                         *)
(* One workspace.  A transaction, or a run of code without an await, is    *)
(* one step.  sync/README.md wants "only one device ... to write";         *)
(* nothing in the code keeps two from writing, so the rule is a constant.  *)
(***************************************************************************)
EXTENDS Naturals, Sequences

CONSTANTS
  Sessions,
  Loops,      \* runs of syncWorkspaceLoop
  Requests,   \* requests about a session that the router forwards
  Session,    \* the session a request is about
  Deletes,    \* the requests that delete it; the others change it
  OneWriter,  \* does the rule of sync/README.md hold?
  MaxEvents,  \* bound: events written to a session
  MaxDrops,   \* bound: connections that fail or break
  BatchSize,  \* events posted at a time by sessionRestore (10 in the code)
  None        \* no sync loop registered

Control == "control"
Workspace == "workspace"
Devices == {Control, Workspace}

ASSUME SyncAssumption ==
  /\ Session \in [Requests -> Sessions]
  /\ Deletes \subseteq Requests
  /\ OneWriter \in BOOLEAN
  /\ MaxEvents \in Nat
  /\ MaxDrops \in Nat
  /\ BatchSize \in Nat \ {0}
  /\ None \notin Loops

\* "moved" is the session.updated event that sets the session's workspace.
Event == [kind : {"created", "moved", "edit", "deleted"}, by : Devices]
E(k, d) == [kind |-> k, by |-> d]

VARIABLES
  log,        \* the rows of the event table, by device and session
  written,    \* history variable: the events of a session as they were written
  pc,         \* where a sync loop is
  aborted,    \* loops whose AbortController has fired
  stream,     \* events on a loop's stream and not yet read
  known,      \* seqs a loop has sent to /sync/history, as numbers of events
  history,    \* the workspace's logs as /sync/history read them
  registered, \* the loop in the map `aborts`
  status,     \* the workspace's entry in the map `connections`
  restore,    \* where the restore of a session is
  rows,       \* the events it read
  sent,       \* how many of them it has posted
  request,    \* where a forwarded request is
  fence,      \* the seq its answer waits for, as a number of events
  space,      \* the workspace: its row, and how far its removal is
  removing,   \* sessions the removal has still to remove
  drops       \* connections that have failed

logs == <<log, written>>
loopVars == <<pc, aborted, stream, known, history, registered, status>>
restoreVars == <<restore, rows, sent>>
requestVars == <<request, fence>>
spaceVars == <<space, removing>>
vars == <<log, written, pc, aborted, stream, known, history, registered, status,
          restore, rows, sent, request, fence, space, removing, drops>>

Init ==
  /\ log = [d \in Devices |-> [s \in Sessions |-> <<>>]]
  /\ written = [s \in Sessions |-> <<>>]
  /\ pc = [l \in Loops |-> "off"]
  /\ aborted = {}
  /\ stream = [l \in Loops |-> <<>>]
  /\ known = [l \in Loops |-> [s \in Sessions |-> 0]]
  /\ history = [l \in Loops |-> [s \in Sessions |-> <<>>]]
  /\ registered = None
  /\ status = "absent"
  /\ restore = [s \in Sessions |-> "no"]
  /\ rows = [s \in Sessions |-> <<>>]
  /\ sent = [s \in Sessions |-> 0]
  /\ request = [r \in Requests |-> "new"]
  /\ fence = [r \in Requests |-> 0]
  /\ space = "up"
  /\ removing = {}
  /\ drops = 0

-----------------------------------------------------------------------------
(***************************************************************************)
(* sync/index.ts and the projectors                                        *)
(***************************************************************************)

Has(evts, k) == \E i \in DOMAIN evts : evts[i].kind = k

\* The session's row, as the projectors make it from the log: none, without a
\* workspace, or of the workspace.
Row(evts) ==
  IF ~Has(evts, "created") \/ Has(evts, "deleted") THEN "none"
  ELSE IF Has(evts, "moved") \/ evts[1].by = Workspace THEN "there"
  ELSE "here"

\* SyncEvent.run on device d: the event gets the next seq.
Run(d, s, e) ==
  /\ log' = [log EXCEPT ![d][s] = Append(@, e)]
  /\ written' = [written EXCEPT ![s] = Append(@, e)]

\* Faulty: an event is taken whatever its seq, if it is a new one.
ReplaysAcrossAGap(evts, i, e) == IF i <= Len(evts) THEN evts ELSE Append(evts, e)

\* SyncEvent.replay of event e with seq i (the first is 1 here): an old one is
\* ignored, one that leaves a gap throws.
Replay(evts, i, e) == IF i = Len(evts) + 1 THEN Append(evts, e) ELSE evts

\* SyncEvent.replay, one after the other, of from[lo], ..., from[hi].
Misses(evts, lo, hi) == lo <= hi /\ lo > Len(evts) + 1
ReplayAll(evts, from, lo, hi) ==
  IF lo > hi \/ lo > Len(evts) + 1 \/ hi <= Len(evts) THEN evts
  ELSE [i \in 1..hi |-> IF i <= Len(evts) THEN evts[i] ELSE from[i]]

\* The workspace publishes an event: it is put on every open stream.
Publish(s, e) ==
  stream' = [l \in Loops |->
    IF pc[l] \in {"asked", "answered", "stream"}
    THEN Append(stream[l], [s |-> s, i |-> Len(log[Workspace][s]) + 1, e |-> e])
    ELSE stream[l]]

-----------------------------------------------------------------------------
(***************************************************************************)
(* Writers.  Under OneWriter the control server writes to its sessions     *)
(* until a restore of them begins, and the workspace to its own and, when  *)
(* a restore has ended well, to the restored ones.                         *)
(***************************************************************************)

Room(s) == Len(written[s]) < MaxEvents

ControlWrites(s) ==
  /\ Row(log[Control][s]) # "none"
  /\ OneWriter => restore[s] = "no" /\ Row(log[Control][s]) = "here"

WorkspaceWrites(s) ==
  /\ Row(log[Workspace][s]) # "none"
  /\ OneWriter => restore[s] \in {"no", "done"}

CreateHere(s) ==
  /\ written[s] = <<>>
  /\ Run(Control, s, E("created", Control))
  /\ UNCHANGED <<loopVars, restoreVars, requestVars, spaceVars, drops>>

EditHere(s) ==
  /\ ControlWrites(s) /\ Room(s)
  /\ Run(Control, s, E("edit", Control))
  /\ UNCHANGED <<loopVars, restoreVars, requestVars, spaceVars, drops>>

\* Session.remove of a session without a workspace: the event is written and
\* the log deleted in one go, and no other device hears of it.
RemoveHere(s) ==
  /\ Row(log[Control][s]) = "here"
  /\ OneWriter => restore[s] = "no"
  /\ log' = [log EXCEPT ![Control][s] = <<>>]
  /\ UNCHANGED <<written, loopVars, restoreVars, requestVars, spaceVars, drops>>

CreateThere(s) ==
  /\ written[s] = <<>>
  /\ Run(Workspace, s, E("created", Workspace))
  /\ Publish(s, E("created", Workspace))
  /\ UNCHANGED <<pc, aborted, known, history, registered, status,
                 restoreVars, requestVars, spaceVars, drops>>

\* A turn in the workspace writes to its session.  Session.remove stops no turn:
\* a late event of a removed session is the first of a new log.
EditThere(s) ==
  /\ \/ WorkspaceWrites(s)
     \/ ~OneWriter /\ log[Workspace][s] = <<>> /\ Has(written[s], "deleted")
  /\ Room(s)
  /\ Run(Workspace, s, E("edit", Workspace))
  /\ Publish(s, E("edit", Workspace))
  /\ UNCHANGED <<pc, aborted, known, history, registered, status,
                 restoreVars, requestVars, spaceVars, drops>>

-----------------------------------------------------------------------------
(***************************************************************************)
(* The sync loop of a workspace                                            *)
(***************************************************************************)

Goto(l, where) == pc' = [pc EXCEPT ![l] = where]

\* setStatus.  The status "error" takes the workspace out of `aborts`, although
\* the loop that sets it goes on.
SetStatus(st) ==
  /\ status' = st
  /\ registered' = IF st = "error" /\ status # "error" THEN None ELSE registered

\* Every failure ends a loop's round: sleep, then connect again.
Fails(l, st) == SetStatus(st) /\ Goto(l, "sleep") /\ stream' = [stream EXCEPT ![l] = <<>>]

\* What a round has read is local to it.
RoundEnds(l) ==
  /\ known' = [known EXCEPT ![l] = [s \in Sessions |-> 0]]
  /\ history' = [history EXCEPT ![l] = [s \in Sessions |-> <<>>]]

\* A connection can fail; one whose loop is aborted does.
Drop(l) == IF l \in aborted THEN UNCHANGED drops
           ELSE drops < MaxDrops /\ drops' = drops + 1

\* startSync: not when a loop is registered.
StartSync(l) ==
  /\ pc[l] = "off"
  /\ registered = None
  /\ space # "gone"
  /\ status' = "disconnected"
  /\ registered' = l
  /\ Goto(l, "top")
  /\ UNCHANGED <<logs, aborted, stream, known, history, restoreVars, requestVars,
                 spaceVars, drops>>

\* syncWorkspaceLoop: the head of the loop.
Connecting(l) ==
  /\ pc[l] = "top"
  /\ IF l \in aborted
     THEN Goto(l, "ended") /\ UNCHANGED <<registered, status>>
     ELSE Goto(l, "connect") /\ SetStatus("connecting")
  /\ UNCHANGED <<logs, aborted, stream, known, history, restoreVars, requestVars,
                 spaceVars, drops>>

\* Faulty: a loop that was connected before asks for no history.
FollowsOnly(l) ==
  /\ pc[l] = "connect" /\ l \notin aborted
  /\ Goto(l, IF drops = 0 THEN "asked" ELSE "stream")
  /\ SetStatus("connected")
  /\ known' = [known EXCEPT ![l] = [s \in Sessions |-> Len(log[Control][s])]]
  /\ UNCHANGED <<logs, aborted, stream, history, restoreVars, requestVars, spaceVars, drops>>

\* connectSSE: the stream is open.  syncHistory then asks for the history with
\* the seqs it knows of the workspace's sessions.
Connected(l) ==
  /\ pc[l] = "connect" /\ l \notin aborted
  /\ Goto(l, "asked")
  /\ known' = [known EXCEPT ![l] =
       [s \in Sessions |->
          IF Row(log[Control][s]) = "there" THEN Len(log[Control][s]) ELSE 0]]
  /\ UNCHANGED <<logs, aborted, stream, history, registered, status, restoreVars,
                 requestVars, spaceVars, drops>>

\* /sync/history on the workspace: the events after the known seqs.
ReadHistory(l) ==
  /\ pc[l] = "asked" /\ l \notin aborted
  /\ Goto(l, "answered")
  /\ history' = [history EXCEPT ![l] = log[Workspace]]
  /\ UNCHANGED <<logs, aborted, stream, known, registered, status, restoreVars,
                 requestVars, spaceVars, drops>>

ConnectFails(l) ==
  /\ pc[l] \in {"connect", "asked", "answered"}
  /\ Drop(l)
  /\ Fails(l, "error")
  /\ RoundEnds(l)
  /\ UNCHANGED <<logs, aborted, restoreVars, requestVars, spaceVars>>

\* syncHistory replays what it got, in the order of the seqs.  An event that
\* leaves a gap ends it; of the events with the same seq some are then replayed.
Gaps(l) == {s \in Sessions :
  Misses(log[Control][s], known[l][s] + 1, Len(history[l][s]))}

Replayed(l, upto) ==
  log' = [log EXCEPT ![Control] = [s \in Sessions |->
    ReplayAll(log[Control][s], history[l][s], known[l][s] + 1,
              IF upto[s] < Len(history[l][s]) THEN upto[s] ELSE Len(history[l][s]))]]

ReplayHistory(l) ==
  /\ pc[l] = "answered"
  /\ \/ /\ Gaps(l) = {}
        /\ Replayed(l, [s \in Sessions |-> Len(history[l][s])])
        /\ Goto(l, "stream") /\ SetStatus("connected")
        /\ UNCHANGED stream
     \/ \E s \in Gaps(l) :
          /\ \A t \in Gaps(l) : known[l][s] <= known[l][t]
          /\ \E upto \in [Sessions -> {known[l][s], known[l][s] + 1}] : Replayed(l, upto)
          /\ Fails(l, "error")
  /\ RoundEnds(l)
  /\ UNCHANGED <<written, aborted, restoreVars, requestVars, spaceVars, drops>>

\* parseSSE: an event of the stream is replayed; one that throws is dropped.
Deliver(l) ==
  /\ pc[l] = "stream" /\ l \notin aborted
  /\ stream[l] # <<>>
  /\ LET m == Head(stream[l])
     IN log' = [log EXCEPT ![Control][m.s] = Replay(@, m.i, m.e)]
  /\ stream' = [stream EXCEPT ![l] = Tail(@)]
  /\ UNCHANGED <<written, pc, aborted, known, history, registered, status,
                 restoreVars, requestVars, spaceVars, drops>>

Disconnected(l) ==
  /\ pc[l] = "stream"
  /\ Drop(l)
  /\ Fails(l, "disconnected")
  /\ UNCHANGED <<logs, aborted, known, history, restoreVars, requestVars, spaceVars>>

Wake(l) ==
  /\ pc[l] = "sleep"
  /\ Goto(l, "top")
  /\ UNCHANGED <<logs, aborted, stream, known, history, registered, status,
                 restoreVars, requestVars, spaceVars, drops>>

-----------------------------------------------------------------------------
(***************************************************************************)
(* sessionRestore: hand a session over to the workspace                    *)
(***************************************************************************)

\* The session is moved to the workspace first, then its events are read.
BeginRestore(s) ==
  /\ restore[s] # "sending"
  /\ space # "gone"
  /\ Row(log[Control][s]) # "none" /\ Room(s)
  /\ OneWriter =>
       /\ space = "up"
       /\ \/ restore[s] = "no" /\ Row(log[Control][s]) = "here"
          \/ restore[s] = "failed"
  /\ Run(Control, s, E("moved", Control))
  /\ restore' = [restore EXCEPT ![s] = "sending"]
  /\ rows' = [rows EXCEPT ![s] = log'[Control][s]]
  /\ sent' = [sent EXCEPT ![s] = 0]
  /\ UNCHANGED <<loopVars, requestVars, spaceVars, drops>>

BatchEnd(s) == IF sent[s] + BatchSize < Len(rows[s]) THEN sent[s] + BatchSize ELSE Len(rows[s])

Posted(s) ==
  log' = [log EXCEPT ![Workspace][s] = ReplayAll(@, rows[s], sent[s] + 1, BatchEnd(s))]

\* Faulty: the events of a batch after the first are not sent.
PostsFirst(s) ==
  /\ restore[s] = "sending"
  /\ ~Misses(log[Workspace][s], sent[s] + 1, BatchEnd(s))
  /\ log' = [log EXCEPT ![Workspace][s] = ReplayAll(@, rows[s], sent[s] + 1, sent[s] + 1)]
  /\ sent' = [sent EXCEPT ![s] = BatchEnd(s)]
  /\ restore' = [restore EXCEPT ![s] = IF BatchEnd(s) = Len(rows[s]) THEN "done" ELSE @]
  /\ UNCHANGED <<written, rows, loopVars, requestVars, spaceVars, drops>>

\* A batch is posted to /sync/replay, which replays it and publishes nothing.
PostBatch(s) ==
  /\ restore[s] = "sending"
  /\ ~Misses(log[Workspace][s], sent[s] + 1, BatchEnd(s))
  /\ Posted(s)
  /\ sent' = [sent EXCEPT ![s] = BatchEnd(s)]
  /\ restore' = [restore EXCEPT ![s] = IF BatchEnd(s) = Len(rows[s]) THEN "done" ELSE @]
  /\ UNCHANGED <<written, rows, loopVars, requestVars, spaceVars, drops>>

\* The post fails, before the workspace has replayed the batch or after; or the
\* workspace refuses it.  The session stays moved.
PostFails(s) ==
  /\ restore[s] = "sending"
  /\ \/ drops < MaxDrops /\ drops' = drops + 1
     \/ Misses(log[Workspace][s], sent[s] + 1, BatchEnd(s)) /\ UNCHANGED drops
  /\ Posted(s) \/ UNCHANGED log
  /\ restore' = [restore EXCEPT ![s] = "failed"]
  /\ UNCHANGED <<written, rows, sent, loopVars, requestVars, spaceVars>>

-----------------------------------------------------------------------------
(***************************************************************************)
(* Requests about a session of the workspace                               *)
(***************************************************************************)

\* Faulty: the last seq, which is -1 when there is none.
LastSeq(evts) == Len(evts) - 1

\* diff: the seq in the answer's header, as a number of events.  A removed
\* session has the seq -1.
Reached(evts) == Len(evts)

\* WorkspaceRouterMiddleware, ServerProxy.http and FenceMiddleware: the request
\* is forwarded, whether or not a loop runs (isSyncing returns a promise, and
\* "!promise" is false), carried out, and answered with the seqs it has moved.
Forward(r) ==
  LET s == Session[r]
      e == E(IF r \in Deletes THEN "deleted" ELSE "edit", Workspace)
      all == Append(log[Workspace][s], e)
  IN /\ request[r] = "new"
     /\ space # "gone" /\ Row(log[Control][s]) = "there"
     /\ WorkspaceWrites(s) /\ Room(s)
     /\ written' = [written EXCEPT ![s] = Append(@, e)]
     /\ log' = [log EXCEPT ![Workspace][s] = IF r \in Deletes THEN <<>> ELSE all]
     /\ Publish(s, e)
     /\ fence' = [fence EXCEPT ![r] = Reached(log'[Workspace][s])]
     /\ request' = [request EXCEPT ![r] = "answered"]
     /\ UNCHANGED <<pc, aborted, known, history, registered, status,
                    restoreVars, spaceVars, drops>>

\* Faulty: off by one, the seq of the answer is taken for a number of events.
SyncedButOne(r) == Len(log[Control][Session[r]]) + 1 >= fence[r]

\* synced: what waitForSync waits for, at once and at every event.
Synced(r) == Len(log[Control][Session[r]]) >= fence[r]

Answer(r) ==
  /\ request[r] = "answered"
  /\ Synced(r)
  /\ request' = [request EXCEPT ![r] = "ok"]
  /\ UNCHANGED <<logs, loopVars, restoreVars, fence, spaceVars, drops>>

\* "Timed out waiting for sync fence": the request fails, what it did stays.
FenceTimesOut(r) ==
  /\ request[r] = "answered"
  /\ ~Synced(r)
  /\ request' = [request EXCEPT ![r] = "timed out"]
  /\ UNCHANGED <<logs, loopVars, restoreVars, fence, spaceVars, drops>>

-----------------------------------------------------------------------------
(***************************************************************************)
(* Workspace.remove: its sessions one by one, its loop, its row            *)
(***************************************************************************)

BeginRemove ==
  /\ space = "up"
  /\ space' = "removing"
  /\ removing' = {s \in Sessions : Row(log[Control][s]) = "there"}
  /\ UNCHANGED <<logs, loopVars, restoreVars, requestVars, drops>>

RemoveSession(s) ==
  /\ space = "removing" /\ s \in removing
  /\ removing' = removing \ {s}
  /\ log' = [log EXCEPT ![Control][s] = IF Row(@) = "none" THEN @ ELSE <<>>]
  /\ UNCHANGED <<written, loopVars, restoreVars, requestVars, space, drops>>

\* stopSync, then the adaptor removes the workspace.
StopSync ==
  /\ space = "removing" /\ removing = {}
  /\ space' = "stopped"
  /\ aborted' = aborted \cup ({registered} \ {None})
  /\ registered' = None
  /\ status' = "absent"
  /\ UNCHANGED <<logs, pc, stream, known, history, restoreVars, requestVars,
                 removing, drops>>

RemoveRow ==
  /\ space = "stopped"
  /\ space' = "gone"
  /\ UNCHANGED <<logs, loopVars, restoreVars, requestVars, removing, drops>>

-----------------------------------------------------------------------------

Loop(l) ==
  \/ Connecting(l) \/ Connected(l) \/ ReadHistory(l) \/ ReplayHistory(l)
  \/ Deliver(l) \/ Wake(l)

Next ==
  \/ \E s \in Sessions :
       \/ CreateHere(s) \/ EditHere(s) \/ RemoveHere(s)
       \/ CreateThere(s) \/ EditThere(s)
       \/ BeginRestore(s) \/ PostBatch(s) \/ PostFails(s)
       \/ RemoveSession(s)
  \/ \E l \in Loops : StartSync(l) \/ Loop(l) \/ ConnectFails(l) \/ Disconnected(l)
  \/ \E r \in Requests : Forward(r) \/ Answer(r) \/ FenceTimesOut(r)
  \/ BeginRemove \/ StopSync \/ RemoveRow

Spec == Init /\ [][Next]_vars

\* A loop is not held up for ever; its timers and fetches end.
FairSpec == Spec /\ \A l \in Loops : WF_vars(Loop(l))

-----------------------------------------------------------------------------
(***************************************************************************)
(* Properties                                                              *)
(***************************************************************************)

TypeOK ==
  /\ log \in [Devices -> [Sessions -> Seq(Event)]]
  /\ written \in [Sessions -> Seq(Event)]
  /\ pc \in [Loops -> {"off", "top", "connect", "asked", "answered", "stream",
                       "sleep", "ended"}]
  /\ aborted \subseteq Loops
  /\ stream \in [Loops -> Seq([s : Sessions, i : Nat, e : Event])]
  /\ known \in [Loops -> [Sessions -> Nat]]
  /\ history \in [Loops -> [Sessions -> Seq(Event)]]
  /\ registered \in Loops \cup {None}
  /\ status \in {"absent", "connecting", "connected", "disconnected", "error"}
  /\ restore \in [Sessions -> {"no", "sending", "failed", "done"}]
  /\ rows \in [Sessions -> Seq(Event)]
  /\ sent \in [Sessions -> Nat]
  /\ request \in [Requests -> {"new", "answered", "ok", "timed out"}]
  /\ fence \in [Requests -> Nat]
  /\ space \in {"up", "removing", "stopped", "gone"}
  /\ removing \subseteq Sessions
  /\ drops \in Nat

\* The promise of the event log, kept by these two devices.
Log == INSTANCE LogReplication WITH truth <- written, copy <- log

\* Whatever was lost, repeated, or read twice by two loops, a device holds the
\* beginning of what was written to a session: no event is missing, out of
\* order, or another one with the same seq.
LogsAgree ==
  \A d \in Devices, s \in Sessions : Log!Beginning(log[d][s], written[s])

\* Read your writes: a forwarded request is answered when the control server
\* has all that the session had when the workspace had carried it out, although
\* the fence compares nothing but seqs (fence.ts, waitForSync).
FenceHolds ==
  \A r \in Requests : request[r] = "ok" /\ space = "up" =>
    \A i \in 1..fence[r] :
      /\ i \in DOMAIN log[Control][Session[r]]
      /\ log[Control][Session[r]][i] = written[Session[r]][i]

\* A restore that ends well leaves nothing behind: the workspace has every event
\* of the control server, also after batches that failed half-way.
HandedOver ==
  \A s \in Sessions :
    restore[s] = "done" /\ log[Workspace][s] # <<>> =>
      Log!Beginning(log[Control][s], log[Workspace][s])

\* The control server refines the promise of the log.
Replicates == Log!Spec

Following == \E l \in Loops : pc[l] \notin {"off", "ended"} /\ l \notin aborted

\* A workspace that is followed is caught up with, through connections that
\* break and histories that fail; unless the session or the workspace is removed.
CatchesUp ==
  \A s \in Sessions :
    Following ~> \/ Log!Beginning(log[Workspace][s], log[Control][s])
                 \/ space # "up"

=============================================================================
