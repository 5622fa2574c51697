--------------------------- MODULE AgentScheduler ---------------------------
(***************************************************************************)
(* The message scheduler of GraphRuntime (graph_runtime.py): one queue per *)
(* AgentNode, a tick loop that hands the head of each queue to an idle     *)
(* agent as an asyncio task, the turn that task runs against a CLI worker, *)
(* and the operations that interfere with turns: cancelling or ending the  *)
(* run, resetting the session, reassigning a working directory, starting   *)
(* agents lazily and closing the runtime.                                  *)
(*                                                                         *)
(* All of it runs on one event loop, so an action is the code between two  *)
(* suspension points.  A turn is split where the code is: a task is        *)
(* created by the tick, starts later, and ends after the worker's answer.  *)
(***************************************************************************)
EXTENDS Naturals, Sequences, FiniteSets

CONSTANTS
  Agents,        \* AgentNode ids of the graph
  Messages,      \* message and job ids; each is submitted at most once
  Dest,          \* the AgentNode a message is for
  Direct,        \* messages submitted with send_agent_message
  Framework,     \* reminders and summary requests that tick itself queues
  Nonblocking,   \* agents with execution_mode = "nonblocking" (jobs)
  External,      \* agents whose worker the runtime does not own
  Reassignable,  \* agents a super agent may move to another directory
  Overlap,       \* may callers reset the session while an agent is starting?
  NoMessage      \* Python's None

ASSUME SchedulerAssumption ==
  /\ Dest \in [Messages -> Agents]
  /\ Direct \subseteq Messages
  /\ Framework \subseteq Messages
  /\ Direct \cap Framework = {}
  /\ Nonblocking \subseteq Agents
  /\ External \subseteq Agents
  /\ Reassignable \subseteq Agents
  /\ IsFiniteSet(Messages)
  /\ NoMessage \notin Messages
  /\ "prestart" \notin Messages /\ "nobody" \notin Messages
  /\ Overlap \in BOOLEAN

VARIABLES
  runStatus,   \* _run_status
  life,        \* open, closing (inside close()), closed (_closed)
  inst,        \* _instances; "absent" stands for a missing entry
  queue,       \* _agent_message_queues
  status,      \* PendingAgentMessage.status or GraphJob.status
  turn,        \* how far the coroutine that delivers a message has come
  tracked,     \* keys of _dispatch_tasks and _job_tasks
  cancelled,   \* messages whose task has been given task.cancel()
  orphan,      \* live turns that hold an instance no longer in _instances
  starter,     \* the coroutine awaiting ensure_worker for an agent
  workdir,     \* agents inside assign_agent_workdir's restart
  resetQueue   \* instances reset_started_agents_for_session still has to do

vars == <<runStatus, life, inst, queue, status, turn, tracked, cancelled,
          orphan, starter, workdir, resetQueue>>

AgentStates ==
  {"absent", "starting", "idle", "queued", "waiting_for_reply", "timed_out",
   "failed", "cancelled", "restarting"}
AcceptStates == {"idle", "queued", "timed_out"}
RunStates == {"created", "running", "paused", "completed", "cancelled", "failed"}
Terminal == {"completed", "failed", "cancelled"}
Pending == {"queued", "submitted", "dispatching"}
MessageStatus ==
  {"unused", "queued", "submitted", "dispatching", "direct"} \cup Terminal
TurnPhases == {"none", "ensuring", "created", "live", "done"}
Outcomes == {"reply", "rejected", "timeout", "error", "cancelled"}

\* Who awaits ensure_worker: a message's coroutine, or prestart_agents.
Prestart == "prestart"
Nobody == "nobody"
Starters == Messages \cup {Prestart, Nobody}

Absent == [state |-> "absent", busy |-> 0, current |-> NoMessage, flow |-> FALSE]
Starting == [Absent EXCEPT !.state = "starting"]
Fresh == [Absent EXCEPT !.state = "idle"]

Started(a) == inst[a].state # "absent"

\* No instance, and no restart that still holds a dropped one.
Unbound(a) ==
  /\ ~Started(a)
  /\ a \notin workdir
  /\ \A k \in DOMAIN resetQueue : resetQueue[k] # a

\* ensure_agent without an await: the instance is there, or is bound to a worker
\* the runtime does not start.
AtHand(a) == Started(a) \/ (a \in External /\ Unbound(a) /\ life # "closed")
InstanceOf(a) == IF Started(a) THEN inst[a] ELSE Fresh

IsJob(m) == m \in Direct /\ Dest[m] \in Nonblocking
Unfinished(m) == turn[m] \in {"ensuring", "created", "live"}
Live(a) == {m \in Messages : turn[m] = "live" /\ Dest[m] = a /\ m \notin orphan}
InQueue(a) == {queue[a][i] : i \in DOMAIN queue[a]}

\* Faulty: trusts the state alone, or serves only agents that show "idle".
CanAcceptBusy(i) == i.state \in AcceptStates \cup {"waiting_for_reply"}
CanAcceptIdleOnly(i) == i.busy = 0 /\ i.state = "idle"

CanAccept(i) == i.busy = 0 /\ i.state \in AcceptStates

\* set_state: an idle agent forgets its message unless one is passed.
WithState(i, s, m) ==
  [i EXCEPT !.state = s,
            !.current = IF m # NoMessage \/ s = "idle" THEN m ELSE i.current]

\* _dispatch_agent_message up to its first await: busy, flow, waiting.
Claim(i, m) ==
  [WithState(i, "waiting_for_reply", m) EXCEPT !.busy = i.busy + 1, !.flow = TRUE]

\* Faulty: a second release in the finally, or none when cancelled.
ReleaseTwice(i, m, outcome) ==
  [i EXCEPT !.busy = @ - 2, !.state = "idle", !.current = NoMessage]
ReleaseNotCancelled(i, m, outcome) ==
  IF outcome = "cancelled" THEN WithState(i, "cancelled", m)
  ELSE WithState([i EXCEPT !.busy = 0], "idle", NoMessage)

\* release_busy followed by the state the except or success branch sets.
Release(i, m, outcome) ==
  LET free == [i EXCEPT !.busy = IF i.busy > 0 THEN i.busy - 1 ELSE 0]
  IN  CASE outcome = "reply"     -> WithState(free, "idle", NoMessage)
        [] outcome = "rejected"  -> WithState(free, "idle", m)
        [] outcome = "timeout"   -> WithState(free, "timed_out", m)
        [] outcome = "error"     -> WithState(free, "failed", m)
        [] outcome = "cancelled" -> WithState(free, "cancelled", m)

\* What queueing does to the target's instance, when it has one.
Noticed(i) ==
  IF i.state = "absent" THEN i
  ELSE [i EXCEPT !.flow = TRUE, !.state = IF @ = "idle" THEN "queued" ELSE @]

MarkRunning ==
  runStatus' = IF runStatus \in {"created", "paused"} THEN "running" ELSE runStatus

Init ==
  /\ runStatus = "created"
  /\ life = "open"
  /\ inst = [a \in Agents |-> Absent]
  /\ queue = [a \in Agents |-> <<>>]
  /\ status = [m \in Messages |-> "unused"]
  /\ turn = [m \in Messages |-> "none"]
  /\ tracked = {}
  /\ cancelled = {}
  /\ orphan = {}
  /\ starter = [a \in Agents |-> Nobody]
  /\ workdir = {}
  /\ resetQueue = <<>>

-----------------------------------------------------------------------------
(***************************************************************************)
(* Submitting work.                                                        *)
(***************************************************************************)

\* The effect of queue_agent_message on the queue, its dict and instance i.
Enqueue(m, mode, i) ==
  LET a == Dest[m] IN
  /\ queue' = [queue EXCEPT ![a] = IF mode = "top" THEN <<m>> \o @ ELSE Append(@, m)]
  /\ status' = [status EXCEPT ![m] = "queued"]
  /\ inst' = [inst EXCEPT ![a] = Noticed(i)]

QueueAgentMessage(m) ==
  /\ life # "closed"
  /\ m \notin Direct \cup Framework
  /\ status[m] = "unused"
  /\ MarkRunning
  /\ \E mode \in {"default", "top"} : Enqueue(m, mode, inst[Dest[m]])
  /\ UNCHANGED <<life, turn, tracked, cancelled, orphan, starter, workdir, resetQueue>>

\* A coroutine finds no instance: it registers one and awaits ensure_worker.
BeginEnsure(m) ==
  LET a == Dest[m] IN
  /\ inst' = [inst EXCEPT ![a] = Starting]
  /\ starter' = [starter EXCEPT ![a] = m]
  /\ turn' = [turn EXCEPT ![m] = "ensuring"]

\* What send_agent_message does once it holds the instance i: it submits a job,
\* dispatches the message itself, or leaves it to the tick.
SubmitJob(m, i) ==
  /\ Dest[m] \in Nonblocking
  /\ status' = [status EXCEPT ![m] = "submitted"]
  /\ turn' = [turn EXCEPT ![m] = "created"]
  /\ tracked' = tracked \cup {m}
  /\ inst' = [inst EXCEPT ![Dest[m]] = i]
  /\ UNCHANGED queue

DispatchNow(m, i) ==
  /\ Dest[m] \notin Nonblocking
  /\ CanAccept(i)
  /\ status' = [status EXCEPT ![m] = "direct"]
  /\ turn' = [turn EXCEPT ![m] = "live"]
  /\ inst' = [inst EXCEPT ![Dest[m]] = Claim(i, m)]
  /\ UNCHANGED <<queue, tracked>>

QueueInstead(m, i) ==
  /\ Dest[m] \notin Nonblocking
  /\ ~CanAccept(i)
  /\ Enqueue(m, "default", i)
  /\ turn' = [turn EXCEPT ![m] = "none"]
  /\ UNCHANGED tracked

Route(m, i) == SubmitJob(m, i) \/ DispatchNow(m, i) \/ QueueInstead(m, i)

SendAgentMessage(m) ==
  /\ life # "closed"
  /\ m \in Direct
  /\ status[m] = "unused"
  /\ turn[m] = "none"
  /\ MarkRunning
  /\ \/ /\ AtHand(Dest[m])
        /\ Route(m, InstanceOf(Dest[m]))
        /\ UNCHANGED starter
     \/ /\ Unbound(Dest[m]) /\ Dest[m] \notin External
        /\ BeginEnsure(m)
        /\ UNCHANGED <<queue, status, tracked>>
  /\ UNCHANGED <<life, cancelled, orphan, workdir, resetQueue>>

-----------------------------------------------------------------------------
(***************************************************************************)
(* Starting agents.                                                        *)
(***************************************************************************)

PrestartAgent(a) ==
  /\ life # "closed"
  /\ Unbound(a)
  /\ \/ /\ a \in External
        /\ inst' = [inst EXCEPT ![a] = Fresh]
        /\ UNCHANGED starter
     \/ /\ a \notin External
        /\ inst' = [inst EXCEPT ![a] = Starting]
        /\ starter' = [starter EXCEPT ![a] = Prestart]
  /\ UNCHANGED <<runStatus, life, queue, status, turn, tracked, cancelled,
                 orphan, workdir, resetQueue>>

\* A task created before a worker start or restart has run by its end: those
\* wait for a process (cluster.py settles 1.5 s), a task for one loop turn.  A
\* start that fails may fail at once.
LoopSettled ==
  \A m \in Messages :
    /\ turn[m] # "created"
    /\ m \in cancelled => ~Unfinished(m)

EnsureWorkerOk(a) ==
  LET m == starter[a]
      i == WithState(inst[a], "idle", NoMessage) IN
  /\ m # Nobody
  /\ LoopSettled
  /\ starter' = [starter EXCEPT ![a] = Nobody]
  /\ \/ /\ m = Prestart
        /\ inst' = [inst EXCEPT ![a] = i]
        /\ UNCHANGED <<queue, status, turn, tracked>>
     \/ /\ m # Prestart
        /\ status[m] = "unused"
        /\ Route(m, i)
     \/ /\ m # Prestart
        /\ status[m] # "unused"
        /\ inst' = [inst EXCEPT ![a] = Claim(i, m)]
        /\ turn' = [turn EXCEPT ![m] = "live"]
        /\ UNCHANGED <<queue, status, tracked>>
  /\ UNCHANGED <<runStatus, life, cancelled, orphan, workdir, resetQueue>>

\* ensure_worker raised: the instance is dropped, its queue stays.
EnsureWorkerFails(a) ==
  LET m == starter[a] IN
  /\ m # Nobody
  /\ m \notin cancelled
  /\ starter' = [starter EXCEPT ![a] = Nobody]
  /\ inst' = [inst EXCEPT ![a] = Absent]
  /\ orphan' = orphan \cup Live(a)
  /\ \/ /\ m = Prestart
        /\ UNCHANGED <<status, turn, tracked>>
     \/ /\ m # Prestart
        /\ turn' = [turn EXCEPT ![m] = "done"]
        /\ status' = [status EXCEPT ![m] = IF @ = "unused" THEN "direct" ELSE "failed"]
        /\ tracked' = IF IsJob(m) THEN tracked \ {m} ELSE tracked
  /\ UNCHANGED <<runStatus, life, queue, cancelled, workdir, resetQueue>>

\* CancelledError is not an Exception: the half-started instance remains.
EnsureWorkerCancelled(a) ==
  LET m == starter[a] IN
  /\ m \in cancelled
  /\ starter' = [starter EXCEPT ![a] = Nobody]
  /\ turn' = [turn EXCEPT ![m] = "done"]
  /\ status' = [status EXCEPT ![m] = "cancelled"]
  /\ UNCHANGED <<runStatus, life, inst, queue, tracked, cancelled, orphan,
                 workdir, resetQueue>>

-----------------------------------------------------------------------------
(***************************************************************************)
(* The tick and the turns it creates.                                      *)
(***************************************************************************)

\* Agents tick may send one reminder or summary request to: they accept work,
\* have received work in this session and have nothing queued.
Nudgeable(a) ==
  Started(a) /\ CanAccept(inst[a]) /\ inst[a].flow /\ queue[a] = <<>>

Nudges ==
  {N \in SUBSET {m \in Framework : status[m] = "unused" /\ Nudgeable(Dest[m])} :
     \A m, n \in N : Dest[m] = Dest[n] => m = n}

Ready == {a \in Agents : Started(a) /\ CanAccept(inst[a]) /\ queue[a] # <<>>}

\* One frame: forget finished tasks, queue reminders on top, then pop the head
\* of every accepting agent's queue and create its task.  A task of the last
\* frame has started by now, since ticks are tick_interval_sec apart.
Tick ==
  /\ life = "open"
  /\ \A m \in Messages : turn[m] = "created" => IsJob(m)
  /\ \E N \in Nudges :
       LET finished == {m \in tracked : turn[m] = "done"}
           nudged == {Dest[m] : m \in N}
           picked == N \cup {Head(queue[a]) : a \in Ready}
       IN  /\ picked \cup finished # {}
           /\ tracked' = (tracked \ finished) \cup picked
           /\ status' = [m \in Messages |->
                           IF m \in picked THEN "dispatching" ELSE status[m]]
           /\ turn' = [m \in Messages |-> IF m \in picked THEN "created" ELSE turn[m]]
           /\ queue' = [a \in Agents |-> IF a \in Ready THEN Tail(queue[a]) ELSE queue[a]]
           /\ inst' = [a \in Agents |-> IF a \in nudged THEN Noticed(inst[a]) ELSE inst[a]]
           /\ IF N = {} THEN UNCHANGED runStatus ELSE MarkRunning
  /\ UNCHANGED <<life, cancelled, orphan, starter, workdir, resetQueue>>

\* A created task runs to its first await: the worker has the message.
StartTurn(m) ==
  /\ turn[m] = "created"
  /\ m \notin cancelled
  /\ \/ /\ AtHand(Dest[m])
        /\ inst' = [inst EXCEPT ![Dest[m]] = Claim(InstanceOf(Dest[m]), m)]
        /\ turn' = [turn EXCEPT ![m] = "live"]
        /\ status' = [status EXCEPT ![m] = "dispatching"]
        /\ UNCHANGED <<starter, tracked>>
     \/ /\ Unbound(Dest[m]) /\ Dest[m] \notin External /\ life # "closed"
        /\ BeginEnsure(m)
        /\ status' = [status EXCEPT ![m] = "dispatching"]
        /\ UNCHANGED tracked
     \/ /\ ~Started(Dest[m]) /\ life = "closed"
        /\ turn' = [turn EXCEPT ![m] = "done"]
        /\ status' = [status EXCEPT ![m] = "failed"]
        /\ tracked' = tracked \ {m}
        /\ UNCHANGED <<inst, starter>>
  /\ UNCHANGED <<runStatus, life, queue, cancelled, orphan, workdir, resetQueue>>

\* A task cancelled before its first step never runs, not even its finally.
DropTurn(m) ==
  /\ turn[m] = "created"
  /\ m \in cancelled
  /\ turn' = [turn EXCEPT ![m] = "done"]
  /\ UNCHANGED <<runStatus, life, inst, queue, status, tracked, cancelled,
                 orphan, starter, workdir, resetQueue>>

\* Faulty: the except branch for a refused message forgets its status.
ResultForgotten(outcome) ==
  CASE outcome = "reply" -> "completed"
    [] outcome = "rejected" -> "dispatching"
    [] OTHER -> "failed"

ResultStatus(outcome) ==
  CASE outcome = "reply" -> "completed"
    [] outcome = "cancelled" -> "cancelled"
    [] OTHER -> "failed"

\* Faulty: a late answer settles a message whose task was cancelled.
EndTurnLate(m, outcome) ==
  /\ turn[m] = "live"
  /\ turn' = [turn EXCEPT ![m] = "done"]
  /\ status' = [status EXCEPT ![m] = IF @ = "direct" THEN @ ELSE ResultStatus(outcome)]
  /\ inst' = IF m \in orphan THEN inst
             ELSE [inst EXCEPT ![Dest[m]] = Release(@, m, outcome)]
  /\ tracked' = IF IsJob(m) THEN tracked \ {m} ELSE tracked
  /\ orphan' = orphan \ {m}
  /\ UNCHANGED <<runStatus, life, queue, cancelled, starter, workdir, resetQueue>>

\* The worker answered, refused, timed out or broke, or the task was cancelled.
EndTurn(m, outcome) ==
  /\ turn[m] = "live"
  /\ m \in cancelled <=> outcome = "cancelled"
  /\ turn' = [turn EXCEPT ![m] = "done"]
  /\ status' = [status EXCEPT ![m] = IF @ = "direct" THEN @ ELSE ResultStatus(outcome)]
  /\ inst' = IF m \in orphan THEN inst
             ELSE [inst EXCEPT ![Dest[m]] = Release(@, m, outcome)]
  /\ tracked' = IF IsJob(m) THEN tracked \ {m} ELSE tracked
  /\ orphan' = orphan \ {m}
  /\ UNCHANGED <<runStatus, life, queue, cancelled, starter, workdir, resetQueue>>

-----------------------------------------------------------------------------
(***************************************************************************)
(* Ending the run.                                                         *)
(***************************************************************************)

\* Faulty: jobs survive, or the queues do.
CancelNoJobs ==
  /\ cancelled' = cancelled \cup {m \in tracked : Unfinished(m) /\ ~IsJob(m)}
  /\ status' = [m \in Messages |->
                  IF status[m] \in Pending
                  THEN "cancelled" ELSE status[m]]
  /\ queue' = [a \in Agents |-> <<>>]
  /\ tracked' = {}
CancelKeepsQueues ==
  /\ cancelled' = cancelled \cup {m \in tracked : Unfinished(m)}
  /\ status' = [m \in Messages |->
                  IF status[m] \in Pending
                  THEN "cancelled" ELSE status[m]]
  /\ UNCHANGED queue
  /\ tracked' = {}

\* _cancel_pending_runtime_work.
CancelPendingRuntimeWork ==
  /\ cancelled' = cancelled \cup {m \in tracked : Unfinished(m)}
  /\ status' = [m \in Messages |->
                  IF status[m] \in Pending
                  THEN "cancelled" ELSE status[m]]
  /\ queue' = [a \in Agents |-> <<>>]
  /\ tracked' = {}

EndRun(action) ==
  \/ /\ action \in {"cancel", "fail"}
     /\ CancelPendingRuntimeWork
     /\ runStatus' = IF action = "cancel" THEN "cancelled" ELSE "failed"
     /\ UNCHANGED <<life, inst, turn, orphan, starter, workdir, resetQueue>>
  \/ /\ action \in {"complete", "pause"}
     /\ runStatus' = IF action = "complete" THEN "completed" ELSE "paused"
     /\ UNCHANGED <<life, inst, queue, status, turn, tracked, cancelled, orphan,
                    starter, workdir, resetQueue>>

-----------------------------------------------------------------------------
(***************************************************************************)
(* Resetting the session and moving an agent.                              *)
(***************************************************************************)

\* Faulty: only looks at the queues.
HasPendingQueues == \E a \in Agents : queue[a] # <<>>

HasPendingWork ==
  \/ \E m \in Messages : status[m] \in Pending
  \/ {m \in tracked : ~IsJob(m)} # {}

\* ready_for_session_reset.
ReadyForSessionReset ==
  /\ ~HasPendingWork
  /\ \A a \in Agents : Started(a) =>
       inst[a].state = "idle" /\ inst[a].busy = 0 /\ inst[a].current = NoMessage

\* Orders in which the dict of instances may list them.
Orders(S) ==
  {q \in UNION {[1..n -> S] : n \in 0..Cardinality(S)} :
     /\ {q[i] : i \in DOMAIN q} = S
     /\ \A i, j \in DOMAIN q : q[i] = q[j] => i = j}

\* The reset loop from the front of q to its next await: external agents are
\* reset at once, the first owned one is left restarting.
ResetRun(i, q) ==
  \E stop \in 1..(Len(q) + 1) :
    /\ \A k \in 1..(stop - 1) : q[k] \in External
    /\ stop \in DOMAIN q => q[stop] \notin External
    /\ inst' = [a \in Agents |->
                  IF i[a].state = "absent" THEN i[a]
                  ELSE IF \E k \in 1..(stop - 1) : q[k] = a THEN Fresh
                  ELSE IF stop \in DOMAIN q /\ a = q[stop]
                       THEN WithState(i[a], "restarting", NoMessage) ELSE i[a]]
    /\ resetQueue' = SubSeq(q, stop, Len(q))

ResetSession(cancelPending) ==
  /\ life # "closed"
  /\ resetQueue = <<>>
  /\ Overlap \/ \A a \in Agents : starter[a] = Nobody
  /\ \/ /\ cancelPending
        /\ CancelPendingRuntimeWork
     \/ /\ ~cancelPending
        /\ ReadyForSessionReset
        /\ queue' = [a \in Agents |-> <<>>]
        /\ tracked' = {}
        /\ UNCHANGED <<cancelled, status>>
  /\ \E q \in Orders({a \in Agents : Started(a)}) : ResetRun(inst, q)
  /\ UNCHANGED <<runStatus, life, turn, orphan, starter, workdir>>

\* Faulty: the restarted worker's instance keeps its current message.
ResetKeepsCurrent ==
  /\ resetQueue # <<>>
  /\ LoopSettled
  /\ ResetRun([inst EXCEPT ![Head(resetQueue)] =
                 IF @.state = "absent" THEN @
                 ELSE [@ EXCEPT !.state = "idle", !.flow = FALSE]], Tail(resetQueue))
  /\ UNCHANGED <<runStatus, life, queue, status, turn, tracked, cancelled,
                 orphan, starter, workdir>>

ResetWorkerOk ==
  /\ resetQueue # <<>>
  /\ LoopSettled
  /\ ResetRun([inst EXCEPT ![Head(resetQueue)] =
                 IF @.state = "absent" THEN @ ELSE Fresh], Tail(resetQueue))
  /\ UNCHANGED <<runStatus, life, queue, status, turn, tracked, cancelled,
                 orphan, starter, workdir>>

\* restart_worker raised: the loop stops, later instances are not reset.
ResetWorkerFails ==
  /\ resetQueue # <<>>
  /\ LoopSettled
  /\ inst' = [inst EXCEPT ![Head(resetQueue)] =
       IF @.state = "absent" THEN @ ELSE WithState(@, "failed", NoMessage)]
  /\ resetQueue' = <<>>
  /\ UNCHANGED <<runStatus, life, queue, status, turn, tracked, cancelled,
                 orphan, starter, workdir>>

AssignAgentWorkdir(a) ==
  /\ life # "closed"
  /\ a \in Reassignable \ workdir
  /\ Started(a)
  /\ inst[a].busy = 0
  /\ inst' = [inst EXCEPT ![a] = WithState(@, "restarting", NoMessage)]
  /\ workdir' = workdir \cup {a}
  /\ UNCHANGED <<runStatus, life, queue, status, turn, tracked, cancelled,
                 orphan, starter, resetQueue>>

WorkdirRestarted(a) ==
  /\ a \in workdir
  /\ LoopSettled
  /\ workdir' = workdir \ {a}
  /\ inst' = [inst EXCEPT ![a] =
       IF Started(a) THEN WithState([@ EXCEPT !.busy = 0], "idle", NoMessage) ELSE @]
  /\ UNCHANGED <<runStatus, life, queue, status, turn, tracked, cancelled,
                 orphan, starter, resetQueue>>

WorkdirRestartFails(a) ==
  /\ a \in workdir
  /\ LoopSettled
  /\ workdir' = workdir \ {a}
  /\ inst' = [inst EXCEPT ![a] =
       IF Started(a) THEN WithState(@, "failed", NoMessage) ELSE @]
  /\ UNCHANGED <<runStatus, life, queue, status, turn, tracked, cancelled,
                 orphan, starter, resetQueue>>

-----------------------------------------------------------------------------
(***************************************************************************)
(* Closing the runtime.                                                    *)
(***************************************************************************)

\* close(): the tick loop is stopped, dispatch tasks are cancelled and awaited.
CloseBegin ==
  /\ life = "open"
  /\ life' = "closing"
  /\ cancelled' = cancelled \cup {m \in tracked : Unfinished(m) /\ ~IsJob(m)}
  /\ UNCHANGED <<runStatus, inst, queue, status, turn, tracked, orphan, starter,
                 workdir, resetQueue>>

\* The rest of close(): instances are dropped; whoever awaits a worker for one
\* of them finds the runtime closed.
CloseEnd ==
  LET stranded == {m \in Messages : turn[m] = "ensuring"} IN
  /\ life = "closing"
  /\ \A m \in tracked : Unfinished(m) => IsJob(m)
  /\ life' = "closed"
  /\ inst' = [a \in Agents |-> Absent]
  /\ orphan' = orphan \cup {m \in Messages : turn[m] = "live"}
  /\ starter' = [a \in Agents |-> Nobody]
  /\ turn' = [m \in Messages |-> IF m \in stranded THEN "done" ELSE turn[m]]
  /\ status' = [m \in Messages |->
                  IF m \notin stranded \ cancelled THEN status[m]
                  ELSE IF status[m] = "unused" THEN "direct" ELSE "failed"]
  /\ tracked' = {m \in tracked : IsJob(m)} \ stranded
  /\ workdir' = {}
  /\ resetQueue' = <<>>
  /\ UNCHANGED <<runStatus, queue, cancelled>>

-----------------------------------------------------------------------------
RestartStep ==
  \/ ResetWorkerOk
  \/ ResetWorkerFails
  \/ \E a \in Agents : WorkdirRestarted(a) \/ WorkdirRestartFails(a)

EnsureStep(a) ==
  \/ EnsureWorkerOk(a)
  \/ EnsureWorkerFails(a)
  \/ EnsureWorkerCancelled(a)

TurnStep(m) ==
  \/ StartTurn(m)
  \/ DropTurn(m)
  \/ \E outcome \in Outcomes : EndTurn(m, outcome)

Next ==
  \/ \E m \in Messages : QueueAgentMessage(m) \/ SendAgentMessage(m) \/ TurnStep(m)
  \/ \E a \in Agents : PrestartAgent(a) \/ EnsureStep(a) \/ AssignAgentWorkdir(a)
  \/ \E action \in {"cancel", "fail", "complete", "pause"} : EndRun(action)
  \/ \E cancelPending \in BOOLEAN : ResetSession(cancelPending)
  \/ Tick
  \/ RestartStep
  \/ CloseBegin
  \/ CloseEnd

Spec == Init /\ [][Next]_vars

\* The event loop runs what is ready: the tick timer, created and cancelled
\* tasks, awaited restarts; and every turn ends, by its timeout if not before.
Fairness ==
  /\ WF_vars(Tick)
  /\ WF_vars(RestartStep)
  /\ \A a \in Agents : WF_vars(EnsureStep(a))
  /\ \A m \in Messages : WF_vars(TurnStep(m))

FairSpec == Spec /\ Fairness

-----------------------------------------------------------------------------
(***************************************************************************)
(* Properties.                                                             *)
(***************************************************************************)

Instances ==
  [state : AgentStates, busy : Nat, current : Messages \cup {NoMessage}, flow : BOOLEAN]

TypeOK ==
  /\ runStatus \in RunStates
  /\ life \in {"open", "closing", "closed"}
  /\ inst \in [Agents -> Instances]
  /\ queue \in [Agents -> Seq(Messages)]
  /\ status \in [Messages -> MessageStatus]
  /\ turn \in [Messages -> TurnPhases]
  /\ tracked \subseteq Messages
  /\ cancelled \subseteq Messages
  /\ orphan \subseteq Messages
  /\ starter \in [Agents -> Starters]
  /\ workdir \subseteq Agents
  /\ resetQueue \in Seq(Agents)

\* busy_count never exceeds the turns that will release it: an agent is never
\* left refusing work because of a turn that is over, whatever cancellations,
\* resets and restarts came between its start and its end (release_busy).
BusyIsBacked == \A a \in Agents : inst[a].busy <= Cardinality(Live(a))

\* A message is queued exactly when it stands in its target's queue, there
\* once, and no coroutine delivers it: queueing, ticks, cancellation and reset
\* neither lose a message nor hand it out twice (_agent_message_queues against
\* PendingAgentMessage.status).
QueuedOnce ==
  /\ \A m \in Messages : status[m] = "queued" => m \in InQueue(Dest[m]) /\ turn[m] = "none"
  /\ \A a \in Agents : \A i \in DOMAIN queue[a] :
       Dest[queue[a][i]] = a /\ status[queue[a][i]] = "queued"
  /\ \A a \in Agents : \A i, j \in DOMAIN queue[a] : queue[a][i] = queue[a][j] => i = j

\* While the runtime is open, a dispatching message has a coroutine that will
\* settle it; so pending work that blocks a session reset always ends.
DispatchingHasTurn ==
  life = "open" => \A m \in Messages : status[m] = "dispatching" => Unfinished(m)

\* end_run and reset leave no delivery running behind a message they reported
\* cancelled: its task has been cancelled too.
CancelledIsStopped ==
  \A m \in Messages : status[m] \in Terminal /\ Unfinished(m) => m \in cancelled

\* The books the loop keeps about turns agree with the turns: whoever awaits a
\* worker is the one recorded, unfinished pending work is tracked so that it
\* can be cancelled, what was cancelled in an open runtime is reported
\* cancelled, and a turn outlives its instance only while it is live.
Books ==
  /\ \A a \in Agents : starter[a] \in Messages =>
       turn[starter[a]] = "ensuring" /\ Dest[starter[a]] = a
  /\ \A m \in Messages : status[m] = "unused" =>
       turn[m] = "none" \/ (m \in Direct /\ turn[m] = "ensuring")
  /\ \A m \in tracked \cup cancelled : status[m] \notin {"unused", "queued"}
  /\ \A m \in Messages : Unfinished(m) /\ status[m] \in Pending =>
       m \in tracked \cup cancelled
  /\ \A m \in tracked : Unfinished(m) => status[m] # "direct"
  /\ \A m \in Messages : turn[m] = "created" => status[m] # "direct"
  /\ \A m \in Messages : Unfinished(m) /\ status[m] \in Terminal =>
       m \in cancelled /\ status[m] = "cancelled"
  /\ life = "open" => \A m \in cancelled : Unfinished(m) => status[m] = "cancelled"
  /\ \A m \in orphan : turn[m] = "live"

\* A settled message stays settled: a late answer of a cancelled turn never
\* turns "cancelled" into "completed" or back.
TerminalStable ==
  [][\A m \in Messages : status[m] \in Terminal => status'[m] = status[m]]_vars

\* An agent that runs no jobs has at most one turn at a time; this is what
\* can_accept_message is for.
OneTurn == \A a \in Agents \ Nonblocking : Cardinality(Live(a)) <= 1

\* ready_for_session_reset is only true when no turn is under way and none is
\* about to start ("all started agents can be safely restarted").
ReadyMeansQuiet ==
  life = "open" /\ ReadyForSessionReset =>
    \A m \in Messages : turn[m] # "live" /\ (Unfinished(m) => m \in cancelled)

\* An agent that has received nothing in this session (has_received_flow is
\* cleared by a reset) carries nothing over from the last one: it is not busy,
\* names no message and shows no outcome of an earlier turn.
FreshAgentIsClean ==
  \A a \in Agents :
    Started(a) /\ ~inst[a].flow =>
      /\ inst[a].busy = 0
      /\ inst[a].state \notin {"waiting_for_reply", "timed_out", "cancelled"}
      /\ inst[a].current = NoMessage

\* An agent that no tick will serve again without an operator.
Down(a) == inst[a].state \in {"absent", "starting", "failed", "cancelled"}

\* A queued message is eventually taken from its queue, unless its agent is
\* down or the runtime is being closed.
QueueDrains ==
  \A m \in Messages :
    status[m] = "queued" ~> status[m] # "queued" \/ Down(Dest[m]) \/ life # "open"
=============================================================================
