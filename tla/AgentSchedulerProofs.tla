------------------------ MODULE AgentSchedulerProofs ------------------------
(***************************************************************************)
(* Theorems about AgentScheduler, for every set of agents and messages.    *)
(***************************************************************************)
EXTENDS AgentScheduler, FiniteSetTheorems, TLAPS

(***************************************************************************)
(* What the helpers on one AgentInstance return.                           *)
(***************************************************************************)

\* set_state keeps an instance an instance, whatever the state and message.
LEMMA WithStateType ==
  ASSUME NEW i \in Instances, NEW s \in AgentStates,
         NEW m \in Messages \cup {NoMessage}
  PROVE  WithState(i, s, m) \in Instances
  BY DEF WithState, Instances

\* The instances the code creates or resets are well typed.
LEMMA FixedInstances ==
  /\ Absent \in Instances
  /\ Starting \in Instances
  /\ Fresh \in Instances
  BY DEF Absent, Starting, Fresh, Instances, AgentStates

\* Setting the busy count, and the flow flag with it.
LEMMA BusyType ==
  ASSUME NEW i \in Instances, NEW n \in Nat
  PROVE  /\ [i EXCEPT !.busy = n] \in Instances
         /\ [i EXCEPT !.busy = n].busy = n
         /\ [i EXCEPT !.busy = n, !.flow = TRUE] \in Instances
         /\ [i EXCEPT !.busy = n, !.flow = TRUE].busy = n
  BY DEF Instances

\* set_state leaves the busy count alone.
LEMMA WithStateBusy ==
  ASSUME NEW i \in Instances, NEW s, NEW m
  PROVE  WithState(i, s, m).busy = i.busy /\ i.busy \in Nat
  BY DEF WithState, Instances

\* Claiming an instance for a turn counts it once more and keeps its type.
LEMMA ClaimType ==
  ASSUME NEW i \in Instances, NEW m \in Messages
  PROVE  Claim(i, m) \in Instances /\ Claim(i, m).busy = i.busy + 1
  <1> DEFINE w == WithState(i, "waiting_for_reply", m)
             n == i.busy + 1
  <1>1. w \in Instances
    BY WithStateType DEF AgentStates
  <1>2. n \in Nat
    BY WithStateBusy
  <1>3. Claim(i, m) = [w EXCEPT !.busy = n, !.flow = TRUE]
    BY DEF Claim
  <1>4. [w EXCEPT !.busy = n, !.flow = TRUE] \in Instances
    <2> HIDE DEF w, n
    <2> QED BY <1>1, <1>2, BusyType
  <1>5. [w EXCEPT !.busy = n, !.flow = TRUE].busy = n
    <2> HIDE DEF w, n
    <2> QED BY <1>1, <1>2, BusyType
  <1> QED BY <1>3, <1>4, <1>5

\* release_busy never goes below zero, and every branch names a known state.
LEMMA ReleaseType ==
  ASSUME NEW i \in Instances, NEW m \in Messages, NEW o \in Outcomes
  PROVE  /\ Release(i, m, o) \in Instances
         /\ Release(i, m, o).busy = IF i.busy > 0 THEN i.busy - 1 ELSE 0
  <1> DEFINE n == IF i.busy > 0 THEN i.busy - 1 ELSE 0
             free == [i EXCEPT !.busy = n]
  <1>1. n \in Nat
    BY WithStateBusy
  <1>2. free \in Instances /\ free.busy = n
    <2> HIDE DEF n
    <2> QED BY <1>1, BusyType
  <1>3. ASSUME NEW s \in AgentStates, NEW k \in Messages \cup {NoMessage}
        PROVE  WithState(free, s, k) \in Instances /\ WithState(free, s, k).busy = n
    <2> HIDE DEF free
    <2> QED BY <1>2, WithStateType, WithStateBusy
  <1>4. \E s \in AgentStates : \E k \in Messages \cup {NoMessage} :
          Release(i, m, o) = WithState(free, s, k)
    BY DEF Release, Outcomes, AgentStates
  <1> HIDE DEF free
  <1> QED BY <1>3, <1>4

\* The instance ensure_agent returns at once.
LEMMA InstanceOfType ==
  ASSUME TypeOK, NEW a \in Agents
  PROVE  InstanceOf(a) \in Instances /\ InstanceOf(a).busy <= inst[a].busy
  <1>1. inst[a] \in Instances /\ inst[a].busy \in Nat
    BY WithStateBusy DEF TypeOK
  <1>2. Fresh.busy = 0
    BY DEF Fresh, Absent
  <1> QED BY <1>1, <1>2, FixedInstances DEF InstanceOf

\* Queueing a message for an agent changes no busy count.
LEMMA NoticedType ==
  ASSUME NEW i \in Instances
  PROVE  Noticed(i) \in Instances /\ Noticed(i).busy = i.busy
  BY DEF Noticed, Instances, AgentStates
-----------------------------------------------------------------------------
(***************************************************************************)
(* Type correctness.                                                       *)
(***************************************************************************)

\* The reset loop's step keeps the instances and the rest of its list typed.
LEMMA ResetRunType ==
  ASSUME NEW i \in [Agents -> Instances], NEW q \in Seq(Agents), ResetRun(i, q)
  PROVE  inst' \in [Agents -> Instances] /\ resetQueue' \in Seq(Agents)
  <1>1. PICK stop \in 1..(Len(q) + 1) :
          /\ inst' = [a \in Agents |->
                  IF i[a].state = "absent" THEN i[a]
                  ELSE IF \E k \in 1..(stop - 1) : q[k] = a THEN Fresh
                  ELSE IF stop \in DOMAIN q /\ a = q[stop]
                       THEN WithState(i[a], "restarting", NoMessage) ELSE i[a]]
          /\ resetQueue' = SubSeq(q, stop, Len(q))
    BY DEF ResetRun
  <1>2. \A a \in Agents : /\ i[a] \in Instances /\ Fresh \in Instances
                          /\ WithState(i[a], "restarting", NoMessage) \in Instances
    BY FixedInstances, WithStateType DEF AgentStates
  <1>3. inst' \in [Agents -> Instances]
    BY <1>1, <1>2
  <1>4. resetQueue' \in Seq(Agents)
    BY <1>1
  <1> QED BY <1>3, <1>4

\* Enqueue and BeginEnsure, shared by several operations.
LEMMA EnqueueType ==
  ASSUME TypeOK, NEW m \in Messages, NEW mode, NEW i \in Instances, Enqueue(m, mode, i)
  PROVE  /\ queue' \in [Agents -> Seq(Messages)]
         /\ status' \in [Messages -> MessageStatus]
         /\ inst' \in [Agents -> Instances]
  <1>1. Noticed(i) \in Instances
    BY NoticedType
  <1>2. Dest[m] \in Agents
    BY SchedulerAssumption
  <1>3. <<m>> \o queue[Dest[m]] \in Seq(Messages) /\ Append(queue[Dest[m]], m) \in Seq(Messages)
    BY <1>2 DEF TypeOK
  <1> QED BY <1>1, <1>2, <1>3 DEF Enqueue, TypeOK, MessageStatus

LEMMA BeginEnsureType ==
  ASSUME TypeOK, NEW m \in Messages, BeginEnsure(m)
  PROVE  /\ inst' \in [Agents -> Instances]
         /\ starter' \in [Agents -> Starters]
         /\ turn' \in [Messages -> TurnPhases]
  BY FixedInstances, SchedulerAssumption DEF BeginEnsure, TypeOK, Starters, TurnPhases

LEMMA RouteType ==
  ASSUME TypeOK, NEW m \in Messages, NEW i \in Instances, Route(m, i)
  PROVE  /\ queue' \in [Agents -> Seq(Messages)]
         /\ status' \in [Messages -> MessageStatus]
         /\ turn' \in [Messages -> TurnPhases]
         /\ tracked' \subseteq Messages
         /\ inst' \in [Agents -> Instances]
  <1>1. CASE SubmitJob(m, i)
    BY <1>1, SchedulerAssumption DEF SubmitJob, TypeOK, TurnPhases, MessageStatus
  <1>2. CASE DispatchNow(m, i)
    BY <1>2, ClaimType, SchedulerAssumption DEF DispatchNow, TypeOK, TurnPhases, MessageStatus
  <1>3. CASE QueueInstead(m, i)
    BY <1>3, EnqueueType DEF QueueInstead, TypeOK, TurnPhases
  <1> QED BY <1>1, <1>2, <1>3 DEF Route

LEMMA InitType == Init => TypeOK
  BY FixedInstances DEF Init, TypeOK, RunStates, MessageStatus, TurnPhases, Starters, Nobody

LEMMA MarkRunningType ==
  ASSUME TypeOK, MarkRunning
  PROVE  runStatus' \in RunStates
  BY DEF TypeOK, MarkRunning, RunStates

LEMMA SubmitType ==
  ASSUME TypeOK, NEW m \in Messages, QueueAgentMessage(m) \/ SendAgentMessage(m)
  PROVE  TypeOK'
  <1> inst[Dest[m]] \in Instances /\ InstanceOf(Dest[m]) \in Instances
    BY SchedulerAssumption, InstanceOfType DEF TypeOK
  <1>1. CASE QueueAgentMessage(m)
    BY <1>1, MarkRunningType, EnqueueType DEF QueueAgentMessage, TypeOK
  <1>2. CASE SendAgentMessage(m)
    <2>1. CASE Route(m, InstanceOf(Dest[m])) /\ UNCHANGED starter
      BY <1>2, <2>1, MarkRunningType, RouteType DEF SendAgentMessage, TypeOK
    <2>2. CASE BeginEnsure(m) /\ UNCHANGED <<queue, status, tracked>>
      BY <1>2, <2>2, MarkRunningType, BeginEnsureType DEF SendAgentMessage, TypeOK
    <2> QED BY <1>2, <2>1, <2>2 DEF SendAgentMessage
  <1> QED BY <1>1, <1>2

LEMMA StartType ==
  ASSUME TypeOK, NEW a \in Agents, PrestartAgent(a) \/ EnsureStep(a)
  PROVE  TypeOK'
  <1> DEFINE i == WithState(inst[a], "idle", NoMessage)
  <1>0. i \in Instances
    BY WithStateType DEF TypeOK, AgentStates
  <1>a. starter[a] \in Starters
    BY DEF TypeOK
  <1>1. CASE PrestartAgent(a)
    BY <1>1, FixedInstances DEF PrestartAgent, TypeOK, Starters, Prestart
  <1>2. CASE EnsureWorkerOk(a)
    <2>1. starter' \in [Agents -> Starters]
      BY <1>2 DEF EnsureWorkerOk, TypeOK, Starters
    <2>2. CASE starter[a] = Prestart
      BY <1>0, <1>2, <2>1, <2>2 DEF EnsureWorkerOk, TypeOK
    <2>3. CASE starter[a] # Prestart
      <3>1. starter[a] \in Messages
        BY <1>2, <1>a, <2>3 DEF EnsureWorkerOk, Starters
      <3>2. CASE Route(starter[a], i)
        <4> HIDE DEF i
        <4> QED BY <1>0, <1>2, <2>1, <3>1, <3>2, RouteType DEF EnsureWorkerOk, TypeOK
      <3>3. CASE /\ inst' = [inst EXCEPT ![a] = Claim(i, starter[a])]
                 /\ turn' = [turn EXCEPT ![starter[a]] = "live"]
                 /\ UNCHANGED <<queue, status, tracked>>
        <4>1. Claim(i, starter[a]) \in Instances
          <5> HIDE DEF i
          <5> QED BY <1>0, <3>1, ClaimType
        <4> HIDE DEF i
        <4> QED BY <1>2, <2>1, <3>1, <3>3, <4>1 DEF EnsureWorkerOk, TypeOK, TurnPhases
      <3> QED BY <1>2, <2>3, <3>2, <3>3 DEF EnsureWorkerOk
    <2> QED BY <2>2, <2>3
  <1>3. CASE EnsureWorkerFails(a)
    <2>1. /\ starter' \in [Agents -> Starters]
          /\ inst' \in [Agents -> Instances]
          /\ orphan' \subseteq Messages
      BY <1>3, FixedInstances DEF EnsureWorkerFails, TypeOK, Starters, Live
    <2>2. CASE starter[a] = Prestart
      BY <1>3, <2>1, <2>2 DEF EnsureWorkerFails, TypeOK
    <2>3. CASE starter[a] # Prestart
      <3>1. starter[a] \in Messages
        BY <1>3, <1>a, <2>3 DEF EnsureWorkerFails, Starters
      <3> QED BY <1>3, <2>1, <2>3, <3>1
              DEF EnsureWorkerFails, TypeOK, TurnPhases, MessageStatus, Terminal
    <2> QED BY <2>2, <2>3
  <1>4. CASE EnsureWorkerCancelled(a)
    <2>1. starter[a] \in Messages
      BY <1>4 DEF EnsureWorkerCancelled, TypeOK
    <2> QED BY <1>4, <2>1
            DEF EnsureWorkerCancelled, TypeOK, Starters, TurnPhases, MessageStatus, Terminal
  <1> QED BY <1>1, <1>2, <1>3, <1>4 DEF EnsureStep

LEMMA TickType ==
  ASSUME TypeOK, Tick
  PROVE  TypeOK'
  <1>1. \A a \in Ready : queue[a] # <<>> /\ queue[a] \in Seq(Messages) /\ a \in Agents
    BY DEF Ready, TypeOK
  <1>2. \A a \in Ready : Head(queue[a]) \in Messages /\ Tail(queue[a]) \in Seq(Messages)
    BY <1>1
  <1>3. PICK N \in Nudges :
          LET finished == {m \in tracked : turn[m] = "done"}
              nudged == {Dest[m] : m \in N}
              picked == N \cup {Head(queue[a]) : a \in Ready}
          IN  /\ tracked' = (tracked \ finished) \cup picked
              /\ status' = [m \in Messages |->
                              IF m \in picked THEN "dispatching" ELSE status[m]]
              /\ turn' = [m \in Messages |-> IF m \in picked THEN "created" ELSE turn[m]]
              /\ queue' = [a \in Agents |-> IF a \in Ready THEN Tail(queue[a]) ELSE queue[a]]
              /\ inst' = [a \in Agents |-> IF a \in nudged THEN Noticed(inst[a]) ELSE inst[a]]
              /\ IF N = {} THEN UNCHANGED runStatus ELSE MarkRunning
    BY DEF Tick
  <1>4. N \subseteq Messages
    BY SchedulerAssumption DEF Nudges
  <1>5. tracked' \subseteq Messages
    BY <1>2, <1>3, <1>4 DEF TypeOK
  <1>6. status' \in [Messages -> MessageStatus] /\ turn' \in [Messages -> TurnPhases]
    BY <1>3 DEF TypeOK, MessageStatus, TurnPhases
  <1>7. queue' \in [Agents -> Seq(Messages)]
    BY <1>2, <1>3 DEF TypeOK
  <1>8. inst' \in [Agents -> Instances]
    <2>1. \A a \in Agents : Noticed(inst[a]) \in Instances /\ inst[a] \in Instances
      BY NoticedType DEF TypeOK
    <2> QED BY <1>3, <2>1
  <1>9. runStatus' \in RunStates
    BY <1>3, MarkRunningType DEF TypeOK
  <1> QED BY <1>5, <1>6, <1>7, <1>8, <1>9 DEF Tick, TypeOK

LEMMA TurnType ==
  ASSUME TypeOK, NEW m \in Messages, TurnStep(m)
  PROVE  TypeOK'
  <1> /\ Dest[m] \in Agents /\ inst[Dest[m]] \in Instances
      /\ InstanceOf(Dest[m]) \in Instances
    BY SchedulerAssumption, InstanceOfType DEF TypeOK
  <1>1. CASE StartTurn(m)
    <2>1. status' \in [Messages -> MessageStatus] /\ tracked' \subseteq Messages
      BY <1>1 DEF StartTurn, TypeOK, MessageStatus, Terminal
    <2>2. /\ inst' \in [Agents -> Instances]
          /\ starter' \in [Agents -> Starters]
          /\ turn' \in [Messages -> TurnPhases]
      <3>1. CASE BeginEnsure(m)
        BY <3>1, BeginEnsureType
      <3>2. CASE ~BeginEnsure(m)
        <4>1. Claim(InstanceOf(Dest[m]), m) \in Instances
          BY ClaimType
        <4>2. inst' \in [Agents -> Instances]
          BY <1>1, <3>2, <4>1 DEF StartTurn, TypeOK
        <4>3. starter' \in [Agents -> Starters] /\ turn' \in [Messages -> TurnPhases]
          BY <1>1, <3>2 DEF StartTurn, TypeOK, TurnPhases
        <4> QED BY <4>2, <4>3
      <3> QED BY <3>1, <3>2
    <2> QED BY <1>1, <2>1, <2>2 DEF StartTurn, TypeOK
  <1>2. CASE DropTurn(m)
    BY <1>2 DEF DropTurn, TypeOK, TurnPhases
  <1>3. ASSUME NEW o \in Outcomes, EndTurn(m, o)
        PROVE  TypeOK'
    <2>1. ResultStatus(o) \in MessageStatus
      BY DEF ResultStatus, MessageStatus, Terminal
    <2>2. Release(inst[Dest[m]], m, o) \in Instances
      BY ReleaseType
    <2> QED BY <1>3, <2>1, <2>2 DEF EndTurn, TypeOK, TurnPhases
  <1> QED BY <1>1, <1>2, <1>3 DEF TurnStep

LEMMA CancelType ==
  ASSUME TypeOK, CancelPendingRuntimeWork
  PROVE  /\ cancelled' \subseteq Messages
         /\ status' \in [Messages -> MessageStatus]
         /\ queue' \in [Agents -> Seq(Messages)]
         /\ tracked' \subseteq Messages
  BY DEF CancelPendingRuntimeWork, TypeOK, MessageStatus, Terminal

LEMMA EndRunType ==
  ASSUME TypeOK, NEW action, EndRun(action)
  PROVE  TypeOK'
  BY CancelType DEF EndRun, TypeOK, RunStates

LEMMA OrdersType ==
  ASSUME NEW S, NEW q \in Orders(S)
  PROVE  q \in Seq(S)
  BY DEF Orders

LEMMA ResetType ==
  ASSUME TypeOK, NEW c \in BOOLEAN, ResetSession(c)
  PROVE  TypeOK'
  <1>1. /\ cancelled' \subseteq Messages
        /\ status' \in [Messages -> MessageStatus]
        /\ queue' \in [Agents -> Seq(Messages)]
        /\ tracked' \subseteq Messages
    <2>1. CASE CancelPendingRuntimeWork
      BY <2>1, CancelType
    <2>2. CASE ~CancelPendingRuntimeWork
      <3>1. queue' = [a \in Agents |-> <<>>] /\ tracked' = {} /\ UNCHANGED <<cancelled, status>>
        BY <2>2 DEF ResetSession
      <3>2. <<>> \in Seq(Messages)
        OBVIOUS
      <3> QED BY <3>1, <3>2 DEF TypeOK
    <2> QED BY <2>1, <2>2
  <1>2. PICK q \in Orders({a \in Agents : Started(a)}) : ResetRun(inst, q)
    BY DEF ResetSession
  <1>3. q \in Seq(Agents)
    BY <1>2, OrdersType
  <1>4. inst' \in [Agents -> Instances] /\ resetQueue' \in Seq(Agents)
    BY <1>2, <1>3, ResetRunType DEF TypeOK
  <1> QED BY <1>1, <1>4 DEF ResetSession, TypeOK

LEMMA RestartType ==
  ASSUME TypeOK, RestartStep
  PROVE  TypeOK'
  <1> DEFINE h == Head(resetQueue)
  <1>1. CASE ResetWorkerOk
    <2> DEFINE i == [inst EXCEPT ![h] = IF @.state = "absent" THEN @ ELSE Fresh]
    <2>1. Tail(resetQueue) \in Seq(Agents) /\ h \in Agents
      BY <1>1 DEF ResetWorkerOk, TypeOK
    <2>2. i \in [Agents -> Instances]
      BY <2>1, FixedInstances DEF TypeOK
    <2>3. ResetRun(i, Tail(resetQueue))
      BY <1>1 DEF ResetWorkerOk
    <2>4. inst' \in [Agents -> Instances] /\ resetQueue' \in Seq(Agents)
      <3> HIDE DEF i
      <3> QED BY <2>1, <2>2, <2>3, ResetRunType
    <2> QED BY <1>1, <2>4 DEF ResetWorkerOk, TypeOK
  <1>2. CASE ResetWorkerFails
    <2>1. h \in Agents
      BY <1>2 DEF ResetWorkerFails, TypeOK
    <2>2. WithState(inst[h], "failed", NoMessage) \in Instances
      BY <2>1, WithStateType DEF TypeOK, AgentStates
    <2> QED BY <1>2, <2>1, <2>2 DEF ResetWorkerFails, TypeOK
  <1>3. ASSUME NEW a \in Agents, WorkdirRestarted(a)
        PROVE  TypeOK'
    <2>1. [inst[a] EXCEPT !.busy = 0] \in Instances
      BY BusyType DEF TypeOK
    <2>2. WithState([inst[a] EXCEPT !.busy = 0], "idle", NoMessage) \in Instances
      BY <2>1, WithStateType DEF AgentStates
    <2> QED BY <1>3, <2>2 DEF WorkdirRestarted, TypeOK
  <1>4. ASSUME NEW a \in Agents, WorkdirRestartFails(a)
        PROVE  TypeOK'
    <2>1. WithState(inst[a], "failed", NoMessage) \in Instances
      BY WithStateType DEF TypeOK, AgentStates
    <2> QED BY <1>4, <2>1 DEF WorkdirRestartFails, TypeOK
  <1> QED BY <1>1, <1>2, <1>3, <1>4 DEF RestartStep

LEMMA AssignType ==
  ASSUME TypeOK, NEW a \in Agents, AssignAgentWorkdir(a)
  PROVE  TypeOK'
  <1>1. WithState(inst[a], "restarting", NoMessage) \in Instances
    BY WithStateType DEF TypeOK, AgentStates
  <1> QED BY <1>1 DEF AssignAgentWorkdir, TypeOK

LEMMA CloseType ==
  ASSUME TypeOK, CloseBegin \/ CloseEnd
  PROVE  TypeOK'
  <1>1. CASE CloseBegin
    BY <1>1 DEF CloseBegin, TypeOK
  <1>2. CASE CloseEnd
    <2>1. inst' \in [Agents -> Instances] /\ starter' \in [Agents -> Starters]
      BY <1>2, FixedInstances DEF CloseEnd, Starters
    <2>2. /\ turn' \in [Messages -> TurnPhases]
          /\ status' \in [Messages -> MessageStatus]
      BY <1>2 DEF CloseEnd, TypeOK, TurnPhases, MessageStatus, Terminal
    <2> QED BY <1>2, <2>1, <2>2 DEF CloseEnd, TypeOK
  <1> QED BY <1>1, <1>2

LEMMA TypeStep == TypeOK /\ [Next]_vars => TypeOK'
  <1> SUFFICES ASSUME TypeOK, [Next]_vars PROVE TypeOK'
    OBVIOUS
  <1>1. CASE Next
    BY <1>1, SubmitType, StartType, TickType, TurnType, EndRunType, ResetType, RestartType,
       AssignType, CloseType DEF Next
  <1>2. CASE UNCHANGED vars
    BY <1>2 DEF vars, TypeOK
  <1> QED BY <1>1, <1>2

\* Every variable of the scheduler keeps its type, whatever the agents and
\* messages: in particular busy_count never becomes negative.
THEOREM TypeCorrect == Spec => []TypeOK
  BY InitType, TypeStep, PTL DEF Spec

-----------------------------------------------------------------------------
(***************************************************************************)
(* The queues and the books about turns.  QueuedOnce needs Books (a tick   *)
(* may nudge with a message that is not queued yet), Books needs           *)
(* QueuedOnce (a popped message has no turn): they are inductive together. *)
(***************************************************************************)
Inv == TypeOK /\ QueuedOnce /\ Books

\* A step that leaves the queues alone and neither queues nor unqueues anything.
LEMMA QueuesUntouched ==
  ASSUME TypeOK, QueuedOnce, queue' = queue,
         \A m \in Messages : status'[m] = "queued" => status[m] = "queued" /\ turn'[m] = turn[m],
         \A m \in Messages : status[m] = "queued" => status'[m] = "queued"
  PROVE  QueuedOnce'
  BY DEF QueuedOnce, InQueue, TypeOK

\* A step that empties every queue and leaves no message queued.
LEMMA QueuesEmptied ==
  ASSUME queue' = [a \in Agents |-> <<>>],
         \A m \in Messages : status'[m] # "queued"
  PROVE  QueuedOnce'
  BY DEF QueuedOnce, InQueue

\* Queueing an unused message, at either end.
LEMMA QueueGrows ==
  ASSUME TypeOK, QueuedOnce, NEW m \in Messages, NEW mode, NEW i, Enqueue(m, mode, i),
         status[m] = "unused", turn'[m] = "none",
         \A n \in Messages : n # m => turn'[n] = turn[n]
  PROVE  QueuedOnce'
  <1> DEFINE a == Dest[m]
             q == queue[a]
             r == queue'[a]
  <1>1. a \in Agents /\ q \in Seq(Messages)
    BY SchedulerAssumption DEF TypeOK
  <1>2. r = IF mode = "top" THEN <<m>> \o q ELSE Append(q, m)
    BY <1>1 DEF Enqueue, TypeOK
  <1>3. \A b \in Agents : b # a => queue'[b] = queue[b]
    BY <1>1 DEF Enqueue, TypeOK
  <1>4. \A n \in Messages : status'[n] = IF n = m THEN "queued" ELSE status[n]
    BY DEF Enqueue, TypeOK
  <1>5. \A b \in Agents : m \notin InQueue(b)
    BY DEF QueuedOnce, InQueue
  <1>6. \A j \in DOMAIN q : q[j] \in Messages /\ q[j] # m /\ Dest[q[j]] = a /\ status[q[j]] = "queued"
    BY <1>1, <1>5 DEF QueuedOnce, InQueue
  <1>7. \A j, k \in DOMAIN q : q[j] = q[k] => j = k
    BY <1>1 DEF QueuedOnce
  <1>8. /\ \A j \in DOMAIN r : r[j] = m \/ \E k \in DOMAIN q : r[j] = q[k]
        /\ \A k \in DOMAIN q : \E j \in DOMAIN r : r[j] = q[k]
        /\ \E j \in DOMAIN r : r[j] = m
        /\ \A j, k \in DOMAIN r : r[j] = r[k] => j = k
    <2> HIDE DEF q, r, a
    <2>1. CASE mode = "top"
      <3>1. Len(r) = Len(q) + 1 /\ r[1] = m /\ \A j \in 2..Len(r) : r[j] = q[j - 1]
        BY <1>1, <1>2, <2>1
      <3>2. r \in Seq(Messages)
        BY <1>1, <1>2, <2>1
      <3>3. \A k \in DOMAIN q : k + 1 \in DOMAIN r /\ r[k + 1] = q[k]
        BY <1>1, <3>1, <3>2
      <3>4. \A j \in DOMAIN r : j = 1 \/ (j - 1 \in DOMAIN q /\ r[j] = q[j - 1])
        BY <1>1, <3>1, <3>2
      <3>5. 1 \in DOMAIN r
        BY <1>1, <3>1, <3>2
      <3>6. ASSUME NEW j \in DOMAIN r, NEW k \in DOMAIN r, r[j] = r[k]
            PROVE  j = k
        <4>1. j \in Nat /\ k \in Nat
          BY <3>2
        <4> QED BY <3>1, <3>4, <3>6, <4>1, <1>6, <1>7
      <3> QED BY <3>1, <3>3, <3>4, <3>5, <3>6
    <2>2. CASE mode # "top"
      <3>1. Len(r) = Len(q) + 1 /\ r[Len(r)] = m /\ \A j \in 1..Len(q) : r[j] = q[j]
        BY <1>1, <1>2, <2>2
      <3>2. r \in Seq(Messages)
        BY <1>1, <1>2, <2>2
      <3>3. DOMAIN q = 1..Len(q) /\ DOMAIN r = 1..Len(r) /\ Len(q) \in Nat
        BY <1>1, <3>2
      <3>4. ASSUME NEW j \in DOMAIN r, NEW k \in DOMAIN r, r[j] = r[k]
            PROVE  j = k
        BY <3>1, <3>3, <3>4, <1>6, <1>7
      <3> QED BY <3>1, <3>3, <3>4
    <2> QED BY <2>1, <2>2
  <1>9. \A b \in Agents : \A j \in DOMAIN queue'[b] :
          Dest[queue'[b][j]] = b /\ status'[queue'[b][j]] = "queued"
    <2> TAKE b \in Agents
    <2>1. CASE b = a
      BY <2>1, <1>4, <1>6, <1>8
    <2>2. CASE b # a
      <3>1. \A j \in DOMAIN queue[b] : queue[b][j] \in Messages
        BY DEF TypeOK
      <3> QED BY <2>2, <1>3, <1>4, <3>1 DEF QueuedOnce
    <2> QED BY <2>1, <2>2
  <1>10. \A n \in Messages : status'[n] = "queued" =>
           turn'[n] = "none" /\ \E j \in DOMAIN queue'[Dest[n]] : queue'[Dest[n]][j] = n
    <2> TAKE n \in Messages
    <2>1. CASE n = m
      BY <2>1, <1>8
    <2>2. CASE n # m /\ status'[n] = "queued"
      <3>1. status[n] = "queued" /\ turn'[n] = turn[n] /\ Dest[n] \in Agents
        BY <2>2, <1>4, SchedulerAssumption
      <3>2. turn[n] = "none" /\ \E k \in DOMAIN queue[Dest[n]] : queue[Dest[n]][k] = n
        BY <3>1 DEF QueuedOnce, InQueue
      <3> QED BY <3>1, <3>2, <1>3, <1>8
    <2> QED BY <2>1, <2>2
  <1>11. \A b \in Agents : \A j, k \in DOMAIN queue'[b] : queue'[b][j] = queue'[b][k] => j = k
    BY <1>3, <1>8 DEF QueuedOnce
  <1> QED BY <1>9, <1>10, <1>11 DEF QueuedOnce, InQueue

\* What is left of a queue whose head was popped.
LEMMA TailShifts ==
  ASSUME NEW S, NEW q \in Seq(S), q # <<>>
  PROVE  /\ \A j \in DOMAIN Tail(q) :
              j + 1 \in DOMAIN q /\ Tail(q)[j] = q[j + 1] /\ j \in Nat /\ j + 1 # 1
         /\ \A k \in DOMAIN q : k # 1 =>
              k - 1 \in DOMAIN Tail(q) /\ Tail(q)[k - 1] = q[k]
  OBVIOUS

\* A step that ends m's turn and touches no other message.
LEMMA TurnOver ==
  ASSUME Inv, NEW m \in Messages,
         turn'[m] = "done", status'[m] \notin {"unused", "queued"},
         \A n \in Messages : n # m => turn'[n] = turn[n] /\ status'[n] = status[n],
         tracked' \subseteq tracked, tracked \subseteq tracked' \cup {m},
         UNCHANGED <<life, cancelled>>,
         \A n \in orphan' : turn[n] = "live" /\ n \in Messages /\ n # m,
         \A a \in Agents : starter'[a] \in Messages => starter'[a] = starter[a] /\ starter[a] # m
  PROVE  Books'
  <1> USE DEF Inv
  <1>0. tracked \subseteq Messages /\ cancelled \subseteq Messages
    BY DEF TypeOK
  <1>1. \A a \in Agents : starter'[a] \in Messages =>
          turn'[starter'[a]] = "ensuring" /\ Dest[starter'[a]] = a
    BY DEF Books
  <1>2. \A n \in Messages : status'[n] = "unused" =>
          turn'[n] = "none" \/ (n \in Direct /\ turn'[n] = "ensuring")
    BY DEF Books
  <1>3. \A n \in tracked' \cup cancelled' : status'[n] \notin {"unused", "queued"}
    BY <1>0 DEF Books
  <1>4. \A n \in Messages : Unfinished(n)' => n # m /\ Unfinished(n)
    BY DEF Unfinished
  <1>5. \A n \in Messages : Unfinished(n)' /\ status'[n] \in Pending =>
          n \in tracked' \cup cancelled'
    BY <1>4 DEF Books
  <1>6. \A n \in tracked' : Unfinished(n)' => status'[n] # "direct"
    BY <1>0, <1>4 DEF Books
  <1>7. \A n \in Messages : Unfinished(n)' /\ status'[n] \in Terminal =>
          n \in cancelled' /\ status'[n] = "cancelled"
    BY <1>4 DEF Books
  <1>8. life' = "open" => \A n \in cancelled' : Unfinished(n)' => status'[n] = "cancelled"
    BY <1>0, <1>4 DEF Books
  <1>9. \A n \in orphan' : turn'[n] = "live"
    OBVIOUS
  <1>10. \A n \in Messages : turn'[n] = "created" => status'[n] # "direct"
    BY DEF Books
  <1> QED BY <1>1, <1>2, <1>3, <1>5, <1>6, <1>7, <1>8, <1>9, <1>10 DEF Books

\* A step that takes m's turn further, to the worker or to a worker's start.
LEMMA TurnMoves ==
  ASSUME Inv, NEW m \in Messages, m \notin cancelled, status[m] # "unused",
         Unfinished(m), turn[m] # "live", turn'[m] \in {"live", "ensuring"},
         status'[m] = status[m] \/ (turn[m] = "created" /\ status'[m] = "dispatching"),
         \A n \in Messages : n # m => turn'[n] = turn[n] /\ status'[n] = status[n],
         UNCHANGED <<life, cancelled, tracked, orphan>>,
         \A a \in Agents : starter'[a] \in Messages =>
           \/ starter'[a] = starter[a] /\ starter[a] # m
           \/ starter'[a] = m /\ Dest[m] = a /\ turn'[m] = "ensuring"
  PROVE  Books'
  <1> USE DEF Inv
  <1>0. tracked \subseteq Messages /\ cancelled \subseteq Messages /\ orphan \subseteq Messages
    BY DEF TypeOK
  <1>a. /\ status[m] \notin Terminal /\ status[m] # "queued"
        /\ turn[m] = "created" => m \in tracked
    <2>1. status[m] \notin Terminal /\ status[m] # "queued"
      BY DEF Books, QueuedOnce, Unfinished
    <2>2. turn[m] = "created" => status[m] \in Pending
      BY <2>1 DEF Books, TypeOK, MessageStatus, Pending
    <2> QED BY <2>1, <2>2 DEF Books
  <1>1. \A a \in Agents : starter'[a] \in Messages =>
          turn'[starter'[a]] = "ensuring" /\ Dest[starter'[a]] = a
    BY DEF Books
  <1>2. \A n \in Messages : status'[n] = "unused" =>
          turn'[n] = "none" \/ (n \in Direct /\ turn'[n] = "ensuring")
    BY DEF Books
  <1>3. \A n \in tracked' \cup cancelled' : status'[n] \notin {"unused", "queued"}
    BY <1>0, <1>a DEF Books
  <1>4. \A n \in Messages : n # m => (Unfinished(n)' <=> Unfinished(n))
    BY DEF Unfinished
  <1>5. \A n \in Messages : Unfinished(n)' /\ status'[n] \in Pending =>
          n \in tracked' \cup cancelled'
    BY <1>4, <1>a DEF Books
  <1>6. \A n \in tracked' : Unfinished(n)' => status'[n] # "direct"
    BY <1>0, <1>4 DEF Books
  <1>7. \A n \in Messages : Unfinished(n)' /\ status'[n] \in Terminal =>
          n \in cancelled' /\ status'[n] = "cancelled"
    BY <1>4, <1>a DEF Books, Terminal
  <1>8. life' = "open" => \A n \in cancelled' : Unfinished(n)' => status'[n] = "cancelled"
    BY <1>0, <1>4 DEF Books
  <1>9. \A n \in orphan' : turn'[n] = "live"
    BY <1>0 DEF Books
  <1>10. \A n \in Messages : turn'[n] = "created" => status'[n] # "direct"
    BY DEF Books
  <1> QED BY <1>1, <1>2, <1>3, <1>5, <1>6, <1>7, <1>8, <1>9, <1>10 DEF Books

LEMMA InitInv == Init => Inv
  <1> SUFFICES ASSUME Init PROVE QueuedOnce /\ Books
    BY InitType DEF Inv
  <1>1. QueuedOnce
    BY DEF Init, QueuedOnce, InQueue
  <1>2. Books
    BY SchedulerAssumption DEF Init, Books, Unfinished, Nobody
  <1> QED BY <1>1, <1>2

\* Submitting m, at once or when its agent has started, with instance i.
LEMMA RouteInv ==
  ASSUME Inv, NEW m \in Messages, NEW i \in Instances, Route(m, i),
         status[m] = "unused", m \in Direct, turn[m] \in {"none", "ensuring"},
         UNCHANGED <<life, cancelled, orphan>>,
         \A a \in Agents : starter'[a] # m /\ (starter'[a] \in Messages => starter'[a] = starter[a])
  PROVE  QueuedOnce' /\ Books'
  <1> USE DEF Inv
  <1>0. Dest[m] \in Agents
    BY SchedulerAssumption
  <1>1. CASE SubmitJob(m, i)
    <2>1. QueuedOnce'
      BY <1>1, QueuesUntouched DEF SubmitJob, TypeOK
    <2>2. Books'
      BY <1>1 DEF SubmitJob, Books, TypeOK, Unfinished, Pending, Terminal
    <2> QED BY <2>1, <2>2
  <1>2. CASE DispatchNow(m, i)
    <2>1. QueuedOnce'
      BY <1>2, QueuesUntouched DEF DispatchNow, TypeOK
    <2>2. Books'
      BY <1>2 DEF DispatchNow, Books, TypeOK, Unfinished, Pending, Terminal
    <2> QED BY <2>1, <2>2
  <1>3. CASE QueueInstead(m, i)
    <2>0. /\ Enqueue(m, "default", i)
          /\ turn' = [turn EXCEPT ![m] = "none"] /\ UNCHANGED tracked
          /\ status' = [status EXCEPT ![m] = "queued"]
      BY <1>3 DEF QueueInstead, Enqueue
    <2>1. QueuedOnce'
      BY <2>0, QueueGrows DEF TypeOK
    <2>2. Books'
      BY <2>0 DEF Books, TypeOK, Unfinished, Pending, Terminal
    <2> QED BY <2>1, <2>2
  <1> QED BY <1>1, <1>2, <1>3 DEF Route

LEMMA SubmitInv ==
  ASSUME Inv, NEW m \in Messages, QueueAgentMessage(m) \/ SendAgentMessage(m)
  PROVE  QueuedOnce' /\ Books'
  <1> USE DEF Inv
  <1>0. /\ Dest[m] \in Agents /\ inst[Dest[m]] \in Instances
        /\ InstanceOf(Dest[m]) \in Instances
    BY SchedulerAssumption, InstanceOfType DEF TypeOK
  <1>1. CASE QueueAgentMessage(m)
    <2>1. PICK mode \in {"default", "top"} : Enqueue(m, mode, inst[Dest[m]])
      BY <1>1 DEF QueueAgentMessage
    <2>2. turn[m] = "none" /\ turn' = turn /\ status[m] = "unused"
      BY <1>1 DEF QueueAgentMessage, Books
    <2>3. QueuedOnce'
      BY <2>1, <2>2, QueueGrows
    <2>4. Books'
      <3>1. status' = [status EXCEPT ![m] = "queued"]
        BY <2>1 DEF Enqueue
      <3> QED BY <1>1, <2>2, <3>1
              DEF QueueAgentMessage, Books, TypeOK, Unfinished, Pending, Terminal
    <2> QED BY <2>3, <2>4
  <1>2. CASE SendAgentMessage(m) /\ Route(m, InstanceOf(Dest[m])) /\ UNCHANGED starter
    BY <1>0, <1>2, RouteInv DEF SendAgentMessage, Books
  <1>3. CASE SendAgentMessage(m) /\ BeginEnsure(m) /\ UNCHANGED <<queue, status, tracked>>
    <2>1. QueuedOnce'
      BY <1>3, QueuesUntouched DEF SendAgentMessage, BeginEnsure, TypeOK
    <2>2. Books'
      BY <1>0, <1>3 DEF SendAgentMessage, BeginEnsure, Books, TypeOK, Unfinished, Pending, Terminal
    <2> QED BY <2>1, <2>2
  <1> QED BY <1>1, <1>2, <1>3 DEF SendAgentMessage

LEMMA StartInv ==
  ASSUME Inv, NEW a \in Agents, PrestartAgent(a) \/ EnsureStep(a)
  PROVE  QueuedOnce' /\ Books'
  <1> USE DEF Inv
  <1> DEFINE m == starter[a]
             i == WithState(inst[a], "idle", NoMessage)
  <1>1. CASE PrestartAgent(a)
    <2>1. QueuedOnce'
      BY <1>1, QueuesUntouched DEF PrestartAgent
    <2>2. Books'
      <3>1. \A b \in Agents : starter'[b] \in Messages => starter'[b] = starter[b]
        BY <1>1, SchedulerAssumption DEF PrestartAgent, TypeOK, Prestart
      <3> QED BY <1>1, <3>1 DEF PrestartAgent, Books, Unfinished
    <2> QED BY <2>1, <2>2
  <1>2. m \in Messages => turn[m] = "ensuring" /\ Dest[m] = a /\ status[m] # "queued"
    BY DEF Books, QueuedOnce
  <1>3. m \in Messages \cup {Prestart, Nobody}
    BY DEF TypeOK, Starters
  <1>4. \A b \in Agents : b # a /\ starter[b] \in Messages => starter[b] # m
    BY <1>2 DEF Books
  <1>5. CASE EnsureWorkerOk(a)
    <2>0. /\ starter' = [starter EXCEPT ![a] = Nobody]
          /\ UNCHANGED <<life, cancelled, orphan>>
          /\ m # Nobody
      BY <1>5 DEF EnsureWorkerOk
    <2>1. \A b \in Agents : starter'[b] \in Messages => b # a /\ starter'[b] = starter[b]
      BY <2>0, SchedulerAssumption DEF TypeOK, Nobody
    <2>2. CASE m = Prestart
      <3>1. UNCHANGED <<queue, status, turn, tracked>>
        BY <1>5, <2>2, SchedulerAssumption DEF EnsureWorkerOk, Prestart
      <3>2. QueuedOnce'
        BY <3>1, QueuesUntouched
      <3>3. Books'
        BY <2>0, <2>1, <3>1 DEF Books, Unfinished
      <3> QED BY <3>2, <3>3
    <2>3. CASE m # Prestart /\ status[m] = "unused"
      <3>1. m \in Messages
        BY <1>3, <2>0, <2>3
      <3>2. Route(m, i)
        BY <1>5, <2>3 DEF EnsureWorkerOk
      <3>3. i \in Instances
        BY WithStateType DEF TypeOK, AgentStates
      <3>4. m \in Direct
        BY <1>2, <2>3, <3>1 DEF Books
      <3> HIDE DEF i
      <3> QED BY <1>2, <1>4, <2>0, <2>1, <2>3, <3>1, <3>2, <3>3, <3>4, RouteInv
    <2>4. CASE m # Prestart /\ status[m] # "unused"
      <3>1. m \in Messages /\ m \notin cancelled
        BY <1>2, <1>3, <1>5, <2>0, <2>4 DEF EnsureWorkerOk, LoopSettled, Unfinished
      <3>2. turn' = [turn EXCEPT ![m] = "live"] /\ UNCHANGED <<queue, status, tracked>>
        BY <1>5, <2>4 DEF EnsureWorkerOk
      <3>3. QueuedOnce'
        BY <1>2, <3>1, <3>2, QueuesUntouched DEF TypeOK
      <3>4. Books'
        <4>1. /\ turn'[m] = "live" /\ Unfinished(m) /\ turn[m] # "live"
              /\ \A n \in Messages : n # m => turn'[n] = turn[n] /\ status'[n] = status[n]
              /\ status'[m] = status[m]
          BY <1>2, <3>1, <3>2 DEF TypeOK, Unfinished
        <4>2. \A b \in Agents : starter'[b] \in Messages => starter'[b] = starter[b] /\ starter[b] # m
          BY <1>4, <2>1
        <4> HIDE DEF m
        <4> QED BY <2>0, <2>4, <3>1, <3>2, <4>1, <4>2, TurnMoves
      <3> QED BY <3>3, <3>4
    <2> QED BY <2>2, <2>3, <2>4
  <1>6. CASE EnsureWorkerFails(a)
    <2>0. /\ starter' = [starter EXCEPT ![a] = Nobody]
          /\ UNCHANGED <<life, queue, cancelled>>
          /\ m # Nobody /\ m \notin cancelled
          /\ orphan' = orphan \cup Live(a)
      BY <1>6 DEF EnsureWorkerFails
    <2>1. \A b \in Agents : starter'[b] \in Messages => b # a /\ starter'[b] = starter[b]
      BY <2>0, SchedulerAssumption DEF TypeOK, Nobody
    <2>2. CASE m = Prestart
      <3>1. UNCHANGED <<status, turn, tracked>>
        BY <1>6, <2>2 DEF EnsureWorkerFails
      <3>2. QueuedOnce'
        BY <2>0, <3>1, QueuesUntouched
      <3>3. Books'
        BY <2>0, <2>1, <3>1 DEF Books, Unfinished, Live
      <3> QED BY <3>2, <3>3
    <2>3. CASE m # Prestart
      <3>1. m \in Messages
        BY <1>3, <2>0, <2>3
      <3>2. /\ turn' = [turn EXCEPT ![m] = "done"]
            /\ status' = [status EXCEPT ![m] = IF @ = "unused" THEN "direct" ELSE "failed"]
            /\ tracked' \subseteq tracked
            /\ tracked \subseteq tracked' \cup {m}
        BY <1>6, <2>3 DEF EnsureWorkerFails
      <3>3. QueuedOnce'
        BY <1>2, <2>0, <3>1, <3>2, QueuesUntouched DEF TypeOK
      <3>4. Books'
        BY <1>2, <1>4, <2>0, <2>1, <3>1, <3>2
           DEF Books, Unfinished, TypeOK, Pending, Terminal, Live
      <3> QED BY <3>3, <3>4
    <2> QED BY <2>2, <2>3
  <1>7. CASE EnsureWorkerCancelled(a)
    <2>0. /\ starter' = [starter EXCEPT ![a] = Nobody]
          /\ turn' = [turn EXCEPT ![m] = "done"]
          /\ status' = [status EXCEPT ![m] = "cancelled"]
          /\ UNCHANGED <<life, queue, tracked, cancelled, orphan>>
          /\ m \in Messages
      BY <1>7 DEF EnsureWorkerCancelled, TypeOK
    <2>1. \A b \in Agents : starter'[b] \in Messages => b # a /\ starter'[b] = starter[b]
      BY <2>0, SchedulerAssumption DEF TypeOK, Nobody
    <2>2. QueuedOnce'
      BY <1>2, <2>0, QueuesUntouched DEF TypeOK
    <2>3. Books'
      <3>1. /\ turn'[m] = "done" /\ status'[m] = "cancelled"
            /\ \A n \in Messages : n # m => turn'[n] = turn[n] /\ status'[n] = status[n]
        BY <2>0 DEF TypeOK
      <3>2. \A n \in orphan' : turn[n] = "live" /\ n \in Messages /\ n # m
        BY <1>2, <2>0 DEF Books, TypeOK
      <3>3. \A b \in Agents : starter'[b] \in Messages => starter'[b] = starter[b] /\ starter[b] # m
        BY <1>4, <2>1
      <3> HIDE DEF m
      <3> QED BY <2>0, <3>1, <3>2, <3>3, TurnOver
    <2> QED BY <2>2, <2>3
  <1> QED BY <1>1, <1>5, <1>6, <1>7 DEF EnsureStep

LEMMA TickInv ==
  ASSUME Inv, Tick
  PROVE  QueuedOnce' /\ Books'
  <1> USE DEF Inv
  <1>1. PICK N \in Nudges :
          LET finished == {m \in tracked : turn[m] = "done"}
              picked == N \cup {Head(queue[a]) : a \in Ready}
          IN  /\ tracked' = (tracked \ finished) \cup picked
              /\ status' = [m \in Messages |->
                              IF m \in picked THEN "dispatching" ELSE status[m]]
              /\ turn' = [m \in Messages |-> IF m \in picked THEN "created" ELSE turn[m]]
              /\ queue' = [a \in Agents |-> IF a \in Ready THEN Tail(queue[a]) ELSE queue[a]]
    BY DEF Tick
  <1> DEFINE heads == {Head(queue[a]) : a \in Ready}
             picked == N \cup heads
  <1>2. /\ life' = life /\ cancelled' = cancelled
        /\ orphan' = orphan /\ starter' = starter
    BY DEF Tick
  <1>3. \A n \in N : n \in Messages /\ status[n] = "unused" /\ turn[n] = "none"
    <2>1. \A n \in N : n \in Framework /\ n \in Messages /\ status[n] = "unused"
      BY SchedulerAssumption DEF Nudges
    <2>2. \A n \in N : n \notin Direct
      BY <2>1, SchedulerAssumption
    <2> QED BY <2>1, <2>2 DEF Books
  <1>4. \A a \in Ready : /\ a \in Agents /\ queue[a] \in Seq(Messages) /\ queue[a] # <<>>
                         /\ 1 \in DOMAIN queue[a] /\ Head(queue[a]) = queue[a][1]
    BY DEF Ready, TypeOK
  <1>5. \A n \in heads : n \in Messages /\ status[n] = "queued" /\ turn[n] = "none"
    BY <1>4 DEF QueuedOnce
  <1>6. \A n \in Messages : status'[n] = (IF n \in picked THEN "dispatching" ELSE status[n])
                           /\ turn'[n] = (IF n \in picked THEN "created" ELSE turn[n])
    BY <1>1
  <1>7. \A n \in picked : n \in Messages /\ status[n] \in {"unused", "queued"} /\ turn[n] = "none"
    BY <1>3, <1>5
  <1>8. tracked' = {n \in tracked : turn[n] # "done"} \cup picked
    BY <1>1
  <1>9. \A a \in Agents : \A k \in DOMAIN queue[a] :
          queue[a][k] \in picked => a \in Ready /\ k = 1
    <2> SUFFICES ASSUME NEW a \in Agents, NEW k \in DOMAIN queue[a], queue[a][k] \in picked
                 PROVE  a \in Ready /\ k = 1
      OBVIOUS
    <2>1. status[queue[a][k]] = "queued" /\ Dest[queue[a][k]] = a
      BY DEF QueuedOnce
    <2>2. queue[a][k] \in heads
      BY <1>3, <2>1
    <2>3. PICK b \in Ready : queue[a][k] = Head(queue[b])
      BY <2>2
    <2>4. Dest[Head(queue[b])] = b
      BY <1>4 DEF QueuedOnce
    <2>5. a = b
      BY <2>1, <2>3, <2>4
    <2> QED BY <1>4, <2>3, <2>5 DEF QueuedOnce
  <1>10. \A a \in Agents : /\ a \in Ready => queue'[a] = Tail(queue[a])
                           /\ a \notin Ready => queue'[a] = queue[a]
    BY <1>1
  <1>11. QueuedOnce'
    <2>1. ASSUME NEW a \in Ready
          PROVE  /\ \A j \in DOMAIN queue'[a] :
                      j + 1 \in DOMAIN queue[a] /\ queue'[a][j] = queue[a][j + 1]
                      /\ j \in Nat /\ j + 1 # 1
                 /\ \A k \in DOMAIN queue[a] : k # 1 =>
                      k - 1 \in DOMAIN queue'[a] /\ queue'[a][k - 1] = queue[a][k]
      <3>1. queue[a] \in Seq(Messages) /\ queue[a] # <<>> /\ queue'[a] = Tail(queue[a])
        <4>1. a \in Agents
          BY <1>4
        <4>2. queue'[a] = Tail(queue[a])
          BY <1>10, <4>1, <2>1
        <4>3. queue[a] \in Seq(Messages) /\ queue[a] # <<>>
          BY <1>4, <2>1
        <4> QED BY <4>2, <4>3
      <3> QED BY <3>1, TailShifts
    <2>2. ASSUME NEW a \in Agents, NEW j \in DOMAIN queue'[a]
          PROVE  \E k \in DOMAIN queue[a] :
                   queue'[a][j] = queue[a][k] /\ queue[a][k] \notin picked
      <3>1. CASE a \in Ready
        <4>1. j + 1 \in DOMAIN queue[a] /\ queue'[a][j] = queue[a][j + 1] /\ j + 1 # 1
          BY <2>1, <2>2, <3>1
        <4> HIDE DEF picked
        <4> QED BY <1>9, <4>1
      <3>2. CASE a \notin Ready
        BY <1>9, <1>10, <2>2, <3>2
      <3> QED BY <3>1, <3>2
    <2>3. \A a \in Agents : \A j \in DOMAIN queue'[a] :
            Dest[queue'[a][j]] = a /\ status'[queue'[a][j]] = "queued"
      <3> TAKE a \in Agents
      <3> TAKE j \in DOMAIN queue'[a]
      <3>1. PICK k \in DOMAIN queue[a] :
              queue'[a][j] = queue[a][k] /\ queue[a][k] \notin picked
        BY <2>2
      <3>2. queue[a][k] \in Messages
        BY DEF TypeOK
      <3> HIDE DEF picked
      <3> QED BY <1>6, <3>1, <3>2 DEF QueuedOnce
    <2>4. \A a \in Agents : \A j, k \in DOMAIN queue'[a] : queue'[a][j] = queue'[a][k] => j = k
      <3> TAKE a \in Agents
      <3>1. CASE a \in Ready
        BY <2>1, <3>1 DEF QueuedOnce
      <3>2. CASE a \notin Ready
        BY <1>10, <3>2 DEF QueuedOnce
      <3> QED BY <3>1, <3>2
    <2>5. ASSUME NEW n \in Messages, status'[n] = "queued"
          PROVE  turn'[n] = "none" /\ \E j \in DOMAIN queue'[Dest[n]] : queue'[Dest[n]][j] = n
      <3>1. n \notin picked /\ status[n] = "queued" /\ Dest[n] \in Agents
        <4> HIDE DEF picked
        <4> QED BY <1>6, <2>5, SchedulerAssumption
      <3>2. turn[n] = "none"
        BY <3>1 DEF QueuedOnce
      <3>3. PICK k \in DOMAIN queue[Dest[n]] : queue[Dest[n]][k] = n
        BY <3>1 DEF QueuedOnce, InQueue
      <3>4. Dest[n] \in Ready => k # 1
        BY <1>4, <3>1, <3>3
      <3>5. \E j \in DOMAIN queue'[Dest[n]] : queue'[Dest[n]][j] = n
        <4>1. CASE Dest[n] \in Ready
          BY <2>1, <3>3, <3>4, <4>1
        <4>2. CASE Dest[n] \notin Ready
          BY <1>10, <3>1, <3>3, <4>2
        <4> QED BY <4>1, <4>2
      <3>6. turn'[n] = "none"
        <4> HIDE DEF picked
        <4> QED BY <1>6, <3>1, <3>2
      <3> QED BY <3>5, <3>6
    <2> QED BY <2>3, <2>4, <2>5 DEF QueuedOnce, InQueue
  <1>12. Books'
    <2> HIDE DEF picked
    <2>0. tracked \subseteq Messages /\ cancelled \subseteq Messages /\ orphan \subseteq Messages
      BY DEF TypeOK
    <2>1. \A a \in Agents : starter'[a] \in Messages =>
            turn'[starter'[a]] = "ensuring" /\ Dest[starter'[a]] = a
      BY <1>2, <1>6, <1>7 DEF Books
    <2>2. \A n \in Messages : status'[n] = "unused" =>
            turn'[n] = "none" \/ (n \in Direct /\ turn'[n] = "ensuring")
      BY <1>6 DEF Books
    <2>3. \A n \in tracked' \cup cancelled' : status'[n] \notin {"unused", "queued"}
      BY <1>2, <1>6, <1>7, <1>8, <2>0 DEF Books
    <2>4. \A n \in Messages : n \notin picked /\ Unfinished(n)' => Unfinished(n) /\ turn[n] # "done"
      BY <1>6 DEF Unfinished
    <2>5. \A n \in Messages : Unfinished(n)' /\ status'[n] \in Pending =>
            n \in tracked' \cup cancelled'
      BY <1>2, <1>6, <1>8, <2>4 DEF Books
    <2>6. \A n \in tracked' : Unfinished(n)' => status'[n] # "direct"
      BY <1>6, <1>7, <1>8, <2>0, <2>4 DEF Books
    <2>7. \A n \in Messages : Unfinished(n)' /\ status'[n] \in Terminal =>
            n \in cancelled' /\ status'[n] = "cancelled"
      BY <1>2, <1>6, <2>4 DEF Books, Terminal
    <2>8. \A n \in cancelled : n \notin picked
      BY <1>7 DEF Books
    <2>9. life' = "open" => \A n \in cancelled' : Unfinished(n)' => status'[n] = "cancelled"
      BY <1>2, <1>6, <2>0, <2>4, <2>8 DEF Books
    <2>10. \A n \in orphan' : turn'[n] = "live"
      BY <1>2, <1>6, <1>7, <2>0 DEF Books
    <2>11. \A n \in Messages : turn'[n] = "created" => status'[n] # "direct"
      BY <1>6 DEF Books
    <2> QED BY <2>1, <2>2, <2>3, <2>5, <2>6, <2>7, <2>9, <2>10, <2>11 DEF Books
  <1> QED BY <1>11, <1>12

LEMMA TurnInv ==
  ASSUME Inv, NEW m \in Messages, TurnStep(m)
  PROVE  QueuedOnce' /\ Books'
  <1> USE DEF Inv
  <1>0. Dest[m] \in Agents /\ (Unfinished(m) => status[m] # "queued")
    BY SchedulerAssumption DEF QueuedOnce, Unfinished
  <1>1. CASE StartTurn(m)
    <2>0. /\ turn[m] = "created" /\ m \notin cancelled
          /\ UNCHANGED <<life, queue, cancelled, orphan>>
      BY <1>1 DEF StartTurn
    <2>b. Unfinished(m) /\ turn[m] # "live" /\ status[m] # "unused"
      BY <2>0 DEF Unfinished, Books
    <2>1. QueuedOnce'
      BY <1>0, <1>1, <2>0, QueuesUntouched DEF StartTurn, BeginEnsure, TypeOK, Unfinished
    <2>2. Books'
      <3>1. CASE /\ turn' = [turn EXCEPT ![m] = "live"]
                 /\ status' = [status EXCEPT ![m] = "dispatching"]
                 /\ UNCHANGED <<starter, tracked>>
        <4>1. /\ turn'[m] = "live" /\ status'[m] = "dispatching"
              /\ \A n \in Messages : n # m => turn'[n] = turn[n] /\ status'[n] = status[n]
          BY <3>1 DEF TypeOK
        <4>2. \A a \in Agents : starter'[a] \in Messages => starter'[a] = starter[a] /\ starter[a] # m
          BY <2>0, <3>1 DEF Books
        <4> QED BY <2>0, <2>b, <3>1, <4>1, <4>2, TurnMoves
      <3>2. CASE BeginEnsure(m) /\ status' = [status EXCEPT ![m] = "dispatching"] /\ UNCHANGED tracked
        <4>1. /\ turn'[m] = "ensuring" /\ status'[m] = "dispatching"
              /\ \A n \in Messages : n # m => turn'[n] = turn[n] /\ status'[n] = status[n]
          BY <3>2 DEF TypeOK, BeginEnsure
        <4>2. \A a \in Agents : starter'[a] \in Messages =>
                \/ starter'[a] = starter[a] /\ starter[a] # m
                \/ starter'[a] = m /\ Dest[m] = a /\ turn'[m] = "ensuring"
          BY <2>0, <3>2, <4>1 DEF Books, BeginEnsure, TypeOK
        <4> QED BY <2>0, <2>b, <3>2, <4>1, <4>2, TurnMoves
      <3>3. CASE /\ turn' = [turn EXCEPT ![m] = "done"]
                 /\ status' = [status EXCEPT ![m] = "failed"]
                 /\ tracked' = tracked \ {m}
                 /\ UNCHANGED starter
        BY <2>0, <3>3, TurnOver DEF Books, TypeOK
      <3> QED BY <1>1, <3>1, <3>2, <3>3 DEF StartTurn
    <2> QED BY <2>1, <2>2
  <1>2. CASE DropTurn(m)
    <2>1. QueuedOnce'
      BY <1>0, <1>2, QueuesUntouched DEF DropTurn, TypeOK, Unfinished
    <2>2. Books'
      BY <1>2 DEF DropTurn, Books, TypeOK, Unfinished
    <2> QED BY <2>1, <2>2
  <1>3. ASSUME NEW o \in Outcomes, EndTurn(m, o)
        PROVE  QueuedOnce' /\ Books'
    <2>1. ResultStatus(o) \notin {"queued", "unused"}
      BY DEF ResultStatus
    <2>2. QueuedOnce'
      BY <1>0, <1>3, <2>1, QueuesUntouched DEF EndTurn, TypeOK, Unfinished
    <2>3. /\ \A n \in Messages : turn'[n] = IF n = m THEN "done" ELSE turn[n]
          /\ \A n \in Messages : n # m => status'[n] = status[n]
          /\ status'[m] \notin {"queued", "unused"}
          /\ tracked' \subseteq tracked /\ tracked \subseteq tracked' \cup {m}
          /\ orphan' = orphan \ {m}
          /\ UNCHANGED <<life, cancelled, starter>>
          /\ turn[m] = "live"
      BY <1>3, <2>1, <1>0 DEF EndTurn, TypeOK, Unfinished, Books
    <2>4. Books'
      <3>1. \A n \in orphan' : turn[n] = "live" /\ n \in Messages /\ n # m
        BY <2>3 DEF Books, TypeOK
      <3>2. \A a \in Agents : starter'[a] \in Messages => starter'[a] = starter[a] /\ starter[a] # m
        BY <2>3 DEF Books
      <3> QED BY <2>3, <3>1, <3>2, TurnOver
    <2> QED BY <2>2, <2>4
  <1> QED BY <1>1, <1>2, <1>3 DEF TurnStep

LEMMA CancelInv ==
  ASSUME Inv, CancelPendingRuntimeWork, UNCHANGED <<life, turn, orphan, starter>>
  PROVE  QueuedOnce' /\ Books'
  <1> USE DEF Inv
  <1>0. /\ tracked \subseteq Messages /\ cancelled \subseteq Messages /\ orphan \subseteq Messages
        /\ \A n \in Messages : Unfinished(n)' <=> Unfinished(n)
    BY DEF TypeOK, Unfinished
  <1>1. \A n \in Messages : /\ status'[n] = IF status[n] \in Pending THEN "cancelled" ELSE status[n]
                            /\ status'[n] \notin Pending
    BY DEF CancelPendingRuntimeWork, Pending
  <1>2. /\ cancelled' = cancelled \cup {m \in tracked : Unfinished(m)}
        /\ tracked' = {}
        /\ queue' = [a \in Agents |-> <<>>]
    BY DEF CancelPendingRuntimeWork
  <1>3. QueuedOnce'
    BY <1>1, <1>2, QueuesEmptied DEF Pending
  <1>4. Books'
    <2>1. \A a \in Agents : starter'[a] \in Messages =>
            turn'[starter'[a]] = "ensuring" /\ Dest[starter'[a]] = a
      BY DEF Books
    <2>2. \A n \in Messages : status'[n] = "unused" =>
            turn'[n] = "none" \/ (n \in Direct /\ turn'[n] = "ensuring")
      BY <1>1 DEF Books
    <2>3. \A n \in tracked' \cup cancelled' : status'[n] \notin {"unused", "queued"}
      BY <1>0, <1>1, <1>2 DEF Books
    <2>4. \A n \in Messages : Unfinished(n)' /\ status'[n] \in Terminal =>
            n \in cancelled' /\ status'[n] = "cancelled"
      <3> SUFFICES ASSUME NEW n \in Messages, Unfinished(n), status'[n] \in Terminal
                   PROVE  n \in cancelled' /\ status'[n] = "cancelled"
        BY <1>0
      <3>1. CASE status[n] \in Pending
        BY <1>1, <1>2, <3>1 DEF Books
      <3>2. CASE status[n] \notin Pending
        BY <1>1, <1>2, <3>2 DEF Books
      <3> QED BY <3>1, <3>2
    <2>5. life' = "open" => \A n \in cancelled' : Unfinished(n)' => status'[n] = "cancelled"
      <3> SUFFICES ASSUME life = "open", NEW n \in cancelled', Unfinished(n)
                   PROVE  status'[n] = "cancelled"
        BY <1>0, <1>2
      <3>1. CASE n \in cancelled
        BY <1>0, <1>1, <3>1 DEF Books, Pending
      <3>2. CASE n \in tracked
        <4>1. n \in Messages /\ status[n] \notin {"unused", "queued", "direct"}
          BY <1>0, <3>2 DEF Books
        <4>2. status[n] \in Pending \/ status[n] \in Terminal
          BY <4>1 DEF TypeOK, MessageStatus, Pending
        <4> QED BY <1>1, <4>1, <4>2 DEF Books
      <3> QED BY <1>2, <3>1, <3>2
    <2>6. \A n \in Messages : turn'[n] = "created" => status'[n] # "direct"
      BY <1>1 DEF Books
    <2>7. \A n \in orphan' : turn'[n] = "live"
      BY DEF Books
    <2> QED BY <1>1, <1>2, <2>1, <2>2, <2>3, <2>4, <2>5, <2>6, <2>7 DEF Books
  <1> QED BY <1>3, <1>4

\* Books does not mention the instances, nor what is being restarted.
LEMMA BooksUntouched ==
  ASSUME Books, UNCHANGED <<life, status, turn, cancelled, orphan, starter>>,
         tracked' = tracked \/ (~HasPendingWork /\ tracked' = {})
  PROVE  Books'
  <1>1. \A n \in Messages : Unfinished(n)' <=> Unfinished(n)
    BY DEF Unfinished
  <1>2. CASE tracked' = tracked
    BY <1>2 DEF Books, Unfinished
  <1>3. CASE ~HasPendingWork /\ tracked' = {}
    BY <1>3 DEF Books, Unfinished, HasPendingWork
  <1> QED BY <1>2, <1>3

LEMMA EndRunInv ==
  ASSUME Inv, NEW action, EndRun(action)
  PROVE  QueuedOnce' /\ Books'
  <1>1. CASE CancelPendingRuntimeWork /\ UNCHANGED <<life, turn, orphan, starter>>
    BY <1>1, CancelInv
  <1>2. CASE UNCHANGED <<life, inst, queue, status, turn, tracked, cancelled, orphan,
                         starter, workdir, resetQueue>>
    BY <1>2, QueuesUntouched, BooksUntouched DEF Inv
  <1> QED BY <1>1, <1>2 DEF EndRun

LEMMA ResetInv ==
  ASSUME Inv, NEW c \in BOOLEAN, ResetSession(c)
  PROVE  QueuedOnce' /\ Books'
  <1>0. UNCHANGED <<life, turn, orphan, starter>>
    BY DEF ResetSession
  <1>1. CASE CancelPendingRuntimeWork
    BY <1>0, <1>1, CancelInv
  <1>2. CASE /\ ReadyForSessionReset
             /\ queue' = [a \in Agents |-> <<>>]
             /\ tracked' = {}
             /\ UNCHANGED <<cancelled, status>>
    <2>1. ~HasPendingWork /\ \A m \in Messages : status'[m] # "queued"
      BY <1>2 DEF ReadyForSessionReset, HasPendingWork, Pending
    <2>2. QueuedOnce'
      BY <1>2, <2>1, QueuesEmptied
    <2>3. Books'
      BY <1>0, <1>2, <2>1, BooksUntouched DEF Inv
    <2> QED BY <2>2, <2>3
  <1> QED BY <1>1, <1>2 DEF ResetSession

LEMMA RestartInv ==
  ASSUME Inv, RestartStep \/ (\E a \in Agents : AssignAgentWorkdir(a))
  PROVE  QueuedOnce' /\ Books'
  <1>1. UNCHANGED <<life, queue, status, turn, tracked, cancelled, orphan, starter>>
    BY DEF RestartStep, ResetWorkerOk, ResetWorkerFails, WorkdirRestarted, WorkdirRestartFails,
           AssignAgentWorkdir
  <1> QED BY <1>1, QueuesUntouched, BooksUntouched DEF Inv

LEMMA CloseInv ==
  ASSUME Inv, CloseBegin \/ CloseEnd
  PROVE  QueuedOnce' /\ Books'
  <1> USE DEF Inv
  <1>0. tracked \subseteq Messages /\ cancelled \subseteq Messages /\ orphan \subseteq Messages
    BY DEF TypeOK
  <1>1. CASE CloseBegin
    <2>1. /\ life' = "closing"
          /\ cancelled' = cancelled \cup {m \in tracked : Unfinished(m) /\ ~IsJob(m)}
          /\ UNCHANGED <<queue, status, turn, tracked, orphan, starter>>
      BY <1>1 DEF CloseBegin
    <2>2. QueuedOnce'
      BY <2>1, QueuesUntouched
    <2>3. Books'
      BY <1>0, <2>1 DEF Books, Unfinished
    <2> QED BY <2>2, <2>3
  <1>2. CASE CloseEnd
    <2> DEFINE stranded == {m \in Messages : turn[m] = "ensuring"}
    <2>1. /\ life' = "closed"
          /\ \A m \in tracked : Unfinished(m) => IsJob(m)
          /\ tracked' = {m \in tracked : IsJob(m)} \ stranded
          /\ orphan' = orphan \cup {m \in Messages : turn[m] = "live"}
          /\ starter' = [a \in Agents |-> Nobody]
          /\ UNCHANGED <<queue, cancelled>>
      BY <1>2 DEF CloseEnd
    <2>2. \A n \in Messages :
            /\ turn'[n] = IF turn[n] = "ensuring" THEN "done" ELSE turn[n]
            /\ turn[n] # "ensuring" => status'[n] = status[n]
            /\ status'[n] \in {status[n], "direct", "failed"}
            /\ status[n] = "queued" => status'[n] = "queued"
            /\ status'[n] = "unused" => turn[n] = "none"
      <3>1. \A n \in Messages :
              /\ turn'[n] = IF turn[n] = "ensuring" THEN "done" ELSE turn[n]
              /\ status'[n] = IF n \notin stranded \ cancelled THEN status[n]
                              ELSE IF status[n] = "unused" THEN "direct" ELSE "failed"
        BY <1>2 DEF CloseEnd
      <3>2. \A n \in Messages : /\ status[n] = "queued" => n \notin stranded
                                /\ status[n] = "unused" /\ n \notin stranded => turn[n] = "none"
                                /\ status[n] = "unused" => n \notin cancelled
        BY DEF QueuedOnce, Books
      <3> QED BY <3>1, <3>2
    <2>3. QueuedOnce'
      BY <2>1, <2>2, QueuesUntouched DEF QueuedOnce
    <2>4. \A n \in Messages : Unfinished(n)' =>
            Unfinished(n) /\ status'[n] = status[n] /\ n \notin stranded
      BY <2>2 DEF Unfinished
    <2>5. Books'
      <3>1. \A a \in Agents : starter'[a] \in Messages => FALSE
        BY <2>1, SchedulerAssumption DEF Nobody
      <3>2. \A n \in Messages : status'[n] = "unused" => turn'[n] = "none"
        BY <2>2
      <3>3. \A n \in tracked' \cup cancelled' : status'[n] \notin {"unused", "queued"}
        BY <1>0, <2>1, <2>2 DEF Books
      <3>4. \A n \in Messages : Unfinished(n)' /\ status'[n] \in Pending =>
              n \in tracked' \cup cancelled'
        BY <2>1, <2>4 DEF Books
      <3>5. \A n \in tracked' : Unfinished(n)' => status'[n] # "direct"
        BY <1>0, <2>1, <2>4 DEF Books
      <3>6. \A n \in Messages : turn'[n] = "created" => status'[n] # "direct"
        BY <2>2 DEF Books
      <3>7. \A n \in Messages : Unfinished(n)' /\ status'[n] \in Terminal =>
              n \in cancelled' /\ status'[n] = "cancelled"
        BY <2>1, <2>4 DEF Books
      <3>8. \A n \in orphan' : turn'[n] = "live"
        BY <1>0, <2>1, <2>2 DEF Books
      <3> HIDE DEF stranded
      <3> QED BY <2>1, <3>1, <3>2, <3>3, <3>4, <3>5, <3>6, <3>7, <3>8 DEF Books
    <2> QED BY <2>3, <2>5
  <1> QED BY <1>1, <1>2

\* The inductive invariant.
LEMMA InvHolds == Spec => []Inv
  <1>1. Inv /\ [Next]_vars => Inv'
    <2> SUFFICES ASSUME Inv, [Next]_vars PROVE Inv'
      OBVIOUS
    <2>1. TypeOK'
      BY TypeStep DEF Inv
    <2>2. CASE Next
      <3>1. QueuedOnce' /\ Books'
        BY <2>2, SubmitInv, StartInv, TickInv, TurnInv, EndRunInv, ResetInv, RestartInv, CloseInv
           DEF Next
      <3> QED BY <2>1, <3>1 DEF Inv
    <2>3. CASE UNCHANGED vars
      BY <2>1, <2>3, QueuesUntouched, BooksUntouched DEF vars, Inv
    <2> QED BY <2>2, <2>3
  <1> QED BY InitInv, <1>1, PTL DEF Spec

\* No message is lost or queued twice: for every number of agents and messages
\* a message is "queued" exactly while its target's queue holds it, once.
THEOREM QueuedOnceAlways == Spec => []QueuedOnce
  BY InvHolds, PTL DEF Inv

\* A delivery behind a message reported cancelled, failed or completed has been
\* told to stop, through any mix of ticks, cancellations, resets and closing.
THEOREM CancelledIsStoppedAlways == Spec => []CancelledIsStopped
  <1>1. Inv => CancelledIsStopped
    BY DEF Inv, Books, CancelledIsStopped
  <1> QED BY InvHolds, <1>1, PTL

\* What one frame picks was unused or queued, so it was not settled before.
LEMMA TickPicks ==
  ASSUME Inv, Tick, NEW m \in Messages, status[m] \in Terminal
  PROVE  status'[m] = status[m]
  <1> USE DEF Inv
  <1>1. PICK N \in Nudges :
          status' = [n \in Messages |->
                      IF n \in N \cup {Head(queue[a]) : a \in Ready}
                      THEN "dispatching" ELSE status[n]]
    BY DEF Tick
  <1>2. m \notin N
    BY DEF Nudges, Terminal
  <1>3. ASSUME NEW a \in Ready
        PROVE  Head(queue[a]) # m
    <2>1. a \in Agents /\ queue[a] \in Seq(Messages) /\ queue[a] # <<>>
      BY DEF Ready, TypeOK
    <2>2. 1 \in DOMAIN queue[a] /\ Head(queue[a]) = queue[a][1]
      BY <2>1
    <2>3. status[Head(queue[a])] = "queued"
      BY <2>1, <2>2 DEF QueuedOnce
    <2> QED BY <2>3 DEF Terminal
  <1> QED BY <1>1, <1>2, <1>3

LEMMA SettledStays ==
  ASSUME Inv, Next, NEW m \in Messages, status[m] \in Terminal
  PROVE  status'[m] = status[m]
  <1> USE DEF Inv
  <1>0. status[m] \notin {"unused", "queued", "direct"} /\ status[m] \notin Pending
    BY DEF Terminal, Pending
  <1>1. \A n \in Messages : Unfinished(n) /\ status[n] \in Terminal =>
          n \in cancelled /\ status[n] = "cancelled"
    BY DEF Books
  <1>2. ASSUME NEW n \in Messages, QueueAgentMessage(n) \/ SendAgentMessage(n)
        PROVE  status'[m] = status[m]
    BY <1>0, <1>2 DEF QueueAgentMessage, SendAgentMessage, Route, SubmitJob, DispatchNow,
                      QueueInstead, Enqueue, BeginEnsure, TypeOK
  <1>3. ASSUME NEW n \in Messages, TurnStep(n)
        PROVE  status'[m] = status[m]
    <2>1. CASE StartTurn(n)
      BY <1>1, <2>1 DEF StartTurn, BeginEnsure, Unfinished, TypeOK
    <2>2. CASE DropTurn(n)
      BY <2>2 DEF DropTurn
    <2>3. ASSUME NEW o \in Outcomes, EndTurn(n, o)
          PROVE  status'[m] = status[m]
      <3>1. CASE m = n
        <4>1. status[m] = "cancelled" /\ o = "cancelled"
          BY <1>1, <2>3, <3>1 DEF EndTurn, Unfinished
        <4> QED BY <2>3, <3>1, <4>1 DEF EndTurn, ResultStatus, TypeOK
      <3>2. CASE m # n
        BY <2>3, <3>2 DEF EndTurn, TypeOK
      <3> QED BY <3>1, <3>2
    <2> QED BY <1>3, <2>1, <2>2, <2>3 DEF TurnStep
  <1>4. ASSUME NEW a \in Agents, PrestartAgent(a) \/ EnsureStep(a) \/ AssignAgentWorkdir(a)
        PROVE  status'[m] = status[m]
    <2>0. starter[a] = m => Unfinished(m) /\ m \in cancelled /\ status[m] = "cancelled"
      BY <1>1 DEF Books, Unfinished
    <2>1. CASE PrestartAgent(a) \/ AssignAgentWorkdir(a)
      BY <2>1 DEF PrestartAgent, AssignAgentWorkdir
    <2>2. CASE EnsureWorkerOk(a)
      BY <1>0, <2>0, <2>2 DEF EnsureWorkerOk, LoopSettled, Route, SubmitJob, DispatchNow,
                      QueueInstead, Enqueue, TypeOK
    <2>3. CASE EnsureWorkerFails(a)
      BY <2>0, <2>3 DEF EnsureWorkerFails, TypeOK
    <2>4. CASE EnsureWorkerCancelled(a)
      BY <2>0, <2>4 DEF EnsureWorkerCancelled, TypeOK
    <2> QED BY <1>4, <2>1, <2>2, <2>3, <2>4 DEF EnsureStep
  <1>5. ASSUME NEW action, EndRun(action)
        PROVE  status'[m] = status[m]
    BY <1>0, <1>5 DEF EndRun, CancelPendingRuntimeWork
  <1>6. ASSUME NEW c \in BOOLEAN, ResetSession(c)
        PROVE  status'[m] = status[m]
    BY <1>0, <1>6 DEF ResetSession, CancelPendingRuntimeWork
  <1>7. CASE RestartStep
    BY <1>7 DEF RestartStep, ResetWorkerOk, ResetWorkerFails, WorkdirRestarted, WorkdirRestartFails
  <1>8. CASE CloseBegin
    BY <1>8 DEF CloseBegin
  <1>9. CASE CloseEnd
    <2>1. turn[m] = "ensuring" => m \in cancelled
      BY <1>1 DEF Unfinished
    <2> QED BY <1>9, <2>1 DEF CloseEnd
  <1> QED BY <1>2, <1>3, <1>4, <1>5, <1>6, <1>7, <1>8, <1>9, TickPicks DEF Next

\* A settled message stays settled: no late answer, tick, cancellation, reset
\* or close ever changes the outcome a message was reported to have.
THEOREM TerminalStableAlways == Spec => TerminalStable
  <1>1. Inv /\ [Next]_vars => [\A m \in Messages :
                                  status[m] \in Terminal => status'[m] = status[m]]_vars
    BY SettledStays
  <1> QED BY InvHolds, <1>1, PTL DEF Spec, TerminalStable

-----------------------------------------------------------------------------
(***************************************************************************)
(* The busy counts.                                                        *)
(***************************************************************************)

\* The turns an instance counts are finitely many, before and after a step.
LEMMA LiveFinite ==
  ASSUME NEW a
  PROVE  /\ IsFiniteSet(Live(a)) /\ Cardinality(Live(a)) \in Nat
         /\ IsFiniteSet(Live(a)') /\ Cardinality(Live(a)') \in Nat
  <1>1. IsFiniteSet(Messages)
    BY SchedulerAssumption
  <1>2. Live(a) \subseteq Messages /\ Live(a)' \subseteq Messages
    BY DEF Live
  <1>3. IsFiniteSet(Live(a)) /\ IsFiniteSet(Live(a)')
    BY <1>1, <1>2, FS_Subset
  <1> QED BY <1>3, FS_CardinalityType

\* The three ways a count stays backed: nothing ends, one turn starts, one ends.
LEMMA BackedSame ==
  ASSUME NEW a, NEW b \in Nat, NEW c \in Nat, b <= Cardinality(Live(a)), c <= b,
         Live(a) \subseteq Live(a)'
  PROVE  c <= Cardinality(Live(a)')
  <1>1. Cardinality(Live(a)) <= Cardinality(Live(a)')
    BY LiveFinite, FS_Subset
  <1> QED BY <1>1, LiveFinite

LEMMA BackedMore ==
  ASSUME NEW a, NEW m, NEW b \in Nat, b <= Cardinality(Live(a)), m \notin Live(a),
         Live(a)' = Live(a) \cup {m}
  PROVE  b + 1 <= Cardinality(Live(a)')
  <1>1. Cardinality(Live(a)') = Cardinality(Live(a)) + 1
    BY LiveFinite, FS_AddElement
  <1> QED BY <1>1, LiveFinite

LEMMA BackedLess ==
  ASSUME NEW a, NEW m, NEW b \in Nat, b <= Cardinality(Live(a)), m \in Live(a),
         Live(a)' = Live(a) \ {m}
  PROVE  (IF b > 0 THEN b - 1 ELSE 0) <= Cardinality(Live(a)')
  <1>1. Cardinality(Live(a)') = Cardinality(Live(a)) - 1
    BY LiveFinite, FS_RemoveElement
  <1>2. Cardinality(Live(a)) \in Nat /\ Cardinality(Live(a)') \in Nat
    BY LiveFinite
  <1>3. CASE b > 0
    BY <1>1, <1>2, <1>3
  <1>4. CASE ~(b > 0)
    BY <1>2, <1>4
  <1> QED BY <1>3, <1>4

LEMMA InstBusy ==
  ASSUME TypeOK, BusyIsBacked, NEW a \in Agents
  PROVE  /\ inst[a] \in Instances /\ inst[a].busy \in Nat
         /\ inst[a].busy <= Cardinality(Live(a))
         /\ WithState(inst[a], "idle", NoMessage) \in Instances
         /\ WithState(inst[a], "idle", NoMessage).busy = inst[a].busy
  BY WithStateType, WithStateBusy DEF TypeOK, BusyIsBacked, AgentStates

\* No live turn ends and no count grows.
LEMMA BusyFrame ==
  ASSUME TypeOK, TypeOK', BusyIsBacked,
         \A n \in Messages : turn[n] = "live" /\ n \notin orphan =>
            turn'[n] = "live" /\ n \notin orphan',
         \A a \in Agents : inst'[a].busy <= inst[a].busy
  PROVE  BusyIsBacked'
  <1> SUFFICES ASSUME NEW a \in Agents PROVE inst'[a].busy <= Cardinality(Live(a)')
    BY DEF BusyIsBacked, Live
  <1>1. Live(a) \subseteq Live(a)'
    BY DEF Live
  <1>2. inst'[a].busy \in Nat /\ inst[a].busy \in Nat
    BY WithStateBusy DEF TypeOK
  <1> QED BY <1>1, <1>2, BackedSame, InstBusy

\* m's turn becomes live on instance i of its agent.
LEMMA BusyClaim ==
  ASSUME TypeOK, BusyIsBacked, NEW m \in Messages, NEW i \in Instances,
         m \notin orphan, turn[m] # "live", orphan' = orphan,
         i.busy <= inst[Dest[m]].busy,
         turn' = [turn EXCEPT ![m] = "live"],
         inst' = [inst EXCEPT ![Dest[m]] = Claim(i, m)]
  PROVE  BusyIsBacked'
  <1> SUFFICES ASSUME NEW a \in Agents PROVE inst'[a].busy <= Cardinality(Live(a)')
    BY DEF BusyIsBacked, Live
  <1>1. CASE a = Dest[m]
    <2>1. Live(a)' = Live(a) \cup {m} /\ m \notin Live(a)
      BY <1>1 DEF Live, TypeOK
    <2>2. inst'[a].busy = i.busy + 1 /\ i.busy \in Nat
      BY <1>1, ClaimType, WithStateBusy DEF TypeOK
    <2>3. i.busy <= Cardinality(Live(a))
      BY <1>1, <2>2, InstBusy, LiveFinite
    <2> QED BY <2>1, <2>2, <2>3, BackedMore
  <1>2. CASE a # Dest[m]
    <2>1. Live(a)' = Live(a) /\ inst'[a] = inst[a]
      BY <1>2 DEF Live, TypeOK
    <2> QED BY <2>1, InstBusy
  <1> QED BY <1>1, <1>2

LEMMA BusyRoute ==
  ASSUME TypeOK, TypeOK', BusyIsBacked, NEW m \in Messages, NEW i \in Instances, Route(m, i),
         m \notin orphan, turn[m] # "live", orphan' = orphan, i.busy <= inst[Dest[m]].busy
  PROVE  BusyIsBacked'
  <1>0. Dest[m] \in Agents /\ \A a \in Agents : inst[a].busy \in Nat
    BY SchedulerAssumption, InstBusy
  <1>1. CASE SubmitJob(m, i)
    <2>1. \A a \in Agents : inst'[a].busy <= inst[a].busy
      BY <1>0, <1>1 DEF SubmitJob, TypeOK
    <2>2. \A n \in Messages : n # m => turn'[n] = turn[n]
      BY <1>1 DEF SubmitJob, TypeOK
    <2> QED BY <1>0, <2>1, <2>2, BusyFrame
  <1>2. CASE DispatchNow(m, i)
    BY <1>2, BusyClaim DEF DispatchNow
  <1>3. CASE QueueInstead(m, i)
    <2>1. inst' = [inst EXCEPT ![Dest[m]] = Noticed(i)] /\ turn' = [turn EXCEPT ![m] = "none"]
      BY <1>3 DEF QueueInstead, Enqueue
    <2>2. \A a \in Agents : inst'[a].busy <= inst[a].busy
      BY <1>0, <2>1, NoticedType DEF TypeOK
    <2>3. \A n \in Messages : n # m => turn'[n] = turn[n]
      BY <2>1 DEF TypeOK
    <2> QED BY <1>0, <2>2, <2>3, BusyFrame
  <1> QED BY <1>1, <1>2, <1>3 DEF Route

\* A worker start that begins: the new instance counts no turn.
LEMMA BusyBegin ==
  ASSUME TypeOK, TypeOK', BusyIsBacked, NEW m \in Messages, turn[m] # "live", orphan' = orphan,
         BeginEnsure(m)
  PROVE  BusyIsBacked'
  <1>1. \A a \in Agents : inst'[a].busy <= inst[a].busy
    BY InstBusy DEF BeginEnsure, Starting, Absent, TypeOK
  <1>2. \A n \in Messages : n # m => turn'[n] = turn[n]
    BY DEF BeginEnsure, TypeOK
  <1> QED BY <1>1, <1>2, BusyFrame

LEMMA BusyStep ==
  ASSUME Inv, TypeOK', BusyIsBacked, Next
  PROVE  BusyIsBacked'
  <1> USE DEF Inv
  <1>0. /\ \A n \in orphan : turn[n] = "live"
        /\ \A a \in Agents : inst[a].busy \in Nat /\ inst[a].busy <= inst[a].busy
    BY InstBusy DEF Books
  <1>1. ASSUME NEW m \in Messages, QueueAgentMessage(m)
        PROVE  BusyIsBacked'
    <2>0. Dest[m] \in Agents
      BY SchedulerAssumption
    <2>1. /\ inst' = [inst EXCEPT ![Dest[m]] = Noticed(inst[Dest[m]])]
          /\ UNCHANGED <<turn, orphan>>
      BY <1>1 DEF QueueAgentMessage, Enqueue
    <2>2. \A a \in Agents : inst'[a].busy <= inst[a].busy
      BY <1>0, <2>0, <2>1, NoticedType DEF TypeOK
    <2> QED BY <2>1, <2>2, BusyFrame
  <1>2. ASSUME NEW m \in Messages, SendAgentMessage(m)
        PROVE  BusyIsBacked'
    <2>1. /\ Dest[m] \in Agents /\ InstanceOf(Dest[m]) \in Instances
          /\ InstanceOf(Dest[m]).busy <= inst[Dest[m]].busy
          /\ turn[m] # "live" /\ m \notin orphan /\ orphan' = orphan
      BY <1>0, <1>2, SchedulerAssumption, InstanceOfType DEF SendAgentMessage
    <2> QED BY <1>2, <2>1, BusyRoute, BusyBegin DEF SendAgentMessage
  <1>3. ASSUME NEW m \in Messages, StartTurn(m)
        PROVE  BusyIsBacked'
    <2>1. /\ Dest[m] \in Agents /\ InstanceOf(Dest[m]) \in Instances
          /\ InstanceOf(Dest[m]).busy <= inst[Dest[m]].busy
          /\ turn[m] # "live" /\ m \notin orphan /\ orphan' = orphan
      BY <1>0, <1>3, SchedulerAssumption, InstanceOfType DEF StartTurn
    <2>2. CASE /\ inst' = [inst EXCEPT ![Dest[m]] = Claim(InstanceOf(Dest[m]), m)]
               /\ turn' = [turn EXCEPT ![m] = "live"]
      BY <2>1, <2>2, BusyClaim
    <2>3. CASE BeginEnsure(m)
      BY <2>1, <2>3, BusyBegin
    <2>4. CASE turn' = [turn EXCEPT ![m] = "done"] /\ UNCHANGED inst
      <3>1. \A n \in Messages : n # m => turn'[n] = turn[n]
        BY <2>4 DEF TypeOK
      <3> QED BY <1>0, <2>1, <2>4, <3>1, BusyFrame
    <2> QED BY <1>3, <2>2, <2>3, <2>4 DEF StartTurn
  <1>4. ASSUME NEW m \in Messages, DropTurn(m)
        PROVE  BusyIsBacked'
    <2>1. \A n \in Messages : n # m => turn'[n] = turn[n]
      BY <1>4 DEF DropTurn, TypeOK
    <2>2. UNCHANGED <<inst, orphan>> /\ turn[m] # "live"
      BY <1>4 DEF DropTurn
    <2> QED BY <1>0, <2>1, <2>2, BusyFrame
  <1>5. ASSUME NEW m \in Messages, NEW o \in Outcomes, EndTurn(m, o)
        PROVE  BusyIsBacked'
    <2>0. /\ Dest[m] \in Agents /\ inst[Dest[m]] \in Instances
          /\ turn[m] = "live" /\ orphan' = orphan \ {m}
          /\ turn' = [turn EXCEPT ![m] = "done"]
      BY <1>5, SchedulerAssumption DEF EndTurn, TypeOK
    <2>1. \A a \in Agents : Live(a)' = Live(a) \ {m}
      BY <2>0 DEF Live, TypeOK
    <2> SUFFICES ASSUME NEW a \in Agents PROVE inst'[a].busy <= Cardinality(Live(a)')
      BY DEF BusyIsBacked, Live
    <2>2. CASE m \notin orphan /\ a = Dest[m]
      <3>1. inst'[a] = Release(inst[a], m, o)
        BY <1>5, <2>0, <2>2 DEF EndTurn, TypeOK
      <3>2. m \in Live(a)
        BY <2>0, <2>2 DEF Live
      <3>3. inst'[a].busy = IF inst[a].busy > 0 THEN inst[a].busy - 1 ELSE 0
        BY <2>0, <2>2, <3>1, ReleaseType
      <3> QED BY <2>1, <3>2, <3>3, InstBusy, BackedLess
    <2>3. CASE ~(m \notin orphan /\ a = Dest[m])
      <3>1. inst'[a] = inst[a] /\ m \notin Live(a)
        BY <1>5, <2>3 DEF EndTurn, TypeOK, Live
      <3> QED BY <2>1, <3>1, InstBusy
    <2> QED BY <2>2, <2>3
  <1>6. ASSUME NEW a \in Agents, PrestartAgent(a)
        PROVE  BusyIsBacked'
    <2>1. \A b \in Agents : inst'[b].busy <= inst[b].busy
      <3>1. Starting.busy = 0 /\ Fresh.busy = 0 /\ inst[a].busy \in Nat
        BY <1>0 DEF Starting, Fresh, Absent
      <3>2. inst' = [inst EXCEPT ![a] = Fresh] \/ inst' = [inst EXCEPT ![a] = Starting]
        BY <1>6 DEF PrestartAgent
      <3>3. CASE inst' = [inst EXCEPT ![a] = Fresh]
        <4> HIDE DEF Fresh
        <4> QED BY <1>0, <3>1, <3>3 DEF TypeOK, Instances
      <3>4. CASE inst' = [inst EXCEPT ![a] = Starting]
        <4> HIDE DEF Starting
        <4> QED BY <1>0, <3>1, <3>4 DEF TypeOK, Instances
      <3> QED BY <3>2, <3>3, <3>4
    <2> QED BY <1>6, <2>1, BusyFrame DEF PrestartAgent
  <1>7. ASSUME NEW a \in Agents, EnsureWorkerOk(a)
        PROVE  BusyIsBacked'
    <2> DEFINE m == starter[a]
               i == WithState(inst[a], "idle", NoMessage)
    <2>0. i \in Instances /\ i.busy = inst[a].busy
      BY InstBusy
    <2>1. orphan' = orphan /\ m \in Starters /\ m # Nobody
      BY <1>7 DEF EnsureWorkerOk, TypeOK
    <2>2. m \in Messages => Dest[m] = a /\ turn[m] # "live" /\ m \notin orphan
      BY <1>0 DEF Books
    <2>3. CASE m = Prestart
      <3>1. inst' = [inst EXCEPT ![a] = i] /\ turn' = turn
        BY <1>7, <2>3, SchedulerAssumption DEF EnsureWorkerOk, Prestart
      <3>2. \A b \in Agents : inst'[b].busy <= inst[b].busy
        <4> HIDE DEF i
        <4> QED BY <1>0, <2>0, <3>1 DEF TypeOK
      <3> QED BY <2>1, <3>1, <3>2, BusyFrame
    <2>4. CASE m # Prestart
      <3>1. m \in Messages
        BY <2>1, <2>4 DEF Starters
      <3>2. \/ Route(m, i)
            \/ inst' = [inst EXCEPT ![a] = Claim(i, m)] /\ turn' = [turn EXCEPT ![m] = "live"]
        BY <1>7, <2>4 DEF EnsureWorkerOk
      <3>3. i.busy <= inst[Dest[m]].busy
        BY <1>0, <2>0, <2>2, <3>1
      <3> HIDE DEF m, i
      <3> QED BY <2>0, <2>1, <2>2, <3>1, <3>2, <3>3, BusyRoute, BusyClaim
    <2> QED BY <2>3, <2>4
  <1>8. ASSUME NEW a \in Agents, EnsureWorkerFails(a)
        PROVE  BusyIsBacked'
    <2>1. /\ inst' = [inst EXCEPT ![a] = Absent]
          /\ orphan' = orphan \cup Live(a)
      BY <1>8 DEF EnsureWorkerFails
    <2>2. \A n \in Messages : turn[n] = "live" => turn'[n] = "live"
      BY <1>8 DEF EnsureWorkerFails, Books, TypeOK
    <2> SUFFICES ASSUME NEW b \in Agents PROVE inst'[b].busy <= Cardinality(Live(b)')
      BY DEF BusyIsBacked, Live
    <2>3. CASE b = a
      BY <2>1, <2>3, LiveFinite DEF Absent, TypeOK
    <2>4. CASE b # a
      <3>1. Live(b) \subseteq Live(b)' /\ inst'[b] = inst[b]
        BY <2>1, <2>2, <2>4 DEF Live, TypeOK
      <3> QED BY <3>1, InstBusy, BackedSame
    <2> QED BY <2>3, <2>4
  <1>9. ASSUME NEW a \in Agents, EnsureWorkerCancelled(a)
        PROVE  BusyIsBacked'
    <2>1. \A n \in Messages : turn[n] = "live" => turn'[n] = "live"
      BY <1>9 DEF EnsureWorkerCancelled, Books, TypeOK
    <2> QED BY <1>0, <1>9, <2>1, BusyFrame DEF EnsureWorkerCancelled
  <1>10. CASE Tick
    <2>1. PICK N \in Nudges :
            /\ turn' = [n \in Messages |->
                         IF n \in N \cup {Head(queue[a]) : a \in Ready} THEN "created" ELSE turn[n]]
            /\ inst' = [a \in Agents |->
                         IF a \in {Dest[n] : n \in N} THEN Noticed(inst[a]) ELSE inst[a]]
            /\ orphan' = orphan
      BY <1>10 DEF Tick
    <2>2. \A n \in N : turn[n] # "live"
      BY SchedulerAssumption DEF Nudges, Books
    <2>3. ASSUME NEW a \in Ready
          PROVE  turn[Head(queue[a])] # "live"
      <3>1. a \in Agents /\ queue[a] \in Seq(Messages) /\ queue[a] # <<>>
        BY DEF Ready, TypeOK
      <3>2. 1 \in DOMAIN queue[a] /\ Head(queue[a]) = queue[a][1] /\ queue[a][1] \in Messages
        BY <3>1
      <3> QED BY <3>1, <3>2 DEF QueuedOnce
    <2>4. \A n \in Messages : turn[n] = "live" => turn'[n] = "live"
      BY <2>1, <2>2, <2>3
    <2>5. \A a \in Agents : inst'[a].busy <= inst[a].busy
      BY <1>0, <2>1, NoticedType DEF TypeOK
    <2> QED BY <2>1, <2>4, <2>5, BusyFrame
  <1>11. CASE (\E action \in {"cancel", "fail", "complete", "pause"} : EndRun(action)) \/ CloseBegin
    <2>1. UNCHANGED <<inst, turn, orphan>>
      BY <1>11 DEF EndRun, CloseBegin
    <2> QED BY <1>0, <2>1, BusyFrame
  <1>12. ASSUME NEW q, NEW j \in [Agents -> Instances], ResetRun(j, q), UNCHANGED <<turn, orphan>>,
                \A a \in Agents : j[a].busy <= inst[a].busy
         PROVE  BusyIsBacked'
    <2>1. \A a \in Agents : inst'[a] \in {j[a], Fresh, WithState(j[a], "restarting", NoMessage)}
      BY <1>12 DEF ResetRun
    <2>2. \A a \in Agents : inst'[a].busy <= inst[a].busy
      <3> TAKE a \in Agents
      <3>1. WithState(j[a], "restarting", NoMessage).busy = j[a].busy /\ Fresh.busy = 0
        BY WithStateBusy DEF Fresh, Absent
      <3> QED BY <1>0, <1>12, <2>1, <3>1
    <2> QED BY <1>12, <2>2, BusyFrame
  <1>13. ASSUME NEW c \in BOOLEAN, ResetSession(c)
         PROVE  BusyIsBacked'
    <2>1. PICK q \in Orders({a \in Agents : Started(a)}) : ResetRun(inst, q)
      BY <1>13 DEF ResetSession
    <2> QED BY <1>0, <1>12, <1>13, <2>1 DEF ResetSession, TypeOK
  <1>14. CASE RestartStep \/ \E a \in Agents : AssignAgentWorkdir(a)
    <2> DEFINE h == Head(resetQueue)
    <2>1. CASE ResetWorkerOk
      <3> DEFINE j == [inst EXCEPT ![h] = IF @.state = "absent" THEN @ ELSE Fresh]
      <3>1. h \in Agents /\ Tail(resetQueue) \in Seq(Agents) /\ Fresh.busy = 0
        BY <2>1 DEF ResetWorkerOk, TypeOK, Fresh, Absent
      <3>2. j \in [Agents -> Instances] /\ \A a \in Agents : j[a].busy <= inst[a].busy
        BY <1>0, <3>1, FixedInstances DEF TypeOK
      <3>3. ResetRun(j, Tail(resetQueue)) /\ UNCHANGED <<turn, orphan>>
        BY <2>1 DEF ResetWorkerOk
      <3> HIDE DEF j
      <3> QED BY <1>12, <3>2, <3>3
    <2>2. CASE ResetWorkerFails
      <3>1. h \in Agents
        BY <2>2 DEF ResetWorkerFails, TypeOK
      <3>2. \A a \in Agents : inst'[a].busy <= inst[a].busy
        <4>1. WithState(inst[h], "failed", NoMessage).busy = inst[h].busy
          BY <3>1, InstBusy, WithStateBusy
        <4> QED BY <1>0, <2>2, <3>1, <4>1 DEF ResetWorkerFails, TypeOK
      <3> QED BY <2>2, <3>2, BusyFrame DEF ResetWorkerFails
    <2>3. ASSUME NEW a \in Agents, WorkdirRestarted(a)
          PROVE  BusyIsBacked'
      <3>1. [inst[a] EXCEPT !.busy = 0] \in Instances /\ [inst[a] EXCEPT !.busy = 0].busy = 0
        BY InstBusy, BusyType
      <3>2. WithState([inst[a] EXCEPT !.busy = 0], "idle", NoMessage).busy = 0
        BY <3>1, WithStateBusy
      <3>3. \A b \in Agents : inst'[b].busy <= inst[b].busy
        BY <1>0, <2>3, <3>2 DEF WorkdirRestarted, TypeOK
      <3> QED BY <2>3, <3>3, BusyFrame DEF WorkdirRestarted
    <2>4. ASSUME NEW a \in Agents, WorkdirRestartFails(a) \/ AssignAgentWorkdir(a)
          PROVE  BusyIsBacked'
      <3>1. /\ WithState(inst[a], "failed", NoMessage).busy = inst[a].busy
            /\ WithState(inst[a], "restarting", NoMessage).busy = inst[a].busy
        BY InstBusy, WithStateBusy
      <3>2. \A b \in Agents : inst'[b].busy <= inst[b].busy
        BY <1>0, <2>4, <3>1 DEF WorkdirRestartFails, AssignAgentWorkdir, TypeOK
      <3> QED BY <2>4, <3>2, BusyFrame DEF WorkdirRestartFails, AssignAgentWorkdir
    <2> QED BY <1>14, <2>1, <2>2, <2>3, <2>4 DEF RestartStep
  <1>15. CASE CloseEnd
    <2> SUFFICES ASSUME NEW a \in Agents PROVE inst'[a].busy <= Cardinality(Live(a)')
      BY DEF BusyIsBacked, Live
    <2> QED BY <1>15, LiveFinite DEF CloseEnd, Absent
  <1> QED BY <1>1, <1>2, <1>3, <1>4, <1>5, <1>6, <1>7, <1>8, <1>9, <1>10, <1>11, <1>13, <1>14,
             <1>15 DEF Next, TurnStep, EnsureStep

\* busy_count never exceeds the live turns that will release it, for every
\* number of agents and turns and through every cancellation, restart, failed
\* start and close: no agent is left busy by a turn that is over.
THEOREM BusyIsBackedAlways == Spec => []BusyIsBacked
  <1>1. Init => BusyIsBacked
    <2> SUFFICES ASSUME Init, NEW a \in Agents PROVE inst[a].busy <= Cardinality(Live(a))
      BY DEF BusyIsBacked, Live
    <2> QED BY LiveFinite DEF Init, Absent
  <1>2. Inv /\ TypeOK' /\ BusyIsBacked /\ [Next]_vars => BusyIsBacked'
    <2> SUFFICES ASSUME Inv, TypeOK', BusyIsBacked, [Next]_vars PROVE BusyIsBacked'
      OBVIOUS
    <2>1. CASE UNCHANGED vars
      BY <2>1 DEF vars, BusyIsBacked, Live
    <2> QED BY <2>1, BusyStep
  <1> QED BY InvHolds, TypeCorrect, <1>1, <1>2, PTL DEF Spec

-----------------------------------------------------------------------------
(***************************************************************************)
(* Pending work always has somebody working on it.                         *)
(***************************************************************************)

LEMMA DispatchingStep ==
  ASSUME Inv, DispatchingHasTurn, Next, life' = "open",
         NEW m \in Messages, status'[m] = "dispatching"
  PROVE  Unfinished(m)'
  <1> USE DEF Inv
  <1>0. life = "open" /\ ~CloseBegin /\ ~CloseEnd
    <2>1. ~CloseBegin /\ ~CloseEnd
      BY DEF CloseBegin, CloseEnd
    <2>2. life' = life
      BY <2>1 DEF Next, QueueAgentMessage, SendAgentMessage, TurnStep, StartTurn, DropTurn, EndTurn,
            PrestartAgent, EnsureStep, EnsureWorkerOk, EnsureWorkerFails, EnsureWorkerCancelled,
            AssignAgentWorkdir, EndRun, ResetSession, Tick, RestartStep, ResetWorkerOk,
            ResetWorkerFails, WorkdirRestarted, WorkdirRestartFails
    <2> QED BY <2>1, <2>2
  <1>a. status[m] = "dispatching" => Unfinished(m)
    BY <1>0 DEF DispatchingHasTurn
  <1>1. ASSUME NEW n \in Messages, QueueAgentMessage(n) \/ SendAgentMessage(n)
        PROVE  Unfinished(m)'
    <2>1. status'[m] = status[m] /\ (turn'[m] = turn[m] \/ turn'[m] = "ensuring")
      BY <1>1 DEF QueueAgentMessage, SendAgentMessage, Route, SubmitJob, DispatchNow,
                  QueueInstead, Enqueue, BeginEnsure, TypeOK
    <2> QED BY <1>a, <2>1 DEF Unfinished
  <1>2. ASSUME NEW n \in Messages, StartTurn(n)
        PROVE  Unfinished(m)'
    <2>1. CASE m = n
      BY <1>0, <1>2, <2>1 DEF StartTurn, BeginEnsure, TypeOK, Unfinished
    <2>2. CASE m # n
      BY <1>a, <1>2, <2>2 DEF StartTurn, BeginEnsure, TypeOK, Unfinished
    <2> QED BY <2>1, <2>2
  <1>3. ASSUME NEW n \in Messages, DropTurn(n)
        PROVE  Unfinished(m)'
    <2>1. status'[m] = status[m] /\ (m # n => turn'[m] = turn[m])
      BY <1>3 DEF DropTurn, TypeOK
    <2>2. status[n] = "cancelled"
      BY <1>0, <1>3 DEF DropTurn, Books, Unfinished
    <2> QED BY <1>a, <2>1, <2>2 DEF Unfinished
  <1>4. ASSUME NEW n \in Messages, NEW o \in Outcomes, EndTurn(n, o)
        PROVE  Unfinished(m)'
    <2>1. m # n => status'[m] = status[m] /\ turn'[m] = turn[m]
      BY <1>4 DEF EndTurn, TypeOK
    <2>2. status'[n] # "dispatching"
      BY <1>4 DEF EndTurn, ResultStatus, TypeOK
    <2> QED BY <1>a, <2>1, <2>2 DEF Unfinished
  <1>5. ASSUME NEW a \in Agents, PrestartAgent(a) \/ EnsureStep(a) \/ AssignAgentWorkdir(a)
        PROVE  Unfinished(m)'
    <2> DEFINE n == starter[a]
    <2>1. CASE PrestartAgent(a) \/ AssignAgentWorkdir(a)
      BY <1>a, <2>1 DEF PrestartAgent, AssignAgentWorkdir, Unfinished
    <2>2. CASE EnsureWorkerOk(a)
      <3>1. m # n => turn'[m] = turn[m] /\ status'[m] = status[m]
        BY <2>2, SchedulerAssumption
           DEF EnsureWorkerOk, Route, SubmitJob, DispatchNow, QueueInstead, Enqueue, TypeOK
      <3>2. m = n => turn'[m] \in {"live", "created"}
        BY <2>2, SchedulerAssumption
           DEF EnsureWorkerOk, Route, SubmitJob, DispatchNow, QueueInstead, Enqueue, TypeOK, Prestart
      <3> QED BY <1>a, <3>1, <3>2 DEF Unfinished
    <2>3. CASE EnsureWorkerFails(a) \/ EnsureWorkerCancelled(a)
      <3>1. m # n => turn'[m] = turn[m] /\ status'[m] = status[m]
        BY <2>3 DEF EnsureWorkerFails, EnsureWorkerCancelled, TypeOK
      <3>2. m = n => status'[m] # "dispatching"
        BY <2>3, SchedulerAssumption DEF EnsureWorkerFails, EnsureWorkerCancelled, TypeOK, Prestart
      <3> QED BY <1>a, <3>1, <3>2 DEF Unfinished
    <2> QED BY <1>5, <2>1, <2>2, <2>3 DEF EnsureStep
  <1>6. CASE Tick
    <2>1. PICK picked : /\ status' = [k \in Messages |->
                                        IF k \in picked THEN "dispatching" ELSE status[k]]
                        /\ turn' = [k \in Messages |-> IF k \in picked THEN "created" ELSE turn[k]]
      BY <1>6 DEF Tick
    <2> QED BY <1>a, <2>1 DEF Unfinished
  <1>7. ASSUME NEW action, EndRun(action)
        PROVE  Unfinished(m)'
    BY <1>a, <1>7 DEF EndRun, CancelPendingRuntimeWork, Pending, Unfinished
  <1>8. ASSUME NEW c \in BOOLEAN, ResetSession(c)
        PROVE  Unfinished(m)'
    BY <1>a, <1>8 DEF ResetSession, CancelPendingRuntimeWork, Pending, Unfinished
  <1>9. CASE RestartStep
    BY <1>a, <1>9 DEF RestartStep, ResetWorkerOk, ResetWorkerFails, WorkdirRestarted,
                      WorkdirRestartFails, Unfinished
  <1> QED BY <1>0, <1>1, <1>2, <1>3, <1>4, <1>5, <1>6, <1>7, <1>8, <1>9 DEF Next, TurnStep

\* In an open runtime a message that is being dispatched always has a coroutine
\* that will settle it, so has_pending_work cannot stay true for nothing.
THEOREM DispatchingHasTurnAlways == Spec => []DispatchingHasTurn
  <1>1. Init => DispatchingHasTurn
    BY DEF Init, DispatchingHasTurn
  <1>2. Inv /\ DispatchingHasTurn /\ [Next]_vars => DispatchingHasTurn'
    <2> SUFFICES ASSUME Inv, DispatchingHasTurn, [Next]_vars PROVE DispatchingHasTurn'
      OBVIOUS
    <2>1. CASE UNCHANGED vars
      BY <2>1 DEF vars, DispatchingHasTurn, Unfinished
    <2>2. CASE Next
      BY <2>2, DispatchingStep DEF DispatchingHasTurn, Unfinished
    <2> QED BY <2>1, <2>2
  <1> QED BY InvHolds, <1>1, <1>2, PTL DEF Spec
-----------------------------------------------------------------------------
(***************************************************************************)
(* Agents that only the tick serves: no direct message goes round the      *)
(* queue, no instance is moved or bound from outside, nobody resets the    *)
(* session while an agent is starting.  As long as besides each reset      *)
(* restarts one agent at most, so that none takes work while it waits to   *)
(* be restarted, an agent's instance and its turns agree.                  *)
(***************************************************************************)

TickOnly == Direct = {} /\ External = {} /\ Reassignable = {} /\ ~Overlap

\* What holds an agent: its turns, from the tick that created them to their end.
Held(a) == {m \in Messages : Dest[m] = a /\ turn[m] \in {"created", "live"} /\ m \notin orphan}
Up(a) == inst[a].state \notin {"absent", "starting"}

\* What one agent's instance says of its turns: there is at most one, a live one
\* is counted, a created one finds the instance, and an agent under restart takes
\* no work and has only turns that were told to stop.
Slot(a) ==
  /\ starter[a] \notin Messages /\ (inst[a].state = "starting" <=> starter[a] = Prestart)
  /\ \A m, n \in Held(a) : m = n
  /\ Live(a) # {} => inst[a].busy = 1 /\ inst[a].flow = TRUE /\ Up(a)
  /\ Live(a) = {} => inst[a].busy = 0
  /\ life = "closed" => ~Started(a)
  /\ life # "closed" /\ Held(a) # {} => Up(a)
  /\ \A i \in DOMAIN resetQueue : resetQueue[i] = a =>
       /\ Up(a) /\ inst[a].state \notin AcceptStates
       /\ \A m \in Held(a) : m \in cancelled
  /\ Started(a) /\ inst[a].flow = FALSE =>
       /\ inst[a].busy = 0
       /\ inst[a].state \notin {"waiting_for_reply", "timed_out", "cancelled"}
       /\ inst[a].current = NoMessage

Slots ==
  /\ workdir = {}
  /\ \A m \in Messages : turn[m] # "ensuring" /\ status[m] # "direct"
  /\ life # "closed" => orphan = {}
  /\ \A a \in Agents : Slot(a)

LEMMA InitSlots == Init => Slots
  <1> SUFFICES ASSUME Init PROVE Slots
    OBVIOUS
  <1>1. ASSUME NEW a \in Agents PROVE Slot(a)
    <2>1. Held(a) = {} /\ Live(a) = {} /\ inst[a] = Absent
      BY DEF Init, Held, Live
    <2> QED BY <2>1, SchedulerAssumption
            DEF Init, Slot, Started, Absent, Nobody, Prestart
  <1> QED BY <1>1 DEF Init, Slots

\* The fields of an instance after set_state, a claim, a release and a notice.
LEMMA WithStateIs ==
  ASSUME NEW i \in Instances, NEW s \in AgentStates, NEW m \in Messages \cup {NoMessage}
  PROVE  /\ WithState(i, s, m).state = s
         /\ WithState(i, s, m).busy = i.busy
         /\ WithState(i, s, m).flow = i.flow
         /\ WithState(i, s, m).current = IF m # NoMessage \/ s = "idle" THEN m ELSE i.current
  BY DEF WithState, Instances

LEMMA ClaimIs ==
  ASSUME NEW i \in Instances, NEW m \in Messages
  PROVE  /\ Claim(i, m).state = "waiting_for_reply"
         /\ Claim(i, m).busy = i.busy + 1
         /\ Claim(i, m).flow = TRUE
  BY DEF Claim, WithState, Instances

LEMMA ReleaseIs ==
  ASSUME NEW i \in Instances, NEW m \in Messages, NEW o \in Outcomes
  PROVE  /\ Release(i, m, o).state \in {"idle", "timed_out", "failed", "cancelled"}
         /\ o = "cancelled" => Release(i, m, o).state = "cancelled"
         /\ Release(i, m, o).flow = i.flow
  <1> DEFINE free == [i EXCEPT !.busy = IF i.busy > 0 THEN i.busy - 1 ELSE 0]
  <1>1. free \in Instances /\ free.flow = i.flow
    <2> DEFINE n == IF i.busy > 0 THEN i.busy - 1 ELSE 0
    <2>1. n \in Nat
      BY WithStateBusy
    <2> HIDE DEF n
    <2>2. [i EXCEPT !.busy = n] \in Instances /\ [i EXCEPT !.busy = n].flow = i.flow
      BY <2>1 DEF Instances
    <2> QED BY <2>2 DEF n
  <1>2. ASSUME NEW s \in AgentStates, NEW k \in Messages \cup {NoMessage}
        PROVE  WithState(free, s, k).state = s /\ WithState(free, s, k).flow = i.flow
    <2> HIDE DEF free
    <2> QED BY <1>1, WithStateIs
  <1>3. \E s \in {"idle", "timed_out", "failed", "cancelled"} : \E k \in Messages \cup {NoMessage} :
          Release(i, m, o) = WithState(free, s, k) /\ (o = "cancelled" => s = "cancelled")
    BY DEF Release, Outcomes
  <1> HIDE DEF free
  <1> QED BY <1>2, <1>3 DEF AgentStates

LEMMA NoticedIs ==
  ASSUME NEW i \in Instances
  PROVE  /\ Noticed(i).state = i.state \/ (i.state = "idle" /\ Noticed(i).state = "queued")
         /\ Noticed(i).busy = i.busy /\ Noticed(i).current = i.current
         /\ i.state # "absent" => Noticed(i).flow = TRUE
         /\ i.state = "absent" => Noticed(i) = i
  BY DEF Noticed, Instances

\* A live turn holds its agent.
LEMMA LiveIsHeld ==
  ASSUME NEW a
  PROVE  Live(a) \subseteq Held(a) /\ Live(a) \subseteq Messages /\ Held(a) \subseteq Messages
  BY DEF Live, Held

\* A step that does not touch an agent.
LEMMA SlotSame ==
  ASSUME NEW a \in Agents, Slot(a), inst'[a] = inst[a], starter'[a] = starter[a],
         \A m \in Messages : Dest[m] = a =>
            turn'[m] = turn[m] /\ (m \in orphan' <=> m \in orphan),
         (life' = "closed" <=> life = "closed"), cancelled \subseteq cancelled',
         \A i \in DOMAIN resetQueue' : resetQueue'[i] = a =>
            \E j \in DOMAIN resetQueue : resetQueue[j] = a
  PROVE  Slot(a)'
  <1>1. Held(a)' = Held(a) /\ Live(a)' = Live(a)
    BY DEF Held, Live
  <1>2. (Up(a) <=> Up(a)') /\ (Started(a) <=> Started(a)')
    BY DEF Up, Started
  <1> QED BY <1>1, <1>2 DEF Slot
\* A step that changes one agent's instance and leaves the turns as they are.
LEMMA SlotsOther ==
  ASSUME Slots, NEW b \in Agents, \A a \in Agents : a # b => inst'[a] = inst[a],
         Slot(b)', UNCHANGED <<workdir, turn, orphan, resetQueue>>,
         \A a \in Agents : a # b => starter'[a] = starter[a],
         (life' = "closed" <=> life = "closed"), cancelled \subseteq cancelled',
         \A n \in Messages : status'[n] # "direct"
  PROVE  Slots'
  <1>1. ASSUME NEW a \in Agents, a # b PROVE Slot(a)'
    BY <1>1, SlotSame DEF Slots
  <1> QED BY <1>1 DEF Slots

LEMMA QueueSlots ==
  ASSUME TypeOK, TypeOK', Slots, NEW m \in Messages, QueueAgentMessage(m)
  PROVE  Slots'
  <1> DEFINE b == Dest[m]
  <1>1. b \in Agents /\ inst[b] \in Instances
    BY SchedulerAssumption DEF TypeOK
  <1>2. /\ inst' = [inst EXCEPT ![b] = Noticed(inst[b])]
        /\ UNCHANGED <<life, turn, cancelled, orphan, starter, workdir, resetQueue>>
    BY DEF QueueAgentMessage, Enqueue
  <1> HIDE DEF b
  <1>3. inst'[b] = Noticed(inst[b]) /\ \A a \in Agents : a # b => inst'[a] = inst[a]
    BY <1>1, <1>2 DEF TypeOK
  <1>4. Held(b)' = Held(b) /\ Live(b)' = Live(b) /\ Slot(b)
    BY <1>1, <1>2 DEF Held, Live, Slots
  <1>5. Slot(b)'
    <2>1. /\ Up(b)' <=> Up(b)
          /\ Started(b)' => Started(b) /\ inst'[b].flow = TRUE
          /\ inst'[b].state = "starting" <=> inst[b].state = "starting"
          /\ inst[b].state \notin AcceptStates => inst'[b].state \notin AcceptStates
          /\ inst'[b].busy = inst[b].busy
          /\ inst[b].flow = TRUE => inst'[b].flow = TRUE
      <3>1. /\ inst'[b].state = inst[b].state
               \/ (inst[b].state = "idle" /\ inst'[b].state = "queued")
            /\ inst'[b].busy = inst[b].busy
            /\ inst[b].state # "absent" => inst'[b].flow = TRUE
            /\ inst[b].state = "absent" => inst'[b] = inst[b]
        BY <1>1, <1>3, NoticedIs
      <3> QED BY <3>1 DEF Up, Started, AcceptStates
    <2> QED BY <1>2, <1>4, <2>1 DEF Slot
  <1>6. \A n \in Messages : status'[n] # "direct"
    BY DEF QueueAgentMessage, Enqueue, TypeOK, Slots
  <1> QED BY <1>1, <1>2, <1>3, <1>5, <1>6, SlotsOther

\* Nobody but prestart_agents awaits a worker.
LEMMA StarterIs ==
  ASSUME TypeOK, Slots, NEW a \in Agents, starter[a] # Nobody
  PROVE  /\ starter[a] = Prestart /\ inst[a].state = "starting"
         /\ Held(a) = {} \/ life = "closed"
         /\ Live(a) = {} /\ inst[a].busy = 0
         /\ \A i \in DOMAIN resetQueue : resetQueue[i] # a
  BY LiveIsHeld DEF TypeOK, Slots, Slot, Starters, Up

LEMMA StartSlots ==
  ASSUME TickOnly, TypeOK, TypeOK', Slots, NEW b \in Agents, PrestartAgent(b) \/ EnsureStep(b)
  PROVE  Slots'
  <1>0. inst[b] \in Instances /\ Slot(b) /\ Prestart \notin Messages /\ Nobody \notin Messages
    BY SchedulerAssumption DEF TypeOK, Slots, Prestart, Nobody
  <1>c. ~EnsureWorkerCancelled(b)
    <2> SUFFICES ASSUME starter[b] \in cancelled PROVE FALSE
      BY DEF EnsureWorkerCancelled
    <2>1. starter[b] \in Messages
      BY DEF TypeOK
    <2> QED BY <1>0, <2>1 DEF Slot
  <1>s. \A n \in Messages : status'[n] # "direct"
    <2>1. CASE PrestartAgent(b)
      BY <2>1 DEF PrestartAgent, Slots
    <2>2. CASE EnsureWorkerOk(b)
      BY <1>0, <2>2, StarterIs DEF EnsureWorkerOk, Slots
    <2>3. CASE EnsureWorkerFails(b)
      BY <1>0, <2>3, StarterIs DEF EnsureWorkerFails, Slots
    <2> QED BY <1>c, <2>1, <2>2, <2>3 DEF EnsureStep
  <1>1. CASE PrestartAgent(b)
    <2>1. /\ inst' = [inst EXCEPT ![b] = Starting] /\ starter' = [starter EXCEPT ![b] = Prestart]
          /\ ~Started(b) /\ life # "closed" /\ \A i \in DOMAIN resetQueue : resetQueue[i] # b
          /\ UNCHANGED <<life, turn, cancelled, orphan, workdir, resetQueue>>
      BY <1>1 DEF PrestartAgent, TickOnly, Unbound
    <2>2. Held(b)' = Held(b) /\ Live(b)' = Live(b)
      BY <2>1 DEF Held, Live
    <2>3. Held(b) = {} /\ Live(b) = {}
      BY <1>0, <2>1, LiveIsHeld DEF Slot, Started, Up
    <2>4. inst'[b] = Starting /\ starter'[b] = Prestart
      BY <2>1 DEF TypeOK
    <2>5. Slot(b)'
      BY <1>0, <2>1, <2>2, <2>3, <2>4 DEF Slot, Starting, Absent, Started, Up
    <2>6. \A a \in Agents : a # b => inst'[a] = inst[a] /\ starter'[a] = starter[a]
      BY <2>1 DEF TypeOK
    <2> QED BY <2>1, <2>5, <2>6, <1>s, SlotsOther
  <1>2. CASE EnsureWorkerOk(b)
    <2>1. starter[b] # Nobody
      BY <1>2 DEF EnsureWorkerOk
    <2>2. /\ inst' = [inst EXCEPT ![b] = WithState(inst[b], "idle", NoMessage)]
          /\ starter' = [starter EXCEPT ![b] = Nobody]
          /\ UNCHANGED <<life, turn, cancelled, orphan, workdir, resetQueue>>
      BY <1>2, <2>1, StarterIs DEF EnsureWorkerOk
    <2>3. Held(b)' = Held(b) /\ Live(b)' = Live(b)
      BY <2>2 DEF Held, Live
    <2>4. inst'[b] = WithState(inst[b], "idle", NoMessage) /\ starter'[b] = Nobody
      BY <2>2 DEF TypeOK
    <2>5. /\ inst'[b].state = "idle" /\ inst'[b].current = NoMessage
          /\ inst'[b].busy = 0
      BY <1>0, <2>1, <2>4, StarterIs, WithStateIs DEF AgentStates
    <2>6. Slot(b)'
      BY <1>0, <2>1, <2>2, <2>3, <2>4, <2>5, StarterIs DEF Slot, Started, Up, Nobody, Prestart
    <2>7. \A a \in Agents : a # b => inst'[a] = inst[a] /\ starter'[a] = starter[a]
      BY <2>2 DEF TypeOK
    <2> QED BY <2>2, <2>6, <2>7, <1>s, SlotsOther
  <1>3. CASE EnsureWorkerFails(b)
    <2>1. starter[b] # Nobody
      BY <1>3 DEF EnsureWorkerFails
    <2>2. /\ inst' = [inst EXCEPT ![b] = Absent]
          /\ starter' = [starter EXCEPT ![b] = Nobody]
          /\ orphan' = orphan
          /\ UNCHANGED <<life, turn, cancelled, workdir, resetQueue>>
      BY <1>3, <2>1, StarterIs DEF EnsureWorkerFails
    <2>3. Held(b)' = Held(b) /\ Live(b)' = Live(b)
      BY <2>2 DEF Held, Live
    <2>4. inst'[b] = Absent /\ starter'[b] = Nobody
      BY <2>2 DEF TypeOK
    <2>5. Slot(b)'
      BY <1>0, <2>1, <2>2, <2>3, <2>4, StarterIs DEF Slot, Started, Up, Nobody, Prestart, Absent
    <2>6. \A a \in Agents : a # b => inst'[a] = inst[a] /\ starter'[a] = starter[a]
      BY <2>2 DEF TypeOK
    <2> QED BY <2>2, <2>5, <2>6, <1>s, SlotsOther
  <1> QED BY <1>c, <1>1, <1>2, <1>3 DEF EnsureStep
\* A step of m's turn.
LEMMA SlotsTurn ==
  ASSUME TypeOK, Slots, NEW m \in Messages, NEW phase, phase # "ensuring",
         turn' = [turn EXCEPT ![m] = phase], orphan' \subseteq orphan, orphan \ {m} \subseteq orphan',
         \A a \in Agents : a # Dest[m] => inst'[a] = inst[a], Slot(Dest[m])',
         UNCHANGED <<life, cancelled, starter, workdir, resetQueue>>,
         \A n \in Messages : status'[n] # "direct"
  PROVE  Slots'
  <1>1. ASSUME NEW a \in Agents, a # Dest[m] PROVE Slot(a)'
    <2>1. \A n \in Messages : Dest[n] = a => turn'[n] = turn[n] /\ (n \in orphan' <=> n \in orphan)
      BY <1>1 DEF TypeOK
    <2> QED BY <1>1, <2>1, SlotSame DEF Slots
  <1>2. \A n \in Messages : turn'[n] # "ensuring"
    BY DEF TypeOK, Slots
  <1> QED BY <1>1, <1>2 DEF Slots

\* A turn that is over without touching an instance: it never began, or had lost it.
LEMMA SlotsDrop ==
  ASSUME TypeOK, Slots, NEW m \in Messages, m \in orphan \/ turn[m] # "live",
         turn' = [turn EXCEPT ![m] = "done"], orphan' \subseteq orphan, orphan \ {m} \subseteq orphan',
         UNCHANGED <<life, inst, cancelled, starter, workdir, resetQueue>>,
         \A n \in Messages : status'[n] # "direct"
  PROVE  Slots'
  <1>0. Dest[m] \in Agents
    BY SchedulerAssumption
  <1> DEFINE b == Dest[m]
  <1>1. Held(b)' \subseteq Held(b) /\ Live(b)' = Live(b)
    BY DEF Held, Live, TypeOK
  <1>2. Slot(b)'
    BY <1>0, <1>1 DEF Slots, Slot, Up, Started
  <1> QED BY <1>2, SlotsTurn

LEMMA TurnSlots ==
  ASSUME TickOnly, Inv, TypeOK', Slots, NEW m \in Messages, TurnStep(m)
  PROVE  Slots'
  <1> DEFINE b == Dest[m]
  <1>0. /\ TypeOK /\ b \in Agents /\ inst[b] \in Instances /\ Slot(b)
        /\ m \in orphan => turn[m] = "live"
    BY SchedulerAssumption DEF Inv, TypeOK, Slots, Books
  <1>s. \A n \in Messages : status'[n] # "direct"
    <2>1. CASE StartTurn(m)
      BY <1>0, <2>1 DEF StartTurn, TypeOK, Slots
    <2>2. CASE DropTurn(m)
      BY <2>2 DEF DropTurn, Slots
    <2>3. ASSUME NEW o \in Outcomes, EndTurn(m, o)
          PROVE  \A n \in Messages : status'[n] # "direct"
      BY <1>0, <2>3 DEF EndTurn, ResultStatus, TypeOK, Slots
    <2> QED BY <2>1, <2>2, <2>3 DEF TurnStep
  <1>1. CASE StartTurn(m)
    <2>1. /\ turn[m] = "created" /\ m \notin cancelled /\ m \notin orphan
          /\ UNCHANGED <<life, cancelled, orphan, workdir, resetQueue>>
      BY <1>0, <1>1 DEF StartTurn
    <2>2. m \in Held(b) /\ Held(b) = {m} /\ Live(b) = {} /\ inst[b].busy = 0
      BY <1>0, <2>1 DEF Held, Live, Slot
    <2>3. CASE AtHand(b) /\ inst' = [inst EXCEPT ![b] = Claim(InstanceOf(b), m)]
               /\ turn' = [turn EXCEPT ![m] = "live"] /\ UNCHANGED starter
      <3>1. Started(b) /\ InstanceOf(b) = inst[b] /\ life # "closed"
        BY <1>0, <2>3 DEF AtHand, TickOnly, InstanceOf, Slot
      <3>2. inst'[b] = Claim(inst[b], m) /\ \A a \in Agents : a # b => inst'[a] = inst[a]
        BY <1>0, <2>3, <3>1 DEF TypeOK
      <3>3. inst'[b].state = "waiting_for_reply" /\ inst'[b].busy = 1 /\ inst'[b].flow = TRUE
        <4>1. /\ Claim(inst[b], m).state = "waiting_for_reply" /\ Claim(inst[b], m).flow = TRUE
              /\ Claim(inst[b], m).busy = inst[b].busy + 1
          BY <1>0, ClaimIs
        <4> QED BY <2>2, <3>2, <4>1
      <3>4. Held(b)' = {m} /\ Live(b)' = {m}
        BY <2>1, <2>2, <2>3 DEF Held, Live, TypeOK, Inv
      <3>5. Slot(b)'
        BY <1>0, <2>1, <2>2, <2>3, <3>1, <3>3, <3>4 DEF Slot, Up, Started
      <3> HIDE DEF b
      <3> QED BY <1>0, <2>1, <2>3, <3>2, <3>5, <1>s, SlotsTurn DEF b
    <2>4. CASE Unbound(b) /\ life # "closed"
      BY <1>0, <2>2, <2>4 DEF Unbound, Started, Slot, Up
    <2>5. CASE turn' = [turn EXCEPT ![m] = "done"] /\ UNCHANGED <<inst, starter>>
      BY <1>0, <2>1, <2>5, <1>s, SlotsDrop
    <2> QED BY <1>1, <2>3, <2>4, <2>5 DEF StartTurn
  <1>2. CASE DropTurn(m)
    BY <1>0, <1>2, <1>s, SlotsDrop DEF DropTurn
  <1>3. ASSUME NEW o \in Outcomes, EndTurn(m, o)
        PROVE  Slots'
    <2>1. /\ turn[m] = "live" /\ turn' = [turn EXCEPT ![m] = "done"]
          /\ m \in cancelled => o = "cancelled"
          /\ inst' = IF m \in orphan THEN inst ELSE [inst EXCEPT ![b] = Release(inst[b], m, o)]
          /\ orphan' = orphan \ {m}
          /\ UNCHANGED <<life, cancelled, starter, workdir, resetQueue>>
      BY <1>3 DEF EndTurn
    <2>2. CASE m \in orphan
      BY <1>0, <2>1, <2>2, <1>s, SlotsDrop
    <2>3. CASE m \notin orphan
      <3>1. m \in Live(b) /\ m \in Held(b) /\ Held(b) = {m} /\ Live(b) = {m}
        BY <1>0, <2>1, <2>3, LiveIsHeld DEF Live, Held, Slot
      <3>2. inst'[b] = Release(inst[b], m, o) /\ \A a \in Agents : a # b => inst'[a] = inst[a]
        BY <1>0, <2>1, <2>3 DEF TypeOK
      <3>3. /\ inst[b].busy = 1 /\ inst[b].flow = TRUE /\ Up(b) /\ life # "closed"
        BY <1>0, <3>1 DEF Slot, Up, Started
      <3>4. /\ inst'[b].state \in {"idle", "timed_out", "failed", "cancelled"}
            /\ o = "cancelled" => inst'[b].state = "cancelled"
            /\ inst'[b].flow = TRUE /\ inst'[b].busy = 0
        BY <1>0, <3>2, <3>3, ReleaseIs, ReleaseType
      <3>5. Held(b)' = {} /\ Live(b)' = {}
        BY <1>0, <2>1, <3>1 DEF Held, Live, TypeOK
      <3>6. Slot(b)'
        BY <1>0, <2>1, <3>1, <3>3, <3>4, <3>5 DEF Slot, Up, Started, AcceptStates
      <3> HIDE DEF b
      <3> QED BY <1>0, <2>1, <3>2, <3>6, <1>s, SlotsTurn DEF b
    <2> QED BY <2>2, <2>3
  <1> QED BY <1>1, <1>2, <1>3 DEF TurnStep

\* A frame serves an agent only when nothing holds it, and with one message.
LEMMA TickSlots ==
  ASSUME TickOnly, Inv, TypeOK', Slots, Tick
  PROVE  Slots'
  <1> USE DEF Inv
  <1>1. PICK N \in Nudges :
          /\ turn' = [n \in Messages |->
                       IF n \in N \cup {Head(queue[a]) : a \in Ready} THEN "created" ELSE turn[n]]
          /\ status' = [n \in Messages |->
                       IF n \in N \cup {Head(queue[a]) : a \in Ready} THEN "dispatching" ELSE status[n]]
          /\ inst' = [a \in Agents |-> IF a \in {Dest[n] : n \in N} THEN Noticed(inst[a]) ELSE inst[a]]
    BY DEF Tick
  <1>2. life = "open" /\ orphan = {} /\ UNCHANGED <<life, cancelled, orphan, starter, workdir, resetQueue>>
    BY DEF Tick, Slots
  <1>3. \A m \in Messages : turn[m] # "created"
    BY DEF Tick, IsJob, TickOnly
  <1> DEFINE picked == N \cup {Head(queue[a]) : a \in Ready}
  <1>4. ASSUME NEW a \in Ready
        PROVE  /\ a \in Agents /\ Started(a) /\ CanAccept(inst[a]) /\ queue[a] # <<>>
               /\ Head(queue[a]) \in Messages /\ Dest[Head(queue[a])] = a
    <2>1. a \in Agents /\ queue[a] \in Seq(Messages) /\ queue[a] # <<>>
      BY DEF Ready, TypeOK
    <2>2. 1 \in DOMAIN queue[a] /\ Head(queue[a]) = queue[a][1] /\ queue[a][1] \in Messages
      BY <2>1
    <2> QED BY <2>1, <2>2 DEF Ready, QueuedOnce
  <1>5. \A m \in N : /\ m \in Messages /\ Nudgeable(Dest[m])
                     /\ \A n \in N : Dest[m] = Dest[n] => m = n
    BY SchedulerAssumption DEF Nudges
  <1>6. \A m \in picked : /\ m \in Messages /\ Started(Dest[m]) /\ CanAccept(inst[Dest[m]])
                          /\ \A n \in picked : Dest[m] = Dest[n] => m = n
    BY <1>4, <1>5 DEF Nudgeable
  <1>7. /\ \A m \in Messages : turn'[m] = IF m \in picked THEN "created" ELSE turn[m]
        /\ \A m \in Messages : turn'[m] # "ensuring" /\ status'[m] # "direct"
        /\ \A a \in Agents :
             /\ inst'[a] \in {inst[a], Noticed(inst[a])}
             /\ (\A m \in picked : Dest[m] # a) => inst'[a] = inst[a]
    BY <1>1 DEF Slots
  <1> HIDE DEF picked
  <1>8. ASSUME NEW a \in Agents PROVE Slot(a)'
    <2>0. Slot(a) /\ inst[a] \in Instances
      BY DEF Slots, TypeOK
    <2>1. CASE \A m \in picked : Dest[m] # a
      BY <1>2, <1>7, <2>0, <2>1, SlotSame
    <2>2. ASSUME NEW m \in picked, Dest[m] = a PROVE Slot(a)'
      <3>1. /\ m \in Messages /\ inst[a].busy = 0 /\ inst[a].state \in AcceptStates
            /\ \A n \in picked : Dest[n] = a => n = m
        BY <1>6, <2>2 DEF CanAccept
      <3>2. Live(a) = {}
        BY <2>0, <3>1 DEF Slot
      <3>3. Held(a) = {}
        BY <1>3, <3>2 DEF Held, Live
      <3>4. Held(a)' = {m} /\ Live(a)' = {}
        <4>1. m \in Held(a)'
          BY <1>2, <1>7, <2>2, <3>1 DEF Held
        <4>2. \A n \in Held(a)' : n = m
          BY <1>2, <1>7, <3>1, <3>3 DEF Held
        <4>3. \A n \in Live(a)' : n \in Live(a)
          BY <1>2, <1>7 DEF Live
        <4> QED BY <3>2, <4>1, <4>2, <4>3
      <3>5. /\ inst'[a].state \in {inst[a].state, "queued"} /\ inst'[a].busy = 0
            /\ inst'[a].flow = TRUE \/ inst'[a] = inst[a]
        <4>1. inst'[a] = inst[a] \/ inst'[a] = Noticed(inst[a])
          BY <1>7
        <4>2. /\ Noticed(inst[a]).state \in {inst[a].state, "queued"}
              /\ Noticed(inst[a]).busy = 0 /\ Noticed(inst[a]).flow = TRUE
          BY <2>0, <3>1, NoticedIs DEF AcceptStates
        <4> QED BY <3>1, <4>1, <4>2
      <3>6. inst[a].state \notin {"absent", "starting"} /\ inst'[a].state \notin {"absent", "starting"}
        BY <3>1, <3>5 DEF AcceptStates
      <3>7. \A i \in DOMAIN resetQueue' : resetQueue'[i] # a
        BY <1>2, <2>0, <3>1 DEF Slot
      <3> QED BY <1>2, <2>0, <3>4, <3>5, <3>6, <3>7 DEF Slot, Up, Started
    <2> QED BY <2>1, <2>2
  <1> QED BY <1>2, <1>7, <1>8 DEF Slots

\* Without an external agent the reset loop stops at the first one it meets.
LEMMA ResetRunIs ==
  ASSUME TickOnly, NEW i, NEW q \in Seq(Agents), ResetRun(i, q)
  PROVE  /\ resetQueue' = q
         /\ \A a \in Agents :
              inst'[a] = IF i[a].state # "absent" /\ q # <<>> /\ a = q[1]
                         THEN WithState(i[a], "restarting", NoMessage) ELSE i[a]
  <1>1. PICK stop \in 1..(Len(q) + 1) :
          /\ \A k \in 1..(stop - 1) : q[k] \in External
          /\ inst' = [a \in Agents |->
                  IF i[a].state = "absent" THEN i[a]
                  ELSE IF \E k \in 1..(stop - 1) : q[k] = a THEN Fresh
                  ELSE IF stop \in DOMAIN q /\ a = q[stop]
                       THEN WithState(i[a], "restarting", NoMessage) ELSE i[a]]
          /\ resetQueue' = SubSeq(q, stop, Len(q))
    BY DEF ResetRun
  <1>2. stop = 1
    <2> SUFFICES ASSUME stop # 1 PROVE FALSE
      OBVIOUS
    <2>1. stop \in Nat /\ stop > 1
      BY <1>1
    <2>2. 1 \in 1..(stop - 1)
      BY <2>1
    <2>3. q[1] \in External
      BY <1>1, <2>2
    <2> QED BY <2>3 DEF TickOnly
  <1>3. 1 \in DOMAIN q <=> q # <<>>
    OBVIOUS
  <1>4. SubSeq(q, 1, Len(q)) = q
    OBVIOUS
  <1> QED BY <1>1, <1>2, <1>3, <1>4

\* What holds an agent is pending and can be cancelled, or has been.
LEMMA HeldIsTracked ==
  ASSUME Inv, Slots, NEW a \in Agents, NEW m \in Held(a)
  PROVE  /\ m \in Messages /\ Unfinished(m)
         /\ m \in cancelled \/ (m \in tracked /\ status[m] \in Pending)
  <1>1. m \in Messages /\ Unfinished(m) /\ turn[m] \in {"created", "live"}
    BY DEF Held, Unfinished
  <1>2. status[m] \notin {"unused", "queued", "direct"}
    BY <1>1 DEF Inv, Books, QueuedOnce, Slots
  <1>3. status[m] \in Terminal \/ status[m] \in Pending
    BY <1>1, <1>2 DEF Inv, TypeOK, MessageStatus, Pending
  <1> QED BY <1>1, <1>3 DEF Inv, Books
LEMMA ResetSlots ==
  ASSUME TickOnly, Inv, TypeOK', Slots, NEW c \in BOOLEAN, ResetSession(c),
         Len(resetQueue') <= 1
  PROVE  Slots'
  <1> USE DEF Inv
  <1>1. /\ life # "closed" /\ resetQueue = <<>> /\ \A a \in Agents : starter[a] = Nobody
        /\ UNCHANGED <<life, turn, orphan, starter, workdir>>
    BY DEF ResetSession, TickOnly
  <1>2. PICK q \in Orders({a \in Agents : Started(a)}) : ResetRun(inst, q)
    BY DEF ResetSession
  <1>3. q \in Seq(Agents) /\ \A i \in DOMAIN q : Started(q[i])
    <2> DEFINE S == {a \in Agents : Started(a)}
    <2>1. q \in Seq(S)
      BY <1>2, OrdersType
    <2>2. \A i \in DOMAIN q : q[i] \in S
      BY <2>1
    <2>3. S \subseteq Agents
      OBVIOUS
    <2> HIDE DEF S
    <2>4. q \in Seq(Agents)
      BY <2>1, <2>3
    <2> QED BY <2>2, <2>4 DEF S
  <1>4. /\ resetQueue' = q
        /\ \A a \in Agents :
             inst'[a] = IF inst[a].state # "absent" /\ q # <<>> /\ a = q[1]
                        THEN WithState(inst[a], "restarting", NoMessage) ELSE inst[a]
    BY <1>2, <1>3, ResetRunIs
  <1>5. cancelled \subseteq cancelled' /\ \A n \in Messages : status'[n] # "direct"
    BY DEF ResetSession, CancelPendingRuntimeWork, Slots
  <1>6. ASSUME NEW a \in Agents, NEW m \in Held(a) PROVE m \in cancelled'
    <2>1. m \in cancelled \/ (m \in tracked /\ status[m] \in Pending /\ Unfinished(m) /\ m \in Messages)
      BY HeldIsTracked
    <2>2. CASE CancelPendingRuntimeWork
      BY <2>1, <2>2 DEF CancelPendingRuntimeWork
    <2>3. CASE ReadyForSessionReset
      BY <1>5, <2>1, <2>3 DEF ReadyForSessionReset, HasPendingWork
    <2> QED BY <2>2, <2>3 DEF ResetSession
  <1>7. ASSUME NEW a \in Agents PROVE Slot(a)'
    <2>0. Slot(a) /\ inst[a] \in Instances
      BY DEF Slots, TypeOK
    <2>1. CASE q # <<>> /\ a = q[1]
      <3>1. Started(a) /\ Up(a)
        <4>1. 1 \in DOMAIN q
          BY <1>3, <2>1
        <4>2. Nobody # Prestart
          BY DEF Nobody, Prestart
        <4> QED BY <1>1, <1>3, <2>0, <2>1, <4>1, <4>2 DEF Slot, Started, Up
      <3>2. inst'[a] = WithState(inst[a], "restarting", NoMessage)
        BY <1>4, <2>1, <3>1 DEF Started
      <3>3. /\ inst'[a].state = "restarting" /\ inst'[a].busy = inst[a].busy
            /\ inst'[a].flow = inst[a].flow /\ inst'[a].current = inst[a].current
        BY <2>0, <3>2, WithStateIs DEF AgentStates
      <3>4. Held(a)' = Held(a) /\ Live(a)' = Live(a)
        BY <1>1 DEF Held, Live
      <3> QED BY <1>1, <1>6, <2>0, <3>1, <3>3, <3>4 DEF Slot, Up, Started, AcceptStates
    <2>2. CASE ~(q # <<>> /\ a = q[1])
      <3>1. \A i \in DOMAIN q : q[i] # a
        <4>1. DOMAIN q = 1..Len(q) /\ Len(q) <= 1 /\ Len(q) \in Nat
          BY <1>3, <1>4
        <4> QED BY <1>3, <2>2, <4>1
      <3>2. inst'[a] = inst[a]
        BY <1>4, <2>2
      <3> QED BY <1>1, <1>4, <1>5, <2>0, <3>1, <3>2, SlotSame
    <2> QED BY <2>1, <2>2
  <1> QED BY <1>1, <1>5, <1>7 DEF Slots

LEMMA OneElement ==
  ASSUME NEW S, NEW q \in Seq(S), q # <<>>, Len(q) <= 1
  PROVE  \E x \in S : q = <<x>>
  <1>1. Len(q) \in Nat /\ Len(q) # 0
    OBVIOUS
  <1>2. Len(q) = 1
    BY <1>1
  <1>3. q[1] \in S /\ q = <<q[1]>>
    BY <1>2
  <1> QED BY <1>3

\* The restart of the one agent under reset ends, well or badly.
LEMMA RestartSlots ==
  ASSUME TickOnly, Inv, TypeOK', Slots, RestartStep, Len(resetQueue) <= 1
  PROVE  Slots'
  <1> USE DEF Inv
  <1>1. CASE \E a \in Agents : WorkdirRestarted(a) \/ WorkdirRestartFails(a)
    BY <1>1 DEF WorkdirRestarted, WorkdirRestartFails, Slots
  <1>2. CASE ResetWorkerOk \/ ResetWorkerFails
    <2>1. /\ resetQueue # <<>> /\ LoopSettled
          /\ UNCHANGED <<life, status, turn, cancelled, orphan, starter, workdir>>
      BY <1>2 DEF ResetWorkerOk, ResetWorkerFails
    <2>2. PICK b \in Agents : resetQueue = <<b>>
      BY <2>1, OneElement DEF TypeOK
    <2>r. Head(resetQueue) = b /\ Tail(resetQueue) = <<>> /\ 1 \in DOMAIN resetQueue
          /\ resetQueue[1] = b
      BY <2>2
    <2>3. inst[b] \in Instances /\ Slot(b)
      BY <2>2 DEF TypeOK, Slots
    <2>4. Up(b) /\ Started(b) /\ \A m \in Held(b) : m \in cancelled
      BY <2>r, <2>3 DEF Slot, Up, Started
    <2>5. Held(b) = {} /\ Live(b) = {}
      BY <2>1, <2>4, HeldIsTracked, LiveIsHeld, <2>2 DEF LoopSettled
    <2>6. /\ resetQueue' = <<>> /\ \A a \in Agents : a # b => inst'[a] = inst[a]
          /\ inst'[b] = Fresh \/ inst'[b] = WithState(inst[b], "failed", NoMessage)
      <3>1. CASE ResetWorkerOk
        <4> DEFINE i == [inst EXCEPT ![b] = IF @.state = "absent" THEN @ ELSE Fresh]
        <4>1. ResetRun(i, <<>>)
          BY <2>r, <3>1 DEF ResetWorkerOk
        <4>2. <<>> \in Seq(Agents)
          OBVIOUS
        <4> HIDE DEF i
        <4>3. resetQueue' = <<>> /\ \A a \in Agents : inst'[a] = i[a]
          BY <4>1, <4>2, ResetRunIs
        <4> USE DEF i
        <4>4. i[b] = Fresh /\ \A a \in Agents : a # b => i[a] = inst[a]
          BY <2>2, <2>4 DEF TypeOK, Started
        <4> HIDE DEF i
        <4> QED BY <2>2, <4>3, <4>4
      <3>2. CASE ResetWorkerFails
        BY <2>2, <2>r, <2>4, <3>2 DEF ResetWorkerFails, TypeOK, Started
      <3> QED BY <1>2, <3>1, <3>2
    <2>7. Held(b)' = {} /\ Live(b)' = {}
      BY <2>1, <2>5 DEF Held, Live
    <2>8. /\ Up(b)' /\ Started(b)' /\ inst'[b].state # "starting" /\ inst'[b].busy = 0
          /\ inst'[b].flow = FALSE =>
               /\ inst'[b].state \notin {"waiting_for_reply", "timed_out", "cancelled"}
               /\ inst'[b].current = NoMessage
      <3>1. CASE inst'[b] = Fresh
        BY <3>1 DEF Fresh, Absent, Up, Started
      <3>2. CASE inst'[b] = WithState(inst[b], "failed", NoMessage)
        <4>1. /\ inst'[b].state = "failed" /\ inst'[b].busy = inst[b].busy
              /\ inst'[b].flow = inst[b].flow /\ inst'[b].current = inst[b].current
          BY <2>3, <3>2, WithStateIs DEF AgentStates
        <4> QED BY <2>3, <2>4, <2>5, <4>1 DEF Slot, Up, Started
      <3> QED BY <2>6, <3>1, <3>2
    <2>9. Slot(b)'
      <3>1. DOMAIN resetQueue' = {} /\ life # "closed" /\ starter'[b] = starter[b]
        BY <2>1, <2>3, <2>4, <2>6 DEF Slot
      <3> QED BY <2>1, <2>3, <2>4, <2>7, <2>8, <3>1 DEF Slot, Up
    <2>10. ASSUME NEW a \in Agents, a # b PROVE Slot(a)'
      <3>1. DOMAIN resetQueue' = {}
        BY <2>6
      <3> QED BY <2>1, <2>6, <2>10, <3>1, SlotSame DEF Slots
    <2> QED BY <2>1, <2>9, <2>10 DEF Slots
  <1> QED BY <1>1, <1>2 DEF RestartStep

LEMMA CloseSlots ==
  ASSUME TickOnly, Inv, TypeOK', Slots, CloseBegin \/ CloseEnd \/ \E action : EndRun(action)
  PROVE  Slots'
  <1> USE DEF Inv
  <1>1. CASE CloseBegin \/ \E action : EndRun(action)
    <2>1. /\ UNCHANGED <<inst, turn, orphan, starter, workdir, resetQueue>>
          /\ cancelled \subseteq cancelled' /\ (life' = "closed" <=> life = "closed")
          /\ \A n \in Messages : status'[n] # "direct"
      BY <1>1 DEF CloseBegin, EndRun, CancelPendingRuntimeWork, Slots
    <2> QED BY <2>1, SlotSame DEF Slots
  <1>2. CASE CloseEnd
    <2>1. /\ life' = "closed" /\ resetQueue' = <<>> /\ workdir' = {}
          /\ orphan' = orphan \cup {m \in Messages : turn[m] = "live"}
          /\ \A a \in Agents : inst'[a] = Absent /\ starter'[a] = Nobody
          /\ \A m \in Messages : turn'[m] = turn[m] /\ status'[m] = status[m]
      BY <1>2 DEF CloseEnd, Slots
    <2>2. ASSUME NEW a \in Agents PROVE Slot(a)'
      <3>1. Live(a)' = {} /\ Held(a)' \subseteq Held(a) /\ Slot(a)
        BY <2>1 DEF Live, Held, Slots
      <3>2. Nobody \notin Messages /\ Nobody # Prestart /\ DOMAIN resetQueue' = {}
        BY <2>1, SchedulerAssumption DEF Nobody, Prestart
      <3>3. inst'[a].state = "absent" /\ inst'[a].busy = 0 /\ starter'[a] = Nobody
        BY <2>1 DEF Absent
      <3> QED BY <2>1, <3>1, <3>2, <3>3 DEF Slot, Started
    <2> QED BY <2>1, <2>2 DEF Slots
  <1> QED BY <1>1, <1>2
LEMMA SlotsStep ==
  ASSUME TickOnly, Inv, TypeOK', Slots, [Next]_vars,
         Len(resetQueue) <= 1, Len(resetQueue') <= 1
  PROVE  Slots'
  <1>0. TypeOK
    BY DEF Inv
  <1>1. ASSUME NEW m \in Messages, QueueAgentMessage(m) \/ SendAgentMessage(m) \/ TurnStep(m)
        PROVE  Slots'
    <2>1. ~SendAgentMessage(m)
      BY DEF SendAgentMessage, TickOnly
    <2> QED BY <1>0, <1>1, <2>1, QueueSlots, TurnSlots
  <1>2. ASSUME NEW a \in Agents, PrestartAgent(a) \/ EnsureStep(a) \/ AssignAgentWorkdir(a)
        PROVE  Slots'
    <2>1. ~AssignAgentWorkdir(a)
      BY DEF AssignAgentWorkdir, TickOnly
    <2> QED BY <1>0, <1>2, <2>1, StartSlots
  <1>3. CASE UNCHANGED vars
    <2>1. UNCHANGED <<life, inst, status, turn, cancelled, orphan, starter, workdir, resetQueue>>
      BY <1>3 DEF vars
    <2> QED BY <2>1, SlotSame DEF Slots
  <1> QED BY <1>1, <1>2, <1>3, TickSlots, ResetSlots, RestartSlots, CloseSlots DEF Next

LEMMA SlotsHold ==
  ASSUME TickOnly
  PROVE  Spec /\ [](Len(resetQueue) <= 1) => []Slots
  <1>1. /\ Inv /\ TypeOK' /\ Slots /\ [Next]_vars
        /\ Len(resetQueue) <= 1 /\ (Len(resetQueue) <= 1)'
        => Slots'
    BY SlotsStep
  <1> QED BY InvHolds, TypeCorrect, InitSlots, <1>1, PTL DEF Spec

\* An agent that only the tick serves has at most one turn at a time, however many
\* agents and messages there are and whatever is cancelled, restarted or closed, as
\* long as a reset restarts no second agent.
THEOREM OneTurnAtATime ==
  ASSUME TickOnly
  PROVE  Spec /\ [](Len(resetQueue) <= 1) => []OneTurn
  <1>1. Slots => OneTurn
    <2> SUFFICES ASSUME Slots, NEW a \in Agents PROVE Cardinality(Live(a)) <= 1
      BY DEF OneTurn
    <2>1. \A m, n \in Live(a) : m = n
      BY LiveIsHeld DEF Slots, Slot
    <2>2. CASE Live(a) = {}
      BY <2>2, FS_EmptySet
    <2>3. ASSUME NEW m \in Live(a) PROVE Cardinality(Live(a)) <= 1
      <3>1. Live(a) = {m}
        BY <2>1, <2>3
      <3> QED BY <3>1, FS_Singleton
    <2> QED BY <2>2, <2>3
  <1> QED BY SlotsHold, <1>1, PTL

\* ... a runtime that says it is ready for a session reset has no turn under way, and
\* none that is about to start and was not told to stop.
THEOREM ReadyIsQuiet ==
  ASSUME TickOnly
  PROVE  Spec /\ [](Len(resetQueue) <= 1) => []ReadyMeansQuiet
  <1>1. Inv /\ Slots => ReadyMeansQuiet
    <2> SUFFICES ASSUME Inv, Slots, life = "open", ReadyForSessionReset, NEW m \in Messages,
                        Unfinished(m)
                 PROVE  turn[m] # "live" /\ m \in cancelled
      BY DEF ReadyMeansQuiet, Unfinished
    <2>1. m \notin orphan /\ turn[m] \in {"created", "live"} /\ Dest[m] \in Agents
      BY SchedulerAssumption DEF Slots, Unfinished
    <2>2. m \in Held(Dest[m])
      BY <2>1 DEF Held
    <2>3. m \in cancelled
      BY <2>1, <2>2, HeldIsTracked DEF ReadyForSessionReset, HasPendingWork
    <2>4. turn[m] # "live"
      <3> SUFFICES ASSUME turn[m] = "live" PROVE FALSE
        OBVIOUS
      <3>1. m \in Live(Dest[m])
        BY <2>1 DEF Live
      <3>2. inst[Dest[m]].busy = 1 /\ Started(Dest[m])
        BY <2>1, <3>1 DEF Slots, Slot, Up, Started
      <3> QED BY <2>1, <3>2 DEF ReadyForSessionReset
    <2> QED BY <2>3, <2>4
  <1> QED BY InvHolds, SlotsHold, <1>1, PTL

\* ... and an agent that has received nothing in this session carries nothing over
\* from the last one.
THEOREM FreshIsClean ==
  ASSUME TickOnly
  PROVE  Spec /\ [](Len(resetQueue) <= 1) => []FreshAgentIsClean
  <1>1. TypeOK /\ Slots => FreshAgentIsClean
    <2> SUFFICES ASSUME TypeOK, Slots, NEW a \in Agents, Started(a), ~inst[a].flow
                 PROVE  /\ inst[a].busy = 0
                        /\ inst[a].state \notin {"waiting_for_reply", "timed_out", "cancelled"}
                        /\ inst[a].current = NoMessage
      BY DEF FreshAgentIsClean
    <2>1. Slot(a) /\ inst[a].flow \in BOOLEAN
      BY DEF Slots, TypeOK, Instances
    <2> QED BY <2>1 DEF Slot
  <1> QED BY TypeCorrect, SlotsHold, <1>1, PTL

\* A graph of one agent needs no such condition: its resets find one agent at most.
LEMMA OneReset ==
  ASSUME \A a, b \in Agents : a = b
  PROVE  Spec => [](Len(resetQueue) <= 1)
  <1>1. Init => Len(resetQueue) <= 1
    BY DEF Init
  <1>2. ASSUME NEW S, S \subseteq Agents, NEW q \in Orders(S) PROVE Len(q) <= 1
    <2>1. q \in Seq(Agents) /\ \A i, j \in DOMAIN q : q[i] = q[j] => i = j
      <3>1. q \in Seq(S)
        BY OrdersType
      <3> QED BY <1>2, <3>1 DEF Orders
    <2>2. \A i, j \in DOMAIN q : i = j
      BY <2>1
    <2>3. Len(q) \in Nat /\ DOMAIN q = 1..Len(q)
      BY <2>1
    <2>4. ~(Len(q) > 1)
      <3> SUFFICES ASSUME Len(q) > 1 PROVE FALSE
        OBVIOUS
      <3>1. 1 \in DOMAIN q /\ 2 \in DOMAIN q
        BY <2>3
      <3> QED BY <2>2, <3>1
    <2> QED BY <2>3, <2>4
  <1>3. ASSUME NEW i, NEW q \in Seq(Agents), Len(q) <= 1, ResetRun(i, q)
        PROVE  Len(resetQueue') <= 1
    <2>1. PICK stop \in 1..(Len(q) + 1) : resetQueue' = SubSeq(q, stop, Len(q))
      BY <1>3 DEF ResetRun
    <2>2. Len(SubSeq(q, stop, Len(q))) = Len(q) - stop + 1
      BY <2>1
    <2> QED BY <1>3, <2>1, <2>2
  <1>4. TypeOK /\ Len(resetQueue) <= 1 /\ [Next]_vars => (Len(resetQueue) <= 1)'
    <2> SUFFICES ASSUME TypeOK, Len(resetQueue) <= 1, [Next]_vars PROVE Len(resetQueue') <= 1
      OBVIOUS
    <2>1. ASSUME NEW c \in BOOLEAN, ResetSession(c) PROVE Len(resetQueue') <= 1
      <3> DEFINE S == {a \in Agents : Started(a)}
      <3>1. PICK q \in Orders(S) : ResetRun(inst, q)
        BY <2>1 DEF ResetSession
      <3>2. q \in Seq(S) /\ S \subseteq Agents
        BY OrdersType
      <3> HIDE DEF S
      <3>3. q \in Seq(Agents)
        BY <3>2
      <3> QED BY <1>2, <1>3, <3>1, <3>2, <3>3
    <2>2. CASE ResetWorkerOk
      <3>1. resetQueue # <<>> /\ resetQueue \in Seq(Agents)
        BY <2>2 DEF ResetWorkerOk, TypeOK
      <3>2. Tail(resetQueue) \in Seq(Agents) /\ Len(Tail(resetQueue)) <= 1
        BY <3>1
      <3> QED BY <1>3, <2>2, <3>2 DEF ResetWorkerOk
    <2>3. CASE ResetWorkerFails \/ CloseEnd
      BY <2>3 DEF ResetWorkerFails, CloseEnd
    <2>4. CASE UNCHANGED resetQueue
      BY <2>4
    <2> QED BY <2>1, <2>2, <2>3, <2>4
         DEF Next, QueueAgentMessage, SendAgentMessage, TurnStep, StartTurn, DropTurn, EndTurn,
             PrestartAgent, EnsureStep, EnsureWorkerOk, EnsureWorkerFails, EnsureWorkerCancelled,
             AssignAgentWorkdir, EndRun, Tick, RestartStep, WorkdirRestarted, WorkdirRestartFails,
             CloseBegin, vars
  <1> QED BY TypeCorrect, <1>1, <1>4, PTL DEF Spec

\* What SchedulerCore checks of one agent, for every number of messages and reminders.
THEOREM OneAgentTurns ==
  ASSUME TickOnly, \A a, b \in Agents : a = b
  PROVE  Spec => [](OneTurn /\ ReadyMeansQuiet /\ FreshAgentIsClean)
  BY OneReset, OneTurnAtATime, ReadyIsQuiet, FreshIsClean, PTL
=============================================================================
