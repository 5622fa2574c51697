----------------------------- MODULE SessionLoop -----------------------------
(***************************************************************************)
(* One session of the GuLiCode server at work: prompts, shell commands and *)
(* cancellations from several clients (session/prompt.ts), the runner that *)
(* lets one of them work at a time (effect/runner.ts, session/run-state.ts)*)
(* and the status the clients see (session/status.ts).                     *)
(*                                                                         *)
(* A run, or a shell, is the fiber of the caller that brought its work; a  *)
(* runner is named by the caller it was made for.  Code without an await   *)
(* is one step.  Ids of messages are the order in which they were taken.   *)
(***************************************************************************)
EXTENDS Naturals, FiniteSets

CONSTANTS
  Prompts,  \* callers of prompt
  Shells,   \* callers of shell
  Cancels,  \* callers of cancel
  InOrder,  \* are user messages stored in the order of their ids?
  MaxTools, \* bound: replies that end with tool calls
  None      \* no runner, no run

Works == Prompts \cup Shells

ASSUME LoopAssumption ==
  /\ IsFiniteSet(Prompts)
  /\ Prompts \cap Shells = {} /\ (Prompts \cup Shells) \cap Cancels = {}
  /\ None \notin Works
  /\ InOrder \in BOOLEAN
  /\ MaxTools \in Nat

VARIABLES
  runner,  \* state of the runners
  map,     \* the session's runner in the map `runners`
  home,    \* the runner that started a fiber
  fiber,   \* what a fiber does; "dying" once it is interrupted
  reply,   \* the id of the message a run is writing
  done,    \* how a run ended: the Deferred its callers wait for
  status,  \* the session's status
  pc,      \* where a caller is
  joined,  \* the run a prompt waits for
  target,  \* the runner and the fiber a cancellation stops
  id,      \* the id of a prompt's message, 0 if it has none yet
  stored,  \* the prompts whose message is stored
  replies, \* the assistant messages: id and how it was finished
  seen,    \* the prompts whose message the model has been given
  tools    \* replies that ended with tool calls

runnerVars == <<runner, map, home>>
fiberVars == <<fiber, reply, done>>
callerVars == <<pc, joined, target>>
messageVars == <<id, stored, replies, seen>>
vars == <<runner, map, home, fiber, reply, done, status, pc, joined, target,
          id, stored, replies, seen, tools>>

Idle == [tag |-> "Idle", shell |-> None, run |-> None]
Running(f) == [tag |-> "Running", shell |-> None, run |-> f]
Shell(f) == [tag |-> "Shell", shell |-> f, run |-> None]
ShellThenRun(f, g) == [tag |-> "ShellThenRun", shell |-> f, run |-> g]

States == {Idle} \cup {Running(f) : f \in Prompts} \cup {Shell(f) : f \in Shells}
          \cup {ShellThenRun(f, g) : f \in Shells, g \in Prompts}

\* A fiber before, at and after its work; a caller; the end of a run.
Stages == {"none", "head", "model", "halted", "shell", "dying model", "dying", "ended"}
Places == {"new", "creating", "waiting", "busy", "stopping", "returned"}
Results == {"open", "ok", "stopped", "error", "cancelled"}

Init ==
  /\ runner = [o \in Works |-> Idle]
  /\ map = None
  /\ home = [f \in Works |-> None]
  /\ fiber = [f \in Works |-> "none"]
  /\ reply = [f \in Prompts |-> 0]
  /\ done = [f \in Prompts |-> "open"]
  /\ status = "idle"
  /\ pc = [c \in Works \cup Cancels |-> "new"]
  /\ joined = [p \in Prompts |-> None]
  /\ target = [c \in Cancels |-> [runner |-> None, fiber |-> None]]
  /\ id = [p \in Prompts |-> 0]
  /\ stored = {}
  /\ replies = {}
  /\ seen = {}
  /\ tools = 0

Goto(c, where) == pc' = [pc EXCEPT ![c] = where]

-----------------------------------------------------------------------------
(***************************************************************************)
(* Messages                                                                *)
(***************************************************************************)

Taken == {id[p] : p \in Prompts} \cup {r.id : r \in replies}
NextId == 1 + Cardinality(Taken \ {0})

LastUser == CHOOSE i \in {id[p] : p \in stored} : \A p \in stored : id[p] <= i
LastReply == CHOOSE r \in replies : \A q \in replies : q.id <= r.id

\* Faulty: it does not look at the newest user message.
Replied == replies # {} /\ LastReply.finish = "stop"

\* The head of runLoop leaves the loop: the newest reply is finished, called no
\* tools, and is newer than the newest user message.
NothingToDo ==
  /\ replies # {}
  /\ LastReply.finish = "stop"
  /\ LastUser < LastReply.id

Finished(i, how) == {r \in replies : r.id # i} \cup {[id |-> i, finish |-> how]}

-----------------------------------------------------------------------------
(***************************************************************************)
(* The runner                                                              *)
(***************************************************************************)

\* run-state's runner: the one in the map, or a new one.
RunnerFor(c) == IF map = None THEN c ELSE map

\* onIdle takes the session out of the map, whichever runner is there.
OnIdle == map' = None /\ status' = "idle"

\* Faulty: any run that ends makes its runner idle.
AnyRunFinishes(f, result) ==
  /\ fiber' = [fiber EXCEPT ![f] = "ended"]
  /\ done' = [done EXCEPT ![f] = result]
  /\ runner' = [runner EXCEPT ![home[f]] = Idle]
  /\ OnIdle

\* finishRun: a run that is the current one makes its runner idle; in any case
\* its callers get the result.
FinishRun(f, result) ==
  /\ fiber' = [fiber EXCEPT ![f] = "ended"]
  /\ done' = [done EXCEPT ![f] = result]
  /\ IF runner[home[f]] = Running(f)
     THEN runner' = [runner EXCEPT ![home[f]] = Idle] /\ OnIdle
     ELSE UNCHANGED <<runner, map, status>>

\* prompt: agent and model are looked up, files are read; the message has its
\* id from the beginning.
Begin(p) ==
  /\ pc[p] = "new"
  /\ Goto(p, "creating")
  /\ id' = IF InOrder THEN id ELSE [id EXCEPT ![p] = NextId]
  /\ UNCHANGED <<runnerVars, fiberVars, status, joined, target, stored, replies, seen, tools>>

\* Faulty: behind a shell, wait for the shell.
WaitsForShell(p, st) == IF st.tag = "Shell" THEN st.shell ELSE p

\* The run that a caller of ensureRunning waits for: the one there is, or its own.
WaitsFor(p, st) == IF st.run = None THEN p ELSE st.run

\* The message is stored; then loop, that is ensureRunning: wait for the run
\* there is, or for the one behind the shell, or start one.
Join(p) ==
  /\ pc[p] = "creating"
  /\ id' = IF id[p] = 0 THEN [id EXCEPT ![p] = NextId] ELSE id
  /\ stored' = stored \cup {p}
  /\ Goto(p, "waiting")
  /\ LET o == RunnerFor(p)
         st == runner[o]
     IN /\ map' = o
        /\ joined' = [joined EXCEPT ![p] = WaitsFor(p, st)]
        /\ \/ /\ st.run # None
              /\ UNCHANGED <<runner, fiber, home>>
           \/ /\ st.tag = "Shell"
              /\ runner' = [runner EXCEPT ![o] = ShellThenRun(st.shell, p)]
              /\ UNCHANGED <<fiber, home>>
           \/ /\ st.tag = "Idle"
              /\ runner' = [runner EXCEPT ![o] = Running(p)]
              /\ fiber' = [fiber EXCEPT ![p] = "head"]
              /\ home' = [home EXCEPT ![p] = o]
  /\ UNCHANGED <<reply, done, status, target, replies, seen, tools>>

\* A caller gets what the run it waits for has ended with.
Return(p) ==
  /\ pc[p] = "waiting"
  /\ done[joined[p]] # "open"
  /\ Goto(p, "returned")
  /\ UNCHANGED <<runnerVars, fiberVars, status, joined, target, messageVars, tools>>

\* startShell: BusyError, or the shell's messages and its process.
StartShell(h) ==
  /\ pc[h] = "new"
  /\ LET o == RunnerFor(h)
     IN /\ map' = o
        /\ \/ /\ runner[o].tag # "Idle"
              /\ Goto(h, "busy")
              /\ UNCHANGED <<runner, home, fiber, status, replies>>
           \/ /\ runner[o].tag = "Idle"
              /\ Goto(h, "waiting")
              /\ runner' = [runner EXCEPT ![o] = Shell(h)]
              /\ home' = [home EXCEPT ![h] = o]
              /\ fiber' = [fiber EXCEPT ![h] = "shell"]
              /\ status' = "busy"
              /\ replies' = replies \cup {[id |-> NextId, finish |-> "none"]}
  /\ UNCHANGED <<reply, done, joined, target, id, stored, seen, tools>>

\* finishShell, when the process has ended or has been killed: the runner is
\* idle, or the run that waited starts.
EndShell(h) ==
  /\ fiber[h] \in {"shell", "dying"}
  /\ Goto(h, "returned")
  /\ LET o == home[h]
         st == runner[o]
     IN \/ /\ st = Shell(h)
           /\ runner' = [runner EXCEPT ![o] = Idle]
           /\ fiber' = [fiber EXCEPT ![h] = "ended"]
           /\ OnIdle
           /\ UNCHANGED home
        \/ /\ st.tag = "ShellThenRun" /\ st.shell = h
           /\ runner' = [runner EXCEPT ![o] = Running(st.run)]
           /\ fiber' = [fiber EXCEPT ![h] = "ended", ![st.run] = "head"]
           /\ home' = [home EXCEPT ![st.run] = o]
           /\ UNCHANGED <<map, status>>
        \/ /\ st.shell # h
           /\ fiber' = [fiber EXCEPT ![h] = "ended"]
           /\ UNCHANGED <<runner, home, map, status>>
  /\ UNCHANGED <<reply, done, joined, target, messageVars, tools>>

-----------------------------------------------------------------------------
(***************************************************************************)
(* runLoop and the processor                                               *)
(***************************************************************************)

\* The head of the loop: nothing to do.
Leave(f) ==
  /\ fiber[f] = "head"
  /\ NothingToDo
  /\ FinishRun(f, "ok")
  /\ UNCHANGED <<home, reply, callerVars, messageVars, tools>>

\* The head of the loop: the stored messages go to the model, and a new
\* assistant message is begun.
Ask(f) ==
  /\ fiber[f] = "head"
  /\ ~NothingToDo
  /\ status' = "busy"
  /\ seen' = seen \cup stored
  /\ reply' = [reply EXCEPT ![f] = NextId]
  /\ replies' = replies \cup {[id |-> NextId, finish |-> "none"]}
  /\ fiber' = [fiber EXCEPT ![f] = "model"]
  /\ UNCHANGED <<runnerVars, done, callerVars, id, stored, tools>>

\* No model, or no agent: the loop throws.
Throw(f) ==
  /\ fiber[f] = "head"
  /\ ~NothingToDo
  /\ FinishRun(f, "error")
  /\ UNCHANGED <<home, reply, callerVars, messageVars, tools>>

\* The model's stream ends: go round again.
ModelEnds(f) ==
  /\ fiber[f] = "model"
  /\ fiber' = [fiber EXCEPT ![f] = "head"]
  /\ \/ replies' = Finished(reply[f], "stop") /\ UNCHANGED tools
     \/ /\ tools < MaxTools /\ tools' = tools + 1
        /\ replies' = Finished(reply[f], "tool-calls")
  /\ UNCHANGED <<runnerVars, reply, done, status, callerVars, id, stored, seen>>

\* halt: an error that is not retried; the status is idle before the run is.
\* A tool the user has refused ends the run too, and leaves the status alone.
Halt(f) ==
  /\ fiber[f] = "model"
  /\ fiber' = [fiber EXCEPT ![f] = "halted"]
  /\ status' \in {"idle", status}
  /\ UNCHANGED <<runnerVars, reply, done, callerVars, messageVars, tools>>

\* After cleanup the loop is left with the result "stop".
Stop(f) ==
  /\ fiber[f] = "halted"
  /\ FinishRun(f, "stopped")
  /\ UNCHANGED <<home, reply, callerVars, messageVars, tools>>

\* An interrupted fiber: cleanup first, and halt if the model was at work.
DyingHalts(f) ==
  /\ fiber[f] = "dying model"
  /\ fiber' = [fiber EXCEPT ![f] = "dying"]
  /\ status' = "idle"
  /\ UNCHANGED <<runnerVars, reply, done, callerVars, messageVars, tools>>

DyingEnds(f) ==
  /\ fiber[f] = "dying"
  /\ FinishRun(f, "cancelled")
  /\ UNCHANGED <<home, reply, callerVars, messageVars, tools>>

-----------------------------------------------------------------------------
(***************************************************************************)
(* cancel                                                                  *)
(***************************************************************************)

Interrupted(f) ==
  fiber' = [fiber EXCEPT ![f] = IF @ = "model" THEN "dying model" ELSE "dying"]

\* Faulty: the callers of the run behind the shell are not told.
CancelForgetsPending(c) ==
  /\ pc[c] = "new"
  /\ map # None /\ runner[map].tag # "Idle"
  /\ LET f == IF runner[map].shell # None THEN runner[map].shell ELSE runner[map].run
     IN /\ Interrupted(f)
        /\ target' = [target EXCEPT ![c] = [runner |-> map, fiber |-> f]]
  /\ runner' = [runner EXCEPT ![map] = Idle]
  /\ Goto(c, "stopping")
  /\ UNCHANGED <<map, home, reply, done, status, joined, messageVars, tools>>

\* The runner is idle at once; the fiber is interrupted, and the callers of a
\* run that had not begun are told.
Cancel(c) ==
  /\ pc[c] = "new"
  /\ map # None /\ runner[map].tag # "Idle"
  /\ LET st == runner[map]
         f == IF st.shell # None THEN st.shell ELSE st.run
     IN /\ Interrupted(f)
        /\ target' = [target EXCEPT ![c] = [runner |-> map, fiber |-> f]]
        /\ done' = IF st.tag = "ShellThenRun"
                   THEN [done EXCEPT ![st.run] = "cancelled"] ELSE done
  /\ runner' = [runner EXCEPT ![map] = Idle]
  /\ Goto(c, "stopping")
  /\ UNCHANGED <<map, home, reply, status, joined, messageVars, tools>>

CancelIdle(c) ==
  /\ pc[c] = "new"
  /\ map # None => runner[map].tag = "Idle"
  /\ status' = "idle"
  /\ Goto(c, "returned")
  /\ UNCHANGED <<runnerVars, fiberVars, joined, target, messageVars, tools>>

\* Faulty: the end of a cancellation does not look whether its runner is idle.
ForgetsIdle(c) ==
  /\ pc[c] = "stopping"
  /\ fiber[target[c].fiber] = "ended"
  /\ UNCHANGED <<map, status>>
  /\ Goto(c, "returned")
  /\ UNCHANGED <<runner, home, fiberVars, joined, target, messageVars, tools>>

\* The fiber has ended: idleIfCurrent.
Cancelled(c) ==
  /\ pc[c] = "stopping"
  /\ fiber[target[c].fiber] = "ended"
  /\ IF runner[target[c].runner].tag = "Idle" THEN OnIdle ELSE UNCHANGED <<map, status>>
  /\ Goto(c, "returned")
  /\ UNCHANGED <<runner, home, fiberVars, joined, target, messageVars, tools>>

-----------------------------------------------------------------------------

Work(f) ==
  \/ Leave(f) \/ Ask(f) \/ Throw(f) \/ ModelEnds(f) \/ Halt(f) \/ Stop(f)
  \/ DyingHalts(f) \/ DyingEnds(f)

Next ==
  \/ \E p \in Prompts : Begin(p) \/ Join(p) \/ Return(p) \/ Work(p)
  \/ \E h \in Shells : StartShell(h) \/ EndShell(h)
  \/ \E c \in Cancels : Cancel(c) \/ CancelIdle(c) \/ Cancelled(c)

Spec == Init /\ [][Next]_vars

\* The model's stream, the shell's process and an interrupted fiber come to an
\* end, and code that is ready to run runs.
FairSpec ==
  /\ Spec
  /\ \A p \in Prompts : WF_vars(Work(p)) /\ WF_vars(Return(p))
  /\ \A h \in Shells : WF_vars(EndShell(h))
  /\ \A c \in Cancels : WF_vars(Cancelled(c))

-----------------------------------------------------------------------------
(***************************************************************************)
(* Properties                                                              *)
(***************************************************************************)

TypeOK ==
  /\ runner \in [Works -> States]
  /\ map \in Works \cup {None}
  /\ home \in [Works -> Works \cup {None}]
  /\ fiber \in [Works -> Stages]
  /\ reply \in [Prompts -> Nat]
  /\ done \in [Prompts -> Results]
  /\ status \in {"idle", "busy"}
  /\ pc \in [Works \cup Cancels -> Places]
  /\ joined \in [Prompts -> Prompts \cup {None}]
  /\ target \in [Cancels -> [runner : Works \cup {None}, fiber : Works \cup {None}]]
  /\ id \in [Prompts -> Nat]
  /\ stored \subseteq Prompts
  /\ \A r \in replies : r.id \in Nat /\ r.finish \in {"none", "stop", "tool-calls"}
  /\ seen \subseteq Prompts
  /\ tools \in Nat

Live(f) == fiber[f] \in {"head", "model", "halted", "shell"}
Backs(o, f) == runner[o].shell = f \/ (runner[o].tag = "Running" /\ runner[o].run = f)

\* A fiber that nobody has interrupted is the one its runner says is at work,
\* and the other way round: no runner is busy for ever with work that has ended,
\* or lets a second fiber work beside the first.
Exclusive == \A o \in Works, f \in Works : Backs(o, f) <=> Live(f) /\ home[f] = o

\* A prompt whose run left the loop by itself has had its message put to the
\* model, whichever prompt's run that was.
Answered ==
  \A p \in Prompts :
    pc[p] = "returned" /\ done[joined[p]] = "ok" => p \in seen

\* When nothing works on the session and no cancellation is under way, the
\* clients see it idle, and its runner can be used again or is out of the map.
SettlesIdle ==
  (\A f \in Works : fiber[f] \in {"none", "ended"}) /\ (\A c \in Cancels : pc[c] # "stopping")
    => status = "idle" /\ (map # None => runner[map] = Idle)

\* Every prompt gets an answer: those that joined a run, those behind a shell,
\* and those that were cancelled.
CallersReturn == \A p \in Prompts : pc[p] = "waiting" ~> pc[p] = "returned"

\* assertNotBusy sees that the session is at work.
BusyIsSeen ==
  (\E f \in Works : Live(f)) => map # None /\ runner[map].tag # "Idle"

=============================================================================
