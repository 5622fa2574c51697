--------------------------- MODULE BlueprintRuntime ---------------------------
(***************************************************************************)
(* The main process of GuLiCode's desktop app and the Python service it    *)
(* starts for blueprints (desktop-electron/src/main/blueprint-runtime.ts): *)
(* callers share the promise `ready` of one service, a change of the       *)
(* configured Python closes it, and it may crash or never come up.         *)
(*                                                                         *)
(* Node runs one callback at a time, so an action is a callback, or the    *)
(* part of a call between two awaits.  A service stands for its process    *)
(* and for the promise and the handlers made when it was spawned.          *)
(***************************************************************************)
EXTENDS Naturals

CONSTANTS
  Calls,    \* requests of the windows
  Streams,  \* those that await `ready` a second time (agentStreamToken)
  Plan,     \* the interpreter a call's start plan names, None if it names none
  Found,     \* the interpreter found for a call's project when none is configured
  Default,  \* the one found without a project
  Pythons,  \* interpreters
  Services, \* bound: the services that can be spawned, in their order
  MaxEdits, \* bound: changes of the configured interpreter
  None,     \* nothing
  Bad,      \* a configured command that runs no interpreter
  Broken    \* a promise that was rejected because no interpreter was found

Paths == Pythons \cup {Bad}

ASSUME RuntimeAssumption ==
  /\ Streams \subseteq Calls
  /\ Plan \in [Calls -> Paths \cup {None}]
  /\ Found \in [Calls -> Pythons \cup {None}]
  /\ Default \in Pythons \cup {None}
  /\ \A c \in Calls : Default # None => Found[c] = Default
  /\ Services \subseteq Nat /\ MaxEdits \in Nat
  /\ None \notin Paths \cup Services /\ Bad \notin Pythons /\ Broken \notin Services
  /\ None # Broken

VARIABLES
  rt,      \* the fields of the BlueprintRuntime
  process, \* what became of a service's process
  python,  \* the interpreter a service was spawned with
  promise, \* the promise that a service is ready
  killed,  \* the services that were sent a signal
  pc,      \* where a call is
  on,      \* the promise a call awaits
  edits,   \* changes so far
  quit     \* has the app quit?

services == <<process, python, promise>>
vars == <<rt, process, python, promise, killed, pc, on, edits, quit>>

Init ==
  /\ rt = [configured |-> None, child |-> None, ready |-> None, launcher |-> None]
  /\ process = [s \in Services |-> "unused"]
  /\ python = [s \in Services |-> None]
  /\ promise = [s \in Services |-> "none"]
  /\ killed = {}
  /\ pc = [c \in Calls |-> "new"]
  /\ on = [c \in Calls |-> None]
  /\ edits = 0
  /\ quit = FALSE

-----------------------------------------------------------------------------
(***************************************************************************)
(* Configuring and closing.                                                *)
(***************************************************************************)

\* resolvePythonLauncher: the configured command, which need not exist, or what
\* is found.
Resolved(path, found) == IF path = None THEN found ELSE path

\* shouldRestartForPython: there is something to close, and its interpreter is not
\* known to be the same.  `activeLauncher` is the last one that was set, even if closed.
Restarts(t, path) ==
  /\ t.child # None \/ t.ready # None
  /\ t.launcher \in {None, Bad} \/ Resolved(path, Default) # t.launcher

Closed(t) == [t EXCEPT !.child = None, !.ready = None]

\* Faulty: a service that is still starting is not closed.
ConfiguredIfUp(t, path) ==
  LET u == [t EXCEPT !.configured = path]
  IN IF path # t.configured /\ t.child # None /\ promise[t.child] = "resolved"
          /\ Restarts(u, path) THEN Closed(u) ELSE u

Configured(t, path) ==
  LET u == [t EXCEPT !.configured = path]
  IN IF path # t.configured /\ Restarts(u, path) THEN Closed(u) ELSE u

\* close() kills the child the runtime knows.
Dropped(t) == {rt.child} \ {t.child, None}

Configure(path) ==
  /\ ~quit /\ edits < MaxEdits
  /\ edits' = edits + 1
  /\ rt' = Configured(rt, path)
  /\ killed' = killed \cup Dropped(rt')
  /\ UNCHANGED <<services, pc, on, quit>>

\* before-quit, will-quit, signals, relaunch and updates: no calls come any more.
Quit ==
  /\ ~quit
  /\ quit' = TRUE
  /\ rt' = Closed(rt)
  /\ killed' = killed \cup Dropped(rt')
  /\ UNCHANGED <<services, pc, on, edits>>

-----------------------------------------------------------------------------
(***************************************************************************)
(* Calls.                                                                  *)
(***************************************************************************)

Await(c, place, p) ==
  /\ pc' = [pc EXCEPT ![c] = place]
  /\ on' = [on EXCEPT ![c] = p]

Unspawned(s) ==
  process[s] = "unused" /\ \A q \in Services : q < s => process[q] # "unused"

\* The promise there is.
Share(c, t, place) ==
  /\ t.ready # None
  /\ rt' = t
  /\ Await(c, place, t.ready)
  /\ UNCHANGED services

\* Faulty: what the executor cleared is what the caller gets.
Nothing(c, t, place) ==
  /\ t.ready = None /\ Resolved(t.configured, Found[c]) = None
  /\ rt' = t
  /\ Await(c, place, None)
  /\ UNCHANGED services

\* No interpreter is found: a rejected promise, which stays in `ready`, since the
\* assignment comes after the executor has cleared the field.
Reject(c, t, place) ==
  /\ t.ready = None /\ Resolved(t.configured, Found[c]) = None
  /\ rt' = [t EXCEPT !.ready = Broken]
  /\ Await(c, place, Broken)
  /\ UNCHANGED services

\* A service is spawned.  Who was the child is not looked at.
Spawn(c, t, place, s) ==
  LET launcher == Resolved(t.configured, Found[c]) IN
  /\ t.ready = None /\ launcher # None /\ Unspawned(s)
  /\ rt' = [t EXCEPT !.child = s, !.ready = s, !.launcher = launcher]
  /\ process' = [process EXCEPT ![s] = "starting"]
  /\ python' = [python EXCEPT ![s] = launcher]
  /\ promise' = [promise EXCEPT ![s] = "open"]
  /\ Await(c, place, s)

\* ensureReady of a runtime whose fields are t.
EnsureReady(c, t, place) ==
  \/ Share(c, t, place)
  \/ Reject(c, t, place)
  \/ \E s \in Services : Spawn(c, t, place, s)

\* start() first configures what its plan names; every call ensures a service.
Call(c) ==
  /\ ~quit /\ pc[c] = "new"
  /\ LET t == IF Plan[c] = None THEN rt ELSE Configured(rt, Plan[c]) IN
       /\ killed' = killed \cup Dropped(t)
       /\ EnsureReady(c, t, IF c \in Streams THEN "looking" ELSE "waiting")
  /\ UNCHANGED <<edits, quit>>

\* The promise a call awaits has been settled.
Refused(c) == on[c] = Broken \/ (on[c] \in Services /\ promise[on[c]] = "rejected")
Ready(c) == on[c] \in Services /\ promise[on[c]] = "resolved"

Fails(c) ==
  /\ pc[c] \in {"looking", "waiting"} /\ Refused(c)
  /\ Await(c, "returned", None)
  /\ UNCHANGED <<rt, services, killed, edits, quit>>

\* agentStreamToken knows the url and makes its request, which ensures a service
\* again.
LooksAgain(c) ==
  /\ ~quit /\ pc[c] = "looking" /\ Ready(c)
  /\ EnsureReady(c, rt, "waiting")
  /\ UNCHANGED <<killed, edits, quit>>

\* The call is posted, and ends as fetch does, whatever the service answers.
Post(c) ==
  /\ pc[c] = "waiting" /\ Ready(c)
  /\ Await(c, "returned", None)
  /\ UNCHANGED <<rt, services, killed, edits, quit>>

-----------------------------------------------------------------------------
(***************************************************************************)
(* What becomes of a service.                                              *)
(***************************************************************************)

\* The runtime after `fail` of s: `ready` goes whatever it is, the child and its
\* launcher if they are those of s.
Forgotten(t, s) == IF t.child = s THEN [t EXCEPT !.child = None, !.launcher = None] ELSE t

\* Faulty: the callers of a service that was replaced are not told.
FailIfCurrent(s) ==
  /\ promise[s] = "open"
  /\ rt' = [Forgotten(rt, s) EXCEPT !.ready = None]
  /\ promise' = [promise EXCEPT ![s] = IF rt.child = s THEN "rejected" ELSE @]
  /\ killed' = killed \cup {s}

Fail(s) ==
  /\ promise[s] = "open"
  /\ rt' = [Forgotten(rt, s) EXCEPT !.ready = None]
  /\ promise' = [promise EXCEPT ![s] = "rejected"]
  /\ killed' = killed \cup {s}

\* The service's line is read, perhaps when it has died already.
Speaks(s) == process[s] \in {"starting", "dead"} /\ python[s] # Bad /\ promise[s] = "open"

Up(s) ==
  /\ Speaks(s)
  /\ promise' = [promise EXCEPT ![s] = "resolved"]
  /\ process' = [process EXCEPT ![s] = IF @ = "starting" THEN "up" ELSE @]
  /\ UNCHANGED <<rt, python, killed, pc, on, edits, quit>>

\* ... and is no ready payload.
BadLine(s) ==
  /\ Speaks(s)
  /\ Fail(s)
  /\ UNCHANGED <<process, python, pc, on, edits, quit>>

\* The "error" event: there never was a process.
SpawnError(s) ==
  /\ process[s] = "starting" /\ python[s] = Bad
  /\ process' = [process EXCEPT ![s] = "reaped"]
  /\ Fail(s)
  /\ UNCHANGED <<python, pc, on, edits, quit>>

Die(s) ==
  /\ process[s] \in {"starting", "up"}
  /\ process' = [process EXCEPT ![s] = "dead"]
  /\ UNCHANGED <<rt, python, promise, killed, pc, on, edits, quit>>

\* Faulty: a service that crashed is still the one that is ready.
ExitKeepsReady(s) ==
  /\ process[s] = "dead"
  /\ process' = [process EXCEPT ![s] = "reaped"]
  /\ \/ Fail(s)
     \/ /\ promise[s] # "open"
        /\ rt' = Forgotten(rt, s)
        /\ UNCHANGED <<promise, killed>>
  /\ UNCHANGED <<python, pc, on, edits, quit>>

\* The "exit" event.
Exit(s) ==
  /\ process[s] = "dead"
  /\ process' = [process EXCEPT ![s] = "reaped"]
  /\ \/ Fail(s)
     \/ /\ promise[s] # "open"
        /\ rt' = IF rt.child = s THEN [Forgotten(rt, s) EXCEPT !.ready = None] ELSE rt
        /\ UNCHANGED <<promise, killed>>
  /\ UNCHANGED <<python, pc, on, edits, quit>>

-----------------------------------------------------------------------------
Next ==
  \/ \E path \in Paths \cup {None} : Configure(path)
  \/ \E c \in Calls : Call(c) \/ Fails(c) \/ LooksAgain(c) \/ Post(c)
  \/ \E s \in Services : Up(s) \/ BadLine(s) \/ SpawnError(s) \/ Die(s) \/ Exit(s)
  \/ Quit

Spec == Init /\ [][Next]_vars

-----------------------------------------------------------------------------
(***************************************************************************)
(* Properties.                                                             *)
(***************************************************************************)

\* Types of the runtime's fields, the services and the calls.
TypeOK ==
  /\ rt \in [configured : Paths \cup {None}, child : Services \cup {None},
             ready : Services \cup {None, Broken}, launcher : Paths \cup {None}]
  /\ process \in [Services -> {"unused", "starting", "up", "dead", "reaped"}]
  /\ python \in [Services -> Paths \cup {None}]
  /\ promise \in [Services -> {"none", "open", "resolved", "rejected"}]
  /\ killed \subseteq Services
  /\ pc \in [Calls -> {"new", "looking", "waiting", "returned"}]
  /\ on \in [Calls -> Services \cup {None, Broken}]
  /\ \A c \in Calls : pc[c] \in {"looking", "waiting"} => on[c] # None
  /\ edits \in 0..MaxEdits
  /\ quit \in BOOLEAN

\* What the next call would await is the promise of the service the runtime can
\* close, which it has neither killed nor seen fail or exit.
ReadyIsHeld ==
  rt.ready \in Services =>
    /\ rt.child = rt.ready
    /\ rt.ready \notin killed
    /\ process[rt.ready] # "reaped" /\ promise[rt.ready] # "rejected"

\* Once configured, an interpreter serves the next call: the service that is ready,
\* or will be, runs it, whatever was restarted, replaced or left unchanged before.
RightPython ==
  rt.ready \in Services =>
    IF rt.configured = None /\ Default = None
    THEN \E c \in Calls : python[rt.ready] = Found[c]
    ELSE python[rt.ready] = Resolved(rt.configured, Default)

\* No call waits for ever, though services crash, never come up, are closed or
\* replaced: the promise it awaits is settled, or its service may yet come up, or has
\* ended and the end will be told.
WillSettle ==
  \A c \in Calls :
    pc[c] \in {"looking", "waiting"} =>
      \/ Refused(c) \/ Ready(c)
      \/ on[c] \in Services /\ process[on[c]] \in {"starting", "dead"}

\* When the app quits it closes its Python services.
NoneLeft ==
  quit => \A s \in Services : process[s] \in {"starting", "up"} => s \in killed

=============================================================================
