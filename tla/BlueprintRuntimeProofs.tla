------------------------ MODULE BlueprintRuntimeProofs ------------------------
(***************************************************************************)
(* Proofs about BlueprintRuntime, for any calls, interpreters and services:*)
(* what the runtime holds is alive and runs the configured interpreter,    *)
(* and every call that waits will be told.                                 *)
(***************************************************************************)
EXTENDS BlueprintRuntime, TLAPS

-----------------------------------------------------------------------------
(***************************************************************************)
(* The invariant.                                                          *)
(***************************************************************************)

Fields == [configured : Paths \cup {None}, child : Services \cup {None},
           ready : Services \cup {None, Broken}, launcher : Paths \cup {None}]

\* A service was spawned when it has a promise; while the promise is open, the
\* process may speak or its end will be told.
Spawned(s) ==
  /\ process[s] = "unused" => promise[s] = "none" /\ s \notin killed
  /\ promise[s] = "none" => process[s] = "unused"
  /\ promise[s] = "open" => process[s] \in {"starting", "dead"}

\* The child was not killed, its end was not told, and the launcher is its own; a
\* promise the next call would share is the child's.
Held(t) ==
  /\ t.child # None =>
       /\ t.child \notin killed
       /\ process[t.child] \notin {"unused", "reaped"}
       /\ promise[t.child] \in {"open", "resolved"}
       /\ t.launcher = python[t.child]
  /\ t.ready \in Services => t.child = t.ready

\* The promise a call awaits was made.
Awaits(c) ==
  pc[c] \in {"looking", "waiting"} =>
    on[c] = Broken \/ (on[c] \in Services /\ promise[on[c]] # "none")

\* An interpreter that is configured, or found, as the runtime t has it.
Fits(t) ==
  t.ready \in Services =>
    IF t.configured = None /\ Default = None
    THEN \E c \in Calls : python[t.ready] = Found[c]
    ELSE python[t.ready] = Resolved(t.configured, Default)

Inv ==
  /\ TypeOK
  /\ \A s \in Services : Spawned(s)
  /\ Held(rt)
  /\ Fits(rt)
  /\ \A c \in Calls : Awaits(c)

LEMMA InitInv == Init => Inv
<1> SUFFICES ASSUME Init PROVE Inv
  OBVIOUS
<1>1. None \notin Services /\ None # Broken
  BY RuntimeAssumption DEF RuntimeAssumption
<1>2. TypeOK
  <2>1. rt \in Fields
    BY DEF Init, Fields
  <2>2. edits \in 0..MaxEdits
    BY RuntimeAssumption DEF Init, RuntimeAssumption
  <2> QED
    BY <1>1, <2>1, <2>2 DEF Init, TypeOK, Fields
<1>3. \A s \in Services : Spawned(s)
  BY DEF Init, Spawned
<1>4. Held(rt) /\ Fits(rt)
  BY <1>1 DEF Init, Held, Fits
<1>5. \A c \in Calls : Awaits(c)
  BY DEF Init, Awaits
<1> QED
  BY <1>2, <1>3, <1>4, <1>5 DEF Inv

-----------------------------------------------------------------------------
(***************************************************************************)
(* Configuring.                                                            *)
(***************************************************************************)

\* A runtime whose interpreter changes holds nothing, or what fits it still.
LEMMA ConfiguredFits ==
  ASSUME Inv, NEW path \in Paths \cup {None}
  PROVE  LET t == Configured(rt, path) IN
           /\ t \in Fields
           /\ t.child \in {rt.child, None}
           /\ Held(t)
           /\ Fits(t)
           /\ t.child # None => t.child \notin Dropped(t)
<1> DEFINE u == [rt EXCEPT !.configured = path]
<1>0. /\ rt \in Fields /\ None \notin Services /\ None # Broken /\ Default \in Pythons \cup {None}
      /\ None \notin Paths
  BY RuntimeAssumption DEF Inv, TypeOK, Fields, RuntimeAssumption
<1>1. /\ u \in Fields /\ u.child = rt.child /\ u.ready = rt.ready /\ u.launcher = rt.launcher
      /\ u.configured = path
  BY <1>0 DEF Fields
<1>2. CASE path = rt.configured
  <2>1. Configured(rt, path) = u /\ u = rt
    BY <1>0, <1>1, <1>2 DEF Configured, Fields
  <2> QED
    BY <2>1, <1>0 DEF Inv, Dropped
<1>3. CASE path # rt.configured /\ Restarts(u, path)
  <2>1. Configured(rt, path) = Closed(u)
    BY <1>3 DEF Configured
  <2>2. Closed(u) \in Fields /\ Closed(u).child = None /\ Closed(u).ready = None
    BY <1>1 DEF Closed, Fields
  <2> QED
    BY <2>1, <2>2, <1>0 DEF Held, Fits
<1>4. CASE path # rt.configured /\ ~Restarts(u, path)
  <2>1. Configured(rt, path) = u
    BY <1>4 DEF Configured
  <2>2. Held(u)
    BY <1>1 DEF Held, Inv
  <2>3. ASSUME u.ready \in Services
        PROVE  /\ python[u.ready] = Resolved(path, Default)
               /\ path # None \/ Default # None
    <3>1. u.ready # None /\ u.launcher = python[u.ready] /\ u.child = u.ready
      BY <2>2, <2>3, <1>0 DEF Held
    <3>2. u.launcher \notin {None, Bad} /\ Resolved(path, Default) = u.launcher
      BY <1>4, <3>1 DEF Restarts
    <3>3. path # None \/ Default # None
      BY <3>2 DEF Resolved
    <3> QED
      BY <3>1, <3>2, <3>3
  <2>4. Fits(u)
    BY <2>3, <1>1 DEF Fits
  <2>5. u.child # None => u.child \notin Dropped(u)
    BY DEF Dropped
  <2> QED
    BY <2>1, <2>2, <2>4, <2>5, <1>1
<1> QED
  BY <1>2, <1>3, <1>4

LEMMA ConfigureKeeps ==
  ASSUME Inv, NEW path \in Paths \cup {None}, Configure(path)
  PROVE  Inv'
<1>1. /\ rt' = Configured(rt, path) /\ killed' = killed \cup Dropped(rt')
      /\ UNCHANGED <<process, python, promise, pc, on, quit>>
      /\ edits' = edits + 1 /\ edits < MaxEdits
  BY DEF Configure, services
<1>2. /\ rt' \in Fields /\ rt'.child \in {rt.child, None} /\ Held(rt') /\ Fits(rt')
      /\ rt'.child # None => rt'.child \notin Dropped(rt')
  BY <1>1, ConfiguredFits
<1>3. Dropped(rt') \subseteq Services /\ \A s \in Dropped(rt') : s = rt.child
  BY DEF Dropped, Inv, TypeOK
<1>4. TypeOK'
  <2>1. edits' \in 0..MaxEdits
    BY <1>1, RuntimeAssumption DEF Inv, TypeOK, RuntimeAssumption
  <2> QED
    BY <1>1, <1>2, <1>3, <2>1 DEF Inv, TypeOK, Fields
<1>5. ASSUME NEW s \in Services PROVE Spawned(s)'
  BY <1>1, <1>3 DEF Inv, Spawned, Held, Dropped
<1>6. Held(rt)' /\ Fits(rt)'
  BY <1>1, <1>2 DEF Held, Fits
<1>7. ASSUME NEW c \in Calls PROVE Awaits(c)'
  BY <1>1 DEF Inv, Awaits
<1> QED
  BY <1>4, <1>5, <1>6, <1>7 DEF Inv

LEMMA QuitKeeps == ASSUME Inv, Quit PROVE Inv'
<1>0. None \notin Services /\ None # Broken
  BY RuntimeAssumption DEF RuntimeAssumption
<1>1. /\ rt' = Closed(rt) /\ killed' = killed \cup Dropped(rt')
      /\ UNCHANGED <<process, python, promise, pc, on, edits>> /\ quit' = TRUE
  BY DEF Quit, services
<1>2. rt' \in Fields /\ rt'.child = None /\ rt'.ready = None
  BY <1>1 DEF Closed, Fields, Inv, TypeOK
<1>3. Dropped(rt') \subseteq Services /\ \A s \in Dropped(rt') : s = rt.child
  BY DEF Dropped, Inv, TypeOK
<1>4. TypeOK'
  BY <1>1, <1>2, <1>3 DEF Inv, TypeOK, Fields
<1>5. ASSUME NEW s \in Services PROVE Spawned(s)'
  BY <1>1, <1>3 DEF Inv, Spawned, Held, Dropped
<1>6. Held(rt)' /\ Fits(rt)'
  BY <1>0, <1>2 DEF Held, Fits
<1>7. ASSUME NEW c \in Calls PROVE Awaits(c)'
  BY <1>1 DEF Inv, Awaits
<1> QED
  BY <1>4, <1>5, <1>6, <1>7 DEF Inv

-----------------------------------------------------------------------------
(***************************************************************************)
(* Calls.                                                                  *)
(***************************************************************************)

\* What a call leaves of the runtime before it ensures a service.
LEMMA EnsureKeeps ==
  ASSUME Inv, NEW c \in Calls, NEW t \in Fields, Held(t), Fits(t),
         t.child \in {rt.child, None},
         t.child # None => t.child \notin Dropped(t),
         NEW place \in {"looking", "waiting"}, EnsureReady(c, t, place),
         killed' \in {killed, killed \cup Dropped(t)}, UNCHANGED <<edits, quit>>
  PROVE  Inv'
<1>0. /\ None \notin Services /\ None # Broken /\ Broken \notin Services /\ None \notin Paths
      /\ Default \in Pythons \cup {None} /\ Found \in [Calls -> Pythons \cup {None}]
      /\ \A x \in Calls : Default # None => Found[x] = Default
  BY RuntimeAssumption DEF RuntimeAssumption, Paths
<1>1. /\ rt \in Fields /\ killed \subseteq Services /\ pc \in [Calls -> {"new", "looking", "waiting", "returned"}]
      /\ on \in [Calls -> Services \cup {None, Broken}]
      /\ process \in [Services -> {"unused", "starting", "up", "dead", "reaped"}]
      /\ python \in [Services -> Paths \cup {None}]
      /\ promise \in [Services -> {"none", "open", "resolved", "rejected"}]
  BY DEF Inv, TypeOK, Fields
<1>2. Dropped(t) \subseteq Services /\ \A s \in Dropped(t) : s = rt.child
  BY <1>1 DEF Dropped, Fields
<1>3. killed' \subseteq Services
  BY <1>1, <1>2
<1>4. ASSUME NEW s \in Services, s \in killed', s \notin killed PROVE process[s] # "unused"
  <2>1. s = rt.child /\ rt.child # None
    BY <1>0, <1>2, <1>4
  <2> QED
    BY <2>1 DEF Inv, Held
<1>5. t.child # None => t.child \notin killed'
  BY DEF Held
<1>6. CASE Share(c, t, place) \/ Reject(c, t, place)
  <2>1. /\ UNCHANGED <<process, python, promise>>
        /\ rt' \in {t, [t EXCEPT !.ready = Broken]}
        /\ pc' = [pc EXCEPT ![c] = place]
        /\ on'  = [on EXCEPT ![c] = on'[c]]
        /\ \/ on'[c] = Broken
           \/ t.ready # None /\ on'[c] = t.ready
    BY <1>1, <1>6 DEF Share, Reject, Await, services
  <2>2. /\ rt' \in Fields /\ rt'.child = t.child /\ rt'.launcher = t.launcher
        /\ rt'.configured = t.configured
        /\ rt'.ready \in Services => rt'.ready = t.ready
    BY <1>0, <2>1 DEF Fields
  <2>3. on'[c] = Broken \/ (on'[c] \in Services /\ promise[on'[c]] # "none")
    <3>1. t.ready \in Services \cup {None, Broken}
      BY DEF Fields
    <3>2. t.ready \in Services => promise[t.ready] # "none"
      BY <1>0 DEF Held
    <3> QED
      BY <2>1, <3>1, <3>2
  <2>4. TypeOK'
    <3>1. on' \in [Calls -> Services \cup {None, Broken}]
      BY <1>1, <2>1, <2>3
    <3>2. \A x \in Calls : pc'[x] \in {"looking", "waiting"} => on'[x] # None
      BY <1>0, <1>1, <2>1, <2>3 DEF Inv, TypeOK
    <3> QED
      BY <1>1, <1>3, <2>1, <2>2, <3>1, <3>2 DEF Inv, TypeOK, Fields
  <2>5. ASSUME NEW s \in Services PROVE Spawned(s)'
    BY <1>4, <2>1 DEF Inv, Spawned
  <2>6. Held(rt)'
    BY <1>5, <2>1, <2>2 DEF Held
  <2>7. Fits(rt)'
    BY <2>1, <2>2 DEF Fits
  <2>8. ASSUME NEW x \in Calls PROVE Awaits(x)'
    BY <1>1, <2>1, <2>3 DEF Inv, Awaits
  <2> QED
    BY <2>4, <2>5, <2>6, <2>7, <2>8 DEF Inv
<1>7. ASSUME NEW s \in Services, Spawn(c, t, place, s) PROVE Inv'
  <2> DEFINE launcher == Resolved(t.configured, Found[c])
  <2>1. /\ launcher # None /\ process[s] = "unused"
        /\ rt' = [t EXCEPT !.child = s, !.ready = s, !.launcher = launcher]
        /\ process' = [process EXCEPT ![s] = "starting"]
        /\ python' = [python EXCEPT ![s] = launcher]
        /\ promise' = [promise EXCEPT ![s] = "open"]
        /\ pc' = [pc EXCEPT ![c] = place] /\ on' = [on EXCEPT ![c] = s]
    BY <1>7 DEF Spawn, Unspawned, Await
  <2>2. launcher \in Paths
    BY <1>0, <2>1 DEF Fields, Resolved, Paths
  <2>3. s \notin killed'
    BY <1>4, <2>1 DEF Inv, Spawned
  <2>4. /\ rt' \in Fields /\ rt'.child = s /\ rt'.ready = s /\ rt'.launcher = launcher
        /\ rt'.configured = t.configured
    BY <2>1, <2>2 DEF Fields
  <2>5. TypeOK'
    <3>1. /\ on' \in [Calls -> Services \cup {None, Broken}]
          /\ pc' \in [Calls -> {"new", "looking", "waiting", "returned"}]
      BY <1>1, <2>1
    <3>2. \A x \in Calls : pc'[x] \in {"looking", "waiting"} => on'[x] # None
      BY <1>0, <1>1, <2>1 DEF Inv, TypeOK
    <3>3. /\ process' \in [Services -> {"unused", "starting", "up", "dead", "reaped"}]
          /\ python' \in [Services -> Paths \cup {None}]
          /\ promise' \in [Services -> {"none", "open", "resolved", "rejected"}]
      BY <1>1, <2>1, <2>2
    <3> QED
      BY <1>3, <2>4, <3>1, <3>2, <3>3 DEF Inv, TypeOK, Fields
  <2>6. ASSUME NEW q \in Services PROVE Spawned(q)'
    BY <1>1, <1>4, <2>1, <2>3 DEF Inv, Spawned
  <2>7. Held(rt)'
    BY <1>1, <2>1, <2>3, <2>4 DEF Held
  <2>8. Fits(rt)'
    <3>1. python'[s] = launcher
      BY <1>1, <2>1
    <3>2. CASE t.configured = None /\ Default = None
      BY <2>4, <3>1, <3>2 DEF Fits, Resolved
    <3>3. CASE t.configured # None \/ Default # None
      <4>1. launcher = Resolved(t.configured, Default)
        BY <1>0, <3>3 DEF Resolved
      <4> QED
        BY <2>4, <3>1, <3>3, <4>1 DEF Fits
    <3> QED
      BY <3>2, <3>3
  <2>9. ASSUME NEW x \in Calls PROVE Awaits(x)'
    BY <1>1, <2>1 DEF Inv, Awaits
  <2> QED
    BY <2>5, <2>6, <2>7, <2>8, <2>9 DEF Inv
<1> QED
  BY <1>6, <1>7 DEF EnsureReady

LEMMA CallKeeps == ASSUME Inv, NEW c \in Calls, Call(c) PROVE Inv'
<1> DEFINE t == IF Plan[c] = None THEN rt ELSE Configured(rt, Plan[c])
           place == IF c \in Streams THEN "looking" ELSE "waiting"
<1>1. /\ killed' = killed \cup Dropped(t) /\ EnsureReady(c, t, place)
      /\ UNCHANGED <<edits, quit>>
  BY DEF Call
<1>2. Plan[c] \in Paths \cup {None}
  BY RuntimeAssumption DEF RuntimeAssumption
<1>3. /\ t \in Fields /\ Held(t) /\ Fits(t) /\ t.child \in {rt.child, None}
      /\ t.child # None => t.child \notin Dropped(t)
  <2>1. CASE Plan[c] = None
    BY <2>1 DEF Inv, TypeOK, Fields, Dropped
  <2>2. CASE Plan[c] # None
    BY <1>2, <2>2, ConfiguredFits
  <2> QED
    BY <2>1, <2>2
<1>4. place \in {"looking", "waiting"}
  OBVIOUS
<1> HIDE DEF t, place
<1> QED
  BY <1>1, <1>3, <1>4, EnsureKeeps

LEMMA LooksAgainKeeps == ASSUME Inv, NEW c \in Calls, LooksAgain(c) PROVE Inv'
<1>1. EnsureReady(c, rt, "waiting") /\ UNCHANGED <<killed, edits, quit>>
  BY DEF LooksAgain
<1>2. /\ rt \in Fields /\ Held(rt) /\ Fits(rt)
      /\ rt.child # None => rt.child \notin Dropped(rt)
  BY DEF Inv, TypeOK, Fields, Dropped
<1> QED
  BY <1>1, <1>2, EnsureKeeps

LEMMA ReturnKeeps == ASSUME Inv, NEW c \in Calls, Fails(c) \/ Post(c) PROVE Inv'
<1>1. /\ pc' = [pc EXCEPT ![c] = "returned"] /\ on' = [on EXCEPT ![c] = None]
      /\ UNCHANGED <<rt, process, python, promise, killed, edits, quit>>
  BY DEF Fails, Post, Await, services
<1>2. TypeOK'
  BY <1>1 DEF Inv, TypeOK
<1>3. \A s \in Services : Spawned(s)'
  BY <1>1 DEF Inv, Spawned
<1>4. Held(rt)' /\ Fits(rt)'
  BY <1>1 DEF Inv, Held, Fits
<1>5. \A x \in Calls : Awaits(x)'
  BY <1>1 DEF Inv, TypeOK, Awaits
<1> QED
  BY <1>2, <1>3, <1>4, <1>5 DEF Inv

-----------------------------------------------------------------------------
(***************************************************************************)
(* What becomes of a service.                                              *)
(***************************************************************************)

\* After `fail` of a service whose promise was open, whatever becomes of its process.
LEMMA FailKeeps ==
  ASSUME Inv, NEW s \in Services, Fail(s),
         NEW p \in {"starting", "up", "dead", "reaped"},
         process' = [process EXCEPT ![s] = p],
         UNCHANGED <<python, pc, on, edits, quit>>
  PROVE  Inv'
<1>0. None \notin Services /\ None # Broken
  BY RuntimeAssumption DEF RuntimeAssumption
<1>1. /\ promise[s] = "open" /\ rt' = [Forgotten(rt, s) EXCEPT !.ready = None]
      /\ promise' = [promise EXCEPT ![s] = "rejected"] /\ killed' = killed \cup {s}
  BY DEF Fail
<1>2. /\ rt' \in Fields /\ rt'.ready = None
      /\ rt.child = s => rt'.child = None
      /\ rt.child # s => rt'.child = rt.child /\ rt'.launcher = rt.launcher
  <2>1. rt \in Fields
    BY DEF Inv, TypeOK, Fields
  <2> QED
    BY <1>1, <2>1 DEF Forgotten, Fields
<1>3. TypeOK'
  BY <1>1, <1>2 DEF Inv, TypeOK, Fields
<1>4. ASSUME NEW q \in Services PROVE Spawned(q)'
  BY <1>1 DEF Inv, TypeOK, Spawned
<1>5. Held(rt)'
  BY <1>0, <1>1, <1>2 DEF Inv, TypeOK, Held
<1>6. Fits(rt)'
  BY <1>0, <1>2 DEF Fits
<1>7. \A c \in Calls : Awaits(c)'
  BY <1>1 DEF Inv, TypeOK, Awaits
<1> QED
  BY <1>3, <1>4, <1>5, <1>6, <1>7 DEF Inv

LEMMA UpKeeps == ASSUME Inv, NEW s \in Services, Up(s) PROVE Inv'
<1>1. /\ promise[s] = "open" /\ process[s] \in {"starting", "dead"}
      /\ promise' = [promise EXCEPT ![s] = "resolved"]
      /\ process' = [process EXCEPT ![s] = IF process[s] = "starting" THEN "up" ELSE process[s]]
      /\ UNCHANGED <<rt, python, killed, pc, on, edits, quit>>
  BY DEF Up, Speaks
<1>2. TypeOK'
  BY <1>1 DEF Inv, TypeOK
<1>3. ASSUME NEW q \in Services PROVE Spawned(q)'
  BY <1>1 DEF Inv, TypeOK, Spawned
<1>4. Held(rt)' /\ Fits(rt)'
  BY <1>1 DEF Inv, TypeOK, Held, Fits
<1>5. \A c \in Calls : Awaits(c)'
  BY <1>1 DEF Inv, TypeOK, Awaits
<1> QED
  BY <1>2, <1>3, <1>4, <1>5 DEF Inv

LEMMA DieKeeps == ASSUME Inv, NEW s \in Services, Die(s) PROVE Inv'
<1>1. /\ process[s] \in {"starting", "up"} /\ process' = [process EXCEPT ![s] = "dead"]
      /\ UNCHANGED <<rt, python, promise, killed, pc, on, edits, quit>>
  BY DEF Die
<1>2. TypeOK'
  BY <1>1 DEF Inv, TypeOK
<1>3. ASSUME NEW q \in Services PROVE Spawned(q)'
  BY <1>1 DEF Inv, TypeOK, Spawned
<1>4. Held(rt)' /\ Fits(rt)'
  BY <1>1 DEF Inv, TypeOK, Held, Fits
<1>5. \A c \in Calls : Awaits(c)'
  BY <1>1 DEF Inv, Awaits
<1> QED
  BY <1>2, <1>3, <1>4, <1>5 DEF Inv

LEMMA ExitKeeps == ASSUME Inv, NEW s \in Services, Exit(s) PROVE Inv'
<1>0. None \notin Services /\ None # Broken
  BY RuntimeAssumption DEF RuntimeAssumption
<1>1. /\ process[s] = "dead" /\ process' = [process EXCEPT ![s] = "reaped"]
      /\ UNCHANGED <<python, pc, on, edits, quit>>
  BY DEF Exit
<1>2. CASE Fail(s)
  BY <1>1, <1>2, FailKeeps
<1>3. CASE promise[s] # "open" /\ ~Fail(s)
  <2>1. /\ rt' = IF rt.child = s THEN [Forgotten(rt, s) EXCEPT !.ready = None] ELSE rt
        /\ UNCHANGED <<promise, killed>>
    BY <1>3 DEF Exit
  <2>2. /\ rt' \in Fields
        /\ rt.child = s => rt'.child = None /\ rt'.ready = None
        /\ rt.child # s => rt' = rt
    <3>1. rt \in Fields
      BY DEF Inv, TypeOK, Fields
    <3> QED
      BY <2>1, <3>1 DEF Forgotten, Fields
  <2>3. TypeOK'
    BY <1>1, <2>1, <2>2 DEF Inv, TypeOK, Fields
  <2>4. ASSUME NEW q \in Services PROVE Spawned(q)'
    BY <1>1, <1>3, <2>1 DEF Inv, TypeOK, Spawned
  <2>5. Held(rt)'
    BY <1>0, <1>1, <2>1, <2>2 DEF Inv, TypeOK, Held
  <2>6. Fits(rt)'
    BY <1>0, <1>1, <2>2 DEF Inv, Fits
  <2>7. \A c \in Calls : Awaits(c)'
    BY <1>1, <2>1 DEF Inv, Awaits
  <2> QED
    BY <2>3, <2>4, <2>5, <2>6, <2>7 DEF Inv
<1> QED
  BY <1>2, <1>3 DEF Exit

LEMMA FailureKeeps ==
  ASSUME Inv, NEW s \in Services, BadLine(s) \/ SpawnError(s)
  PROVE  Inv'
<1>1. CASE BadLine(s)
  <2>1. /\ promise[s] = "open" /\ process[s] \in {"starting", "dead"} /\ Fail(s)
        /\ UNCHANGED <<python, pc, on, edits, quit>> /\ process' = process
    BY <1>1 DEF BadLine, Speaks
  <2>2. process' = [process EXCEPT ![s] = process[s]]
    BY <2>1 DEF Inv, TypeOK
  <2> QED
    BY <2>1, <2>2, FailKeeps
<1>2. CASE SpawnError(s)
  BY <1>2, FailKeeps DEF SpawnError
<1> QED
  BY <1>1, <1>2

-----------------------------------------------------------------------------
(***************************************************************************)
(* Theorems.                                                               *)
(***************************************************************************)

LEMMA NextKeeps == Inv /\ [Next]_vars => Inv'
<1> SUFFICES ASSUME Inv, [Next]_vars PROVE Inv'
  OBVIOUS
<1>1. ASSUME NEW path \in Paths \cup {None}, Configure(path) PROVE Inv'
  BY <1>1, ConfigureKeeps
<1>2. ASSUME NEW c \in Calls, Call(c) PROVE Inv'
  BY <1>2, CallKeeps
<1>3. ASSUME NEW c \in Calls, LooksAgain(c) PROVE Inv'
  BY <1>3, LooksAgainKeeps
<1>4. ASSUME NEW c \in Calls, Fails(c) \/ Post(c) PROVE Inv'
  BY <1>4, ReturnKeeps
<1>5. ASSUME NEW s \in Services, Up(s) PROVE Inv'
  BY <1>5, UpKeeps
<1>6. ASSUME NEW s \in Services, BadLine(s) \/ SpawnError(s) PROVE Inv'
  BY <1>6, FailureKeeps
<1>7. ASSUME NEW s \in Services, Die(s) PROVE Inv'
  BY <1>7, DieKeeps
<1>8. ASSUME NEW s \in Services, Exit(s) PROVE Inv'
  BY <1>8, ExitKeeps
<1>9. CASE Quit
  BY <1>9, QuitKeeps
<1>10. CASE UNCHANGED vars
  BY <1>10 DEF Inv, TypeOK, Spawned, Held, Fits, Awaits, vars
<1> QED
  BY <1>1, <1>2, <1>3, <1>4, <1>5, <1>6, <1>7, <1>8, <1>9, <1>10 DEF Next

LEMMA Inductive == Spec => []Inv
  BY InitInv, NextKeeps, PTL DEF Spec

\* The fields of the runtime, its services and its callers have their types, in
\* whatever order services start, fail and exit (blueprint-runtime.ts).
THEOREM Types == Spec => []TypeOK
<1>1. Inv => TypeOK
  BY DEF Inv
<1> QED
  BY Inductive, <1>1, PTL

\* The promise that the next request shares is the child's: close() reaches it, it was
\* not killed, and its end has not been told (close, ensureReady and its handlers).
THEOREM SharedIsAlive == Spec => []ReadyIsHeld
<1>1. Inv => ReadyIsHeld
  <2> SUFFICES ASSUME Inv, rt.ready \in Services
               PROVE  /\ rt.child = rt.ready /\ rt.ready \notin killed
                      /\ process[rt.ready] # "reaped" /\ promise[rt.ready] # "rejected"
    BY DEF ReadyIsHeld
  <2>1. rt.child = rt.ready /\ rt.child # None
    BY RuntimeAssumption DEF Inv, Held, RuntimeAssumption
  <2> QED
    BY <2>1 DEF Inv, Held
<1> QED
  BY Inductive, <1>1, PTL

\* The service that is shared runs the interpreter that is configured, or the one that
\* is found, though configure restarts only when executables differ
\* (configure, shouldRestartForPython).
THEOREM RunsConfigured == Spec => []RightPython
<1>1. Inv => RightPython
  BY DEF Inv, Fits, RightPython
<1> QED
  BY Inductive, <1>1, PTL

\* A request never awaits a promise that nothing will settle (ensureReady, `fail` and
\* the "exit" handler).
THEOREM NobodyForgotten == Spec => []WillSettle
<1>1. Inv => WillSettle
  <2> SUFFICES ASSUME Inv, NEW c \in Calls, pc[c] \in {"looking", "waiting"}
               PROVE  \/ Refused(c) \/ Ready(c)
                      \/ on[c] \in Services /\ process[on[c]] \in {"starting", "dead"}
    BY DEF WillSettle
  <2>1. on[c] = Broken \/ (on[c] \in Services /\ promise[on[c]] # "none")
    BY DEF Inv, Awaits
  <2>2. CASE on[c] = Broken
    BY <2>2 DEF Refused
  <2>3. CASE on[c] \in Services /\ promise[on[c]] # "none"
    <3>1. promise[on[c]] \in {"open", "resolved", "rejected"}
      BY <2>3 DEF Inv, TypeOK
    <3> QED
      BY <2>3, <3>1 DEF Inv, Spawned, Refused, Ready
  <2> QED
    BY <2>1, <2>2, <2>3
<1> QED
  BY Inductive, <1>1, PTL

=============================================================================
