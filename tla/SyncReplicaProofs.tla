-------------------------- MODULE SyncReplicaProofs --------------------------
(***************************************************************************)
(* Proofs about SyncReplica, for any number of sessions, sync loops and    *)
(* requests and for any bounds.  The rule of one writer is assumed where   *)
(* it is needed; TypeOK holds without it.                                  *)
(***************************************************************************)
EXTENDS SyncReplica, SequenceTheorems, TLAPS

\* What is on its way is part of what was written.
InFlight ==
  /\ \A l \in Loops : \A k \in DOMAIN stream[l] :
       /\ stream[l][k].i \in DOMAIN written[stream[l][k].s]
       /\ written[stream[l][k].s][stream[l][k].i] = stream[l][k].e
  /\ \A l \in Loops, s \in Sessions : Log!Beginning(history[l][s], written[s])
  /\ \A s \in Sessions : Log!Beginning(rows[s], written[s])

\* A session the control server has made and not begun to restore is known to
\* nobody else.
Private(s) ==
  restore[s] = "no" /\ written[s] # <<>> /\ written[s][1].by = Control =>
    /\ log[Workspace][s] = <<>>
    /\ log[Control][s] \in {<<>>, written[s]}
    /\ \A l \in Loops : history[l][s] = <<>>
    /\ \A l \in Loops : \A k \in DOMAIN stream[l] : stream[l][k].s # s

\* A session being handed over is written by nobody.
HandingOver(s) ==
  /\ restore[s] # "no" => written[s] # <<>>
  /\ restore[s] \in {"sending", "failed"} /\ space = "up" => log[Control][s] = written[s]
  /\ restore[s] = "sending" =>
       /\ rows[s] = written[s]
       /\ sent[s] <= Len(log[Workspace][s])

\* Otherwise the workspace has all of it, or nothing.
Whole(s) ==
  restore[s] \in {"no", "done"} => log[Workspace][s] \in {<<>>, written[s]}

Fenced(r) ==
  request[r] # "new" =>
    /\ fence[r] <= Len(written[Session[r]])
    /\ \/ restore[Session[r]] # "no"
       \/ written[Session[r]] # <<>> /\ written[Session[r]][1].by = Workspace
    /\ request[r] = "ok" /\ space = "up" => fence[r] <= Len(log[Control][Session[r]])

IInv ==
  /\ TypeOK
  /\ LogsAgree
  /\ InFlight
  /\ \A s \in Sessions : Private(s) /\ HandingOver(s) /\ Whole(s)
  /\ \A r \in Requests : Fenced(r)

-----------------------------------------------------------------------------
(***************************************************************************)
(* Logs                                                                    *)
(***************************************************************************)

LEMMA BeginningRefl == \A t \in Seq(Event) : Log!Beginning(t, t) /\ Log!Beginning(<<>>, t)
BY DEF Log!Beginning

\* What is the beginning of a log is the beginning of the log with an event more.
LEMMA BeginningGrows ==
  ASSUME NEW p \in Seq(Event), NEW t \in Seq(Event), NEW e \in Event, Log!Beginning(p, t)
  PROVE  /\ Append(t, e) \in Seq(Event)
         /\ Log!Beginning(p, Append(t, e))
<1>1. Append(t, e) \in Seq(Event) /\ Len(Append(t, e)) = Len(t) + 1
  OBVIOUS
<1>2. \A i \in 1..Len(t) : Append(t, e)[i] = t[i]
  OBVIOUS
<1> QED
  BY <1>1, <1>2 DEF Log!Beginning

\* Two logs that begin each other are the same.
LEMMA BeginningEqual ==
  ASSUME NEW p \in Seq(Event), NEW t \in Seq(Event), Log!Beginning(p, t), Len(t) <= Len(p)
  PROVE  p = t
BY SeqEqual DEF Log!Beginning

\* SyncEvent.replay keeps a beginning of the log a beginning, and loses nothing.
LEMMA ReplayKeeps ==
  ASSUME NEW p \in Seq(Event), NEW i \in Nat, NEW e \in Event
  PROVE  /\ Replay(p, i, e) \in Seq(Event)
         /\ Log!Beginning(p, Replay(p, i, e))
         /\ \A t \in Seq(Event) : Log!Beginning(p, t) /\ i \in DOMAIN t /\ t[i] = e =>
              Log!Beginning(Replay(p, i, e), t)
<1>1. CASE i = Len(p) + 1
  <2>1. Replay(p, i, e) = Append(p, e)
    BY <1>1 DEF Replay
  <2>2. /\ Append(p, e) \in Seq(Event) /\ Len(Append(p, e)) = Len(p) + 1
        /\ \A k \in 1..Len(p) : Append(p, e)[k] = p[k]
        /\ Append(p, e)[Len(p) + 1] = e
    OBVIOUS
  <2> QED
    BY <1>1, <2>1, <2>2 DEF Log!Beginning
<1>2. CASE i # Len(p) + 1
  BY <1>2, BeginningRefl DEF Replay
<1> QED
  BY <1>1, <1>2

LEMMA ReplayAllKeeps ==
  ASSUME NEW p \in Seq(Event), NEW from \in Seq(Event), NEW lo \in Nat \ {0}, NEW hi \in Nat,
         hi <= Len(from)
  PROVE  /\ ReplayAll(p, from, lo, hi) \in Seq(Event)
         /\ Log!Beginning(p, ReplayAll(p, from, lo, hi))
         /\ \A t \in Seq(Event) : Log!Beginning(p, t) /\ Log!Beginning(from, t) =>
              Log!Beginning(ReplayAll(p, from, lo, hi), t)
         /\ lo <= Len(p) + 1 => lo > hi \/ hi <= Len(ReplayAll(p, from, lo, hi))
<1>1. CASE lo > hi \/ lo > Len(p) + 1 \/ hi <= Len(p)
  BY <1>1, BeginningRefl DEF ReplayAll
<1>2. CASE ~(lo > hi \/ lo > Len(p) + 1 \/ hi <= Len(p))
  <2> DEFINE q == [i \in 1..hi |-> IF i <= Len(p) THEN p[i] ELSE from[i]]
  <2>1. ReplayAll(p, from, lo, hi) = q
    BY <1>2 DEF ReplayAll
  <2>2. \A i \in 1..hi : q[i] \in Event
    OBVIOUS
  <2>3. q \in Seq(Event) /\ Len(q) = hi
    <3>1. q \in [1..hi -> Event] /\ DOMAIN q = 1..hi
      BY <2>2
    <3>2. q \in Seq(Event)
      BY <3>1, SeqDef
    <3> QED
      BY <3>1, <3>2, LenProperties
  <2> HIDE DEF q
  <2>4. \A i \in 1..hi : q[i] = IF i <= Len(p) THEN p[i] ELSE from[i]
    BY DEF q
  <2>5. Log!Beginning(p, q)
    BY <1>2, <2>3, <2>4 DEF Log!Beginning
  <2>6. ASSUME NEW t \in Seq(Event), Log!Beginning(p, t), Log!Beginning(from, t)
        PROVE  Log!Beginning(q, t)
    <3>1. hi <= Len(t)
      BY <2>6 DEF Log!Beginning
    <3>2. \A i \in 1..hi : q[i] = t[i]
      BY <1>2, <2>4, <2>6 DEF Log!Beginning
    <3> QED
      BY <2>3, <3>1, <3>2 DEF Log!Beginning
  <2> QED
    BY <1>2, <2>1, <2>3, <2>5, <2>6
<1> QED
  BY <1>1, <1>2

-----------------------------------------------------------------------------
(***************************************************************************)
(* Types                                                                   *)
(***************************************************************************)

Message == [s : Sessions, i : Nat, e : Event]

LEMMA Events == \A k \in {"created", "moved", "edit", "deleted"}, d \in Devices : E(k, d) \in Event
BY DEF E, Event

LEMMA InitTyped == Init => TypeOK
<1> SUFFICES ASSUME Init PROVE TypeOK
  OBVIOUS
<1>1. \A S : <<>> \in Seq(S)
  OBVIOUS
<1> QED
  BY <1>1 DEF Init, TypeOK

LEMMA TypeFacts ==
  ASSUME TypeOK
  PROVE  /\ \A d \in Devices, s \in Sessions : log[d][s] \in Seq(Event)
         /\ \A s \in Sessions :
              written[s] \in Seq(Event) /\ rows[s] \in Seq(Event) /\ sent[s] \in Nat
         /\ \A l \in Loops : stream[l] \in Seq(Message)
         /\ \A l \in Loops, s \in Sessions :
              known[l][s] \in Nat /\ history[l][s] \in Seq(Event)
         /\ \A r \in Requests : fence[r] \in Nat
         /\ Control \in Devices /\ Workspace \in Devices
<1>1. \A d \in Devices, s \in Sessions : log[d][s] \in Seq(Event)
  <2>1. log \in [Devices -> [Sessions -> Seq(Event)]]
    BY DEF TypeOK
  <2> QED
    BY <2>1
<1>2. \A l \in Loops, s \in Sessions : known[l][s] \in Nat /\ history[l][s] \in Seq(Event)
  <2>1. known \in [Loops -> [Sessions -> Nat]] /\ history \in [Loops -> [Sessions -> Seq(Event)]]
    BY DEF TypeOK
  <2> QED
    BY <2>1
<1>3. \A l \in Loops : stream[l] \in Seq(Message)
  BY DEF TypeOK, Message
<1> QED
  BY <1>1, <1>2, <1>3 DEF TypeOK, Devices

LEMMA RunTyped ==
  ASSUME TypeOK, NEW d \in Devices, NEW s \in Sessions, NEW e \in Event, Run(d, s, e)
  PROVE  /\ log' \in [Devices -> [Sessions -> Seq(Event)]]
         /\ written' \in [Sessions -> Seq(Event)]
<1>1. Append(log[d][s], e) \in Seq(Event) /\ Append(written[s], e) \in Seq(Event)
  BY TypeFacts
<1> QED
  BY <1>1 DEF Run, TypeOK

LEMMA PublishTyped ==
  ASSUME TypeOK, NEW s \in Sessions, NEW e \in Event, Publish(s, e)
  PROVE  stream' \in [Loops -> Seq(Message)]
<1> DEFINE m == [s |-> s, i |-> Len(log[Workspace][s]) + 1, e |-> e]
<1>1. log[Workspace][s] \in Seq(Event)
  BY TypeFacts
<1>2. m \in Message
  BY <1>1 DEF Message
<1>3. \A l \in Loops : stream[l] \in Seq(Message) /\ Append(stream[l], m) \in Seq(Message)
  BY <1>2, TypeFacts
<1> QED
  BY <1>3 DEF Publish

LEMMA WriterTyped ==
  ASSUME TypeOK, NEW s \in Sessions,
         \/ CreateHere(s) \/ EditHere(s) \/ RemoveHere(s)
         \/ CreateThere(s) \/ EditThere(s)
  PROVE  TypeOK'
<1>1. CASE CreateHere(s) \/ EditHere(s)
  <2>1. PICK e \in Event : Run(Control, s, e)
    BY <1>1, Events DEF CreateHere, EditHere, Devices
  <2>2. /\ log' \in [Devices -> [Sessions -> Seq(Event)]]
        /\ written' \in [Sessions -> Seq(Event)]
    BY <2>1, RunTyped DEF Devices
  <2> QED
    BY <1>1, <2>2 DEF CreateHere, EditHere, TypeOK, loopVars, restoreVars, requestVars, spaceVars
<1>2. CASE RemoveHere(s)
  <2>1. log' \in [Devices -> [Sessions -> Seq(Event)]]
    <3>1. <<>> \in Seq(Event)
      OBVIOUS
    <3> QED
      BY <1>2, <3>1 DEF RemoveHere, TypeOK
  <2> QED
    BY <1>2, <2>1 DEF RemoveHere, TypeOK, loopVars, restoreVars, requestVars, spaceVars
<1>3. CASE CreateThere(s) \/ EditThere(s)
  <2>1. PICK e \in Event : Run(Workspace, s, e) /\ Publish(s, e)
    BY <1>3, Events DEF CreateThere, EditThere, Devices
  <2>2. /\ log' \in [Devices -> [Sessions -> Seq(Event)]]
        /\ written' \in [Sessions -> Seq(Event)]
    BY <2>1, RunTyped DEF Devices
  <2>3. stream' \in [Loops -> Seq(Message)]
    BY <2>1, PublishTyped
  <2> QED
    BY <1>3, <2>2, <2>3
       DEF CreateThere, EditThere, TypeOK, Message, restoreVars, requestVars, spaceVars
<1> QED
  BY <1>1, <1>2, <1>3

LEMMA LoopTyped ==
  ASSUME TypeOK, SyncAssumption, NEW l \in Loops,
         StartSync(l) \/ Loop(l) \/ ConnectFails(l) \/ Disconnected(l)
  PROVE  TypeOK'
<1>1. \A q : q \in Seq(Message) => (q # <<>> => Tail(q) \in Seq(Message) /\ Head(q) \in Message)
  BY HeadTailProperties
<1>2. <<>> \in Seq(Message) /\ <<>> \in Seq(Event)
  OBVIOUS
<1>3. CASE StartSync(l) \/ Connecting(l) \/ Wake(l)
  BY <1>3 DEF StartSync, Connecting, Wake, Goto, SetStatus, TypeOK, logs, restoreVars,
              requestVars, spaceVars
<1>4. CASE Connected(l)
  <2>1. \A s \in Sessions : Len(log[Control][s]) \in Nat
    BY TypeFacts, LenProperties
  <2> QED
    BY <1>4, <2>1 DEF Connected, Goto, TypeOK, logs, restoreVars, requestVars, spaceVars
<1>5. CASE ReadHistory(l)
  <2>1. log[Workspace] \in [Sessions -> Seq(Event)]
    BY DEF TypeOK, Devices
  <2> QED
    BY <1>5, <2>1 DEF ReadHistory, Goto, TypeOK, logs, restoreVars, requestVars, spaceVars
<1>6. CASE ConnectFails(l) \/ Disconnected(l)
  <2>1. drops' \in Nat
    <3>1. drops \in Nat /\ (drops' = drops \/ drops' = drops + 1)
      BY <1>6 DEF ConnectFails, Disconnected, Drop, TypeOK
    <3> QED
      BY <3>1
  <2>2. pc' \in [Loops -> {"off", "top", "connect", "asked", "answered", "stream", "sleep", "ended"}]
    BY <1>6 DEF ConnectFails, Disconnected, Fails, Goto, TypeOK
  <2>3. stream' \in [Loops -> Seq(Message)]
    BY <1>6, <1>2 DEF ConnectFails, Disconnected, Fails, TypeOK, Message
  <2>4. known' \in [Loops -> [Sessions -> Nat]] /\ history' \in [Loops -> [Sessions -> Seq(Event)]]
    <3>1. [s \in Sessions |-> 0] \in [Sessions -> Nat] /\ [s \in Sessions |-> <<>>] \in [Sessions -> Seq(Event)]
      BY <1>2
    <3>2. known \in [Loops -> [Sessions -> Nat]] /\ history \in [Loops -> [Sessions -> Seq(Event)]]
      BY DEF TypeOK
    <3> QED
      BY <1>6, <3>1, <3>2 DEF ConnectFails, Disconnected, RoundEnds, loopVars
  <2>5. /\ status' \in {"absent", "connecting", "connected", "disconnected", "error"}
        /\ registered' \in Loops \cup {None}
    BY <1>6 DEF ConnectFails, Disconnected, Fails, SetStatus, TypeOK
  <2> QED
    BY <1>6, <2>1, <2>2, <2>3, <2>4, <2>5
       DEF ConnectFails, Disconnected, TypeOK, Message, logs, restoreVars, requestVars, spaceVars
<1>7. CASE ReplayHistory(l)
  <2>1. PICK upto \in [Sessions -> Nat] : Replayed(l, upto)
    <3>1. \A s \in Sessions : Len(history[l][s]) \in Nat /\ known[l][s] \in Nat
      BY TypeFacts, LenProperties
    <3>2. CASE Replayed(l, [s \in Sessions |-> Len(history[l][s])])
      BY <3>1, <3>2
    <3>3. ASSUME NEW s \in Sessions,
                 NEW upto \in [Sessions -> {known[l][s], known[l][s] + 1}], Replayed(l, upto)
          PROVE  \E u \in [Sessions -> Nat] : Replayed(l, u)
      <4>1. upto \in [Sessions -> Nat]
        BY <3>1
      <4> QED
        BY <3>3, <4>1
    <3> QED
      BY <1>7, <3>2, <3>3 DEF ReplayHistory, Gaps
  <2>2. log' \in [Devices -> [Sessions -> Seq(Event)]]
    <3> DEFINE hi(s) == IF upto[s] < Len(history[l][s]) THEN upto[s] ELSE Len(history[l][s])
               new == [s \in Sessions |->
                         ReplayAll(log[Control][s], history[l][s], known[l][s] + 1, hi(s))]
    <3>1. ASSUME NEW s \in Sessions
          PROVE  ReplayAll(log[Control][s], history[l][s], known[l][s] + 1, hi(s)) \in Seq(Event)
      <4>1. /\ log[Control][s] \in Seq(Event) /\ history[l][s] \in Seq(Event)
            /\ known[l][s] + 1 \in Nat \ {0}
        BY TypeFacts
      <4>2. hi(s) \in Nat /\ hi(s) <= Len(history[l][s])
        BY <4>1
      <4> QED
        BY <4>1, <4>2, ReplayAllKeeps
    <3>2. new \in [Sessions -> Seq(Event)]
      BY <3>1
    <3>3. log' = [log EXCEPT ![Control] = new]
      BY <2>1 DEF Replayed
    <3> HIDE DEF new
    <3> QED
      BY <3>2, <3>3 DEF TypeOK
  <2>3. pc' \in [Loops -> {"off", "top", "connect", "asked", "answered", "stream", "sleep", "ended"}]
    BY <1>7 DEF ReplayHistory, Fails, Goto, TypeOK
  <2>4. stream' \in [Loops -> Seq(Message)]
    BY <1>7, <1>2 DEF ReplayHistory, Fails, TypeOK, Message
  <2>5. known' \in [Loops -> [Sessions -> Nat]] /\ history' \in [Loops -> [Sessions -> Seq(Event)]]
    <3>1. [s \in Sessions |-> 0] \in [Sessions -> Nat] /\ [s \in Sessions |-> <<>>] \in [Sessions -> Seq(Event)]
      BY <1>2
    <3>2. known \in [Loops -> [Sessions -> Nat]] /\ history \in [Loops -> [Sessions -> Seq(Event)]]
      BY DEF TypeOK
    <3> QED
      BY <1>7, <3>1, <3>2 DEF ReplayHistory, RoundEnds
  <2>6. /\ status' \in {"absent", "connecting", "connected", "disconnected", "error"}
        /\ registered' \in Loops \cup {None}
    BY <1>7 DEF ReplayHistory, Fails, SetStatus, TypeOK
  <2> QED
    BY <1>7, <2>2, <2>3, <2>4, <2>5, <2>6
       DEF ReplayHistory, TypeOK, Message, restoreVars, requestVars, spaceVars
<1>8. CASE Deliver(l)
  <2>1. Head(stream[l]) \in Message /\ Tail(stream[l]) \in Seq(Message)
    BY <1>8, <1>1 DEF Deliver, TypeOK, Message
  <2>2. stream' \in [Loops -> Seq(Message)]
    BY <1>8, <2>1 DEF Deliver, TypeOK, Message
  <2>3. log' \in [Devices -> [Sessions -> Seq(Event)]]
    <3> DEFINE m == Head(stream[l])
    <3>1. m.s \in Sessions /\ m.i \in Nat /\ m.e \in Event
      BY <2>1 DEF Message
    <3>2. log[Control][m.s] \in Seq(Event)
      BY <3>1, TypeFacts
    <3>3. Replay(log[Control][m.s], m.i, m.e) \in Seq(Event)
      BY <3>1, <3>2, ReplayKeeps
    <3>4. log' = [log EXCEPT ![Control][m.s] = Replay(log[Control][m.s], m.i, m.e)]
      BY <1>8, <3>1 DEF Deliver, TypeOK, Devices
    <3> HIDE DEF m
    <3> QED
      BY <3>1, <3>3, <3>4 DEF TypeOK
  <2> QED
    BY <1>8, <2>2, <2>3 DEF Deliver, TypeOK, Message, restoreVars, requestVars, spaceVars
<1> QED
  BY <1>3, <1>4, <1>5, <1>6, <1>7, <1>8 DEF Loop

LEMMA BatchFacts ==
  ASSUME TypeOK, SyncAssumption, NEW s \in Sessions
  PROVE  /\ BatchEnd(s) \in Nat /\ BatchEnd(s) <= Len(rows[s])
         /\ ReplayAll(log[Workspace][s], rows[s], sent[s] + 1, BatchEnd(s)) \in Seq(Event)
<1>1. rows[s] \in Seq(Event) /\ sent[s] \in Nat /\ log[Workspace][s] \in Seq(Event)
  BY TypeFacts
<1>2. BatchEnd(s) \in Nat /\ BatchEnd(s) <= Len(rows[s])
  BY <1>1, LenProperties DEF BatchEnd, SyncAssumption
<1>3. sent[s] + 1 \in Nat \ {0}
  BY <1>1
<1> DEFINE from == rows[s]
           lo == sent[s] + 1
           hi == BatchEnd(s)
           p == log[Workspace][s]
<1>4. p \in Seq(Event) /\ from \in Seq(Event) /\ lo \in Nat \ {0} /\ hi \in Nat /\ hi <= Len(from)
  BY <1>1, <1>2, <1>3
<1>5. ReplayAll(p, from, lo, hi) \in Seq(Event)
  <2> HIDE DEF p, from, lo, hi
  <2> QED
    BY <1>4, ReplayAllKeeps
<1> QED
  BY <1>2, <1>5

LEMMA RestoreTyped ==
  ASSUME TypeOK, SyncAssumption, NEW s \in Sessions,
         BeginRestore(s) \/ PostBatch(s) \/ PostFails(s)
  PROVE  TypeOK'
<1>1. CASE BeginRestore(s)
  <2>1. /\ log' \in [Devices -> [Sessions -> Seq(Event)]]
        /\ written' \in [Sessions -> Seq(Event)]
    BY <1>1, Events, RunTyped, TypeFacts DEF BeginRestore
  <2>2. log'[Control][s] \in Seq(Event)
    BY <2>1, TypeFacts
  <2>3. rows' \in [Sessions -> Seq(Event)]
    BY <1>1, <2>2 DEF BeginRestore, TypeOK
  <2> QED
    BY <1>1, <2>1, <2>3 DEF BeginRestore, TypeOK, loopVars, requestVars, spaceVars
<1>2. CASE PostBatch(s)
  <2>1. log' \in [Devices -> [Sessions -> Seq(Event)]]
    BY <1>2, BatchFacts, TypeFacts DEF PostBatch, Posted, TypeOK
  <2>2. sent' \in [Sessions -> Nat] /\ restore' \in [Sessions -> {"no", "sending", "failed", "done"}]
    BY <1>2, BatchFacts DEF PostBatch, TypeOK
  <2> QED
    BY <1>2, <2>1, <2>2 DEF PostBatch, TypeOK, loopVars, requestVars, spaceVars
<1>3. CASE PostFails(s)
  <2>1. log' \in [Devices -> [Sessions -> Seq(Event)]]
    <3>1. CASE Posted(s)
      BY <3>1, BatchFacts, TypeFacts DEF Posted, TypeOK
    <3>2. CASE UNCHANGED log
      BY <3>2 DEF TypeOK
    <3> QED
      BY <1>3, <3>1, <3>2 DEF PostFails
  <2>2. drops' \in Nat
    <3>1. drops \in Nat /\ (drops' = drops \/ drops' = drops + 1)
      BY <1>3 DEF PostFails, TypeOK
    <3> QED
      BY <3>1
  <2> QED
    BY <1>3, <2>1, <2>2 DEF PostFails, TypeOK, loopVars, requestVars, spaceVars
<1> QED
  BY <1>1, <1>2, <1>3

LEMMA RequestTyped ==
  ASSUME TypeOK, SyncAssumption, NEW r \in Requests,
         Forward(r) \/ Answer(r) \/ FenceTimesOut(r)
  PROVE  TypeOK'
<1>1. CASE Forward(r)
  <2> DEFINE s == Session[r]
             e == E(IF r \in Deletes THEN "deleted" ELSE "edit", Workspace)
  <2>1. s \in Sessions /\ e \in Event
    BY Events, TypeFacts DEF SyncAssumption
  <2>2. /\ Append(log[Workspace][s], e) \in Seq(Event) /\ <<>> \in Seq(Event)
        /\ Append(written[s], e) \in Seq(Event)
    BY <2>1, TypeFacts
  <2>3. /\ log' \in [Devices -> [Sessions -> Seq(Event)]]
        /\ written' \in [Sessions -> Seq(Event)]
    BY <1>1, <2>2 DEF Forward, TypeOK
  <2>4. Reached(log'[Workspace][s]) \in Nat
    BY <2>1, <2>3, TypeFacts, LenProperties DEF Reached
  <2>5. fence' \in [Requests -> Nat]
    BY <1>1, <2>4 DEF Forward, TypeOK
  <2>6. stream' \in [Loops -> Seq(Message)]
    BY <1>1, <2>1, PublishTyped DEF Forward
  <2> QED
    BY <1>1, <2>3, <2>5, <2>6 DEF Forward, TypeOK, Message, restoreVars, spaceVars
<1>2. CASE Answer(r) \/ FenceTimesOut(r)
  BY <1>2 DEF Answer, FenceTimesOut, TypeOK, logs, loopVars, restoreVars, spaceVars
<1> QED
  BY <1>1, <1>2

LEMMA RemovalTyped ==
  ASSUME TypeOK, BeginRemove \/ StopSync \/ RemoveRow \/ \E s \in Sessions : RemoveSession(s)
  PROVE  TypeOK'
<1>1. CASE BeginRemove \/ RemoveRow
  BY <1>1 DEF BeginRemove, RemoveRow, TypeOK, logs, loopVars, restoreVars, requestVars
<1>2. CASE StopSync
  BY <1>2 DEF StopSync, TypeOK, logs, restoreVars, requestVars
<1>3. ASSUME NEW s \in Sessions, RemoveSession(s) PROVE TypeOK'
  <2>1. log' \in [Devices -> [Sessions -> Seq(Event)]]
    <3>1. <<>> \in Seq(Event)
      OBVIOUS
    <3> QED
      BY <1>3, <3>1, TypeFacts DEF RemoveSession, TypeOK
  <2> QED
    BY <1>3, <2>1 DEF RemoveSession, TypeOK, loopVars, restoreVars, requestVars
<1> QED
  BY <1>1, <1>2, <1>3

LEMMA NextTyped ==
  ASSUME TypeOK, SyncAssumption, [Next]_vars
  PROVE  TypeOK'
<1>1. CASE Next
  BY <1>1, WriterTyped, LoopTyped, RestoreTyped, RequestTyped, RemovalTyped DEF Next
<1>2. CASE UNCHANGED vars
  BY <1>2 DEF vars, TypeOK
<1> QED
  BY <1>1, <1>2

\* The types of the two logs, the loops, the restores and the requests.
THEOREM Types == Spec => []TypeOK
<1>1. Init => TypeOK
  BY InitTyped
<1>2. TypeOK /\ [Next]_vars => TypeOK'
  BY NextTyped, SyncAssumption
<1> QED
  BY <1>1, <1>2, PTL DEF Spec

-----------------------------------------------------------------------------
(***************************************************************************)
(* The invariant                                                           *)
(***************************************************************************)

LEMMA InitIInv == Init => IInv
<1> SUFFICES ASSUME Init PROVE IInv
  OBVIOUS
<1>1. TypeOK
  BY InitTyped
<1>2. LogsAgree /\ InFlight
  BY DEF Init, LogsAgree, InFlight, Log!Beginning
<1>3. \A s \in Sessions : Private(s) /\ HandingOver(s) /\ Whole(s)
  BY DEF Init, Private, HandingOver, Whole, Devices
<1>4. \A r \in Requests : Fenced(r)
  BY DEF Init, Fenced
<1> QED
  BY <1>1, <1>2, <1>3, <1>4 DEF IInv

\* The first event of a log that is not empty.
LEMMA FirstEvent ==
  ASSUME NEW p \in Seq(Event), NEW t \in Seq(Event), Log!Beginning(p, t), p # <<>>
  PROVE  1 \in DOMAIN p /\ 1 \in DOMAIN t /\ p[1] = t[1] /\ t # <<>> /\ t[1].by \in Devices
<1>1. Len(p) \in Nat \ {0} /\ Len(t) \in Nat
  BY EmptySeq, LenProperties
<1>2. 1 \in 1..Len(p) /\ 1 \in 1..Len(t)
  BY <1>1 DEF Log!Beginning
<1>3. t[1] \in Event
  BY <1>2, ElementOfSeq
<1> QED
  BY <1>2, <1>3, LenProperties DEF Log!Beginning, Event

LEMMA RowFacts ==
  ASSUME NEW p \in Seq(Event), Row(p) # "none"
  PROVE  p # <<>> /\ (Row(p) = "here" => p[1].by # Workspace)
BY DEF Row, Has

LEMMA HereIsOwn ==
  ASSUME IInv, NEW s \in Sessions, restore[s] = "no", Row(log[Control][s]) = "here"
  PROVE  /\ log[Control][s] = written[s]
         /\ written[s] # <<>> /\ written[s][1].by = Control
<1>1. /\ log[Control][s] \in Seq(Event) /\ written[s] \in Seq(Event)
      /\ Log!Beginning(log[Control][s], written[s])
  BY TypeFacts DEF IInv, LogsAgree
<1>2. log[Control][s] # <<>> /\ log[Control][s][1].by # Workspace
  BY <1>1, RowFacts
<1>3. written[s] # <<>> /\ written[s][1].by = Control
  BY <1>1, <1>2, FirstEvent DEF Devices
<1> QED
  BY <1>2, <1>3 DEF IInv, Private

LEMMA ThereIsOwn ==
  ASSUME IInv, OneWriter, NEW s \in Sessions, WorkspaceWrites(s)
  PROVE  /\ log[Workspace][s] = written[s]
         /\ written[s] # <<>>
         /\ restore[s] = "done" \/ (restore[s] = "no" /\ written[s][1].by = Workspace)
<1>1. /\ log[Workspace][s] \in Seq(Event) /\ written[s] \in Seq(Event)
      /\ Log!Beginning(log[Workspace][s], written[s])
  BY TypeFacts DEF IInv, LogsAgree
<1>2. log[Workspace][s] # <<>> /\ restore[s] \in {"no", "done"}
  BY <1>1, RowFacts DEF WorkspaceWrites
<1>3. log[Workspace][s] = written[s] /\ written[s] # <<>>
  BY <1>2 DEF IInv, Whole
<1>4. written[s][1].by \in Devices
  BY <1>1, <1>3, FirstEvent
<1> QED
  BY <1>2, <1>3, <1>4 DEF IInv, Private, Devices

\* A step that only lets the control server learn keeps the invariant.
LEMMA LearnKeeps ==
  ASSUME IInv, TypeOK',
         UNCHANGED <<written, rows, restore, sent, request, fence, space>>,
         log'[Workspace] = log[Workspace],
         \A s \in Sessions : Log!Beginning(log[Control][s], log'[Control][s]),
         \A s \in Sessions : Log!Beginning(log'[Control][s], written[s]),
         \A s \in Sessions :
           restore[s] = "no" /\ written[s] # <<>> /\ written[s][1].by = Control =>
             log'[Control][s] = log[Control][s],
         \A l \in Loops : \A k \in DOMAIN stream'[l] :
           \E j \in DOMAIN stream[l] : stream'[l][k] = stream[l][j],
         \A l \in Loops, s \in Sessions :
           history'[l][s] \in {history[l][s], <<>>, log[Workspace][s]}
  PROVE  IInv'
<1> USE DEF IInv
<1>0. /\ \A d \in Devices, s \in Sessions : log[d][s] \in Seq(Event) /\ log'[d][s] \in Seq(Event)
      /\ \A s \in Sessions : written[s] \in Seq(Event)
      /\ Control \in Devices /\ Workspace \in Devices
  <2>1. log' \in [Devices -> [Sessions -> Seq(Event)]]
    BY DEF TypeOK
  <2>2. \A d \in Devices, s \in Sessions : log'[d][s] \in Seq(Event)
    BY <2>1
  <2> QED
    BY <2>2, TypeFacts
<1>1. LogsAgree'
  BY DEF LogsAgree, Devices
<1>2. InFlight'
  <2>1. \A s \in Sessions : Log!Beginning(<<>>, written[s])
    BY <1>0, BeginningRefl
  <2>2. \A l \in Loops, s \in Sessions : Log!Beginning(history'[l][s], written[s])
    BY <1>0, <2>1 DEF InFlight, LogsAgree
  <2>3. \A l \in Loops : \A k \in DOMAIN stream'[l] :
          /\ stream'[l][k].i \in DOMAIN written[stream'[l][k].s]
          /\ written[stream'[l][k].s][stream'[l][k].i] = stream'[l][k].e
    BY DEF InFlight
  <2> QED
    BY <2>2, <2>3 DEF InFlight
<1>3. ASSUME NEW s \in Sessions PROVE Private(s)' /\ HandingOver(s)' /\ Whole(s)'
  <2>1. Private(s)'
    BY DEF Private
  <2>2. HandingOver(s)'
    <3>1. log[Control][s] = written[s] => log'[Control][s] = written[s]
      BY <1>0, BeginningEqual DEF Log!Beginning
    <3> QED
      BY <3>1 DEF HandingOver
  <2>3. Whole(s)'
    BY DEF Whole
  <2> QED
    BY <2>1, <2>2, <2>3
<1>4. ASSUME NEW r \in Requests PROVE Fenced(r)'
  <2>1. Session[r] \in Sessions
    BY SyncAssumption DEF SyncAssumption
  <2>2. Len(log[Control][Session[r]]) <= Len(log'[Control][Session[r]])
    BY <2>1 DEF Log!Beginning
  <2>3. fence[r] \in Nat /\ Len(log[Control][Session[r]]) \in Nat /\ Len(log'[Control][Session[r]]) \in Nat
    BY <1>0, <2>1, TypeFacts, LenProperties
  <2>4. fence[r] <= Len(log[Control][Session[r]]) => fence[r] <= Len(log'[Control][Session[r]])
    BY <2>2, <2>3
  <2> QED
    BY <2>4 DEF Fenced
<1> QED
  BY <1>1, <1>2, <1>3, <1>4

LEMMA HistoryKeeps ==
  ASSUME IInv, NEW l \in Loops, NEW upto \in [Sessions -> Nat], Replayed(l, upto)
  PROVE  /\ log'[Workspace] = log[Workspace]
         /\ \A s \in Sessions :
              /\ Log!Beginning(log[Control][s], log'[Control][s])
              /\ Log!Beginning(log'[Control][s], written[s])
              /\ restore[s] = "no" /\ written[s] # <<>> /\ written[s][1].by = Control =>
                   log'[Control][s] = log[Control][s]
<1> DEFINE hi(s) == IF upto[s] < Len(history[l][s]) THEN upto[s] ELSE Len(history[l][s])
           new(s) == ReplayAll(log[Control][s], history[l][s], known[l][s] + 1, hi(s))
<1>1. log \in [Devices -> [Sessions -> Seq(Event)]] /\ Control \in Devices /\ Workspace # Control
  BY DEF IInv, TypeOK, Devices, Control, Workspace
<1>2. log' = [log EXCEPT ![Control] = [s \in Sessions |-> new(s)]]
  BY DEF Replayed
<1>3. log'[Workspace] = log[Workspace] /\ \A s \in Sessions : log'[Control][s] = new(s)
  <2> HIDE DEF new
  <2> QED
    BY <1>1, <1>2 DEF Devices
<1>4. ASSUME NEW s \in Sessions
      PROVE  /\ Log!Beginning(log[Control][s], new(s))
             /\ Log!Beginning(new(s), written[s])
             /\ restore[s] = "no" /\ written[s] # <<>> /\ written[s][1].by = Control =>
                   new(s) = log[Control][s]
  <2>1. /\ log[Control][s] \in Seq(Event) /\ history[l][s] \in Seq(Event)
        /\ written[s] \in Seq(Event) /\ known[l][s] \in Nat
    BY TypeFacts DEF IInv
  <2>2. hi(s) \in Nat /\ hi(s) <= Len(history[l][s]) /\ known[l][s] + 1 \in Nat \ {0}
    BY <2>1, LenProperties
  <2>3. Log!Beginning(log[Control][s], written[s]) /\ Log!Beginning(history[l][s], written[s])
    BY <1>1 DEF IInv, LogsAgree, InFlight
  <2>4. history[l][s] = <<>> => new(s) = log[Control][s]
    BY <2>1, <2>2 DEF ReplayAll
  <2> HIDE DEF hi
  <2>5. /\ Log!Beginning(log[Control][s], new(s))
        /\ Log!Beginning(new(s), written[s])
    BY <2>1, <2>2, <2>3, ReplayAllKeeps
  <2> QED
    BY <2>4, <2>5 DEF IInv, Private
<1> QED
  BY <1>3, <1>4

LEMMA DeliverKeeps ==
  ASSUME IInv, NEW l \in Loops, Deliver(l)
  PROVE  /\ log'[Workspace] = log[Workspace]
         /\ \A s \in Sessions :
              /\ Log!Beginning(log[Control][s], log'[Control][s])
              /\ Log!Beginning(log'[Control][s], written[s])
              /\ restore[s] = "no" /\ written[s] # <<>> /\ written[s][1].by = Control =>
                   log'[Control][s] = log[Control][s]
         /\ \A k \in DOMAIN stream'[l] : \E j \in DOMAIN stream[l] : stream'[l][k] = stream[l][j]
<1> DEFINE m == Head(stream[l])
<1>1. log \in [Devices -> [Sessions -> Seq(Event)]] /\ Control \in Devices /\ Workspace # Control
  BY DEF IInv, TypeOK, Devices, Control, Workspace
<1>2. stream[l] \in Seq(Message) /\ stream[l] # <<>>
  BY TypeFacts DEF IInv, Deliver
<1>3. /\ Tail(stream[l]) \in Seq(Message) /\ Len(Tail(stream[l])) = Len(stream[l]) - 1
      /\ \A k \in 1..Len(Tail(stream[l])) : Tail(stream[l])[k] = stream[l][k + 1]
      /\ m \in Message /\ m = stream[l][1] /\ 1 \in DOMAIN stream[l]
      /\ Len(stream[l]) \in Nat
  BY <1>2, HeadTailProperties, LenProperties, EmptySeq
<1>4. /\ m.s \in Sessions /\ m.i \in Nat /\ m.e \in Event
      /\ m.i \in DOMAIN written[m.s] /\ written[m.s][m.i] = m.e
  BY <1>3 DEF IInv, InFlight, Message
<1>5. log' = [log EXCEPT ![Control][m.s] = Replay(log[Control][m.s], m.i, m.e)]
  BY <1>1, <1>4 DEF Deliver
<1>6. stream'[l] = Tail(stream[l])
  BY DEF Deliver, IInv, TypeOK
<1> HIDE DEF m
<1>7. /\ log'[Workspace] = log[Workspace]
      /\ log'[Control][m.s] = Replay(log[Control][m.s], m.i, m.e)
      /\ \A s \in Sessions \ {m.s} : log'[Control][s] = log[Control][s]
  BY <1>1, <1>4, <1>5 DEF Devices
<1>8. ASSUME NEW s \in Sessions
      PROVE  /\ Log!Beginning(log[Control][s], log'[Control][s])
             /\ Log!Beginning(log'[Control][s], written[s])
             /\ restore[s] = "no" /\ written[s] # <<>> /\ written[s][1].by = Control =>
                  log'[Control][s] = log[Control][s]
  <2>1. /\ log[Control][s] \in Seq(Event) /\ written[s] \in Seq(Event)
        /\ Log!Beginning(log[Control][s], written[s])
    BY <1>1, TypeFacts DEF IInv, LogsAgree
  <2>2. CASE s = m.s
    <3>1. ~(restore[s] = "no" /\ written[s] # <<>> /\ written[s][1].by = Control)
      BY <1>3, <2>2 DEF IInv, Private
    <3>2. m.i \in DOMAIN written[s] /\ written[s][m.i] = m.e
      BY <1>4, <2>2
    <3>3. /\ Log!Beginning(log[Control][s], Replay(log[Control][s], m.i, m.e))
          /\ Log!Beginning(Replay(log[Control][s], m.i, m.e), written[s])
      BY <1>4, <2>1, <3>2, ReplayKeeps
    <3> QED
      BY <1>7, <2>2, <3>1, <3>3
  <2>3. CASE s # m.s
    BY <1>7, <2>1, <2>3, BeginningRefl
  <2> QED
    BY <2>2, <2>3
<1>9. \A k \in DOMAIN stream'[l] : \E j \in DOMAIN stream[l] : stream'[l][k] = stream[l][j]
  <2>1. DOMAIN stream[l] = 1..Len(stream[l]) /\ DOMAIN Tail(stream[l]) = 1..Len(Tail(stream[l]))
    BY <1>2, <1>3, LenProperties
  <2>2. \A k \in 1..Len(Tail(stream[l])) : k + 1 \in 1..Len(stream[l])
    BY <1>3
  <2> QED
    BY <1>3, <1>6, <2>1, <2>2
<1> QED
  BY <1>7, <1>8, <1>9

LEMMA LoopKeeps ==
  ASSUME IInv, NEW l \in Loops,
         StartSync(l) \/ Loop(l) \/ ConnectFails(l) \/ Disconnected(l)
  PROVE  IInv'
<1>1. TypeOK'
  BY LoopTyped, SyncAssumption DEF IInv
<1>2. UNCHANGED <<written, rows, restore, sent, request, fence, space>>
  BY DEF StartSync, Loop, Connecting, Connected, ReadHistory, ReplayHistory, Deliver, Wake,
         ConnectFails, Disconnected, logs, restoreVars, requestVars, spaceVars
<1>3. CASE UNCHANGED log
  <2>1. \A s \in Sessions : /\ Log!Beginning(log[Control][s], log'[Control][s])
                            /\ Log!Beginning(log'[Control][s], written[s])
    BY <1>3, TypeFacts, BeginningRefl DEF IInv, LogsAgree
  <2>2. \A x \in Loops : \A k \in DOMAIN stream'[x] :
          \E j \in DOMAIN stream[x] : stream'[x][k] = stream[x][j]
    <3>1. stream' = stream \/ stream' = [stream EXCEPT ![l] = <<>>]
                           \/ (Deliver(l) /\ stream' = [stream EXCEPT ![l] = Tail(@)])
      BY DEF StartSync, Loop, Connecting, Connected, ReadHistory, ReplayHistory, Deliver, Wake,
             ConnectFails, Disconnected, Fails
    <3>2. stream \in [Loops -> Seq(Message)]
      BY DEF IInv, TypeOK, Message
    <3>3. DOMAIN <<>> = {}
      OBVIOUS
    <3>4. CASE stream' = [stream EXCEPT ![l] = <<>>]
      BY <3>2, <3>3, <3>4
    <3>5. CASE Deliver(l) /\ stream' = [stream EXCEPT ![l] = Tail(@)]
      BY <3>2, <3>5, DeliverKeeps
    <3> QED
      BY <3>1, <3>4, <3>5
  <2>3. \A x \in Loops, s \in Sessions :
          history'[x][s] \in {history[x][s], <<>>, log[Workspace][s]}
    <3>1. \/ history' = history
          \/ history' = [history EXCEPT ![l] = log[Workspace]]
          \/ history' = [history EXCEPT ![l] = [s \in Sessions |-> <<>>]]
      BY DEF StartSync, Loop, Connecting, Connected, ReadHistory, ReplayHistory, Deliver, Wake,
             ConnectFails, Disconnected, RoundEnds
    <3>2. history \in [Loops -> [Sessions -> Seq(Event)]]
      BY DEF IInv, TypeOK
    <3> QED
      BY <3>1, <3>2
  <2> QED
    BY <1>1, <1>2, <1>3, <2>1, <2>2, <2>3, LearnKeeps
<1>4. CASE ReplayHistory(l)
  <2>1. \A s \in Sessions : Len(history[l][s]) \in Nat /\ known[l][s] \in Nat
    BY TypeFacts, LenProperties DEF IInv
  <2>2. PICK upto \in [Sessions -> Nat] : Replayed(l, upto)
    <3>1. CASE Replayed(l, [s \in Sessions |-> Len(history[l][s])])
      BY <2>1, <3>1
    <3>2. ASSUME NEW s \in Sessions,
                 NEW upto \in [Sessions -> {known[l][s], known[l][s] + 1}], Replayed(l, upto)
          PROVE  \E u \in [Sessions -> Nat] : Replayed(l, u)
      <4>1. upto \in [Sessions -> Nat]
        BY <2>1
      <4> QED
        BY <3>2, <4>1
    <3> QED
      BY <1>4, <3>1, <3>2 DEF ReplayHistory, Gaps
  <2>3. \A x \in Loops : \A k \in DOMAIN stream'[x] :
          \E j \in DOMAIN stream[x] : stream'[x][k] = stream[x][j]
    <3>1. DOMAIN <<>> = {}
      OBVIOUS
    <3> QED
      BY <1>4, <3>1 DEF ReplayHistory, Fails, IInv, TypeOK
  <2>4. \A x \in Loops, s \in Sessions :
          history'[x][s] \in {history[x][s], <<>>, log[Workspace][s]}
    BY <1>4 DEF ReplayHistory, RoundEnds, IInv, TypeOK
  <2> QED
    BY <1>1, <1>2, <2>2, <2>3, <2>4, HistoryKeeps, LearnKeeps
<1>5. CASE Deliver(l)
  <2>1. \A x \in Loops : \A k \in DOMAIN stream'[x] :
          \E j \in DOMAIN stream[x] : stream'[x][k] = stream[x][j]
    BY <1>5, DeliverKeeps DEF Deliver, IInv, TypeOK
  <2>2. \A x \in Loops, s \in Sessions :
          history'[x][s] \in {history[x][s], <<>>, log[Workspace][s]}
    BY <1>5 DEF Deliver
  <2> QED
    BY <1>1, <1>2, <1>5, <2>1, <2>2, DeliverKeeps, LearnKeeps
<1> QED
  BY <1>3, <1>4, <1>5 DEF StartSync, Loop, Connecting, Connected, ReadHistory, Wake,
     ConnectFails, Disconnected, logs

\* A step in which a device that has all of a session writes to it, and may
\* begin to hand it over.
Writes(d, s, e, kept) ==
  /\ log[d][s] = written[s]
  /\ written' = [written EXCEPT ![s] = Append(written[s], e)]
  /\ log' = [log EXCEPT ![d][s] = kept]
  /\ kept = Append(written[s], e) \/ (d = Workspace /\ kept = <<>>)
  /\ history' = history /\ space' = space
  /\ stream' = stream \/ (d = Workspace /\ Publish(s, e))
  /\ \/ UNCHANGED restoreVars
     \/ /\ rows' = [rows EXCEPT ![s] = Append(written[s], e)]
        /\ restore' = [restore EXCEPT ![s] = "sending"]
        /\ sent' = [sent EXCEPT ![s] = 0]

LEMMA WritesFacts ==
  ASSUME IInv, NEW d \in Devices, NEW s \in Sessions, NEW e \in Event, NEW kept,
         Writes(d, s, e, kept)
  PROVE  /\ kept \in Seq(Event) /\ Append(written[s], e) \in Seq(Event)
         /\ Len(Append(written[s], e)) = Len(written[s]) + 1
         /\ written'[s] = Append(written[s], e) /\ log'[d][s] = kept
         /\ \A x \in Sessions \ {s} :
              written'[x] = written[x] /\ \A c \in Devices : log'[c][x] = log[c][x]
         /\ \A c \in Devices \ {d} : log'[c] = log[c]
         /\ \A x \in Sessions : Log!Beginning(written[x], written'[x])
         /\ written[s] # <<>> => written'[s][1] = written[s][1]
<1>1. /\ written \in [Sessions -> Seq(Event)] /\ log \in [Devices -> [Sessions -> Seq(Event)]]
      /\ written[s] \in Seq(Event)
  BY DEF IInv, TypeOK
<1>2. /\ Append(written[s], e) \in Seq(Event) /\ <<>> \in Seq(Event)
      /\ Len(Append(written[s], e)) = Len(written[s]) + 1
      /\ Len(written[s]) \in Nat
      /\ \A i \in 1..Len(written[s]) : Append(written[s], e)[i] = written[s][i]
  BY <1>1
<1>3. /\ written'[s] = Append(written[s], e)
      /\ \A x \in Sessions \ {s} : written'[x] = written[x]
  BY <1>1 DEF Writes
<1>4. /\ log'[d][s] = kept /\ \A c \in Devices \ {d} : log'[c] = log[c]
      /\ \A x \in Sessions \ {s} : \A c \in Devices : log'[c][x] = log[c][x]
  BY <1>1 DEF Writes
<1>5. \A x \in Sessions : Log!Beginning(written[x], written'[x])
  BY <1>1, <1>2, <1>3, BeginningRefl, BeginningGrows
<1>6. written[s] # <<>> => written'[s][1] = written[s][1]
  <2>1. written[s] # <<>> => 1 \in 1..Len(written[s])
    BY <1>1, EmptySeq
  <2> QED
    BY <1>2, <1>3, <2>1
<1>7. kept \in Seq(Event)
  BY <1>2 DEF Writes
<1> QED
  BY <1>2, <1>3, <1>4, <1>5, <1>6, <1>7

\* What is on a stream after such a step was there before, or is the new event.
LEMMA WritesStream ==
  ASSUME IInv, NEW d \in Devices, NEW s \in Sessions, NEW e \in Event, NEW kept,
         Writes(d, s, e, kept), NEW l \in Loops, NEW k \in DOMAIN stream'[l]
  PROVE  \/ k \in DOMAIN stream[l] /\ stream'[l][k] = stream[l][k]
         \/ /\ d = Workspace /\ stream'[l][k].s = s
            /\ stream'[l][k] = [s |-> s, i |-> Len(log[Workspace][s]) + 1, e |-> e]
<1> DEFINE m == [s |-> s, i |-> Len(log[Workspace][s]) + 1, e |-> e]
<1>1. stream[l] \in Seq(Message) /\ log[Workspace][s] \in Seq(Event)
  BY TypeFacts DEF IInv
<1>2. m \in Message
  BY <1>1, LenProperties DEF Message
<1>3. CASE stream' = stream
  BY <1>3
<1>4. CASE d = Workspace /\ Publish(s, e)
  <2>1. stream'[l] = stream[l] \/ stream'[l] = Append(stream[l], m)
    BY <1>4 DEF Publish
  <2>2. CASE stream'[l] = stream[l]
    BY <2>2
  <2>3. CASE stream'[l] = Append(stream[l], m)
    <3>1. /\ DOMAIN Append(stream[l], m) = 1..(Len(stream[l]) + 1)
          /\ DOMAIN stream[l] = 1..Len(stream[l]) /\ Len(stream[l]) \in Nat
          /\ Append(stream[l], m)[Len(stream[l]) + 1] = m
          /\ \A j \in 1..Len(stream[l]) : Append(stream[l], m)[j] = stream[l][j]
      BY <1>1, <1>2
    <3> HIDE DEF m
    <3>2. k = Len(stream[l]) + 1 \/ k \in 1..Len(stream[l])
      BY <2>3, <3>1
    <3>3. stream'[l][k] = m \/ (k \in DOMAIN stream[l] /\ stream'[l][k] = stream[l][k])
      BY <2>3, <3>1, <3>2
    <3> QED
      BY <1>4, <3>3 DEF m
  <2> QED
    BY <2>1, <2>2, <2>3
<1> QED
  BY <1>3, <1>4 DEF Writes

LEMMA WritesAgree ==
  ASSUME IInv, NEW d \in Devices, NEW s \in Sessions, NEW e \in Event, NEW kept,
         Writes(d, s, e, kept)
  PROVE  LogsAgree' /\ InFlight'
<1>1. LogsAgree'
  <2> SUFFICES ASSUME NEW c \in Devices, NEW x \in Sessions
               PROVE  Log!Beginning(log'[c][x], written'[x])
    BY DEF LogsAgree
  <2>1. /\ log[c][x] \in Seq(Event) /\ written[x] \in Seq(Event)
        /\ Log!Beginning(log[c][x], written[x])
    BY TypeFacts DEF IInv, LogsAgree
  <2>2. CASE c = d /\ x = s
    <3>1. log'[c][x] = kept /\ written'[x] = Append(written[s], e)
      BY <2>2, WritesFacts
    <3>2. kept = Append(written[s], e) \/ kept = <<>>
      BY DEF Writes
    <3>3. Append(written[s], e) \in Seq(Event)
      BY WritesFacts
    <3> QED
      BY <3>1, <3>2, <3>3, BeginningRefl
  <2>3. CASE c # d \/ x # s
    <3>1. log'[c][x] = log[c][x]
      BY <2>3, WritesFacts
    <3>2. written'[x] = written[x] \/ written'[x] = Append(written[x], e)
      BY WritesFacts
    <3> QED
      BY <2>1, <3>1, <3>2, BeginningGrows
  <2> QED
    BY <2>2, <2>3
<1>2. InFlight'
  <2>1. \A x \in Sessions : written[x] \in Seq(Event) /\ rows[x] \in Seq(Event)
    BY TypeFacts DEF IInv
  <2>2. ASSUME NEW l \in Loops, NEW x \in Sessions
        PROVE  Log!Beginning(history'[l][x], written'[x])
    <3>1. history[l][x] \in Seq(Event) /\ Log!Beginning(history[l][x], written[x])
      BY TypeFacts DEF IInv, InFlight
    <3>2. written'[x] = written[x] \/ written'[x] = Append(written[x], e)
      BY WritesFacts
    <3>3. Log!Beginning(history[l][x], Append(written[x], e))
      BY <2>1, <3>1, BeginningGrows
    <3>4. history'[l][x] = history[l][x]
      BY DEF Writes
    <3> QED
      BY <3>1, <3>2, <3>3, <3>4
  <2>3. ASSUME NEW x \in Sessions PROVE Log!Beginning(rows'[x], written'[x])
    <3>1. Log!Beginning(rows[x], written[x])
      BY DEF IInv, InFlight
    <3>2. written'[x] = written[x] \/ written'[x] = Append(written[x], e)
      BY WritesFacts
    <3>3. rows'[x] = rows[x] \/ (x = s /\ rows'[x] = Append(written[s], e))
      BY DEF Writes, restoreVars, IInv, TypeOK
    <3>4. Log!Beginning(rows[x], Append(written[x], e))
      BY <2>1, <3>1, BeginningGrows
    <3>5. CASE rows'[x] = rows[x]
      BY <3>1, <3>2, <3>4, <3>5
    <3>6. CASE x = s /\ rows'[x] = Append(written[s], e)
      <4>1. written'[x] = Append(written[s], e) /\ Append(written[s], e) \in Seq(Event)
        BY <3>6, WritesFacts
      <4> QED
        BY <3>6, <4>1, BeginningRefl
    <3> QED
      BY <3>3, <3>5, <3>6
  <2>4. ASSUME NEW l \in Loops, NEW k \in DOMAIN stream'[l]
        PROVE  /\ stream'[l][k].i \in DOMAIN written'[stream'[l][k].s]
               /\ written'[stream'[l][k].s][stream'[l][k].i] = stream'[l][k].e
    <3> DEFINE m == [s |-> s, i |-> Len(log[Workspace][s]) + 1, e |-> e]
    <3>1. CASE k \in DOMAIN stream[l] /\ stream'[l][k] = stream[l][k]
      <4>1. stream[l][k] \in Message
        BY <3>1, TypeFacts, ElementOfSeq, LenProperties DEF IInv
      <4>2. stream[l][k].s \in Sessions
        BY <4>1 DEF Message
      <4>3. /\ stream[l][k].i \in DOMAIN written[stream[l][k].s]
            /\ written[stream[l][k].s][stream[l][k].i] = stream[l][k].e
        BY <3>1 DEF IInv, InFlight
      <4>4. Log!Beginning(written[stream[l][k].s], written'[stream[l][k].s])
        BY <4>2, WritesFacts
      <4>5. /\ DOMAIN written[stream[l][k].s] = 1..Len(written[stream[l][k].s])
            /\ DOMAIN written'[stream[l][k].s] = 1..Len(written'[stream[l][k].s])
            /\ Len(written[stream[l][k].s]) \in Nat /\ Len(written'[stream[l][k].s]) \in Nat
        BY <2>1, <4>2, WritesFacts, LenProperties
      <4> QED
        BY <3>1, <4>3, <4>4, <4>5 DEF Log!Beginning
    <3>2. CASE stream'[l][k] = m /\ d = Workspace
      <4>1. m.s = s /\ m.e = e /\ m.i = Len(written[s]) + 1
        BY <3>2 DEF Writes
      <4>2. written[s] \in Seq(Event)
        BY <2>1
      <4>3. /\ Len(written[s]) + 1 \in DOMAIN Append(written[s], e)
            /\ Append(written[s], e)[Len(written[s]) + 1] = e
        BY <4>2
      <4> QED
        BY <3>2, <4>1, <4>3, WritesFacts
    <3>3. \/ k \in DOMAIN stream[l] /\ stream'[l][k] = stream[l][k]
          \/ stream'[l][k] = m /\ d = Workspace
      BY WritesStream
    <3> QED
      BY <3>1, <3>2, <3>3
  <2> QED
    BY <2>2, <2>3, <2>4 DEF InFlight
<1> QED
  BY <1>1, <1>2

\* Such a step disturbs no other session.
LEMMA WritesOthers ==
  ASSUME IInv, NEW d \in Devices, NEW s \in Sessions, NEW e \in Event, NEW kept,
         Writes(d, s, e, kept), NEW x \in Sessions \ {s}
  PROVE  Private(x)' /\ HandingOver(x)' /\ Whole(x)'
<1>1. /\ written'[x] = written[x] /\ \A c \in Devices : log'[c][x] = log[c][x]
      /\ Control \in Devices /\ Workspace \in Devices
  BY WritesFacts DEF Devices
<1>2. restore'[x] = restore[x] /\ rows'[x] = rows[x] /\ sent'[x] = sent[x]
  <2>1. /\ restore \in [Sessions -> {"no", "sending", "failed", "done"}]
        /\ rows \in [Sessions -> Seq(Event)] /\ sent \in [Sessions -> Nat]
    BY DEF IInv, TypeOK
  <2> QED
    BY <2>1 DEF Writes, restoreVars
<1>3. history' = history /\ space' = space
  BY DEF Writes
<1>4. ASSUME NEW l \in Loops, \A k \in DOMAIN stream[l] : stream[l][k].s # x
      PROVE  \A k \in DOMAIN stream'[l] : stream'[l][k].s # x
  <2> SUFFICES ASSUME NEW k \in DOMAIN stream'[l] PROVE stream'[l][k].s # x
    OBVIOUS
  <2>1. (k \in DOMAIN stream[l] /\ stream'[l][k] = stream[l][k]) \/ stream'[l][k].s = s
    <3>1. \/ k \in DOMAIN stream[l] /\ stream'[l][k] = stream[l][k]
          \/ /\ d = Workspace /\ stream'[l][k].s = s
             /\ stream'[l][k] = [s |-> s, i |-> Len(log[Workspace][s]) + 1, e |-> e]
      BY WritesStream
    <3> QED
      BY <3>1
  <2> QED
    BY <1>4, <2>1
<1>5. Private(x)'
  BY <1>1, <1>2, <1>3, <1>4 DEF Private, IInv
<1>6. HandingOver(x)'
  BY <1>1, <1>2, <1>3 DEF HandingOver, IInv
<1>7. Whole(x)'
  BY <1>1, <1>2 DEF Whole, IInv
<1> QED
  BY <1>5, <1>6, <1>7

\* Nor a request that it leaves alone.
LEMMA WritesFenced ==
  ASSUME IInv, NEW d \in Devices, NEW s \in Sessions, NEW e \in Event, NEW kept,
         Writes(d, s, e, kept), NEW r \in Requests,
         request'[r] = request[r], fence'[r] = fence[r]
  PROVE  Fenced(r)'
<1> DEFINE x == Session[r]
<1>1. x \in Sessions /\ Control \in Devices /\ Workspace # Control
  BY SyncAssumption DEF SyncAssumption, Devices, Control, Workspace
<1>2. /\ log[Control][x] \in Seq(Event) /\ log'[Control][x] \in Seq(Event)
      /\ written[x] \in Seq(Event) /\ written'[x] \in Seq(Event) /\ fence[r] \in Nat
  <2>1. /\ log[Control][x] \in Seq(Event) /\ written[x] \in Seq(Event) /\ fence[r] \in Nat
    BY <1>1, TypeFacts DEF IInv
  <2>2. written'[x] \in {written[x], Append(written[s], e)}
    BY <1>1, WritesFacts
  <2>3. log'[Control][x] \in {log[Control][x], kept}
    BY <1>1, WritesFacts
  <2>4. kept \in Seq(Event) /\ Append(written[s], e) \in Seq(Event)
    BY WritesFacts
  <2> QED
    BY <2>1, <2>2, <2>3, <2>4
<1>3. Len(written[x]) <= Len(written'[x])
  BY <1>1, WritesFacts DEF Log!Beginning
<1>4. Len(log[Control][x]) <= Len(log'[Control][x])
  <2>1. CASE d = Control /\ x = s
    <3>1. kept = Append(written[s], e) /\ log[Control][x] = written[s]
      BY <1>1, <2>1 DEF Writes
    <3>2. log'[Control][x] = Append(written[s], e)
      <4>1. log'[d][s] = kept
        BY WritesFacts
      <4> QED
        BY <2>1, <3>1, <4>1
    <3>3. Len(Append(written[s], e)) = Len(written[s]) + 1 /\ Len(written[s]) \in Nat
      BY <1>2, <3>1, WritesFacts, LenProperties
    <3> QED
      BY <3>1, <3>2, <3>3
  <2>2. CASE d # Control \/ x # s
    <3>1. log'[Control][x] = log[Control][x]
      BY <1>1, <2>2, WritesFacts
    <3> QED
      BY <1>2, <3>1, LenProperties
  <2> QED
    BY <2>1, <2>2
<1>5. restore[x] # "no" => restore'[x] # "no"
  BY <1>1 DEF Writes, restoreVars, IInv, TypeOK
<1>6. written[x] # <<>> => written'[x] # <<>> /\ written'[x][1] = written[x][1]
  <2>1. CASE x = s
    <3>1. Len(written'[x]) = Len(written[x]) + 1 /\ Len(written[x]) \in Nat
      BY <1>2, <2>1, WritesFacts, LenProperties
    <3>2. written'[x] # <<>>
      BY <1>2, <3>1, EmptySeq
    <3> QED
      BY <2>1, <3>2, WritesFacts
  <2>2. CASE x # s
    BY <1>1, <2>2, WritesFacts
  <2> QED
    BY <2>1, <2>2
<1>7. space' = space
  BY DEF Writes
<1>8. /\ Len(written[x]) \in Nat /\ Len(written'[x]) \in Nat
      /\ Len(log[Control][x]) \in Nat /\ Len(log'[Control][x]) \in Nat
  BY <1>2, LenProperties
<1>9. Fenced(r)
  BY DEF IInv
<1>10. /\ fence[r] <= Len(written[x]) => fence[r] <= Len(written'[x])
       /\ fence[r] <= Len(log[Control][x]) => fence[r] <= Len(log'[Control][x])
  BY <1>2, <1>3, <1>4, <1>8
<1> HIDE DEF x
<1> QED
  BY <1>5, <1>6, <1>7, <1>9, <1>10 DEF Fenced, x

\* Such a step keeps the invariant, if it does so for the session it is about
\* and the requests it moves.
LEMMA WritesKeep ==
  ASSUME IInv, TypeOK', NEW d \in Devices, NEW s \in Sessions, NEW e \in Event, NEW kept,
         Writes(d, s, e, kept),
         Private(s)', HandingOver(s)', Whole(s)',
         \A r \in Requests : (request'[r] = request[r] /\ fence'[r] = fence[r]) \/ Fenced(r)'
  PROVE  IInv'
<1>1. \A x \in Sessions : Private(x)' /\ HandingOver(x)' /\ Whole(x)'
  BY WritesOthers
<1>2. \A r \in Requests : Fenced(r)'
  BY WritesFenced
<1> QED
  BY <1>1, <1>2, WritesAgree DEF IInv

\* The first event of a session.
LEMMA CreateKeeps ==
  ASSUME IInv, TypeOK', NEW s \in Sessions, CreateHere(s) \/ CreateThere(s)
  PROVE  IInv'
<1>1. /\ written[s] = <<>> /\ restore[s] = "no"
      /\ written \in [Sessions -> Seq(Event)] /\ log \in [Devices -> [Sessions -> Seq(Event)]]
      /\ Control \in Devices /\ Workspace \in Devices /\ Control # Workspace
  BY DEF CreateHere, CreateThere, IInv, HandingOver, TypeOK, Devices, Control, Workspace
<1>2. \A d \in Devices : log[d][s] = <<>>
  <2>1. \A d \in Devices : Log!Beginning(log[d][s], <<>>) /\ log[d][s] \in Seq(Event)
    BY <1>1 DEF IInv, LogsAgree
  <2>2. Len(<<>>) = 0 /\ <<>> \in Seq(Event)
    OBVIOUS
  <2> QED
    BY <2>1, <2>2, BeginningEqual, LenProperties DEF Log!Beginning
<1>3. /\ \A l \in Loops : history[l][s] = <<>>
      /\ \A l \in Loops : \A k \in DOMAIN stream[l] : stream[l][k].s # s
  <2>1. \A l \in Loops : Log!Beginning(history[l][s], <<>>) /\ history[l][s] \in Seq(Event)
    BY <1>1, TypeFacts DEF IInv, InFlight
  <2>2. Len(<<>>) = 0 /\ <<>> \in Seq(Event) /\ DOMAIN <<>> = {}
    OBVIOUS
  <2>3. \A l \in Loops : history[l][s] = <<>>
    BY <2>1, <2>2, BeginningEqual, LenProperties DEF Log!Beginning
  <2> QED
    BY <1>1, <2>2, <2>3 DEF IInv, InFlight
<1>4. restore' = restore /\ UNCHANGED <<request, fence, history>>
  BY DEF CreateHere, CreateThere, restoreVars, requestVars, loopVars
<1>5. CASE CreateHere(s)
  <2> DEFINE e == E("created", Control)
  <2>1. e \in Event /\ e.by = Control
    BY <1>1, Events DEF E
  <2> HIDE DEF e
  <2>2. Append(written[s], e) = <<e>> /\ <<e>>[1] = e
    BY <1>1
  <2>3. Writes(Control, s, e, Append(written[s], e))
    BY <1>1, <1>2, <1>5 DEF CreateHere, Run, Writes, loopVars, restoreVars, spaceVars, e
  <2>4. /\ written'[s] = <<e>> /\ log'[Control][s] = <<e>> /\ log'[Workspace][s] = <<>>
    BY <1>1, <1>2, <2>1, <2>2, <2>3, WritesFacts
  <2>5. stream' = stream
    BY <1>5 DEF CreateHere, loopVars
  <2>6. Private(s)' /\ HandingOver(s)' /\ Whole(s)'
    BY <1>1, <1>3, <1>4, <2>4, <2>5 DEF Private, HandingOver, Whole
  <2> QED
    BY <1>1, <1>4, <2>1, <2>3, <2>6, WritesKeep
<1>6. CASE CreateThere(s)
  <2> DEFINE e == E("created", Workspace)
  <2>1. e \in Event /\ e.by = Workspace
    BY <1>1, Events DEF E
  <2> HIDE DEF e
  <2>2. Append(written[s], e) = <<e>> /\ <<e>>[1] = e
    BY <1>1
  <2>3. Writes(Workspace, s, e, Append(written[s], e))
    BY <1>1, <1>2, <1>6 DEF CreateThere, Run, Writes, restoreVars, spaceVars, e
  <2>4. /\ written'[s] = <<e>> /\ log'[Workspace][s] = <<e>>
    BY <1>1, <1>2, <2>1, <2>2, <2>3, WritesFacts
  <2>5. Private(s)' /\ HandingOver(s)' /\ Whole(s)'
    BY <1>1, <1>4, <2>1, <2>2, <2>4 DEF Private, HandingOver, Whole
  <2> QED
    BY <1>1, <1>4, <2>1, <2>3, <2>5, WritesKeep
<1> QED
  BY <1>5, <1>6

\* The control server changes a session of its own, or moves it to the workspace.
LEMMA HereKeeps ==
  ASSUME IInv, TypeOK', OneWriter, NEW s \in Sessions, EditHere(s) \/ BeginRestore(s)
  PROVE  IInv'
<1>1. /\ Control \in Devices /\ Workspace \in Devices /\ Control # Workspace
      /\ written[s] \in Seq(Event) /\ log \in [Devices -> [Sessions -> Seq(Event)]]
  BY DEF Devices, Control, Workspace, IInv, TypeOK
<1>2. UNCHANGED <<request, fence>>
  BY DEF EditHere, BeginRestore, requestVars
<1>3. CASE EditHere(s)
  <2> DEFINE e == E("edit", Control)
  <2>1. e \in Event
    BY <1>1, Events
  <2> HIDE DEF e
  <2>2. /\ restore[s] = "no" /\ Row(log[Control][s]) = "here"
        /\ log[Control][s] = written[s] /\ written[s] # <<>> /\ written[s][1].by = Control
    BY <1>3, HereIsOwn DEF EditHere, ControlWrites
  <2>3. Writes(Control, s, e, Append(written[s], e))
    BY <1>1, <1>3, <2>2 DEF EditHere, Run, Writes, loopVars, restoreVars, spaceVars, e
  <2>4. /\ written'[s] = Append(written[s], e) /\ log'[Control][s] = written'[s]
        /\ log'[Workspace] = log[Workspace]
    <3> DEFINE kept == Append(written[s], e)
    <3>1. Writes(Control, s, e, kept)
      BY <2>3
    <3> HIDE DEF kept
    <3>2. /\ written'[s] = Append(written[s], e) /\ log'[Control][s] = kept
          /\ \A c \in Devices \ {Control} : log'[c] = log[c]
      BY <1>1, <2>1, <3>1, WritesFacts
    <3> QED
      BY <1>1, <3>2 DEF kept
  <2>5. restore' = restore /\ stream' = stream /\ history' = history
    BY <1>3 DEF EditHere, loopVars, restoreVars
  <2>6. Private(s)' /\ HandingOver(s)' /\ Whole(s)'
    BY <2>2, <2>4, <2>5 DEF Private, HandingOver, Whole, IInv
  <2> QED
    BY <1>1, <1>2, <2>1, <2>3, <2>6, WritesKeep
<1>4. CASE BeginRestore(s)
  <2> DEFINE e == E("moved", Control)
  <2>1. e \in Event
    BY <1>1, Events
  <2> HIDE DEF e
  <2>2. log[Control][s] = written[s]
    <3>1. CASE restore[s] = "no" /\ Row(log[Control][s]) = "here"
      BY <3>1, HereIsOwn
    <3>2. CASE restore[s] = "failed" /\ space = "up"
      BY <3>2 DEF IInv, HandingOver
    <3> QED
      BY <1>4, <3>1, <3>2 DEF BeginRestore
  <2>3. log'[Control][s] = Append(written[s], e)
    BY <1>1, <1>4, <2>2 DEF BeginRestore, Run, e
  <2>4. Writes(Control, s, e, Append(written[s], e))
    BY <1>1, <1>4, <2>2, <2>3 DEF BeginRestore, Run, Writes, loopVars, spaceVars, e
  <2>5. /\ written'[s] = Append(written[s], e) /\ written'[s] # <<>>
        /\ log'[Workspace][s] \in Seq(Event)
    <3> DEFINE kept == Append(written[s], e)
    <3>1. Writes(Control, s, e, kept)
      BY <2>4
    <3> HIDE DEF kept
    <3>2. /\ written'[s] = Append(written[s], e) /\ Append(written[s], e) \in Seq(Event)
          /\ Len(Append(written[s], e)) = Len(written[s]) + 1
          /\ \A c \in Devices \ {Control} : log'[c] = log[c]
      BY <1>1, <2>1, <3>1, WritesFacts
    <3>3. Len(written[s]) \in Nat /\ log[Workspace][s] \in Seq(Event)
      BY <1>1, LenProperties
    <3>4. written'[s] # <<>>
      BY <3>2, <3>3, EmptySeq
    <3> QED
      BY <1>1, <3>2, <3>3, <3>4
  <2>6. restore'[s] = "sending" /\ rows'[s] = log'[Control][s] /\ sent'[s] = 0
    BY <1>4 DEF BeginRestore, IInv, TypeOK
  <2>7. Private(s)' /\ HandingOver(s)' /\ Whole(s)'
    BY <2>3, <2>5, <2>6, LenProperties DEF Private, HandingOver, Whole
  <2> QED
    BY <1>1, <1>2, <2>1, <2>4, <2>7, WritesKeep
<1> QED
  BY <1>3, <1>4

\* The workspace changes a session it has been given, or one of its own; an
\* event that removes it makes it forget the session.
LEMMA ThereKeeps ==
  ASSUME IInv, TypeOK', OneWriter, NEW s \in Sessions, NEW e \in Event, NEW kept,
         WorkspaceWrites(s), kept \in {<<>>, Append(written[s], e)},
         written' = [written EXCEPT ![s] = Append(written[s], e)],
         log' = [log EXCEPT ![Workspace][s] = kept],
         Publish(s, e),
         UNCHANGED <<history, space, restoreVars>>,
         \A r \in Requests :
           \/ request'[r] = request[r] /\ fence'[r] = fence[r]
           \/ Session[r] = s /\ request'[r] = "answered" /\ fence'[r] = Len(kept)
  PROVE  IInv'
<1>1. /\ Workspace \in Devices /\ written[s] \in Seq(Event)
  BY DEF Devices, IInv, TypeOK
<1>2. /\ log[Workspace][s] = written[s] /\ written[s] # <<>>
      /\ restore[s] = "done" \/ (restore[s] = "no" /\ written[s][1].by = Workspace)
  BY ThereIsOwn
<1>3. Writes(Workspace, s, e, kept)
  BY <1>2 DEF Writes
<1>4. /\ kept \in Seq(Event) /\ Append(written[s], e) \in Seq(Event)
      /\ Len(Append(written[s], e)) = Len(written[s]) + 1
      /\ written'[s] = Append(written[s], e) /\ log'[Workspace][s] = kept
      /\ written'[s][1] = written[s][1]
  BY <1>1, <1>2, <1>3, WritesFacts
<1>5. restore' = restore /\ written'[s] # <<>> /\ Len(kept) <= Len(written'[s])
  <2>1. Len(written[s]) \in Nat /\ Len(<<>>) = 0
    BY <1>1, LenProperties
  <2> QED
    BY <1>4, <2>1, EmptySeq DEF restoreVars
<1>6. Private(s)' /\ HandingOver(s)' /\ Whole(s)'
  <2>1. Private(s)'
    BY <1>2, <1>4, <1>5 DEF Private, Control, Workspace
  <2>2. HandingOver(s)' /\ Whole(s)'
    BY <1>2, <1>4, <1>5 DEF HandingOver, Whole
  <2> QED
    BY <2>1, <2>2
<1>7. ASSUME NEW r \in Requests, Session[r] = s, request'[r] = "answered", fence'[r] = Len(kept)
      PROVE  Fenced(r)'
  BY <1>2, <1>4, <1>5, <1>7 DEF Fenced
<1> QED
  BY <1>1, <1>3, <1>6, <1>7, WritesKeep

LEMMA EditThereKeeps ==
  ASSUME IInv, TypeOK', OneWriter, NEW s \in Sessions, EditThere(s)
  PROVE  IInv'
<1> DEFINE e == E("edit", Workspace)
           kept == Append(written[s], e)
<1>1. e \in Event
  BY Events DEF Devices
<1>2. WorkspaceWrites(s)
  BY DEF EditThere
<1>3. log[Workspace][s] = written[s]
  BY <1>2, ThereIsOwn
<1>4. /\ written' = [written EXCEPT ![s] = kept] /\ log' = [log EXCEPT ![Workspace][s] = kept]
  BY <1>3 DEF EditThere, Run, IInv, TypeOK, Devices
<1>5. Publish(s, e) /\ UNCHANGED <<history, space, restoreVars, request, fence>>
  BY DEF EditThere, requestVars, spaceVars
<1> HIDE DEF e
<1> QED
  BY <1>1, <1>2, <1>4, <1>5, ThereKeeps

LEMMA ForwardKeeps ==
  ASSUME IInv, TypeOK', OneWriter, NEW r \in Requests, Forward(r)
  PROVE  IInv'
<1> DEFINE s == Session[r]
           e == E(IF r \in Deletes THEN "deleted" ELSE "edit", Workspace)
           kept == IF r \in Deletes THEN <<>> ELSE Append(written[s], e)
<1>1. e \in Event /\ s \in Sessions
  BY Events, SyncAssumption DEF Devices, SyncAssumption
<1>2. WorkspaceWrites(s)
  BY DEF Forward
<1>3. log[Workspace][s] = written[s]
  BY <1>1, <1>2, ThereIsOwn
<1>4. /\ written' = [written EXCEPT ![s] = Append(written[s], e)]
      /\ log' = [log EXCEPT ![Workspace][s] = kept]
  BY <1>3 DEF Forward
<1>5. /\ Publish(s, e) /\ UNCHANGED <<history, space, restoreVars>>
      /\ request' = [request EXCEPT ![r] = "answered"]
      /\ fence' = [fence EXCEPT ![r] = Len(log'[Workspace][s])]
  BY DEF Forward, spaceVars, Reached
<1>6. kept \in {<<>>, Append(written[s], e)}
  OBVIOUS
<1> HIDE DEF e, kept
<1>7. log'[Workspace][s] = kept
  BY <1>1, <1>4 DEF IInv, TypeOK, Devices
<1>8. \A x \in Requests :
        \/ request'[x] = request[x] /\ fence'[x] = fence[x]
        \/ Session[x] = s /\ request'[x] = "answered" /\ fence'[x] = Len(kept)
  BY <1>5, <1>7 DEF IInv, TypeOK
<1> HIDE DEF s
<1> QED
  BY <1>1, <1>2, <1>4, <1>5, <1>6, <1>8, ThereKeeps

\* A step that lets the control server forget a session.
LEMMA ForgetKeeps ==
  ASSUME IInv, TypeOK', NEW s \in Sessions, RemoveHere(s) \/ RemoveSession(s),
         OneWriter
  PROVE  IInv'
<1>1. /\ UNCHANGED <<written, stream, history, restore, rows, sent, request, fence, space>>
      /\ log'[Workspace] = log[Workspace]
      /\ \A x \in Sessions : log'[Control][x] \in {log[Control][x], <<>>}
      /\ \A x \in Sessions \ {s} : log'[Control][x] = log[Control][x]
  <2>1. log \in [Devices -> [Sessions -> Seq(Event)]] /\ Control # Workspace
        /\ Control \in Devices /\ Workspace \in Devices
    BY DEF IInv, TypeOK, Control, Workspace, Devices
  <2> QED
    BY <2>1 DEF RemoveHere, RemoveSession, loopVars, restoreVars, requestVars, spaceVars
<1>2. \A x \in Sessions : Log!Beginning(<<>>, written[x])
  BY TypeFacts, BeginningRefl DEF IInv
<1>3. LogsAgree' /\ InFlight'
  BY <1>1, <1>2 DEF IInv, LogsAgree, InFlight, Devices
<1>4. restore[s] = "no" \/ space # "up"
  BY DEF RemoveHere, RemoveSession
<1>5. ASSUME NEW x \in Sessions PROVE Private(x)' /\ HandingOver(x)' /\ Whole(x)'
  BY <1>1, <1>4 DEF IInv, Private, HandingOver, Whole
<1>6. ASSUME NEW r \in Requests PROVE Fenced(r)'
  <2>1. Session[r] \in Sessions
    BY SyncAssumption DEF SyncAssumption
  <2>2. CASE space # "up"
    BY <1>1, <2>2 DEF IInv, Fenced
  <2>3. CASE Session[r] # s
    BY <1>1, <2>1, <2>3 DEF IInv, Fenced
  <2>4. CASE Session[r] = s /\ RemoveHere(s)
    <3>1. restore[s] = "no" /\ Row(log[Control][s]) = "here"
      BY <2>4 DEF RemoveHere
    <3>2. written[s][1].by = Control
      BY <3>1, HereIsOwn
    <3>3. request[r] = "new"
      BY <2>4, <3>1, <3>2 DEF IInv, Fenced, Control, Workspace
    <3> QED
      BY <1>1, <3>3 DEF Fenced
  <2> QED
    BY <2>2, <2>3, <2>4 DEF RemoveSession
<1> QED
  BY <1>3, <1>5, <1>6 DEF IInv

\* A batch reaches the workspace, or does not.
LEMMA PostKeeps ==
  ASSUME IInv, TypeOK', NEW s \in Sessions, PostBatch(s) \/ PostFails(s)
  PROVE  IInv'
<1> DEFINE new == ReplayAll(log[Workspace][s], rows[s], sent[s] + 1, BatchEnd(s))
<1>1. /\ restore[s] = "sending" /\ rows[s] = written[s] /\ sent[s] <= Len(log[Workspace][s])
      /\ log[Workspace][s] \in Seq(Event) /\ written[s] \in Seq(Event) /\ sent[s] \in Nat
      /\ log \in [Devices -> [Sessions -> Seq(Event)]]
      /\ Control \in Devices /\ Workspace \in Devices /\ Control # Workspace
      /\ Log!Beginning(log[Workspace][s], written[s])
      /\ restore \in [Sessions -> {"no", "sending", "failed", "done"}]
      /\ sent \in [Sessions -> Nat]
  <2>1. restore[s] = "sending" /\ Workspace \in Devices
    BY DEF PostBatch, PostFails, Devices
  <2> QED
    BY <2>1, TypeFacts DEF IInv, HandingOver, TypeOK, LogsAgree, Control, Workspace
<1>2. /\ BatchEnd(s) \in Nat /\ BatchEnd(s) <= Len(written[s])
      /\ sent[s] + 1 \in Nat \ {0} /\ Len(written[s]) \in Nat /\ Len(log[Workspace][s]) \in Nat
  BY <1>1, BatchFacts, SyncAssumption, LenProperties DEF SyncAssumption, BatchEnd, IInv
<1> HIDE DEF new
<1>3. /\ new \in Seq(Event) /\ Log!Beginning(new, written[s])
      /\ Log!Beginning(log[Workspace][s], new)
      /\ BatchEnd(s) <= sent[s] \/ BatchEnd(s) <= Len(new)
  <2>1. /\ new \in Seq(Event) /\ Log!Beginning(log[Workspace][s], new)
        /\ \A t \in Seq(Event) : Log!Beginning(log[Workspace][s], t) /\ Log!Beginning(rows[s], t) =>
              Log!Beginning(new, t)
        /\ sent[s] + 1 <= Len(log[Workspace][s]) + 1 =>
              sent[s] + 1 > BatchEnd(s) \/ BatchEnd(s) <= Len(new)
    <3> DEFINE lo == sent[s] + 1
               hi == BatchEnd(s)
    <3>1. lo \in Nat \ {0} /\ hi \in Nat /\ hi <= Len(rows[s]) /\ rows[s] \in Seq(Event)
      BY <1>1, <1>2
    <3>2. new = ReplayAll(log[Workspace][s], rows[s], lo, hi)
      BY DEF new
    <3> HIDE DEF lo, hi
    <3>3. /\ new \in Seq(Event) /\ Log!Beginning(log[Workspace][s], new)
          /\ \A t \in Seq(Event) : Log!Beginning(log[Workspace][s], t) /\ Log!Beginning(rows[s], t) =>
                Log!Beginning(new, t)
          /\ lo <= Len(log[Workspace][s]) + 1 => lo > hi \/ hi <= Len(new)
      BY <1>1, <3>1, <3>2, ReplayAllKeeps
    <3> QED
      BY <3>3 DEF lo, hi
  <2>2. Log!Beginning(written[s], written[s])
    BY <1>1, BeginningRefl
  <2> QED
    BY <1>1, <1>2, <2>1, <2>2
<1>4. Len(new) \in Nat /\ Len(log[Workspace][s]) <= Len(new)
  BY <1>3, LenProperties DEF Log!Beginning
<1>5. /\ log'[Control] = log[Control]
      /\ \A x \in Sessions \ {s} : log'[Workspace][x] = log[Workspace][x]
      /\ log'[Workspace][s] \in {log[Workspace][s], new}
      /\ PostBatch(s) => log'[Workspace][s] = new
  BY <1>1 DEF PostBatch, PostFails, Posted, new
<1>6. /\ UNCHANGED <<written, rows, stream, history, request, fence, space>>
      /\ restore'[s] \in {"sending", "failed", "done"}
      /\ \A x \in Sessions \ {s} : restore'[x] = restore[x] /\ sent'[x] = sent[x]
  BY <1>1 DEF PostBatch, PostFails, loopVars, requestVars, spaceVars
<1>7. LogsAgree' /\ InFlight'
  <2>1. ASSUME NEW d \in Devices, NEW x \in Sessions PROVE Log!Beginning(log'[d][x], written'[x])
    BY <1>1, <1>3, <1>5, <1>6 DEF IInv, LogsAgree, Devices
  <2> QED
    BY <1>6, <2>1 DEF IInv, LogsAgree, InFlight
<1>8. ASSUME NEW x \in Sessions, x # s PROVE Private(x)' /\ HandingOver(x)' /\ Whole(x)'
  BY <1>5, <1>6, <1>8 DEF IInv, Private, HandingOver, Whole
<1>9. Private(s)'
  BY <1>6 DEF Private
<1>10. HandingOver(s)' /\ Whole(s)'
  <2>1. /\ restore'[s] # "no" => written'[s] # <<>>
        /\ restore'[s] \in {"sending", "failed"} /\ space' = "up" => log'[Control][s] = written'[s]
    BY <1>1, <1>5, <1>6 DEF IInv, HandingOver
  <2>2. CASE PostBatch(s)
    <3>1. /\ log'[Workspace][s] = new /\ sent'[s] = BatchEnd(s)
          /\ restore'[s] = IF BatchEnd(s) = Len(rows[s]) THEN "done" ELSE "sending"
      BY <1>1, <1>5, <2>2 DEF PostBatch
    <3>2. BatchEnd(s) <= Len(new)
      BY <1>1, <1>2, <1>3, <1>4
    <3>3. BatchEnd(s) = Len(written[s]) => new = written[s]
      BY <1>1, <1>3, <3>2, BeginningEqual
    <3>4. HandingOver(s)'
      BY <1>1, <1>6, <2>1, <3>1, <3>2 DEF HandingOver
    <3>5. Whole(s)'
      BY <1>1, <1>6, <3>1, <3>3 DEF Whole
    <3> QED
      BY <3>4, <3>5
  <2>3. CASE PostFails(s)
    <3>1. restore'[s] = "failed"
      BY <1>1, <2>3 DEF PostFails
    <3> QED
      BY <2>1, <3>1 DEF HandingOver, Whole
  <2> QED
    BY <2>2, <2>3
<1>11. ASSUME NEW r \in Requests PROVE Fenced(r)'
  <2>1. Session[r] \in Sessions
    BY SyncAssumption DEF SyncAssumption
  <2>2. restore[Session[r]] # "no" => restore'[Session[r]] # "no"
    BY <1>6, <2>1
  <2> QED
    BY <1>5, <1>6, <2>2 DEF IInv, Fenced
<1> QED
  BY <1>7, <1>8, <1>9, <1>10, <1>11 DEF IInv

\* Steps that move no event.
LEMMA QuietKeeps ==
  ASSUME IInv, TypeOK',
         \/ \E r \in Requests : Answer(r) \/ FenceTimesOut(r)
         \/ BeginRemove \/ StopSync \/ RemoveRow
         \/ UNCHANGED vars
  PROVE  IInv'
<1>1. /\ UNCHANGED <<log, written, stream, history, restore, rows, sent, fence>>
      /\ space' = "up" => space = "up"
  BY DEF Answer, FenceTimesOut, BeginRemove, StopSync, RemoveRow, vars, logs, loopVars,
         restoreVars, requestVars, spaceVars
<1>2. LogsAgree' /\ InFlight'
  BY <1>1 DEF IInv, LogsAgree, InFlight
<1>3. ASSUME NEW s \in Sessions PROVE Private(s)' /\ HandingOver(s)' /\ Whole(s)'
  BY <1>1 DEF IInv, Private, HandingOver, Whole
<1>4. ASSUME NEW r \in Requests PROVE Fenced(r)'
  <2>1. \/ request'[r] = request[r]
        \/ request[r] = "answered" /\ request'[r] = "timed out"
        \/ request[r] = "answered" /\ Synced(r)
    <3>1. CASE \E q \in Requests : Answer(q) \/ FenceTimesOut(q)
      <4>1. PICK q \in Requests : Answer(q) \/ FenceTimesOut(q)
        BY <3>1
      <4>2. CASE q = r
        BY <4>1, <4>2 DEF Answer, FenceTimesOut, IInv, TypeOK
      <4>3. CASE q # r
        BY <4>1, <4>3 DEF Answer, FenceTimesOut, IInv, TypeOK
      <4> QED
        BY <4>2, <4>3
    <3>2. CASE BeginRemove \/ StopSync \/ RemoveRow \/ UNCHANGED vars
      BY <3>2 DEF BeginRemove, StopSync, RemoveRow, vars, requestVars
    <3> QED
      BY <3>1, <3>2
  <2>2. /\ Session[r] \in Sessions /\ fence[r] \in Nat
        /\ Len(log[Control][Session[r]]) \in Nat
    BY TypeFacts, LenProperties, SyncAssumption DEF IInv, SyncAssumption
  <2>3. Fenced(r)
    BY DEF IInv
  <2>4. request'[r] # "new" => request[r] # "new"
    BY <2>1
  <2>5. request'[r] = "ok" => request[r] = "ok" \/ fence[r] <= Len(log[Control][Session[r]])
    BY <2>1, <2>2 DEF Synced
  <2> QED
    BY <1>1, <2>3, <2>4, <2>5 DEF Fenced
<1> QED
  BY <1>2, <1>3, <1>4 DEF IInv

LEMMA NextKeeps == IInv /\ OneWriter /\ [Next]_vars => IInv'
<1> SUFFICES ASSUME IInv, OneWriter, [Next]_vars PROVE IInv'
  OBVIOUS
<1>1. TypeOK'
  BY NextTyped, SyncAssumption DEF IInv
<1>2. CASE \E s \in Sessions :
       \/ CreateHere(s) \/ EditHere(s) \/ RemoveHere(s)
       \/ CreateThere(s) \/ EditThere(s)
       \/ BeginRestore(s) \/ PostBatch(s) \/ PostFails(s)
       \/ RemoveSession(s)
  BY <1>1, <1>2, CreateKeeps, HereKeeps, EditThereKeeps, PostKeeps, ForgetKeeps
<1>3. CASE \E l \in Loops : StartSync(l) \/ Loop(l) \/ ConnectFails(l) \/ Disconnected(l)
  BY <1>3, LoopKeeps
<1>4. CASE \E r \in Requests : Forward(r)
  BY <1>1, <1>4, ForwardKeeps
<1>5. CASE \/ \E r \in Requests : Answer(r) \/ FenceTimesOut(r)
           \/ BeginRemove \/ StopSync \/ RemoveRow \/ UNCHANGED vars
  BY <1>1, <1>5, QuietKeeps
<1> QED
  BY <1>2, <1>3, <1>4, <1>5 DEF Next

LEMMA Inductive == OneWriter /\ Spec => []IInv
<1> SUFFICES ASSUME OneWriter PROVE Spec => []IInv
  OBVIOUS
<1>1. Init => IInv
  BY InitIInv
<1>2. IInv /\ [Next]_vars => IInv'
  BY NextKeeps
<1> QED
  BY <1>1, <1>2, PTL DEF Spec

\* With one writer to a session, every device always holds the beginning of what
\* was written to it (sync/index.ts, control-plane/workspace.ts).
THEOREM Agreement == OneWriter /\ Spec => []LogsAgree
<1>1. IInv => LogsAgree
  BY DEF IInv
<1> QED
  BY <1>1, Inductive, PTL

\* A request that was answered, and not failed, has been copied whole: the fence
\* of server/fence.ts and waitForSync is enough, although it compares seqs only.
THEOREM ReadYourWrites == OneWriter /\ Spec => []FenceHolds
<1>1. IInv => FenceHolds
  <2> SUFFICES ASSUME IInv, NEW r \in Requests, request[r] = "ok", space = "up",
                      NEW i \in 1..fence[r]
               PROVE  /\ i \in DOMAIN log[Control][Session[r]]
                      /\ log[Control][Session[r]][i] = written[Session[r]][i]
    BY DEF FenceHolds
  <2>1. Session[r] \in Sessions
    BY SyncAssumption DEF SyncAssumption
  <2>2. /\ log[Control][Session[r]] \in Seq(Event) /\ fence[r] \in Nat
        /\ Log!Beginning(log[Control][Session[r]], written[Session[r]])
    BY <2>1, TypeFacts DEF IInv, LogsAgree
  <2>3. fence[r] <= Len(log[Control][Session[r]])
    BY DEF IInv, Fenced
  <2>4. i \in 1..Len(log[Control][Session[r]]) /\ Len(log[Control][Session[r]]) \in Nat
    BY <2>2, <2>3, LenProperties
  <2> QED
    BY <2>2, <2>4, LenProperties DEF Log!Beginning
<1> QED
  BY <1>1, Inductive, PTL

\* A restore that has ended well has left no event behind, whatever failed on
\* the way (sessionRestore).
THEOREM Handover == OneWriter /\ Spec => []HandedOver
<1>1. IInv => HandedOver
  <2> SUFFICES ASSUME IInv, NEW s \in Sessions, restore[s] = "done", log[Workspace][s] # <<>>
               PROVE  Log!Beginning(log[Control][s], log[Workspace][s])
    BY DEF HandedOver
  <2>1. log[Workspace][s] = written[s]
    BY DEF IInv, Whole
  <2> QED
    BY <2>1 DEF IInv, LogsAgree, Devices
<1> QED
  BY <1>1, Inductive, PTL

-----------------------------------------------------------------------------
(***************************************************************************)
(* The refinement                                                          *)
(***************************************************************************)

LEMMA RunIsWrite ==
  ASSUME NEW d \in Devices, NEW s \in Sessions, NEW e \in Event, NEW kept,
         TypeOK, log[d][s] = written[s],
         written' = [written EXCEPT ![s] = Append(written[s], e)],
         log' = [log EXCEPT ![d][s] = kept],
         kept \in {<<>>, Append(written[s], e)}
  PROVE  Log!Next
<1>1. written'[s] = Append(written[s], e)
  BY DEF TypeOK
<1>2. \E k \in {written'[s], <<>>} : log' = [log EXCEPT ![d][s] = k]
  BY <1>1
<1>3. \E x \in Event : written' = [written EXCEPT ![s] = Append(@, x)]
  OBVIOUS
<1>4. Log!Write(d, s)
  BY <1>2, <1>3 DEF Log!Write
<1> QED
  BY <1>4 DEF Log!Next

LEMMA CreateIsWrite ==
  ASSUME IInv, NEW s \in Sessions, CreateHere(s) \/ CreateThere(s)
  PROVE  Log!Next
<1>1. written[s] = <<>> /\ Control \in Devices /\ Workspace \in Devices
  BY DEF CreateHere, CreateThere, Devices
<1>2. \A d \in Devices : log[d][s] = written[s]
  <2>1. \A d \in Devices : Log!Beginning(log[d][s], <<>>) /\ log[d][s] \in Seq(Event)
    BY <1>1, TypeFacts DEF IInv, LogsAgree
  <2>2. Len(<<>>) = 0 /\ <<>> \in Seq(Event)
    OBVIOUS
  <2> QED
    BY <1>1, <2>1, <2>2, BeginningEqual, LenProperties DEF Log!Beginning
<1>3. ASSUME NEW d \in Devices, NEW e \in Event, Run(d, s, e) PROVE Log!Next
  <2>1. log' = [log EXCEPT ![d][s] = Append(written[s], e)]
    BY <1>2, <1>3 DEF Run, IInv, TypeOK
  <2> QED
    BY <1>2, <1>3, <2>1, RunIsWrite DEF Run, IInv
<1>4. E("created", Control) \in Event /\ E("created", Workspace) \in Event
  BY <1>1, Events
<1> QED
  BY <1>1, <1>3, <1>4 DEF CreateHere, CreateThere

LEMMA HereIsWrite ==
  ASSUME IInv, OneWriter, NEW s \in Sessions, EditHere(s) \/ BeginRestore(s)
  PROVE  Log!Next
<1>1. PICK e \in Event : Run(Control, s, e)
  BY Events DEF EditHere, BeginRestore, Devices
<1>2. log[Control][s] = written[s]
  <2>1. CASE restore[s] = "no" /\ Row(log[Control][s]) = "here"
    BY <2>1, HereIsOwn
  <2>2. CASE restore[s] = "failed" /\ space = "up"
    BY <2>2 DEF IInv, HandingOver
  <2> QED
    BY <2>1, <2>2 DEF EditHere, ControlWrites, BeginRestore
<1>3. log' = [log EXCEPT ![Control][s] = Append(written[s], e)]
  BY <1>1, <1>2 DEF Run, IInv, TypeOK, Devices
<1> QED
  BY <1>1, <1>2, <1>3, RunIsWrite DEF Run, IInv, Devices

LEMMA ThereIsWrite ==
  ASSUME IInv, OneWriter,
         \/ \E s \in Sessions : EditThere(s)
         \/ \E r \in Requests : Forward(r)
  PROVE  Log!Next
<1>1. CASE \E s \in Sessions : EditThere(s)
  <2>1. PICK s \in Sessions : EditThere(s)
    BY <1>1
  <2>2. PICK e \in Event : Run(Workspace, s, e)
    BY <2>1, Events DEF EditThere, Devices
  <2>3. log[Workspace][s] = written[s]
    BY <2>1, ThereIsOwn DEF EditThere
  <2>4. log' = [log EXCEPT ![Workspace][s] = Append(written[s], e)]
    BY <2>2, <2>3 DEF Run, IInv, TypeOK, Devices
  <2> QED
    BY <2>2, <2>3, <2>4, RunIsWrite DEF Run, IInv, Devices
<1>2. CASE \E r \in Requests : Forward(r)
  <2>1. PICK r \in Requests : Forward(r)
    BY <1>2
  <2> DEFINE s == Session[r]
             e == E(IF r \in Deletes THEN "deleted" ELSE "edit", Workspace)
  <2>2. s \in Sessions /\ e \in Event
    BY Events, SyncAssumption DEF SyncAssumption, Devices
  <2>3. log[Workspace][s] = written[s]
    BY <2>1, <2>2, ThereIsOwn DEF Forward
  <2>4. \E kept \in {<<>>, Append(written[s], e)} : log' = [log EXCEPT ![Workspace][s] = kept]
    BY <2>1, <2>3 DEF Forward
  <2>5. written' = [written EXCEPT ![s] = Append(written[s], e)]
    BY <2>1 DEF Forward
  <2> HIDE DEF s, e
  <2> QED
    BY <2>2, <2>3, <2>4, <2>5, RunIsWrite DEF IInv, Devices
<1> QED
  BY <1>1, <1>2

\* A step after which device d has more of some sessions and the other the same.
LEMMA MoreIsLearn ==
  ASSUME IInv, IInv', NEW d \in Devices, written' = written,
         \A other \in Devices \ {d} : log'[other] = log[other],
         \A s \in Sessions : Log!Beginning(log[d][s], log'[d][s])
  PROVE  Log!Next
<1>1. log' \in [Devices -> [Sessions -> Seq(Event)]]
  BY DEF IInv, TypeOK
<1>2. \A s \in Sessions : Log!Beginning(log'[d][s], written[s])
  BY DEF IInv, LogsAgree
<1>3. Log!Learn(d)
  BY <1>1, <1>2 DEF Log!Learn
<1> QED
  BY <1>3 DEF Log!Next

LEMMA LoopIsLearn ==
  ASSUME IInv, NEW l \in Loops,
         StartSync(l) \/ Loop(l) \/ ConnectFails(l) \/ Disconnected(l)
  PROVE  Log!Next \/ UNCHANGED <<written, log>>
<1>1. IInv' /\ Control \in Devices
  BY LoopKeeps DEF Devices
<1>2. written' = written
  BY DEF StartSync, Loop, Connecting, Connected, ReadHistory, ReplayHistory, Deliver, Wake,
         ConnectFails, Disconnected, logs
<1>3. ASSUME log'[Workspace] = log[Workspace],
             \A s \in Sessions : Log!Beginning(log[Control][s], log'[Control][s])
      PROVE  Log!Next
  BY <1>1, <1>2, <1>3, MoreIsLearn DEF Devices
<1>4. CASE ReplayHistory(l)
  <2>1. \A s \in Sessions : Len(history[l][s]) \in Nat /\ known[l][s] \in Nat
    BY TypeFacts, LenProperties DEF IInv
  <2>2. PICK upto \in [Sessions -> Nat] : Replayed(l, upto)
    <3>1. CASE Replayed(l, [s \in Sessions |-> Len(history[l][s])])
      BY <2>1, <3>1
    <3>2. ASSUME NEW s \in Sessions,
                 NEW upto \in [Sessions -> {known[l][s], known[l][s] + 1}], Replayed(l, upto)
          PROVE  \E u \in [Sessions -> Nat] : Replayed(l, u)
      <4>1. upto \in [Sessions -> Nat]
        BY <2>1
      <4> QED
        BY <3>2, <4>1
    <3> QED
      BY <1>4, <3>1, <3>2 DEF ReplayHistory, Gaps
  <2> QED
    BY <1>3, <2>2, HistoryKeeps
<1>5. CASE Deliver(l)
  BY <1>3, <1>5, DeliverKeeps
<1>6. CASE UNCHANGED log
  BY <1>2, <1>6
<1> QED
  BY <1>4, <1>5, <1>6 DEF StartSync, Loop, Connecting, Connected, ReadHistory, Wake,
     ConnectFails, Disconnected, logs

LEMMA PostIsLearn ==
  ASSUME IInv, NEW s \in Sessions, PostBatch(s) \/ PostFails(s)
  PROVE  Log!Next
<1>1. IInv' /\ Workspace \in Devices /\ Control # Workspace /\ written' = written
  <2>1. TypeOK'
    BY RestoreTyped, SyncAssumption DEF IInv
  <2> QED
    BY <2>1, PostKeeps DEF Devices, Control, Workspace, PostBatch, PostFails
<1> DEFINE lo == sent[s] + 1
           hi == BatchEnd(s)
           new == ReplayAll(log[Workspace][s], rows[s], lo, hi)
<1>2. /\ lo \in Nat \ {0} /\ hi \in Nat /\ hi <= Len(rows[s])
      /\ rows[s] \in Seq(Event) /\ log[Workspace][s] \in Seq(Event)
  BY <1>1, TypeFacts, BatchFacts, SyncAssumption DEF IInv, SyncAssumption, BatchEnd
<1> HIDE DEF lo, hi
<1>3. Log!Beginning(log[Workspace][s], new)
  BY <1>2, ReplayAllKeeps
<1>4. log' = [log EXCEPT ![Workspace][s] = new] \/ log' = log
  BY DEF PostBatch, PostFails, Posted, new, lo, hi, IInv, TypeOK
<1> HIDE DEF new
<1>5. /\ \A other \in Devices \ {Workspace} : log'[other] = log[other]
      /\ \A x \in Sessions : Log!Beginning(log[Workspace][x], log'[Workspace][x])
  <2>1. log \in [Devices -> [Sessions -> Seq(Event)]]
    BY DEF IInv, TypeOK
  <2>2. \A d \in Devices : log[d] \in [Sessions -> Seq(Event)]
    BY <2>1
  <2>3. \A x \in Sessions : Log!Beginning(log[Workspace][x], log[Workspace][x])
    BY <1>1, <2>2, BeginningRefl
  <2>4. CASE log' = log
    BY <2>3, <2>4
  <2>5. CASE log' = [log EXCEPT ![Workspace][s] = new]
    <3>1. \A other \in Devices \ {Workspace} : log'[other] = log[other]
      BY <1>1, <2>1, <2>5
    <3>2. log'[Workspace] = [log[Workspace] EXCEPT ![s] = new]
      BY <1>1, <2>1, <2>5
    <3>3. \A x \in Sessions : log'[Workspace][x] = IF x = s THEN new ELSE log[Workspace][x]
      BY <1>1, <2>2, <3>2
    <3>4. \A x \in Sessions : Log!Beginning(log[Workspace][x], log'[Workspace][x])
      BY <1>3, <2>3, <3>3
    <3> QED
      BY <3>1, <3>4
  <2> QED
    BY <1>4, <2>4, <2>5
<1> QED
  BY <1>1, <1>5, MoreIsLearn

LEMMA ForgetIsForget ==
  ASSUME IInv, NEW s \in Sessions, RemoveHere(s) \/ RemoveSession(s)
  PROVE  Log!Next \/ UNCHANGED <<written, log>>
<1>1. Control \in Devices /\ written' = written
  BY DEF Devices, RemoveHere, RemoveSession
<1>2. log' = [log EXCEPT ![Control][s] = <<>>] \/ log' = log
  <2>1. [log EXCEPT ![Control][s] = log[Control][s]] = log
    BY <1>1 DEF IInv, TypeOK
  <2>2. CASE Row(log[Control][s]) = "none" /\ RemoveSession(s)
    <3>1. log' = [log EXCEPT ![Control][s] = log[Control][s]]
      BY <1>1, <2>2 DEF RemoveSession, IInv, TypeOK
    <3> QED
      BY <2>1, <3>1
  <2>3. CASE Row(log[Control][s]) # "none" /\ RemoveSession(s)
    BY <1>1, <2>3 DEF RemoveSession, IInv, TypeOK
  <2>4. CASE RemoveHere(s)
    BY <2>4 DEF RemoveHere
  <2> QED
    BY <2>2, <2>3, <2>4
<1>3. CASE log' = [log EXCEPT ![Control][s] = <<>>]
  BY <1>1, <1>3 DEF Log!Forget, Log!Next
<1> QED
  BY <1>1, <1>2, <1>3

\* With one writer to a session, the two devices keep the promise of the event
\* log: each step writes, learns, forgets, or leaves the logs alone.
THEOREM Refinement == OneWriter /\ Spec => Replicates
<1> SUFFICES ASSUME OneWriter PROVE Spec => Log!Spec
  BY DEF Replicates
<1>1. Init => Log!Init
  BY DEF Init, Log!Init
<1>2. IInv /\ [Next]_vars => [Log!Next]_<<written, log>>
  <2> SUFFICES ASSUME IInv, [Next]_vars PROVE Log!Next \/ UNCHANGED <<written, log>>
    OBVIOUS
  <2>1. CASE \E s \in Sessions : CreateHere(s) \/ CreateThere(s)
    BY <2>1, CreateIsWrite
  <2>2. CASE \E s \in Sessions : EditHere(s) \/ BeginRestore(s)
    BY <2>2, HereIsWrite
  <2>3. CASE (\E s \in Sessions : EditThere(s)) \/ (\E r \in Requests : Forward(r))
    BY <2>3, ThereIsWrite
  <2>4. CASE \E s \in Sessions : PostBatch(s) \/ PostFails(s)
    BY <2>4, PostIsLearn
  <2>5. CASE \E s \in Sessions : RemoveHere(s) \/ RemoveSession(s)
    BY <2>5, ForgetIsForget
  <2>6. CASE \E l \in Loops : StartSync(l) \/ Loop(l) \/ ConnectFails(l) \/ Disconnected(l)
    BY <2>6, LoopIsLearn
  <2>7. CASE \/ \E r \in Requests : Answer(r) \/ FenceTimesOut(r)
             \/ BeginRemove \/ StopSync \/ RemoveRow \/ UNCHANGED vars
    BY <2>7 DEF Answer, FenceTimesOut, BeginRemove, StopSync, RemoveRow, vars, logs
  <2> QED
    BY <2>1, <2>2, <2>3, <2>4, <2>5, <2>6, <2>7 DEF Next
<1>3. Spec => []IInv
  BY Inductive
<1> QED
  BY <1>1, <1>2, <1>3, PTL DEF Spec, Log!Spec

=============================================================================
