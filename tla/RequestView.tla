----------------------------- MODULE RequestView -----------------------------
(* What a tool call of the agent asks the user, and how the desktop app      *)
(* comes to show it.                                                         *)
(*                                                                           *)
(* The server keeps the requests that wait for an answer in memory           *)
(* (permission/index.ts, question/index.ts), publishes "asked" and "replied" *)
(* on one stream of server-sent events, and lists what is pending on         *)
(* request.  The app (context/global-sdk.tsx, context/global-sync) follows   *)
(* the stream, reconnects to it when it breaks, and refetches the lists when *)
(* the stream tells it that it is connected again or that the instance was   *)
(* disposed; lists and stream travel separately and overtake each other.     *)
(* The composer (pages/session/composer) shows the first request it knows    *)
(* of, and auto-accept (context/permission.tsx) answers in the user's place. *)
(*                                                                           *)
(* A request is its position in the order the ids were drawn, and a pattern  *)
(* stands for all names a rule matches alike.                                *)
EXTENDS Naturals, FiniteSets, Sequences, SequencesExt

CONSTANTS N,            \* how many requests are asked
          Questions,    \* those asked by the question tool; the others ask a permission
          Sessions, SessionOf,   \* the session each request belongs to
          Patterns, PatternsOf,  \* what a permission request asks for
          AlwaysOf,     \* the patterns the rules of "always allow" would match
          Rule,         \* what the agent's own rules say of a pattern
          MaxFaults,    \* bound: how often the stream breaks, a call fails for good, the
                        \* instance is disposed, a session stopped or auto-accept switched on
          MaxFetches    \* bound: lists of a kind in flight at once

Requests == 1..N
Kind(r) == IF r \in Questions THEN "question" ELSE "permission"
Kinds == {Kind(r) : r \in Requests}
OfKind(k) == {r \in Requests : Kind(r) = k}

ASSUME RequestAssumption ==
    /\ N \in Nat /\ Questions \subseteq Requests
    /\ SessionOf \in [Requests -> Sessions]
    /\ PatternsOf \in [Requests -> SUBSET Patterns]
    /\ AlwaysOf \in [Requests -> SUBSET Patterns]
    /\ Rule \in [Patterns -> {"ask", "allow", "deny"}]

ASSUME BoundAssumption == MaxFaults \in Nat /\ MaxFetches \in Nat

VARIABLES
    asker,      \* the tool call behind each request; "refused" stands for a denial
                \* by rule, a rejection and an interruption alike
    pending,    \* server: the map of requests waiting for an answer
    approved,   \* server: the patterns "always" has allowed, in memory only
    disposing,  \* the state is gone and the event that says so is not out yet
    up,         \* the stream is connected
    wire,       \* events sent and not yet applied by the app
    view,       \* app: the requests in its store
    fetches,    \* app: list calls in flight, per kind
    refresh,    \* app: the directory is in the refresh queue
    recent,     \* app: less than 1500 ms since it booted
    auto,       \* app: auto-accept is on
    version,    \* app: enableVersion, bumped by every switch
    lists,      \* app: the list calls auto-accept started
    responded,  \* app: what auto-accept has answered
    replies,    \* answers on their way to the server
    faults,     \* what is left of MaxFaults
    lost,       \* history: requests whose last event was lost with the stream
    doubt       \* history: requests whose status the app cannot know, see Clouded

server == <<asker, pending, approved, disposing>>
store == <<view, fetches, refresh, recent>>
accept == <<auto, version, lists, responded>>
vars == <<server, up, wire, store, accept, replies, faults, lost, doubt>>

-----------------------------------------------------------------------------
Asked(r) == [type |-> "asked", req |-> r]
Replied(r) == [type |-> "replied", req |-> r]
Connected == [type |-> "connected", req |-> 0]
Disposed == [type |-> "disposed", req |-> 0]

Events ==
    {Connected, Disposed} \cup {Asked(r) : r \in Requests} \cup {Replied(r) : r \in Requests}
Fetch == [read : BOOLEAN, snap : SUBSET Requests, missed : SUBSET Requests]
ListCall == [version : Nat, read : BOOLEAN, snap : SUBSET Requests]
Reply == [req : Requests, by : {"user", "auto"}]

NoFetch == [read |-> FALSE, snap |-> {}, missed |-> {}]

(* The app boots: its first look at the directory is queued and the stream   *)
(* is not connected yet.                                                     *)
Init ==
    /\ asker = [r \in Requests |-> "none"]
    /\ pending = {} /\ approved = {} /\ disposing = FALSE
    /\ up = FALSE /\ wire = <<>>
    /\ view = {} /\ fetches = [k \in Kinds |-> <<>>]
    /\ refresh = TRUE /\ recent = TRUE
    /\ auto = FALSE /\ version = 0 /\ lists = <<>> /\ responded = {}
    /\ replies = {}
    /\ faults = MaxFaults
    /\ lost = {} /\ doubt = {}

-----------------------------------------------------------------------------
(* The server.                                                               *)

(* The status of the requests in `rs` changes and the events `es` tell it.   *)
(* An event published while no stream is connected is lost, a change without *)
(* an event is in doubt, and a list read before the change is out of date:   *)
(* `missed` remembers what it does not show.                                 *)
Publish(es, rs) ==
    LET told == {es[i].req : i \in DOMAIN es}
    IN /\ wire' = IF up THEN wire \o es ELSE wire
       /\ fetches' = [k \in Kinds |-> [i \in DOMAIN fetches[k] |->
               IF fetches[k][i].read
               THEN [fetches[k][i] EXCEPT !.missed = @ \cup (rs \cap OfKind(k))]
               ELSE fetches[k][i]]]
       /\ lost' = IF up THEN lost ELSE lost \cup (rs \cap told)
       /\ doubt' = doubt \cup (rs \ told)

(* evaluate: the last rule that matches wins, and what was approved comes    *)
(* after the agent's rules.                                                  *)
Evaluate(p) == IF p \in approved THEN "allow" ELSE Rule[p]

(* What ask decides before anything is stored: one denied pattern denies     *)
(* the request, and if all are allowed nobody is asked.                      *)
Verdict(r) ==
    IF r \in Questions THEN "waiting"
    ELSE IF \E p \in PatternsOf[r] : Evaluate(p) = "deny" THEN "refused"
    ELSE IF \A p \in PatternsOf[r] : Evaluate(p) = "allow" THEN "allowed"
    ELSE "waiting"

(* A tool calls ask; ids ascend, so requests are asked in their order.       *)
Ask(r) ==
    /\ asker[r] = "none"
    /\ \A q \in 1..(r - 1) : asker[q] # "none"
    /\ asker' = [asker EXCEPT ![r] = Verdict(r)]
    /\ IF Verdict(r) = "waiting"
       THEN pending' = pending \cup {r} /\ Publish(<<Asked(r)>>, {r})
       ELSE UNCHANGED <<pending, wire, fetches, lost, doubt>>
    /\ UNCHANGED <<approved, disposing, up, view, refresh, recent, accept, replies,
                   faults>>

(* Faulty: one approved pattern is enough.                                   *)
CoveredInPart(r, ok) == PatternsOf[r] \cap ok # {}

(* The cascade of "always": a request of the session is released when every  *)
(* pattern it asks for is approved by now.                                   *)
Covered(r, ok) == PatternsOf[r] \subseteq ok

SessionMates(r) ==
    {q \in pending \ {r} : Kind(q) = "permission" /\ SessionOf[q] = SessionOf[r]}

(* Who else an answer settles.  A question never settles another one.        *)
Swept(r, answer) ==
    IF r \in Questions \/ answer = "once" THEN {}
    ELSE IF answer = "reject" THEN SessionMates(r)
    ELSE {q \in SessionMates(r) : Covered(q, approved \cup AlwaysOf[r])}

(* What may be answered; auto-accept says "once".  What a user answers is    *)
(* chosen when the answer arrives, nothing can tell it before.               *)
Answers(c) ==
    IF c.by = "auto" THEN {"once"}
    ELSE {"once", "reject"} \cup (IF c.req \in Questions THEN {} ELSE {"always"})

(* The map is walked in the order the requests were put into it.             *)
Ascending(S) ==
    {q \in [1..Cardinality(S) -> S] :
       /\ {q[i] : i \in DOMAIN q} = S
       /\ \A i, j \in DOMAIN q : i < j => q[i] < q[j]}

Announced(r, others) == <<Replied(r)>> \o [i \in DOMAIN others |-> Replied(others[i])]

(* reply: the request leaves the map, its waiter is told, and "always" and   *)
(* "reject" go on to the other requests of the session.  An answer to        *)
(* something no longer pending is dropped.                                   *)
Handle(c) ==
    /\ c \in replies
    /\ replies' = replies \ {c}
    /\ IF c.req \in pending
       THEN \E answer \in Answers(c) :
              LET others == Swept(c.req, answer)
                  told == IF answer = "reject" THEN "refused" ELSE "allowed"
              IN /\ pending' = pending \ (others \cup {c.req})
                 /\ asker' = [r \in Requests |->
                                IF r \in others \cup {c.req} THEN told ELSE asker[r]]
                 /\ approved' = IF answer = "always" THEN approved \cup AlwaysOf[c.req]
                                ELSE approved
                 /\ \E q \in Ascending(others) :
                      Publish(Announced(c.req, q), others \cup {c.req})
       ELSE UNCHANGED <<pending, asker, approved, wire, fetches, lost, doubt>>
    /\ UNCHANGED <<disposing, up, view, refresh, recent, accept, faults>>

Waiting == {r \in Requests : asker[r] = "waiting"}

(* Faulty: the interrupted call does not take its request out of the map.    *)
InterruptLeavesRequest(s) ==
    LET gone == {r \in Waiting : SessionOf[r] = s}
    IN /\ gone # {}
       /\ asker' = [r \in Requests |-> IF r \in gone THEN "refused" ELSE asker[r]]
       /\ faults > 0 /\ faults' = faults - 1
       /\ Publish(<<>>, gone)
       /\ UNCHANGED <<pending, approved, disposing, up, view, refresh, recent, accept,
                      replies>>

(* The user stops the session: its waiting calls are interrupted, and the    *)
(* finalizer of each takes the request out of the map without an event.      *)
Interrupt(s) ==
    LET gone == {r \in Waiting : SessionOf[r] = s}
    IN /\ gone # {}
       /\ asker' = [r \in Requests |-> IF r \in gone THEN "refused" ELSE asker[r]]
       /\ pending' = pending \ gone
       /\ faults > 0 /\ faults' = faults - 1
       /\ Publish(<<>>, gone)
       /\ UNCHANGED <<approved, disposing, up, view, refresh, recent, accept, replies>>

(* Instance.dispose: the finalizers reject every waiter and clear the map;   *)
(* the approvals, never written to the database, are gone with the state.    *)
Dispose ==
    /\ faults > 0 /\ ~disposing
    /\ faults' = faults - 1
    /\ disposing' = TRUE
    /\ asker' = [r \in Requests |-> IF r \in pending THEN "refused" ELSE asker[r]]
    /\ pending' = {} /\ approved' = {}
    /\ Publish(<<>>, pending)
    /\ UNCHANGED <<up, view, refresh, recent, accept, replies>>

(* ... and when all finalizers are done the event is sent.  A tool of a      *)
(* session that starts in between gets a fresh state.                        *)
TellDisposed ==
    /\ disposing
    /\ disposing' = FALSE
    /\ Publish(<<Disposed>>, {})
    /\ UNCHANGED <<asker, pending, approved, up, view, refresh, recent, accept, replies,
                   faults>>

-----------------------------------------------------------------------------
(* The stream.                                                               *)

InWire(w) == {w[i].req : i \in DOMAIN w} \ {0}

(* The connection breaks, or the app gives it up after 15 s of silence: what *)
(* has arrived stays queued for the next frame, the rest is lost.            *)
Drop ==
    /\ up /\ faults > 0
    /\ faults' = faults - 1
    /\ up' = FALSE
    /\ \E n \in 0..Len(wire) :
         /\ wire' = SubSeq(wire, 1, n)
         /\ lost' = lost \cup InWire(SubSeq(wire, n + 1, Len(wire)))
    /\ UNCHANGED <<server, store, accept, replies, doubt>>

(* Faulty: nothing tells the app that it was disconnected.                   *)
ReconnectSilently ==
    /\ ~up
    /\ up' = TRUE
    /\ UNCHANGED <<server, wire, store, accept, replies, faults, lost, doubt>>

(* The app connects, again after 250 ms; the server's first event says so,   *)
(* and it subscribes to the bus in the same turn.                            *)
Reconnect ==
    /\ ~up
    /\ up' = TRUE
    /\ wire' = Append(wire, Connected)
    /\ UNCHANGED <<server, store, accept, replies, faults, lost, doubt>>

(* Faulty: the answer is noted before the note is looked up.                 *)
AutoReplyNotedFirst(rs) ==
    {[req |-> r, by |-> "auto"] : r \in rs \ (responded \cup rs)}

(* respondOnce: answered once, whatever becomes of the call.                 *)
AutoReply(rs) == {[req |-> r, by |-> "auto"] : r \in rs \ responded}

(* The app applies the next event of the frame; "connected" asks for a       *)
(* refresh unless the app has just booted.  Auto-accept listens to the same  *)
(* event.                                                                    *)
Deliver ==
    /\ wire # <<>>
    /\ wire' = Tail(wire)
    /\ LET e == Head(wire)
           now == IF e.type = "asked" /\ auto /\ Kind(e.req) = "permission"
                  THEN {e.req} ELSE {}
       IN /\ view' = CASE e.type = "asked"   -> view \cup {e.req}
                       [] e.type = "replied" -> view \ {e.req}
                       [] OTHER              -> view
          /\ refresh' = (refresh \/ e.type = "disposed" \/ (e.type = "connected" /\ ~recent))
          /\ replies' = replies \cup AutoReply(now)
          /\ responded' = responded \cup now
          /\ lost' = IF e = Connected /\ recent THEN {} ELSE lost
          /\ doubt' = CASE e.type = "replied"        -> doubt \ {e.req}
                        [] e = Connected /\ recent   -> doubt \cup lost
                        [] OTHER                     -> doubt
    /\ UNCHANGED <<server, up, fetches, recent, auto, version, lists, faults>>

-----------------------------------------------------------------------------
(* The app's refresh.                                                        *)

(* 1500 ms after the app booted, "connected" counts.                         *)
Settle ==
    /\ recent /\ recent' = FALSE
    /\ UNCHANGED <<server, up, wire, view, fetches, refresh, accept, replies, faults,
                   lost, doubt>>

(* The refresh queue runs bootstrapDirectory, which starts both list calls   *)
(* and returns without waiting for them: nothing keeps two apart.            *)
Refresh ==
    /\ refresh /\ refresh' = FALSE
    /\ \A k \in Kinds : Len(fetches[k]) < MaxFetches
    /\ fetches' = [k \in Kinds |-> Append(fetches[k], NoFetch)]
    /\ UNCHANGED <<server, up, wire, view, recent, accept, replies, faults, lost, doubt>>

(* The server answers a list call.  Calls not answered yet are all alike, so *)
(* the first of them stands for any.                                         *)
ReadList(k) ==
    \E i \in DOMAIN fetches[k] :
      /\ ~fetches[k][i].read
      /\ \A j \in 1..(i - 1) : fetches[k][j].read
      /\ fetches' = [fetches EXCEPT ![k][i] =
                       [NoFetch EXCEPT !.read = TRUE, !.snap = pending \cap OfKind(k)]]
      /\ lost' = lost \ (OfKind(k) \ InWire(wire))
      /\ UNCHANGED <<server, up, wire, view, refresh, recent, accept, replies, faults, doubt>>

(* What stays in doubt when the answer `f` replaces the view: a change `f`   *)
(* does not show, unless its event is still to come, and a request without   *)
(* an end whose "asked" is still to come.                                    *)
Clouded(f) ==
    {r \in f.missed : r \notin InWire(wire) \/ r \in doubt} \cup (doubt \cap InWire(wire))

(* The answer replaces what the store has of the kind, session by session.   *)
Replaced(k, f) == (view \ OfKind(k)) \cup f.snap

ApplyList(k, i) ==
    /\ fetches[k][i].read
    /\ view' = Replaced(k, fetches[k][i])
    /\ doubt' = (doubt \ OfKind(k)) \cup (Clouded(fetches[k][i]) \cap OfKind(k))
    /\ fetches' = [fetches EXCEPT ![k] = RemoveAt(@, i)]
    /\ UNCHANGED <<server, up, wire, refresh, recent, accept, replies, faults, lost>>

(* The call failed, all its retries too: a toast, and the view stays.        *)
LoseList(k, i) ==
    /\ faults > 0
    /\ faults' = faults - 1
    /\ fetches' = [fetches EXCEPT ![k] = RemoveAt(@, i)]
    /\ doubt' = doubt \cup OfKind(k)
    /\ UNCHANGED <<server, up, wire, view, refresh, recent, accept, replies, lost>>

-----------------------------------------------------------------------------
(* The user, and auto-accept in the user's place.                            *)

(* What the composer shows: the first request of the kind, and with          *)
(* auto-accept on no permission at all.                                      *)
Shown(k) == IF k = "permission" /\ auto THEN {} ELSE view \cap OfKind(k)

(* The user answers the dialog; while the call is out the buttons are off.   *)
Decide(k) ==
    /\ Shown(k) # {}
    /\ LET r == CHOOSE q \in Shown(k) : \A p \in Shown(k) : q <= p
       IN /\ [req |-> r, by |-> "user"] \notin replies
          /\ replies' = replies \cup {[req |-> r, by |-> "user"]}
    /\ UNCHANGED <<server, up, wire, store, accept, faults, lost, doubt>>

(* An answer is lost.  The user sees a toast and the dialog; of what         *)
(* auto-accept answered, only the note is taken back.                        *)
LoseReply(c) ==
    /\ c \in replies /\ faults > 0
    /\ faults' = faults - 1
    /\ replies' = replies \ {c}
    /\ responded' = IF c.by = "auto" THEN responded \ {c.req} ELSE responded
    /\ doubt' = IF c.by = "auto" THEN doubt \cup {c.req} ELSE doubt
    /\ UNCHANGED <<server, up, wire, store, auto, version, lists, lost>>

(* enable: the flag is set and what is pending already is fetched.           *)
Enable ==
    /\ ~auto /\ faults > 0
    /\ faults' = faults - 1
    /\ auto' = TRUE /\ version' = version + 1
    /\ lists' = Append(lists, [version |-> version + 1, read |-> FALSE, snap |-> {}])
    /\ UNCHANGED <<server, up, wire, store, responded, replies, lost, doubt>>

Disable ==
    /\ auto
    /\ auto' = FALSE /\ version' = version + 1
    /\ UNCHANGED <<server, up, wire, store, lists, responded, replies, faults, lost, doubt>>

ReadPending(i) ==
    /\ ~lists[i].read
    /\ lists' = [lists EXCEPT ![i].read = TRUE, ![i].snap = pending \ Questions]
    /\ UNCHANGED <<server, up, wire, store, auto, version, responded, replies, faults,
                   lost, doubt>>

(* The answer counts only for the switch that asked for it.                  *)
AcceptPending(i) ==
    /\ lists[i].read
    /\ LET now == IF lists[i].version = version /\ auto THEN lists[i].snap ELSE {}
       IN replies' = replies \cup AutoReply(now) /\ responded' = responded \cup now
    /\ lists' = RemoveAt(lists, i)
    /\ UNCHANGED <<server, up, wire, store, auto, version, faults, lost, doubt>>

-----------------------------------------------------------------------------
Next ==
    \/ \E r \in Requests : Ask(r)
    \/ \E c \in replies : Handle(c) \/ LoseReply(c)
    \/ \E s \in Sessions : Interrupt(s)
    \/ Dispose \/ TellDisposed
    \/ Drop \/ Reconnect \/ Deliver
    \/ Settle \/ Refresh
    \/ \E k \in Kinds :
         \/ ReadList(k) \/ Decide(k)
         \/ \E i \in DOMAIN fetches[k] : ApplyList(k, i) \/ LoseList(k, i)
    \/ Enable \/ Disable
    \/ \E i \in DOMAIN lists : ReadPending(i) \/ AcceptPending(i)

Spec == Init /\ [][Next]_vars

(* What the machines do on their own: timers fire, calls are answered, the   *)
(* stream is retried and read, a started disposal ends.  Each of these       *)
(* happens finitely often here, so that fairness to all of them together is  *)
(* enough.                                                                   *)
Machine ==
    \/ TellDisposed \/ Reconnect \/ Deliver \/ Settle \/ Refresh
    \/ \E k \in Kinds : ReadList(k) \/ \E i \in DOMAIN fetches[k] : ApplyList(k, i)
    \/ \E i \in DOMAIN lists : ReadPending(i) \/ AcceptPending(i)

(* Besides, answers on their way arrive, and a user who is shown a dialog    *)
(* answers one.  Nobody has to ask, to stop a session or to switch           *)
(* auto-accept.                                                              *)
Fairness ==
    /\ WF_vars(Machine)
    /\ WF_vars(\E c \in replies : Handle(c))
    /\ WF_vars(\E k \in Kinds : Decide(k))

FairSpec == Spec /\ Fairness

-----------------------------------------------------------------------------
(* Everything has its type, and the map holds exactly the requests whose     *)
(* call waits (asked -> set, answered, interrupted or disposed -> deleted,   *)
(* permission/index.ts:180-262): no call waits for an answer that can no     *)
(* longer be given, and no answer goes to a call that is gone.               *)
TypeOK ==
    /\ asker \in [Requests -> {"none", "waiting", "allowed", "refused"}]
    /\ pending = Waiting
    /\ approved \subseteq Patterns /\ disposing \in BOOLEAN /\ up \in BOOLEAN
    /\ wire \in Seq(Events)
    /\ view \subseteq Requests
    /\ fetches \in [Kinds -> Seq(Fetch)]
    /\ refresh \in BOOLEAN /\ recent \in BOOLEAN
    /\ auto \in BOOLEAN /\ version \in Nat
    /\ lists \in Seq(ListCall)
    /\ responded \subseteq Requests /\ replies \subseteq Reply
    /\ lost \subseteq Requests /\ doubt \subseteq Requests

(* A permission is exercised only with consent: a call goes on in a step     *)
(* only if an answer to its very request arrives in that step, or if what    *)
(* the rules leave open of it is by then approved, pattern for pattern       *)
(* (permission/index.ts:180-262).                                            *)
Consented ==
    [][\A r \in Requests \ Questions : asker'[r] = "allowed" /\ asker[r] # "allowed" =>
         \/ \E c \in replies \ replies' : c.req = r
         \/ \A p \in PatternsOf[r] : p \in approved' \/ Rule[p] = "allow"]_vars

(* When the stream is connected and nothing is under way any more, the app   *)
(* shows exactly what is pending, whatever it missed while it was            *)
(* disconnected; the exceptions are in `doubt`: a call interrupted or        *)
(* disposed without an event, events lost before a connection that came too  *)
(* early to count, a list overtaken by the stream or lost itself             *)
(* (global-sync/bootstrap.ts:289-340, event-reducer.ts:286-358,              *)
(* global-sync.tsx:293-338).                                                 *)
ViewIsCurrent ==
    up /\ wire = <<>> /\ ~refresh /\ (\A k \in Kinds : fetches[k] = <<>>)
        => \A r \in Requests \ doubt : r \in view <=> r \in pending

(* Calls that wait are answered in the end, all of them, by a user who       *)
(* answers the dialogs that are shown or by auto-accept, as long as nothing  *)
(* is in doubt: no request hides behind another one, and what auto-accept    *)
(* has answered does not wait (permission/index.ts:217-273,                  *)
(* session-request-tree.ts:3-32).  The last alternative is a defect of the   *)
(* code: the toast says "Permission requests will be automatically approved" *)
(* (app/src/i18n/en.ts:432), yet a request that only a refetch brings is     *)
(* neither shown nor answered while auto-accept is on.                       *)
AskersAreAnswered ==
    (pending # {}) ~> (pending = {} \/ doubt # {} \/ (auto /\ ~(pending \subseteq responded)))

=============================================================================
