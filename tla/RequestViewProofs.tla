--------------------------- MODULE RequestViewProofs ---------------------------
(***************************************************************************)
(* Proofs about RequestView: its types, with the map holding exactly the   *)
(* requests whose call waits; that a permission is exercised only with     *)
(* consent; and that what the app shows at rest is what is pending.        *)
(***************************************************************************)
EXTENDS RequestView, FiniteSetTheorems, SequenceTheorems, WellFoundedInduction,
        TLAPS

-----------------------------------------------------------------------------
(***************************************************************************)
(* Requests, events and the sequences that hold them.                      *)
(***************************************************************************)

LEMMA RequestFacts ==
  ASSUME NEW r \in Requests
  PROVE  /\ r \in Nat /\ r # 0
         /\ Kind(r) \in Kinds /\ r \in OfKind(Kind(r))
         /\ \A k \in Kinds : r \in OfKind(k) <=> k = Kind(r)
  BY RequestAssumption DEF RequestAssumption, Requests, Kinds, OfKind

LEMMA EventFacts ==
  ASSUME NEW r \in Requests
  PROVE  /\ Asked(r) \in Events /\ Asked(r).req = r /\ Asked(r).type = "asked"
         /\ Replied(r) \in Events /\ Replied(r).req = r /\ Replied(r).type = "replied"
  BY DEF Asked, Replied, Events

LEMMA SignalFacts ==
  /\ Connected \in Events /\ Connected.req = 0 /\ Connected.type = "connected"
  /\ Disposed \in Events /\ Disposed.req = 0 /\ Disposed.type = "disposed"
  /\ Connected # Disposed
  BY DEF Connected, Disposed, Events

LEMMA EventIs ==
  ASSUME NEW e \in Events
  PROVE  /\ e.req \in Requests \cup {0}
         /\ e = Connected <=> e.type = "connected"
         /\ e.type \in {"asked", "replied"} <=> e.req \in Requests
         /\ e.type \in {"asked", "replied", "connected", "disposed"}
<1>1. CASE e \in {Connected, Disposed}
  <2>1. 0 \notin Requests
    BY RequestFacts
  <2> QED
    BY <1>1, <2>1, SignalFacts
<1>2. ASSUME NEW r \in Requests, e \in {Asked(r), Replied(r)}
      PROVE  /\ e.req \in Requests \cup {0}
             /\ e = Connected <=> e.type = "connected"
             /\ e.type \in {"asked", "replied"} <=> e.req \in Requests
             /\ e.type \in {"asked", "replied", "connected", "disposed"}
  BY <1>2, EventFacts, SignalFacts
<1> QED
  BY <1>1, <1>2 DEF Events

LEMMA RemoveAtIs ==
  ASSUME NEW S, NEW s \in Seq(S), NEW i \in DOMAIN s
  PROVE  /\ RemoveAt(s, i) \in Seq(S)
         /\ DOMAIN RemoveAt(s, i) = 1..(Len(s) - 1)
         /\ \A j \in 1..(Len(s) - 1) :
              RemoveAt(s, i)[j] = IF j < i THEN s[j] ELSE s[j + 1]
<1> DEFINE front == SubSeq(s, 1, i - 1)
           back == SubSeq(s, i + 1, Len(s))
<1>1. i \in 1..Len(s) /\ Len(s) \in Nat /\ \A j \in 1..Len(s) : s[j] \in S
  OBVIOUS
<1>2. /\ front \in Seq(S) /\ Len(front) = i - 1
      /\ \A j \in 1..(i - 1) : front[j] = s[j]
  BY <1>1, SubSeqProperties
<1>3. /\ back \in Seq(S) /\ Len(back) = Len(s) - i
      /\ \A j \in 1..(Len(s) - i) : back[j] = s[j + i]
  BY <1>1, SubSeqProperties
<1> HIDE DEF front, back
<1>4. /\ front \o back \in Seq(S) /\ Len(front \o back) = Len(s) - 1
      /\ \A j \in 1..(Len(s) - 1) :
           (front \o back)[j] = IF j <= i - 1 THEN front[j] ELSE back[j - (i - 1)]
  <2>1. Len(front) + Len(back) = Len(s) - 1
    BY <1>1, <1>2, <1>3
  <2>2. /\ front \o back \in Seq(S) /\ Len(front \o back) = Len(front) + Len(back)
        /\ \A j \in 1..(Len(front) + Len(back)) :
             (front \o back)[j] = IF j <= Len(front) THEN front[j] ELSE back[j - Len(front)]
    <3>1. front \in Seq(S) /\ back \in Seq(S)
      BY <1>2, <1>3
    <3> QED
      BY <3>1, ConcatProperties
  <2>3. Len(front) = i - 1
    BY <1>2
  <2> QED
    BY <2>1, <2>2, <2>3
<1>5. ASSUME NEW j \in 1..(Len(s) - 1)
      PROVE  (front \o back)[j] = IF j < i THEN s[j] ELSE s[j + 1]
  <2>1. CASE j < i
    <3>1. j \in 1..(i - 1) /\ j <= i - 1
      BY <1>1, <2>1
    <3> QED
      BY <1>2, <1>4, <2>1, <3>1
  <2>2. CASE ~(j < i)
    <3>1. j - (i - 1) \in 1..(Len(s) - i) /\ j - (i - 1) + i = j + 1 /\ ~(j <= i - 1)
      BY <1>1, <2>2
    <3>2. (front \o back)[j] = back[j - (i - 1)]
      BY <1>4, <3>1
    <3> QED
      BY <1>3, <2>2, <3>1, <3>2
  <2> QED
    BY <2>1, <2>2
<1>6. DOMAIN (front \o back) = 1..(Len(s) - 1)
  BY <1>4
<1> QED
  BY <1>4, <1>5, <1>6 DEF RemoveAt, front, back

LEMMA PublishIs ==
  ASSUME TypeOK, NEW es \in Seq(Events), NEW rs \in SUBSET Requests, Publish(es, rs)
  PROVE  /\ wire' \in Seq(Events)
         /\ wire' = IF up THEN wire \o es ELSE wire
         /\ lost' \subseteq Requests /\ doubt' \subseteq Requests
         /\ fetches' \in [Kinds -> Seq(Fetch)]
         /\ \A k \in Kinds :
              /\ DOMAIN fetches'[k] = DOMAIN fetches[k]
              /\ \A i \in DOMAIN fetches[k] :
                   /\ fetches'[k][i].read = fetches[k][i].read
                   /\ fetches'[k][i].snap = fetches[k][i].snap
                   /\ fetches[k][i].read =>
                        fetches'[k][i].missed = fetches[k][i].missed \cup (rs \cap OfKind(k))
<1>1. wire' \in Seq(Events) /\ wire' = IF up THEN wire \o es ELSE wire
  BY ConcatProperties DEF Publish, TypeOK
<1>2. lost' \subseteq Requests /\ doubt' \subseteq Requests
  BY DEF Publish, TypeOK
<1> DEFINE After(k, i) ==
             IF fetches[k][i].read
             THEN [fetches[k][i] EXCEPT !.missed = @ \cup (rs \cap OfKind(k))]
             ELSE fetches[k][i]
<1>3. fetches' = [k \in Kinds |-> [i \in DOMAIN fetches[k] |-> After(k, i)]]
  BY DEF Publish, TypeOK
<1>4. ASSUME NEW k \in Kinds, NEW i \in DOMAIN fetches[k]
      PROVE  /\ After(k, i) \in Fetch
             /\ After(k, i).read = fetches[k][i].read
             /\ After(k, i).snap = fetches[k][i].snap
             /\ fetches[k][i].read =>
                  After(k, i).missed = fetches[k][i].missed \cup (rs \cap OfKind(k))
  <2>1. fetches[k][i] \in Fetch
    BY DEF TypeOK
  <2> QED
    BY <2>1 DEF Fetch
<1>5. ASSUME NEW k \in Kinds
      PROVE  [i \in DOMAIN fetches[k] |-> After(k, i)] \in Seq(Fetch)
  <2>1. fetches[k] \in Seq(Fetch)
    BY DEF TypeOK
  <2>2. DOMAIN fetches[k] = 1..Len(fetches[k]) /\ Len(fetches[k]) \in Nat
    BY <2>1
  <2> HIDE DEF After
  <2> QED
    BY <1>4, <2>2
<1> HIDE DEF After
<1> QED
  BY <1>1, <1>2, <1>3, <1>4, <1>5

-----------------------------------------------------------------------------
(***************************************************************************)
(* Types, and the map of waiting calls.                                    *)
(***************************************************************************)

LEMMA InitType == Init => TypeOK
<1> SUFFICES ASSUME Init PROVE TypeOK
  OBVIOUS
<1>1. <<>> \in Seq(Events) /\ <<>> \in Seq(Fetch) /\ <<>> \in Seq(ListCall)
  OBVIOUS
<1>2. pending = Waiting
  BY DEF Init, Waiting
<1> QED
  BY <1>1, <1>2, BoundAssumption DEF Init, TypeOK

\* The map and what is published of it, by each handler of the server.
LEMMA AskType ==
  ASSUME TypeOK, NEW r \in Requests, Ask(r)
  PROVE  TypeOK'
<1>1. asker' = [asker EXCEPT ![r] = Verdict(r)] /\ Verdict(r) \in {"waiting", "allowed", "refused"}
  BY DEF Ask, Verdict
<1>2. CASE Verdict(r) = "waiting"
  <2>1. <<Asked(r)>> \in Seq(Events)
    BY EventFacts
  <2>2. Publish(<<Asked(r)>>, {r}) /\ pending' = pending \cup {r}
    BY <1>2 DEF Ask
  <2>3. pending' = Waiting'
    BY <1>1, <1>2, <2>2 DEF TypeOK, Waiting
  <2>4. /\ wire' \in Seq(Events) /\ lost' \subseteq Requests /\ doubt' \subseteq Requests
        /\ fetches' \in [Kinds -> Seq(Fetch)]
    <3>1. {r} \in SUBSET Requests
      OBVIOUS
    <3> QED
      BY <2>1, <2>2, <3>1, PublishIs
  <2> QED
    BY <1>1, <2>3, <2>4 DEF Ask, TypeOK, accept
<1>3. CASE Verdict(r) # "waiting"
  <2>1. pending' = Waiting'
    <3>1. asker[r] = "none" /\ pending' = pending
      BY <1>3 DEF Ask
    <3> QED
      BY <1>1, <1>3, <3>1 DEF TypeOK, Waiting
  <2> QED
    BY <1>1, <1>3, <2>1 DEF Ask, TypeOK, accept
<1> QED
  BY <1>2, <1>3

LEMMA SweptIs ==
  ASSUME TypeOK, NEW r, NEW answer
  PROVE  Swept(r, answer) \subseteq pending \ {r} /\ pending \subseteq Requests
  BY DEF Swept, SessionMates, TypeOK, Waiting

LEMMA AnnouncedIs ==
  ASSUME NEW r \in Requests, NEW S \in SUBSET Requests, NEW q \in Ascending(S)
  PROVE  /\ Announced(r, q) \in Seq(Events)
         /\ \A i \in DOMAIN Announced(r, q) :
              /\ Announced(r, q)[i].type = "replied"
              /\ Announced(r, q)[i].req \in S \cup {r}
         /\ \A p \in S \cup {r} : \E i \in DOMAIN Announced(r, q) : Announced(r, q)[i].req = p
         /\ r \notin S =>
              \A i, j \in DOMAIN Announced(r, q) :
                i < j => Announced(r, q)[i].req # Announced(r, q)[j].req
<1> DEFINE n == Cardinality(S)
           tail == [i \in DOMAIN q |-> Replied(q[i])]
           all == Announced(r, q)
<1>1. /\ q \in [1..n -> S] /\ S = {q[i] : i \in DOMAIN q}
      /\ \A i, j \in DOMAIN q : i < j => q[i] < q[j]
  BY DEF Ascending
<1>2. n \in Nat
  <2>1. IsFiniteSet(S)
    <3>1. IsFiniteSet(Requests) /\ S \subseteq Requests
      BY FS_Interval, RequestAssumption DEF RequestAssumption, Requests
    <3> QED
      BY <3>1, FS_Subset
  <2> QED
    BY <2>1, FS_CardinalityType
<1> HIDE DEF n
<1>3. /\ tail \in Seq(Events) /\ Len(tail) = n /\ DOMAIN tail = 1..n
      /\ \A i \in 1..n : tail[i] = Replied(q[i]) /\ q[i] \in S
  <2>1. \A i \in 1..n : Replied(q[i]) \in Events /\ q[i] \in S
    BY <1>1, EventFacts
  <2>2. tail \in [1..n -> Events]
    BY <1>1, <2>1
  <2> QED
    BY <1>1, <1>2, <2>1, <2>2
<1> HIDE DEF tail
<1>4. <<Replied(r)>> \in Seq(Events) /\ Len(<<Replied(r)>>) = 1 /\ <<Replied(r)>>[1] = Replied(r)
  BY EventFacts
<1>5. all = <<Replied(r)>> \o tail
  BY DEF Announced, tail
<1>6. /\ all \in Seq(Events) /\ DOMAIN all = 1..(n + 1)
      /\ all[1] = Replied(r) /\ \A i \in 2..(n + 1) : all[i] = Replied(q[i - 1])
  <2>1. /\ all \in Seq(Events) /\ Len(all) = 1 + n
        /\ \A i \in 1..(1 + n) : all[i] = IF i <= 1 THEN <<Replied(r)>>[i] ELSE tail[i - 1]
    BY <1>2, <1>3, <1>4, <1>5, ConcatProperties
  <2>2. \A i \in 2..(n + 1) : i - 1 \in 1..n /\ ~(i <= 1) /\ i \in 1..(1 + n)
    BY <1>2
  <2>3. 1 \in 1..(1 + n) /\ DOMAIN all = 1..(n + 1)
    BY <1>2, <2>1
  <2> QED
    BY <1>3, <1>4, <2>1, <2>2, <2>3
<1> HIDE DEF all
<1>7. \A i \in 1..(n + 1) : i = 1 \/ (i \in 2..(n + 1) /\ i - 1 \in 1..n)
  BY <1>2
<1>8. ASSUME NEW i \in 1..(n + 1)
      PROVE  all[i].type = "replied" /\ all[i].req \in S \cup {r}
  BY <1>1, <1>6, <1>7, EventFacts
<1>9. ASSUME NEW p \in S \cup {r}
      PROVE  \E i \in 1..(n + 1) : all[i].req = p
  <2>1. CASE p = r
    BY <1>2, <1>6, <2>1, EventFacts
  <2>2. CASE p \in S
    <3>1. PICK i \in 1..n : q[i] = p
      BY <1>1, <2>2
    <3>2. i + 1 \in 2..(n + 1) /\ (i + 1) - 1 = i /\ i + 1 \in 1..(n + 1)
      BY <1>2
    <3> QED
      BY <1>6, <2>2, <3>1, <3>2, EventFacts
  <2> QED
    BY <2>1, <2>2
<1>10. ASSUME r \notin S, NEW i \in 1..(n + 1), NEW j \in 1..(n + 1), i < j
       PROVE  all[i].req # all[j].req
  <2>1. j \in 2..(n + 1) /\ j - 1 \in 1..n
    BY <1>2, <1>10
  <2>2. all[j].req = q[j - 1] /\ q[j - 1] \in S
    BY <1>1, <1>6, <2>1, EventFacts
  <2>3. CASE i = 1
    BY <1>6, <1>10, <2>2, <2>3, EventFacts
  <2>4. CASE i # 1
    <3>1. i \in 2..(n + 1) /\ i - 1 \in 1..n /\ i - 1 < j - 1
      BY <1>2, <1>10, <2>4
    <3>2. all[i].req = q[i - 1] /\ q[i - 1] \in S
      BY <1>1, <1>6, <3>1, EventFacts
    <3>3. q[i - 1] < q[j - 1] /\ q[i - 1] \in Nat /\ q[j - 1] \in Nat
      BY <1>1, <2>1, <2>2, <3>1, <3>2, RequestFacts
    <3> QED
      BY <2>2, <3>2, <3>3
  <2> QED
    BY <2>3, <2>4
<1> QED
  BY <1>6, <1>8, <1>9, <1>10 DEF all

LEMMA ReplyIs ==
  ASSUME TypeOK, NEW c \in replies
  PROVE  c \in Reply /\ c.req \in Requests
  BY DEF TypeOK, Reply

LEMMA HandleType ==
  ASSUME TypeOK, NEW c \in replies, Handle(c)
  PROVE  TypeOK'
<1>1. c.req \in Requests /\ replies' \subseteq Reply
  BY ReplyIs DEF Handle, TypeOK
<1>2. CASE c.req \in pending
  <2>1. PICK answer \in Answers(c) :
          LET others == Swept(c.req, answer)
              told == IF answer = "reject" THEN "refused" ELSE "allowed"
          IN /\ pending' = pending \ (others \cup {c.req})
             /\ asker' = [r \in Requests |->
                            IF r \in others \cup {c.req} THEN told ELSE asker[r]]
             /\ approved' = IF answer = "always" THEN approved \cup AlwaysOf[c.req]
                            ELSE approved
             /\ \E q \in Ascending(others) :
                  Publish(Announced(c.req, q), others \cup {c.req})
    BY <1>2 DEF Handle
  <2> DEFINE others == Swept(c.req, answer)
             told == IF answer = "reject" THEN "refused" ELSE "allowed"
  <2>2. others \subseteq Requests /\ others \cup {c.req} \in SUBSET Requests
    BY <1>1, SweptIs
  <2>3. /\ wire' \in Seq(Events) /\ lost' \subseteq Requests /\ doubt' \subseteq Requests
        /\ fetches' \in [Kinds -> Seq(Fetch)]
    <3>1. PICK q \in Ascending(others) : Publish(Announced(c.req, q), others \cup {c.req})
      BY <2>1
    <3> HIDE DEF others
    <3>2. Announced(c.req, q) \in Seq(Events)
      BY <1>1, <2>2, AnnouncedIs
    <3> QED
      BY <2>2, <3>1, <3>2, PublishIs
  <2>4. /\ pending' = pending \ (others \cup {c.req})
        /\ asker' = [r \in Requests |-> IF r \in others \cup {c.req} THEN told ELSE asker[r]]
        /\ approved' \subseteq Patterns
        /\ told \in {"allowed", "refused"}
    BY <1>1, <2>1, RequestAssumption DEF TypeOK, RequestAssumption
  <2> HIDE DEF others, told
  <2>5. asker' \in [Requests -> {"none", "waiting", "allowed", "refused"}] /\ pending' = Waiting'
    BY <2>2, <2>4 DEF TypeOK, Waiting
  <2> QED
    BY <1>1, <2>3, <2>4, <2>5 DEF Handle, TypeOK, accept
<1>3. CASE c.req \notin pending
  <2>1. UNCHANGED <<pending, asker, approved, wire, fetches, lost, doubt>>
    BY <1>3 DEF Handle
  <2> QED
    BY <1>1, <2>1 DEF Handle, TypeOK, accept, Waiting
<1> QED
  BY <1>2, <1>3

\* Interrupted and disposed calls leave the map without an event.
LEMMA SilentEndType ==
  ASSUME TypeOK, (\E s \in Sessions : Interrupt(s)) \/ Dispose \/ TellDisposed
  PROVE  TypeOK'
<1>0. <<>> \in Seq(Events) /\ <<Disposed>> \in Seq(Events)
  BY SignalFacts
<1>1. ASSUME NEW s \in Sessions, Interrupt(s)
      PROVE  TypeOK'
  <2> DEFINE gone == {r \in Waiting : SessionOf[r] = s}
  <2>1. gone \in SUBSET Requests
    BY DEF Waiting
  <2>2. /\ asker' = [r \in Requests |-> IF r \in gone THEN "refused" ELSE asker[r]]
        /\ pending' = pending \ gone
        /\ Publish(<<>>, gone)
    BY <1>1 DEF Interrupt
  <2> HIDE DEF gone
  <2>3. /\ wire' \in Seq(Events) /\ lost' \subseteq Requests /\ doubt' \subseteq Requests
        /\ fetches' \in [Kinds -> Seq(Fetch)]
    BY <1>0, <2>1, <2>2, PublishIs
  <2>4. asker' \in [Requests -> {"none", "waiting", "allowed", "refused"}] /\ pending' = Waiting'
    BY <2>1, <2>2 DEF TypeOK, Waiting
  <2> QED
    BY <1>1, <2>3, <2>4 DEF Interrupt, TypeOK, accept
<1>2. CASE Dispose
  <2>1. pending \in SUBSET Requests
    BY DEF TypeOK, Waiting
  <2>2. /\ wire' \in Seq(Events) /\ lost' \subseteq Requests /\ doubt' \subseteq Requests
        /\ fetches' \in [Kinds -> Seq(Fetch)]
    BY <1>0, <1>2, <2>1, PublishIs DEF Dispose
  <2>3. asker' \in [Requests -> {"none", "waiting", "allowed", "refused"}] /\ pending' = Waiting'
    BY <1>2, <2>1 DEF Dispose, TypeOK, Waiting
  <2>4. {} \subseteq Patterns
    OBVIOUS
  <2> QED
    BY <1>2, <2>2, <2>3, <2>4 DEF Dispose, TypeOK, accept
<1>3. CASE TellDisposed
  <2>1. {} \in SUBSET Requests
    OBVIOUS
  <2>2. /\ wire' \in Seq(Events) /\ lost' \subseteq Requests /\ doubt' \subseteq Requests
        /\ fetches' \in [Kinds -> Seq(Fetch)]
    BY <1>0, <1>3, <2>1, PublishIs DEF TellDisposed
  <2> QED
    BY <1>3, <2>2 DEF TellDisposed, TypeOK, accept, Waiting
<1> QED
  BY <1>1, <1>2, <1>3

LEMMA InWireType ==
  ASSUME NEW w \in Seq(Events)
  PROVE  InWire(w) = {w[i].req : i \in DOMAIN w} \ {0} /\ InWire(w) \subseteq Requests
  BY EventIs DEF InWire

LEMMA AutoReplyType ==
  ASSUME NEW S \in SUBSET Requests
  PROVE  AutoReply(S) \subseteq Reply
  BY DEF AutoReply, Reply

LEMMA StreamType ==
  ASSUME TypeOK, Drop \/ Reconnect \/ Deliver
  PROVE  TypeOK'
<1>1. CASE Drop
  <2>1. PICK n \in 0..Len(wire) :
          /\ wire' = SubSeq(wire, 1, n)
          /\ lost' = lost \cup InWire(SubSeq(wire, n + 1, Len(wire)))
    BY <1>1 DEF Drop
  <2>2. SubSeq(wire, 1, n) \in Seq(Events) /\ SubSeq(wire, n + 1, Len(wire)) \in Seq(Events)
    BY DEF TypeOK
  <2>3. wire' \in Seq(Events) /\ lost' \subseteq Requests
    BY <2>1, <2>2, InWireType DEF TypeOK
  <2> QED
    BY <1>1, <2>3 DEF Drop, TypeOK, server, store, accept, Waiting
<1>2. CASE Reconnect
  <2>1. Append(wire, Connected) \in Seq(Events)
    BY SignalFacts DEF TypeOK
  <2> QED
    BY <1>2, <2>1 DEF Reconnect, TypeOK, server, store, accept, Waiting
<1>3. CASE Deliver
  <2> DEFINE e == Head(wire)
             now == IF e.type = "asked" /\ auto /\ Kind(e.req) = "permission"
                    THEN {e.req} ELSE {}
  <2>1. e \in Events /\ wire' \in Seq(Events)
    BY <1>3 DEF Deliver, TypeOK
  <2>2. e.type \in {"asked", "replied"} => e.req \in Requests
    BY <2>1, EventIs
  <2>3. now \in SUBSET Requests /\ AutoReply(now) \subseteq Reply
    BY <2>2, AutoReplyType
  <2>4. /\ view' \in {view, view \cup {e.req}, view \ {e.req}}
        /\ view' = view \cup {e.req} => e.type = "asked" \/ view' = view
        /\ refresh' \in BOOLEAN
        /\ replies' = replies \cup AutoReply(now)
        /\ responded' = responded \cup now
        /\ lost' \in {{}, lost}
        /\ doubt' \in {doubt, doubt \cup lost, doubt \ {e.req}}
    BY <1>3 DEF Deliver, TypeOK
  <2> HIDE DEF e, now
  <2>5. /\ view' \subseteq Requests /\ replies' \subseteq Reply /\ responded' \subseteq Requests
        /\ lost' \subseteq Requests /\ doubt' \subseteq Requests
    BY <2>2, <2>3, <2>4 DEF TypeOK
  <2> QED
    BY <1>3, <2>1, <2>4, <2>5 DEF Deliver, TypeOK, server, Waiting
<1> QED
  BY <1>1, <1>2, <1>3

LEMMA NoFetchType == NoFetch \in Fetch /\ ~NoFetch.read
  BY DEF NoFetch, Fetch

LEMMA RefreshType ==
  ASSUME TypeOK, Settle \/ Refresh
  PROVE  TypeOK'
<1>1. CASE Settle
  BY <1>1 DEF Settle, TypeOK, server, accept, Waiting
<1>2. CASE Refresh
  <2>1. \A k \in Kinds : Append(fetches[k], NoFetch) \in Seq(Fetch)
    BY NoFetchType DEF TypeOK
  <2> QED
    BY <1>2, <2>1 DEF Refresh, TypeOK, server, accept, Waiting
<1> QED
  BY <1>1, <1>2

\* What is known when a list is read, and what is done with it.
LEMMA ReadListIs ==
  ASSUME TypeOK, NEW k \in Kinds, ReadList(k)
  PROVE  \E i \in DOMAIN fetches[k] :
           /\ ~fetches[k][i].read
           /\ fetches' \in [Kinds -> Seq(Fetch)]
           /\ fetches'[k][i].read /\ fetches'[k][i].missed = {}
           /\ fetches'[k][i].snap = pending \cap OfKind(k)
           /\ \A l \in Kinds : DOMAIN fetches'[l] = DOMAIN fetches[l]
           /\ \A l \in Kinds : \A j \in DOMAIN fetches[l] :
                l # k \/ j # i => fetches'[l][j] = fetches[l][j]
           /\ lost' = lost \ (OfKind(k) \ InWire(wire))
           /\ UNCHANGED <<server, up, wire, view, refresh, recent, accept, replies, faults, doubt>>
<1> DEFINE f == [NoFetch EXCEPT !.read = TRUE, !.snap = pending \cap OfKind(k)]
<1>1. PICK i \in DOMAIN fetches[k] :
        /\ ~fetches[k][i].read
        /\ fetches' = [fetches EXCEPT ![k][i] = f]
        /\ lost' = lost \ (OfKind(k) \ InWire(wire))
        /\ UNCHANGED <<server, up, wire, view, refresh, recent, accept, replies, faults, doubt>>
  BY DEF ReadList
<1>2. f \in Fetch /\ f.read /\ f.missed = {} /\ f.snap = pending \cap OfKind(k)
  BY DEF NoFetch, Fetch, TypeOK, Waiting
<1> HIDE DEF f
<1>3. fetches \in [Kinds -> Seq(Fetch)]
  BY DEF TypeOK
<1>4. [fetches[k] EXCEPT ![i] = f] \in Seq(Fetch)
  BY <1>2, <1>3
<1>5. fetches' = [fetches EXCEPT ![k] = [fetches[k] EXCEPT ![i] = f]]
  BY <1>1, <1>3
<1> QED
  BY <1>1, <1>2, <1>3, <1>4, <1>5

LEMMA DropListIs ==
  ASSUME TypeOK, NEW k \in Kinds, NEW i \in DOMAIN fetches[k],
         fetches' = [fetches EXCEPT ![k] = RemoveAt(@, i)]
  PROVE  /\ fetches' \in [Kinds -> Seq(Fetch)]
         /\ \A l \in Kinds : l # k => fetches'[l] = fetches[l]
         /\ \A j \in DOMAIN fetches'[k] :
              \E m \in DOMAIN fetches[k] : m # i /\ fetches'[k][j] = fetches[k][m]
<1> DEFINE s == fetches[k]
<1>1. s \in Seq(Fetch) /\ fetches \in [Kinds -> Seq(Fetch)] /\ i \in DOMAIN s
  BY DEF TypeOK
<1>2. fetches'[k] = RemoveAt(s, i)
  BY <1>1
<1>3. /\ RemoveAt(s, i) \in Seq(Fetch) /\ DOMAIN RemoveAt(s, i) = 1..(Len(s) - 1)
      /\ \A j \in 1..(Len(s) - 1) : RemoveAt(s, i)[j] = IF j < i THEN s[j] ELSE s[j + 1]
  <2> HIDE DEF s
  <2> QED
    BY <1>1, RemoveAtIs
<1>4. DOMAIN s = 1..Len(s) /\ Len(s) \in Nat
  BY <1>1
<1> HIDE DEF s
<1>5. ASSUME NEW j \in 1..(Len(s) - 1)
      PROVE  \E m \in DOMAIN s : m # i /\ RemoveAt(s, i)[j] = s[m]
  <2>1. j \in DOMAIN s /\ j + 1 \in DOMAIN s
    BY <1>4
  <2> QED
    BY <1>1, <1>3, <1>4, <2>1
<1> QED
  BY <1>1, <1>2, <1>3, <1>5 DEF s

LEMMA ListType ==
  ASSUME TypeOK, NEW k \in Kinds,
         ReadList(k) \/ Decide(k) \/ \E i \in DOMAIN fetches[k] : ApplyList(k, i) \/ LoseList(k, i)
  PROVE  TypeOK'
<1>1. CASE ReadList(k)
  <2>1. fetches' \in [Kinds -> Seq(Fetch)] /\ lost' \subseteq Requests
    BY <1>1, ReadListIs DEF TypeOK
  <2> QED
    BY <1>1, <2>1 DEF ReadList, TypeOK, server, accept, Waiting
<1>2. CASE Decide(k)
  <2> DEFINE r == CHOOSE q \in Shown(k) : \A p \in Shown(k) : q <= p
  <2>1. Shown(k) \subseteq Nat /\ Shown(k) \subseteq Requests /\ Shown(k) # {}
    BY <1>2, RequestFacts DEF Decide, Shown, TypeOK
  <2>2. r \in Requests
    <3>1. \E q \in Shown(k) : \A p \in Shown(k) : <<p, q>> \notin OpToRel(<, Nat)
      BY <2>1, NatLessThanWellFounded, WFMin, Zenon
    <3>2. PICK q \in Shown(k) : \A p \in Shown(k) : <<p, q>> \notin OpToRel(<, Nat)
      BY <3>1
    <3>3. ASSUME NEW p \in Shown(k) PROVE q <= p
      <4>1. <<p, q>> \in Nat \X Nat /\ p \in Nat /\ q \in Nat
        BY <2>1
      <4>2. ~(p < q)
        BY <3>2, <4>1, Zenon DEF OpToRel
      <4> QED
        BY <4>1, <4>2
    <3> QED
      BY <2>1, <3>3
  <2>3. replies' = replies \cup {[req |-> r, by |-> "user"]}
    BY <1>2 DEF Decide
  <2>4. replies' \subseteq Reply
    <3> HIDE DEF r
    <3> QED
      BY <2>2, <2>3 DEF TypeOK, Reply
  <2> QED
    BY <1>2, <2>4 DEF Decide, TypeOK, server, store, accept, Waiting
<1>3. ASSUME NEW i \in DOMAIN fetches[k], ApplyList(k, i)
      PROVE  TypeOK'
  <2> DEFINE f == fetches[k][i]
  <2>1. f \in Fetch
    BY DEF TypeOK
  <2>2. view' = Replaced(k, f) /\ doubt' = (doubt \ OfKind(k)) \cup (Clouded(f) \cap OfKind(k))
    BY <1>3 DEF ApplyList
  <2>3. view' \subseteq Requests /\ doubt' \subseteq Requests
    <3> HIDE DEF f
    <3> QED
      BY <2>1, <2>2 DEF Replaced, TypeOK, Fetch, OfKind
  <2>4. fetches' \in [Kinds -> Seq(Fetch)]
    BY <1>3, DropListIs DEF ApplyList
  <2> QED
    BY <1>3, <2>3, <2>4 DEF ApplyList, TypeOK, server, accept, Waiting
<1>4. ASSUME NEW i \in DOMAIN fetches[k], LoseList(k, i)
      PROVE  TypeOK'
  <2>1. fetches' \in [Kinds -> Seq(Fetch)] /\ doubt' \subseteq Requests
    BY <1>4, DropListIs DEF LoseList, TypeOK, OfKind
  <2> QED
    BY <1>4, <2>1 DEF LoseList, TypeOK, server, accept, Waiting
<1> QED
  BY <1>1, <1>2, <1>3, <1>4

LEMMA AcceptType ==
  ASSUME TypeOK,
         \/ \E c \in replies : LoseReply(c)
         \/ Enable \/ Disable
         \/ \E i \in DOMAIN lists : ReadPending(i) \/ AcceptPending(i)
  PROVE  TypeOK'
<1>1. ASSUME NEW c \in replies, LoseReply(c)
      PROVE  TypeOK'
  <2>1. /\ replies' \subseteq Reply /\ responded' \subseteq Requests /\ doubt' \subseteq Requests
    BY <1>1, ReplyIs DEF LoseReply, TypeOK
  <2> QED
    BY <1>1, <2>1 DEF LoseReply, TypeOK, server, store, Waiting
<1>2. CASE Enable
  <2> DEFINE l == [version |-> version + 1, read |-> FALSE, snap |-> {}]
  <2>1. version + 1 \in Nat /\ l \in ListCall
    BY DEF TypeOK, ListCall
  <2>2. lists' = Append(lists, l)
    BY <1>2 DEF Enable
  <2>3. lists' \in Seq(ListCall)
    <3> HIDE DEF l
    <3> QED
      BY <2>1, <2>2 DEF TypeOK
  <2> QED
    BY <1>2, <2>1, <2>3 DEF Enable, TypeOK, server, store, Waiting
<1>3. CASE Disable
  <2>1. version + 1 \in Nat
    BY DEF TypeOK
  <2> QED
    BY <1>3, <2>1 DEF Disable, TypeOK, server, store, Waiting
<1>4. ASSUME NEW i \in DOMAIN lists, ReadPending(i)
      PROVE  TypeOK'
  <2> DEFINE l == [lists[i] EXCEPT !.read = TRUE, !.snap = pending \ Questions]
  <2>1. lists[i] \in ListCall /\ lists \in Seq(ListCall)
    BY DEF TypeOK
  <2>2. l \in ListCall
    BY <2>1 DEF ListCall, TypeOK, Waiting
  <2>3. lists' = [lists EXCEPT ![i] = l]
    BY <1>4, <2>1 DEF ReadPending, ListCall
  <2>4. lists' \in Seq(ListCall)
    <3> HIDE DEF l
    <3> QED
      BY <2>1, <2>2, <2>3
  <2> QED
    BY <1>4, <2>4 DEF ReadPending, TypeOK, server, store, Waiting
<1>5. ASSUME NEW i \in DOMAIN lists, AcceptPending(i)
      PROVE  TypeOK'
  <2> DEFINE now == IF lists[i].version = version /\ auto THEN lists[i].snap ELSE {}
  <2>1. lists[i] \in ListCall
    BY DEF TypeOK
  <2>2. now \in SUBSET Requests
    BY <2>1 DEF ListCall
  <2>3. replies' = replies \cup AutoReply(now) /\ responded' = responded \cup now
    BY <1>5 DEF AcceptPending
  <2>4. lists' \in Seq(ListCall)
    BY <1>5, RemoveAtIs DEF AcceptPending, TypeOK
  <2> HIDE DEF now
  <2>5. replies' \subseteq Reply /\ responded' \subseteq Requests
    BY <2>2, <2>3, AutoReplyType DEF TypeOK
  <2> QED
    BY <1>5, <2>4, <2>5 DEF AcceptPending, TypeOK, server, store, Waiting
<1> QED
  BY <1>1, <1>2, <1>3, <1>4, <1>5

LEMMA TypeStep ==
  ASSUME TypeOK, [Next]_vars
  PROVE  TypeOK'
<1>1. CASE UNCHANGED vars
  BY <1>1 DEF vars, server, store, accept, TypeOK, Waiting
<1>2. CASE Next
  BY <1>2, AskType, HandleType, SilentEndType, StreamType, RefreshType, ListType, AcceptType
     DEF Next
<1> QED
  BY <1>1, <1>2

\* Everything has its type, and the map of pending requests holds those whose call
\* waits: no call waits for an answer that can no longer be given, whatever is
\* answered, swept, interrupted or disposed meanwhile (permission/index.ts:180-262).
THEOREM RequestTypeCorrect == Spec => []TypeOK
<1> QED
  BY InitType, TypeStep, PTL DEF Spec

-----------------------------------------------------------------------------
(***************************************************************************)
(* Consent.                                                                *)
(***************************************************************************)

LEMMA HandleConsents ==
  ASSUME TypeOK, NEW c \in replies, Handle(c),
         NEW r \in Requests \ Questions, asker'[r] = "allowed", asker[r] # "allowed",
         r # c.req
  PROVE  \A p \in PatternsOf[r] : p \in approved'
<1>1. c.req \in pending
  BY DEF Handle
<1>2. PICK answer \in Answers(c) :
        LET others == Swept(c.req, answer)
            told == IF answer = "reject" THEN "refused" ELSE "allowed"
        IN /\ asker' = [q \in Requests |->
                          IF q \in others \cup {c.req} THEN told ELSE asker[q]]
           /\ approved' = IF answer = "always" THEN approved \cup AlwaysOf[c.req] ELSE approved
  BY <1>1 DEF Handle
<1>3. r \in Swept(c.req, answer) /\ answer # "reject"
  BY <1>2
<1>4. answer = "always"
  BY <1>3 DEF Swept, Answers
<1>5. Covered(r, approved \cup AlwaysOf[c.req]) /\ approved' = approved \cup AlwaysOf[c.req]
  BY <1>2, <1>3, <1>4 DEF Swept
<1> QED
  BY <1>5 DEF Covered

\* A permission is exercised only with consent: a call goes on when its very request
\* is answered, or when all it asks for is approved by then, or allowed by the rules,
\* pattern for pattern; no answer to another request carries it further
\* (permission/index.ts:180-262).
THEOREM ConsentIsGiven == Spec => Consented
<1> DEFINE Consent(r) ==
      asker'[r] = "allowed" /\ asker[r] # "allowed" =>
         \/ \E c \in replies \ replies' : c.req = r
         \/ \A p \in PatternsOf[r] : p \in approved' \/ Rule[p] = "allow"
<1>1. ASSUME TypeOK, [Next]_vars, NEW r \in Requests \ Questions
      PROVE  Consent(r)
  <2> SUFFICES ASSUME asker'[r] = "allowed", asker[r] # "allowed"
               PROVE  \/ \E c \in replies \ replies' : c.req = r
                      \/ \A p \in PatternsOf[r] : p \in approved' \/ Rule[p] = "allow"
    OBVIOUS
  <2>1. ASSUME NEW q \in Requests, Ask(q)
        PROVE  \A p \in PatternsOf[r] : p \in approved' \/ Rule[p] = "allow"
    <3>1. q = r /\ Verdict(r) = "allowed" /\ approved' = approved
      BY <2>1 DEF Ask, TypeOK
    <3>2. \A p \in PatternsOf[r] : Evaluate(p) = "allow"
      BY <3>1 DEF Verdict
    <3> QED
      BY <3>1, <3>2 DEF Evaluate
  <2>2. ASSUME NEW c \in replies, Handle(c)
        PROVE  \/ \E d \in replies \ replies' : d.req = r
               \/ \A p \in PatternsOf[r] : p \in approved' \/ Rule[p] = "allow"
    <3>1. c \in replies \ replies'
      BY <2>2 DEF Handle
    <3>2. CASE r = c.req
      BY <3>1, <3>2
    <3>3. CASE r # c.req
      BY <1>1, <2>2, <3>3, HandleConsents
    <3> QED
      BY <3>2, <3>3
  <2>3. ASSUME \/ \E s \in Sessions : Interrupt(s)
               \/ Dispose
        PROVE  FALSE
    BY <2>3 DEF Interrupt, Dispose
  <2>4. CASE asker' = asker
    BY <2>4
  <2>5. CASE UNCHANGED vars
    BY <2>5 DEF vars, server
  <2>6. CASE Next
    <3>1. \/ \E q \in Requests : Ask(q)
          \/ \E c \in replies : Handle(c)
          \/ (\E s \in Sessions : Interrupt(s)) \/ Dispose
          \/ asker' = asker
      BY <2>6 DEF Next, LoseReply, TellDisposed, Drop, Reconnect, Deliver, Settle, Refresh,
         ReadList, Decide, ApplyList, LoseList, Enable, Disable, ReadPending, AcceptPending, server
    <3> QED
      BY <2>1, <2>2, <2>3, <2>4, <3>1
  <2> QED
    BY <1>1, <2>5, <2>6
<1>2. TypeOK /\ [Next]_vars => \A r \in Requests \ Questions : Consent(r)
  BY <1>1
<1>3. TypeOK /\ [Next]_vars =>
        [\A r \in Requests \ Questions : Consent(r)]_vars
  BY <1>2
<1> QED
  BY <1>3, RequestTypeCorrect, PTL DEF Spec, Consented

-----------------------------------------------------------------------------
(***************************************************************************)
(* The inductive invariant.  For each request there is a reason why the    *)
(* app will know of it what the server knows.                              *)
(***************************************************************************)

\* Nothing on the wire speaks of r.
Silent(r) == \A i \in DOMAIN wire : wire[i].req # r

\* The last event on the wire that speaks of r says what is true of it.
LastWord(r, i) == wire[i].req = r /\ \A j \in DOMAIN wire : i < j => wire[j].req # r
Told(r) ==
  \E i \in DOMAIN wire : LastWord(r, i) /\ (wire[i].type = "asked" <=> r \in pending)

\* Or nothing will be said, and the view is right.
Seen(r) == Silent(r) /\ (r \in view <=> r \in pending)

\* Or a list that was read since r last changed is on its way.
Listed(r) ==
  /\ Silent(r)
  /\ \E i \in DOMAIN fetches[Kind(r)] :
       fetches[Kind(r)][i].read /\ r \notin fetches[Kind(r)][i].missed

\* Or the event was lost, and a list will be read when the app hears of that:
\* after the last event that still speaks of r.
Recalled(r) ==
  \/ ~up
  \/ \E i \in DOMAIN wire :
       wire[i] = Connected /\ \A j \in DOMAIN wire : i < j => wire[j].req # r
  \/ /\ Silent(r)
     /\ refresh \/ \E i \in DOMAIN fetches[Kind(r)] : ~fetches[Kind(r)][i].read

Known(r) ==
  \/ r \in doubt
  \/ Told(r)
  \/ Seen(r)
  \/ Listed(r)
  \/ r \in lost /\ Recalled(r)

\* A list is right about what did not change after it was read.
ListHolds(k, i) ==
  fetches[k][i].read =>
    /\ fetches[k][i].snap \subseteq OfKind(k)
    /\ \A r \in OfKind(k) :
         r \notin fetches[k][i].missed => (r \in fetches[k][i].snap <=> r \in pending)

\* An end is told once, and nothing is said of a request after it.
EndIsLast(i) ==
  wire[i].type = "replied" =>
    /\ asker[wire[i].req] \in {"allowed", "refused"}
    /\ \A j \in DOMAIN wire : i < j => wire[j].req # wire[i].req

Inv ==
  /\ TypeOK
  /\ \A k \in Kinds : \A i \in DOMAIN fetches[k] : ListHolds(k, i)
  /\ \A i \in DOMAIN wire : EndIsLast(i)
  /\ \A r \in Requests : Known(r)

LEMMA InitInv == Init => Inv
<1> SUFFICES ASSUME Init PROVE Inv
  OBVIOUS
<1>1. TypeOK
  BY InitType
<1>2. DOMAIN wire = {} /\ \A k \in Kinds : DOMAIN fetches[k] = {}
  BY DEF Init
<1>3. \A r \in Requests : Seen(r)
  BY <1>2 DEF Init, Seen, Silent
<1> QED
  BY <1>1, <1>2, <1>3 DEF Inv, Known

\* The three parts that are about what travels.
Travels ==
  /\ \A k \in Kinds : \A i \in DOMAIN fetches[k] : ListHolds(k, i)
  /\ \A i \in DOMAIN wire : EndIsLast(i)
  /\ \A r \in Requests : Known(r)

LEMMA SilentIs ==
  ASSUME TypeOK, NEW r \in Requests
  PROVE  Silent(r) <=> r \notin InWire(wire)
<1>1. InWire(wire) = {wire[i].req : i \in DOMAIN wire} \ {0}
  BY InWireType DEF TypeOK
<1> QED
  BY <1>1, RequestFacts DEF Silent

\* What is known of r stays known while nothing is said of it and it does not change,
\* whatever is said of others.
LEMMA KnownStays ==
  ASSUME NEW r \in Requests, Known(r),
         wire \in Seq(Events), wire' \in Seq(Events),
         \A i \in DOMAIN wire : i \in DOMAIN wire' /\ wire'[i] = wire[i],
         \A j \in DOMAIN wire' : j \notin DOMAIN wire => wire'[j].req # r,
         r \in pending' <=> r \in pending, r \in view' <=> r \in view,
         DOMAIN fetches'[Kind(r)] = DOMAIN fetches[Kind(r)],
         \A i \in DOMAIN fetches[Kind(r)] :
            /\ fetches'[Kind(r)][i].read = fetches[Kind(r)][i].read
            /\ fetches[Kind(r)][i].read /\ r \notin fetches[Kind(r)][i].missed
                 => r \notin fetches'[Kind(r)][i].missed,
         r \in doubt => r \in doubt', r \in lost => r \in lost',
         up' => up, refresh => refresh'
  PROVE  Known(r)'
<1>1. Silent(r) => Silent(r)'
  BY DEF Silent
<1>2. ASSUME NEW i \in DOMAIN wire, \A j \in DOMAIN wire : i < j => wire[j].req # r
      PROVE  \A j \in DOMAIN wire' : i < j => wire'[j].req # r
  BY <1>2
<1>3. Told(r) => Told(r)'
  BY <1>2 DEF Told, LastWord
<1>4. Seen(r) => Seen(r)'
  BY <1>1 DEF Seen
<1>5. Listed(r) => Listed(r)'
  BY <1>1 DEF Listed
<1>6. Recalled(r) => Recalled(r)'
  <2>1. CASE ~up
    BY <2>1 DEF Recalled
  <2>2. CASE \E i \in DOMAIN wire :
               wire[i] = Connected /\ \A j \in DOMAIN wire : i < j => wire[j].req # r
    BY <1>2, <2>2 DEF Recalled
  <2>3. CASE Silent(r) /\ (refresh \/ \E i \in DOMAIN fetches[Kind(r)] : ~fetches[Kind(r)][i].read)
    BY <1>1, <2>3 DEF Recalled
  <2> QED
    BY <2>1, <2>2, <2>3 DEF Recalled
<1> QED
  BY <1>3, <1>4, <1>5, <1>6 DEF Known

\* What is published of requests that change is said once, is true and is said of
\* requests whose end was not told.
LEMMA PublishStep ==
  ASSUME Inv, TypeOK', NEW es \in Seq(Events), NEW rs \in SUBSET Requests,
         Publish(es, rs), UNCHANGED <<up, view, refresh>>,
         \A r \in Requests \ rs : r \in pending' <=> r \in pending,
         \A r \in Requests : asker[r] \in {"allowed", "refused"} => asker'[r] = asker[r],
         \A i \in DOMAIN es : es[i].req \in Requests =>
            /\ es[i].req \in rs
            /\ es[i].type = "asked" <=> es[i].req \in pending'
            /\ es[i].type = "replied" => asker'[es[i].req] \in {"allowed", "refused"}
            /\ asker[es[i].req] \in {"none", "waiting"}
            /\ \A j \in DOMAIN es : i < j => es[j].req # es[i].req
  PROVE  Travels'
<1> DEFINE n == Len(wire)
<1>a. TypeOK /\ wire \in Seq(Events) /\ fetches \in [Kinds -> Seq(Fetch)]
  BY DEF Inv, TypeOK
<1>0. /\ wire' \in Seq(Events) /\ wire' = IF up THEN wire \o es ELSE wire
      /\ \A k \in Kinds :
           /\ DOMAIN fetches'[k] = DOMAIN fetches[k]
           /\ \A i \in DOMAIN fetches[k] :
                /\ fetches'[k][i].read = fetches[k][i].read
                /\ fetches'[k][i].snap = fetches[k][i].snap
                /\ fetches[k][i].read =>
                     fetches'[k][i].missed = fetches[k][i].missed \cup (rs \cap OfKind(k))
  BY <1>a, PublishIs
<1>1. DOMAIN wire = 1..n /\ n \in Nat /\ DOMAIN es = 1..Len(es) /\ Len(es) \in Nat
  BY <1>a
<1>2. /\ \A i \in DOMAIN wire : i \in DOMAIN wire' /\ wire'[i] = wire[i]
      /\ \A j \in DOMAIN wire' : j \notin DOMAIN wire =>
           up /\ j - n \in DOMAIN es /\ wire'[j] = es[j - n]
      /\ up => \A i \in DOMAIN es : n + i \in DOMAIN wire' /\ wire'[n + i] = es[i]
  <2>1. CASE ~up
    BY <1>0, <2>1
  <2>2. CASE up
    <3>1. /\ Len(wire') = n + Len(es)
          /\ \A i \in 1..(n + Len(es)) : wire'[i] = IF i <= n THEN wire[i] ELSE es[i - n]
      BY <1>a, <1>0, <2>2, ConcatProperties
    <3>2. DOMAIN wire' = 1..(n + Len(es))
      BY <1>0, <3>1
    <3>3. ASSUME NEW i \in 1..n PROVE i \in 1..(n + Len(es)) /\ i <= n
      BY <1>1
    <3>4. ASSUME NEW j \in 1..(n + Len(es)), j \notin 1..n
          PROVE  ~(j <= n) /\ j - n \in 1..Len(es)
      BY <1>1, <3>4
    <3>5. ASSUME NEW i \in 1..Len(es)
          PROVE  n + i \in 1..(n + Len(es)) /\ ~(n + i <= n) /\ (n + i) - n = i
      BY <1>1
    <3> HIDE DEF n
    <3> QED
      BY <1>1, <2>2, <3>1, <3>2, <3>3, <3>4, <3>5
  <2> QED
    BY <2>1, <2>2
<1> HIDE DEF n
<1>3. ASSUME NEW k \in Kinds, NEW i \in DOMAIN fetches'[k]
      PROVE  ListHolds(k, i)'
  <2>1. i \in DOMAIN fetches[k] /\ ListHolds(k, i)
    BY <1>0 DEF Inv
  <2>a. fetches'[k][i].read => fetches'[k][i].snap \subseteq OfKind(k)
    BY <1>0, <2>1 DEF ListHolds
  <2> SUFFICES ASSUME fetches'[k][i].read, NEW r \in OfKind(k), r \notin fetches'[k][i].missed
               PROVE  r \in fetches'[k][i].snap <=> r \in pending'
    BY <2>a DEF ListHolds, OfKind
  <2>2. fetches[k][i].read /\ r \notin fetches[k][i].missed /\ r \notin rs /\ r \in Requests
    BY <1>0, <2>1 DEF OfKind
  <2> QED
    BY <1>0, <2>1, <2>2 DEF ListHolds
<1>4. ASSUME NEW i \in DOMAIN wire', wire'[i].type = "replied"
      PROVE  /\ asker'[wire'[i].req] \in {"allowed", "refused"}
             /\ \A j \in DOMAIN wire' : i < j => wire'[j].req # wire'[i].req
  <2>0. wire'[i] \in Events /\ wire'[i].req \in Requests
    <3>1. wire'[i] \in Events
      BY <1>0
    <3> QED
      BY <1>4, <3>1, EventIs
  <2>1. CASE i \in DOMAIN wire
    <3>1. /\ wire[i].type = "replied" /\ wire'[i] = wire[i]
          /\ asker[wire[i].req] \in {"allowed", "refused"}
          /\ \A j \in DOMAIN wire : i < j => wire[j].req # wire[i].req
      BY <1>2, <1>4, <2>1 DEF Inv, EndIsLast
    <3>2. ASSUME NEW j \in DOMAIN wire', i < j PROVE wire'[j].req # wire'[i].req
      <4>1. CASE j \in DOMAIN wire
        BY <1>2, <3>1, <3>2, <4>1
      <4>2. CASE j \notin DOMAIN wire
        BY <1>2, <2>0, <3>1, <4>2
      <4> QED
        BY <4>1, <4>2
    <3> QED
      BY <2>0, <3>1, <3>2
  <2>2. CASE i \notin DOMAIN wire
    <3>1. up /\ i - n \in DOMAIN es /\ wire'[i] = es[i - n]
      BY <1>2, <2>2
    <3>2. ASSUME NEW j \in DOMAIN wire', i < j PROVE wire'[j].req # wire'[i].req
      <4>1. i \in Nat /\ j \in Nat
        BY <1>0
      <4>2. j \notin DOMAIN wire
        BY <1>1, <2>2, <3>2, <4>1, <1>0
      <4>3. j - n \in DOMAIN es /\ wire'[j] = es[j - n] /\ i - n < j - n
        BY <1>1, <1>2, <3>2, <4>1, <4>2
      <4> QED
        BY <2>0, <3>1, <4>3
    <3> QED
      BY <1>4, <2>0, <3>1, <3>2
  <2> QED
    BY <2>1, <2>2
<1>5. ASSUME NEW r \in Requests
      PROVE  Known(r)'
  <2> DEFINE told == {es[i].req : i \in DOMAIN es}
  <2>0. doubt' = doubt \cup (rs \ told) /\ lost' = IF up THEN lost ELSE lost \cup (rs \cap told)
    BY DEF Publish
  <2>1. CASE r \in rs \ told
    BY <2>0, <2>1 DEF Known
  <2>2. CASE r \in told /\ ~up
    <3>1. r \in rs
      BY <2>2
    <3> QED
      BY <2>0, <2>2, <3>1 DEF Known, Recalled
  <2>3. CASE r \in told /\ up
    <3>1. PICK i \in DOMAIN es : es[i].req = r
      BY <2>3
    <3>2. n + i \in DOMAIN wire' /\ wire'[n + i] = es[i]
      BY <1>2, <2>3
    <3>3. ASSUME NEW j \in DOMAIN wire', n + i < j PROVE wire'[j].req # r
      <4>1. i \in Nat /\ j \in Nat /\ 0 < i
        BY <1>0, <1>1
      <4>2. j \notin DOMAIN wire
        BY <1>1, <3>3, <4>1
      <4>3. j - n \in DOMAIN es /\ wire'[j] = es[j - n] /\ i < j - n
        BY <1>1, <1>2, <3>3, <4>1, <4>2
      <4> QED
        BY <3>1, <4>3
    <3>4. Told(r)'
      BY <3>1, <3>2, <3>3 DEF Told, LastWord
    <3> QED
      BY <3>4 DEF Known
  <2>4. CASE r \notin rs /\ r \notin told
    <3>1. Kind(r) \in Kinds /\ Known(r)
      BY RequestFacts DEF Inv
    <3>2. \A j \in DOMAIN wire' : j \notin DOMAIN wire => wire'[j].req # r
      BY <1>2, <2>4
    <3>3. \A i \in DOMAIN fetches[Kind(r)] :
            /\ fetches'[Kind(r)][i].read = fetches[Kind(r)][i].read
            /\ fetches[Kind(r)][i].read /\ r \notin fetches[Kind(r)][i].missed
                 => r \notin fetches'[Kind(r)][i].missed
      BY <1>0, <2>4, <3>1
    <3>4. (r \in doubt => r \in doubt') /\ (r \in lost => r \in lost')
      BY <2>0
    <3> HIDE DEF told
    <3> QED
      BY <1>a, <1>0, <1>2, <2>4, <3>1, <3>2, <3>3, <3>4, KnownStays
  <2>5. CASE r \in rs /\ r \in told
    BY <2>2, <2>3, <2>5
  <2>6. r \in told => r \in rs
    OBVIOUS
  <2> QED
    BY <2>1, <2>4, <2>5, <2>6
<1> QED
  BY <1>3, <1>4, <1>5 DEF Travels, EndIsLast, Inv

\* A step that says nothing and changes nothing the app could know of.
LEMMA QuietStep ==
  ASSUME Inv, TypeOK', UNCHANGED <<pending, up, wire, view, fetches, refresh, lost>>,
         doubt \subseteq doubt',
         \A r \in Requests : asker[r] \in {"allowed", "refused"} => asker'[r] = asker[r]
  PROVE  Travels'
<1>1. wire \in Seq(Events)
  BY DEF Inv, TypeOK
<1>2. ASSUME NEW k \in Kinds, NEW i \in DOMAIN fetches'[k]
      PROVE  ListHolds(k, i)'
  BY DEF Inv, ListHolds
<1>3. ASSUME NEW i \in DOMAIN wire'
      PROVE  EndIsLast(i)'
  <2>1. EndIsLast(i) /\ wire[i] \in Events
    BY <1>1 DEF Inv
  <2>2. wire[i].type = "replied" => wire[i].req \in Requests
    BY <2>1, EventIs
  <2> QED
    BY <2>1, <2>2 DEF EndIsLast
<1>4. ASSUME NEW r \in Requests
      PROVE  Known(r)'
  BY <1>1, KnownStays DEF Inv
<1> QED
  BY <1>2, <1>3, <1>4 DEF Travels

LEMMA AskStep ==
  ASSUME Inv, TypeOK', NEW r \in Requests, Ask(r)
  PROVE  Travels'
<1>1. asker[r] = "none" /\ asker' = [asker EXCEPT ![r] = Verdict(r)]
  BY DEF Ask
<1>2. \A q \in Requests : asker[q] \in {"allowed", "refused"} => asker'[q] = asker[q]
  BY <1>1 DEF Inv, TypeOK
<1>3. CASE Verdict(r) = "waiting"
  <2>1. Publish(<<Asked(r)>>, {r}) /\ pending' = pending \cup {r} /\ UNCHANGED <<up, view, refresh>>
    BY <1>3 DEF Ask
  <2> DEFINE es == <<Asked(r)>>
  <2>2. /\ es \in Seq(Events) /\ {r} \in SUBSET Requests
        /\ \A i \in DOMAIN es : i = 1 /\ es[i].req = r /\ es[i].type = "asked"
    BY EventFacts
  <2> HIDE DEF es
  <2>3. \A i \in DOMAIN es : es[i].req \in Requests =>
            /\ es[i].req \in {r}
            /\ es[i].type = "asked" <=> es[i].req \in pending'
            /\ es[i].type = "replied" => asker'[es[i].req] \in {"allowed", "refused"}
            /\ asker[es[i].req] \in {"none", "waiting"}
            /\ \A j \in DOMAIN es : i < j => es[j].req # es[i].req
    BY <1>1, <2>1, <2>2
  <2>4. Publish(es, {r})
    BY <2>1 DEF es
  <2> QED
    BY <1>2, <2>1, <2>2, <2>3, <2>4, PublishStep
<1>4. CASE Verdict(r) # "waiting"
  <2>1. UNCHANGED <<pending, up, wire, view, fetches, refresh, lost, doubt>>
    BY <1>4 DEF Ask
  <2> QED
    BY <1>2, <2>1, QuietStep
<1> QED
  BY <1>3, <1>4

LEMMA HandleStep ==
  ASSUME Inv, TypeOK', NEW c \in replies, Handle(c)
  PROVE  Travels'
<1>1. TypeOK /\ c.req \in Requests
  BY ReplyIs DEF Inv
<1>2. CASE c.req \in pending
  <2>1. PICK answer \in Answers(c) :
          LET others == Swept(c.req, answer)
              told == IF answer = "reject" THEN "refused" ELSE "allowed"
          IN /\ pending' = pending \ (others \cup {c.req})
             /\ asker' = [r \in Requests |->
                            IF r \in others \cup {c.req} THEN told ELSE asker[r]]
             /\ \E q \in Ascending(others) :
                  Publish(Announced(c.req, q), others \cup {c.req})
    BY <1>2 DEF Handle
  <2> DEFINE others == Swept(c.req, answer)
             told == IF answer = "reject" THEN "refused" ELSE "allowed"
             rs == others \cup {c.req}
  <2>2. others \subseteq pending /\ c.req \notin others /\ others \in SUBSET Requests
    BY <1>1, SweptIs
  <2>3. told \in {"allowed", "refused"}
    OBVIOUS
  <2>4. PICK q \in Ascending(others) : Publish(Announced(c.req, q), rs)
    BY <2>1
  <2>5. /\ pending' = pending \ rs
        /\ asker' = [r \in Requests |-> IF r \in rs THEN told ELSE asker[r]]
    BY <2>1
  <2> DEFINE es == Announced(c.req, q)
  <2> HIDE DEF others, told
  <2>6. /\ es \in Seq(Events)
        /\ \A i \in DOMAIN es : es[i].type = "replied" /\ es[i].req \in rs
        /\ \A i, j \in DOMAIN es : i < j => es[i].req # es[j].req
    BY <1>1, <2>2, AnnouncedIs
  <2>7. rs \subseteq pending /\ rs \in SUBSET Requests
    BY <1>1, <1>2, <2>2
  <2>8. \A r \in rs : asker[r] = "waiting"
    BY <1>1, <2>7 DEF TypeOK, Waiting
  <2> HIDE DEF es, rs
  <2>9. \A i \in DOMAIN es : es[i].req \in Requests =>
            /\ es[i].req \in rs
            /\ es[i].type = "asked" <=> es[i].req \in pending'
            /\ es[i].type = "replied" => asker'[es[i].req] \in {"allowed", "refused"}
            /\ asker[es[i].req] \in {"none", "waiting"}
            /\ \A j \in DOMAIN es : i < j => es[j].req # es[i].req
    BY <2>3, <2>5, <2>6, <2>8
  <2>10. \A r \in Requests : asker[r] \in {"allowed", "refused"} => asker'[r] = asker[r]
    BY <2>5, <2>8
  <2>11. Publish(es, rs) /\ UNCHANGED <<up, view, refresh>>
    BY <2>4 DEF Handle, es
  <2> QED
    BY <2>5, <2>6, <2>7, <2>9, <2>10, <2>11, PublishStep
<1>3. CASE c.req \notin pending
  <2>1. UNCHANGED <<pending, asker, up, wire, view, fetches, refresh, lost, doubt>>
    BY <1>3 DEF Handle
  <2> QED
    BY <2>1, QuietStep
<1> QED
  BY <1>2, <1>3

LEMMA SilentEndStep ==
  ASSUME Inv, TypeOK', (\E s \in Sessions : Interrupt(s)) \/ Dispose \/ TellDisposed
  PROVE  Travels'
<1>0. /\ TypeOK
      /\ \A r \in Requests : r \in pending <=> asker[r] = "waiting"
      /\ pending \in SUBSET Requests /\ <<>> \in Seq(Events) /\ DOMAIN <<>> = {}
  BY DEF Inv, TypeOK, Waiting
<1>1. ASSUME NEW s \in Sessions, Interrupt(s)
      PROVE  Travels'
  <2> DEFINE gone == {r \in Waiting : SessionOf[r] = s}
  <2>1. gone \in SUBSET Requests /\ \A r \in gone : asker[r] = "waiting"
    BY DEF Waiting
  <2>2. /\ asker' = [r \in Requests |-> IF r \in gone THEN "refused" ELSE asker[r]]
        /\ pending' = pending \ gone
        /\ Publish(<<>>, gone) /\ UNCHANGED <<up, view, refresh>>
    BY <1>1 DEF Interrupt
  <2> HIDE DEF gone
  <2>3. \A r \in Requests : asker[r] \in {"allowed", "refused"} => asker'[r] = asker[r]
    BY <2>1, <2>2
  <2> QED
    BY <1>0, <2>1, <2>2, <2>3, PublishStep
<1>2. CASE Dispose
  <2>1. /\ asker' = [r \in Requests |-> IF r \in pending THEN "refused" ELSE asker[r]]
        /\ pending' = {}
        /\ Publish(<<>>, pending) /\ UNCHANGED <<up, view, refresh>>
    BY <1>2 DEF Dispose
  <2>2. \A r \in Requests : asker[r] \in {"allowed", "refused"} => asker'[r] = asker[r]
    BY <1>0, <2>1
  <2> QED
    BY <1>0, <2>1, <2>2, PublishStep
<1>3. CASE TellDisposed
  <2> DEFINE es == <<Disposed>>
  <2>1. es \in Seq(Events) /\ {} \in SUBSET Requests /\ \A i \in DOMAIN es : es[i].req = 0
    BY SignalFacts
  <2>2. Publish(es, {}) /\ UNCHANGED <<asker, pending, up, view, refresh>>
    BY <1>3 DEF TellDisposed
  <2>3. 0 \notin Requests
    BY RequestFacts
  <2> HIDE DEF es
  <2> QED
    BY <2>1, <2>2, <2>3, PublishStep
<1> QED
  BY <1>1, <1>2, <1>3

LEMMA DropStep ==
  ASSUME Inv, TypeOK', Drop
  PROVE  Travels'
<1>0. TypeOK /\ wire \in Seq(Events)
  BY DEF Inv, TypeOK
<1>1. PICK n \in 0..Len(wire) :
        /\ wire' = SubSeq(wire, 1, n)
        /\ lost' = lost \cup InWire(SubSeq(wire, n + 1, Len(wire)))
  BY DEF Drop
<1>2. /\ ~up' /\ UNCHANGED <<asker, pending, view, fetches, refresh, doubt>>
  BY DEF Drop, server, store
<1>3. DOMAIN wire = 1..Len(wire) /\ Len(wire) \in Nat
  BY <1>0
<1>4. DOMAIN wire' = 1..n /\ \A i \in 1..n : i \in DOMAIN wire /\ wire'[i] = wire[i]
  <2>1. \A i \in 1..n : i \in 1..Len(wire) /\ wire[i] \in Events
    BY <1>0, <1>3
  <2>2. /\ wire' \in Seq(Events) /\ Len(wire') = IF 1 <= n THEN n - 1 + 1 ELSE 0
        /\ \A i \in 1..(n - 1 + 1) : wire'[i] = wire[1 + i - 1]
    BY <1>1, <2>1, SubSeqProperties
  <2>3. n - 1 + 1 = n /\ Len(wire') = n /\ DOMAIN wire' = 1..Len(wire')
    BY <2>2
  <2>4. \A i \in 1..n : 1 + i - 1 = i
    OBVIOUS
  <2> QED
    BY <1>3, <2>1, <2>2, <2>3, <2>4
<1>5. ASSUME NEW r \in Requests, NEW i \in DOMAIN wire, i \notin DOMAIN wire', wire[i].req = r
      PROVE  r \in lost'
  <2> DEFINE cut == SubSeq(wire, n + 1, Len(wire))
  <2>1. \A j \in (n + 1)..Len(wire) : wire[j] \in Events
    BY <1>0, <1>3
  <2>2. /\ cut \in Seq(Events) /\ Len(cut) = IF n + 1 <= Len(wire) THEN Len(wire) - (n + 1) + 1 ELSE 0
        /\ \A j \in 1..(Len(wire) - (n + 1) + 1) : cut[j] = wire[n + 1 + j - 1]
    BY <1>3, <2>1, SubSeqProperties
  <2>3. i - n \in 1..(Len(wire) - (n + 1) + 1) /\ n + 1 + (i - n) - 1 = i /\ n + 1 <= Len(wire)
    BY <1>3, <1>4, <1>5
  <2>4. i - n \in DOMAIN cut /\ cut[i - n] = wire[i]
    BY <1>3, <2>2, <2>3
  <2> HIDE DEF cut
  <2>5. r \in InWire(cut)
    BY <1>5, <2>2, <2>4, InWireType, RequestFacts
  <2> QED
    BY <1>1, <2>5 DEF cut
<1>6. ASSUME NEW k \in Kinds, NEW i \in DOMAIN fetches'[k]
      PROVE  ListHolds(k, i)'
  BY <1>2 DEF Inv, ListHolds
<1>7. ASSUME NEW i \in DOMAIN wire'
      PROVE  EndIsLast(i)'
  BY <1>2, <1>4 DEF Inv, EndIsLast
<1>8. ASSUME NEW r \in Requests
      PROVE  Known(r)'
  <2>1. CASE r \in lost'
    BY <1>2, <2>1 DEF Known, Recalled
  <2>2. CASE r \notin lost'
    <3>1. r \notin lost /\ \A i \in DOMAIN wire : wire[i].req = r => i \in DOMAIN wire'
      BY <1>1, <1>5, <2>2
    <3>2. Silent(r) => Silent(r)'
      BY <1>4 DEF Silent
    <3>3. Told(r) => Told(r)'
      BY <1>2, <1>4, <3>1 DEF Told, LastWord
    <3>4. Seen(r) => Seen(r)'
      BY <1>2, <3>2 DEF Seen
    <3>5. Listed(r) => Listed(r)'
      BY <1>2, <3>2 DEF Listed
    <3> QED
      BY <1>2, <3>1, <3>3, <3>4, <3>5 DEF Known, Inv
  <2> QED
    BY <2>1, <2>2
<1> QED
  BY <1>6, <1>7, <1>8 DEF Travels

LEMMA ReconnectStep ==
  ASSUME Inv, TypeOK', Reconnect
  PROVE  Travels'
<1> DEFINE n == Len(wire)
<1>0. TypeOK /\ wire \in Seq(Events) /\ Connected \in Events
  BY SignalFacts DEF Inv, TypeOK
<1>1. /\ wire' = Append(wire, Connected)
      /\ UNCHANGED <<asker, pending, view, fetches, refresh, lost, doubt>>
  BY DEF Reconnect, server, store
<1>2. /\ wire' \in Seq(Events) /\ DOMAIN wire = 1..n /\ DOMAIN wire' = 1..(n + 1) /\ n \in Nat
      /\ \A i \in 1..n : i \in DOMAIN wire' /\ wire'[i] = wire[i]
      /\ wire'[n + 1] = Connected
  BY <1>0, <1>1, AppendProperties
<1> HIDE DEF n
<1>3. \A j \in DOMAIN wire' : j \notin DOMAIN wire => j = n + 1
  BY <1>2
<1>4. \A r \in Requests : Connected.req # r
  BY SignalFacts, RequestFacts
<1>5. ASSUME NEW k \in Kinds, NEW i \in DOMAIN fetches'[k]
      PROVE  ListHolds(k, i)'
  BY <1>1 DEF Inv, ListHolds
<1>6. ASSUME NEW i \in DOMAIN wire'
      PROVE  EndIsLast(i)'
  <2> SUFFICES ASSUME wire'[i].type = "replied"
               PROVE  /\ asker[wire'[i].req] \in {"allowed", "refused"}
                      /\ \A j \in DOMAIN wire' : i < j => wire'[j].req # wire'[i].req
    BY <1>1 DEF EndIsLast
  <2>1. i \in DOMAIN wire
    BY <1>2, <1>3, SignalFacts
  <2>2. wire'[i] = wire[i] /\ EndIsLast(i) /\ wire[i].req \in Requests
    <3>1. wire'[i] = wire[i] /\ wire[i] \in Events
      BY <1>0, <1>2, <2>1
    <3> QED
      BY <2>1, <3>1, EventIs DEF Inv
  <2> QED
    BY <1>2, <1>3, <1>4, <2>2 DEF EndIsLast
<1>7. ASSUME NEW r \in Requests
      PROVE  Known(r)'
  <2>1. CASE r \in lost
    <3>1. n + 1 \in DOMAIN wire' /\ \A j \in DOMAIN wire' : ~(n + 1 < j)
      BY <1>2
    <3> QED
      BY <1>1, <1>2, <2>1, <3>1 DEF Known, Recalled
  <2>2. CASE r \notin lost
    <3>1. Silent(r) => Silent(r)'
      BY <1>2, <1>3, <1>4 DEF Silent
    <3>2. Told(r) => Told(r)'
      BY <1>1, <1>2, <1>3, <1>4 DEF Told, LastWord
    <3>3. (Seen(r) => Seen(r)') /\ (Listed(r) => Listed(r)')
      BY <1>1, <3>1 DEF Seen, Listed
    <3> QED
      BY <1>1, <2>2, <3>2, <3>3 DEF Known, Inv
  <2> QED
    BY <2>1, <2>2
<1> QED
  BY <1>5, <1>6, <1>7 DEF Travels

LEMMA DeliverStep ==
  ASSUME Inv, TypeOK', Deliver
  PROVE  Travels'
<1> DEFINE e == Head(wire)
           n == Len(wire)
<1>0. TypeOK /\ wire \in Seq(Events) /\ wire # <<>>
  BY DEF Inv, TypeOK, Deliver
<1>1. /\ wire' = Tail(wire)
      /\ view' = CASE e.type = "asked"   -> view \cup {e.req}
                   [] e.type = "replied" -> view \ {e.req}
                   [] OTHER              -> view
      /\ refresh' = (refresh \/ e.type = "disposed" \/ (e.type = "connected" /\ ~recent))
      /\ lost' = IF e = Connected /\ recent THEN {} ELSE lost
      /\ doubt' = CASE e.type = "replied"        -> doubt \ {e.req}
                    [] e = Connected /\ recent   -> doubt \cup lost
                    [] OTHER                     -> doubt
      /\ UNCHANGED <<asker, pending, up, fetches, recent>>
  BY DEF Deliver, server
<1>2. /\ e \in Events /\ e = wire[1] /\ 1 \in DOMAIN wire
      /\ n \in Nat /\ 1 <= n /\ DOMAIN wire = 1..n /\ DOMAIN wire' = 1..(n - 1)
      /\ \A i \in 1..(n - 1) : wire'[i] = wire[i + 1]
  <2>1. /\ e \in Events /\ wire' \in Seq(Events) /\ Len(wire') = n - 1
        /\ \A i \in 1..Len(wire') : wire'[i] = wire[i + 1]
    BY <1>0, <1>1, HeadTailProperties
  <2>2. n \in Nat /\ n # 0 /\ DOMAIN wire = 1..n /\ DOMAIN wire' = 1..Len(wire') /\ e = wire[1]
    BY <1>0, <2>1
  <2> QED
    BY <2>1, <2>2
<1>3. /\ e.req \in Requests \cup {0}
      /\ e = Connected <=> e.type = "connected"
      /\ e.type \in {"asked", "replied"} <=> e.req \in Requests
  BY <1>2, EventIs
<1> HIDE DEF e, n
<1>4. \A i \in 1..(n - 1) : i + 1 \in 1..n /\ 1 < i + 1
  BY <1>2
<1>5. \A i \in 1..n : 1 < i => i - 1 \in 1..(n - 1) /\ (i - 1) + 1 = i /\ wire'[i - 1] = wire[i]
  <2>1. \A i \in 1..n : 1 < i => i - 1 \in 1..(n - 1) /\ (i - 1) + 1 = i
    BY <1>2
  <2> QED
    BY <1>2, <2>1
<1>6. ASSUME NEW k \in Kinds, NEW i \in DOMAIN fetches'[k]
      PROVE  ListHolds(k, i)'
  BY <1>1 DEF Inv, ListHolds
<1>7. ASSUME NEW i \in DOMAIN wire'
      PROVE  EndIsLast(i)'
  <2>1. EndIsLast(i + 1) /\ wire'[i] = wire[i + 1] /\ i \in Nat
    BY <1>2, <1>4 DEF Inv
  <2>2. \A j \in DOMAIN wire' : i < j => j + 1 \in DOMAIN wire /\ i + 1 < j + 1 /\ wire'[j] = wire[j + 1]
    BY <1>2, <1>4, <2>1
  <2> QED
    BY <1>1, <2>1, <2>2 DEF EndIsLast
<1>8. ASSUME NEW r \in Requests
      PROVE  Known(r)'
  <2>0. Known(r) /\ r # 0
    BY RequestFacts DEF Inv
  <2>1. Silent(r) => Silent(r)' /\ e.req # r
    BY <1>2, <1>4 DEF Silent
  <2>2. ASSUME NEW i \in DOMAIN wire, 1 < i, \A j \in DOMAIN wire : i < j => wire[j].req # r
        PROVE  \A j \in DOMAIN wire' : i - 1 < j => wire'[j].req # r
    <3> SUFFICES ASSUME NEW j \in DOMAIN wire', i - 1 < j PROVE wire'[j].req # r
      OBVIOUS
    <3>1. j + 1 \in DOMAIN wire /\ i < j + 1 /\ wire'[j] = wire[j + 1]
      BY <1>2, <1>4
    <3> QED
      BY <2>2, <3>1
  <2>3. ASSUME \A j \in DOMAIN wire : 1 < j => wire[j].req # r
        PROVE  Silent(r)'
    BY <1>2, <1>4, <2>3 DEF Silent
  <2>4. CASE e.type = "replied" /\ e.req = r
    <3>1. asker[r] \in {"allowed", "refused"} /\ \A j \in DOMAIN wire : 1 < j => wire[j].req # r
      BY <1>2, <2>4 DEF Inv, EndIsLast
    <3>2. r \notin pending /\ r \notin view'
      BY <1>0, <1>1, <2>4, <3>1 DEF TypeOK, Waiting
    <3> QED
      BY <1>1, <2>3, <3>1, <3>2 DEF Known, Seen
  <2>5. CASE r \in doubt /\ ~(e.type = "replied" /\ e.req = r)
    BY <1>1, <2>5 DEF Known
  <2>6. CASE Told(r)
    <3>1. PICK i \in DOMAIN wire : LastWord(r, i) /\ (wire[i].type = "asked" <=> r \in pending)
      BY <2>6 DEF Told
    <3>2. CASE 1 < i
      <4>1. i - 1 \in DOMAIN wire' /\ wire'[i - 1] = wire[i]
        BY <1>2, <1>5, <3>2
      <4> QED
        BY <1>1, <2>2, <3>1, <3>2, <4>1 DEF Known, Told, LastWord
    <3>3. CASE ~(1 < i)
      <4>1. i = 1 /\ e.req = r
        BY <1>2, <3>1, <3>3 DEF LastWord
      <4>2. Silent(r)'
        BY <2>3, <3>1, <4>1 DEF LastWord
      <4>3. r \in view' <=> r \in pending'
        BY <1>1, <1>2, <1>3, <3>1, <4>1
      <4> QED
        BY <4>2, <4>3 DEF Known, Seen
    <3> QED
      BY <3>2, <3>3
  <2>7. CASE Seen(r)
    <3>1. Silent(r)' /\ e.req # r
      BY <2>1, <2>7 DEF Seen
    <3>2. r \in view' <=> r \in view
      BY <1>1, <3>1
    <3> QED
      BY <1>1, <2>7, <3>1, <3>2 DEF Known, Seen
  <2>8. CASE Listed(r)
    BY <1>1, <2>1, <2>8 DEF Known, Listed
  <2>9. CASE r \in lost /\ Recalled(r)
    <3>1. CASE e = Connected /\ recent
      <4>1. e.type # "replied"
        BY <1>3, <3>1
      <4> QED
        BY <1>1, <2>9, <3>1, <4>1 DEF Known
    <3>2. CASE ~(e = Connected /\ recent)
      <4>1. r \in lost' /\ (refresh => refresh')
        BY <1>1, <2>9, <3>2
      <4>2. CASE ~up
        BY <1>1, <4>1, <4>2 DEF Known, Recalled
      <4>3. CASE \E i \in DOMAIN wire :
                   wire[i] = Connected /\ \A j \in DOMAIN wire : i < j => wire[j].req # r
        <5>1. PICK i \in DOMAIN wire :
                wire[i] = Connected /\ \A j \in DOMAIN wire : i < j => wire[j].req # r
          BY <4>3
        <5>2. CASE 1 < i
          <6>1. i - 1 \in DOMAIN wire' /\ wire'[i - 1] = Connected
            BY <1>2, <1>5, <5>1, <5>2
          <6> QED
            BY <2>2, <4>1, <5>1, <5>2, <6>1 DEF Known, Recalled
        <5>3. CASE ~(1 < i)
          <6>1. i = 1 /\ e = Connected
            BY <1>2, <5>1, <5>3
          <6>2. refresh' /\ Silent(r)'
            BY <1>1, <1>3, <2>3, <3>2, <5>1, <6>1
          <6> QED
            BY <4>1, <6>2 DEF Known, Recalled
        <5> QED
          BY <5>2, <5>3
      <4>4. CASE Silent(r) /\ (refresh \/ \E i \in DOMAIN fetches[Kind(r)] : ~fetches[Kind(r)][i].read)
        BY <1>1, <2>1, <4>1, <4>4 DEF Known, Recalled
      <4> QED
        BY <2>9, <4>2, <4>3, <4>4 DEF Recalled
    <3> QED
      BY <3>1, <3>2
  <2> QED
    BY <2>0, <2>4, <2>5, <2>6, <2>7, <2>8, <2>9 DEF Known
<1> QED
  BY <1>6, <1>7, <1>8 DEF Travels

LEMMA RefreshStep ==
  ASSUME Inv, TypeOK', Refresh
  PROVE  Travels'
<1>0. TypeOK /\ fetches \in [Kinds -> Seq(Fetch)]
  BY DEF Inv, TypeOK
<1>1. /\ fetches' = [k \in Kinds |-> Append(fetches[k], NoFetch)]
      /\ UNCHANGED <<asker, pending, up, wire, view, lost, doubt>>
  BY DEF Refresh, server
<1>2. ASSUME NEW k \in Kinds
      PROVE  /\ \A i \in DOMAIN fetches[k] : i \in DOMAIN fetches'[k] /\ fetches'[k][i] = fetches[k][i]
             /\ \A i \in DOMAIN fetches'[k] : i \notin DOMAIN fetches[k] => fetches'[k][i] = NoFetch
             /\ \E i \in DOMAIN fetches'[k] : fetches'[k][i] = NoFetch
  <2> DEFINE s == fetches[k]
  <2>1. s \in Seq(Fetch) /\ NoFetch \in Fetch /\ fetches'[k] = Append(s, NoFetch)
    BY <1>0, <1>1, NoFetchType
  <2> HIDE DEF s
  <2>2. /\ DOMAIN Append(s, NoFetch) = 1..(Len(s) + 1) /\ DOMAIN s = 1..Len(s) /\ Len(s) \in Nat
        /\ \A i \in 1..Len(s) : Append(s, NoFetch)[i] = s[i]
        /\ Append(s, NoFetch)[Len(s) + 1] = NoFetch
    BY <2>1, AppendProperties
  <2>3. \A i \in 1..(Len(s) + 1) : i \notin 1..Len(s) => i = Len(s) + 1
    BY <2>2
  <2>4. Len(s) + 1 \in 1..(Len(s) + 1) /\ \A i \in 1..Len(s) : i \in 1..(Len(s) + 1)
    BY <2>2
  <2> QED
    BY <2>1, <2>2, <2>3, <2>4 DEF s
<1>3. ASSUME NEW k \in Kinds, NEW i \in DOMAIN fetches'[k]
      PROVE  ListHolds(k, i)'
  <2>1. CASE i \in DOMAIN fetches[k]
    BY <1>1, <1>2, <2>1 DEF Inv, ListHolds
  <2>2. CASE i \notin DOMAIN fetches[k]
    BY <1>2, <2>2, NoFetchType DEF ListHolds
  <2> QED
    BY <2>1, <2>2
<1>4. ASSUME NEW i \in DOMAIN wire'
      PROVE  EndIsLast(i)'
  BY <1>1 DEF Inv, EndIsLast
<1>5. ASSUME NEW r \in Requests
      PROVE  Known(r)'
  <2>1. Kind(r) \in Kinds /\ Known(r)
    BY RequestFacts DEF Inv
  <2>2. (Silent(r) => Silent(r)') /\ (Told(r) => Told(r)') /\ (Seen(r) => Seen(r)')
    BY <1>1 DEF Silent, Told, LastWord, Seen
  <2>3. Listed(r) => Listed(r)'
    BY <1>2, <2>1, <2>2 DEF Listed
  <2>4. Recalled(r) => Recalled(r)'
    BY <1>1, <1>2, <2>1, <2>2, NoFetchType DEF Recalled
  <2> QED
    BY <1>1, <2>1, <2>2, <2>3, <2>4 DEF Known
<1> QED
  BY <1>3, <1>4, <1>5 DEF Travels

LEMMA ReadListStep ==
  ASSUME Inv, TypeOK', NEW k \in Kinds, ReadList(k)
  PROVE  Travels'
<1>0. TypeOK
  BY DEF Inv
<1>1. PICK i \in DOMAIN fetches[k] :
           /\ ~fetches[k][i].read
           /\ fetches' \in [Kinds -> Seq(Fetch)]
           /\ fetches'[k][i].read /\ fetches'[k][i].missed = {}
           /\ fetches'[k][i].snap = pending \cap OfKind(k)
           /\ \A l \in Kinds : DOMAIN fetches'[l] = DOMAIN fetches[l]
           /\ \A l \in Kinds : \A j \in DOMAIN fetches[l] :
                l # k \/ j # i => fetches'[l][j] = fetches[l][j]
           /\ lost' = lost \ (OfKind(k) \ InWire(wire))
           /\ UNCHANGED <<server, up, wire, view, refresh, recent, accept, replies, faults, doubt>>
  BY <1>0, ReadListIs
<1>2. UNCHANGED <<asker, pending>>
  BY <1>1 DEF server
<1>3. ASSUME NEW l \in Kinds, NEW j \in DOMAIN fetches'[l]
      PROVE  ListHolds(l, j)'
  <2>1. CASE l = k /\ j = i
    BY <1>1, <1>2, <2>1 DEF ListHolds, OfKind
  <2>2. CASE l # k \/ j # i
    <3>1. fetches'[l][j] = fetches[l][j] /\ j \in DOMAIN fetches[l]
      BY <1>1, <2>2
    <3> QED
      BY <1>2, <3>1 DEF Inv, ListHolds
  <2> QED
    BY <2>1, <2>2
<1>4. ASSUME NEW j \in DOMAIN wire'
      PROVE  EndIsLast(j)'
  BY <1>1, <1>2 DEF Inv, EndIsLast
<1>5. ASSUME NEW r \in Requests
      PROVE  Known(r)'
  <2>1. Kind(r) \in Kinds /\ Known(r) /\ (r \in OfKind(k) <=> k = Kind(r))
    BY RequestFacts DEF Inv
  <2>2. (Silent(r) <=> Silent(r)') /\ (Told(r) => Told(r)') /\ (Seen(r) => Seen(r)')
    BY <1>1, <1>2 DEF Silent, Told, LastWord, Seen
  <2>3. Listed(r) => Listed(r)'
    BY <1>1, <2>1, <2>2 DEF Listed
  <2>4. CASE r \in lost /\ Recalled(r)
    <3>1. CASE r \in lost'
      <4>1. CASE k = Kind(r)
        <5>1. ~Silent(r)
          BY <1>0, <1>1, <2>1, <3>1, <4>1, SilentIs
        <5> QED
          BY <1>1, <2>4, <3>1, <5>1 DEF Known, Recalled
      <4>2. CASE k # Kind(r)
        <5>1. \A j \in DOMAIN fetches[Kind(r)] : fetches'[Kind(r)][j] = fetches[Kind(r)][j]
          BY <1>1, <2>1, <4>2
        <5>2. DOMAIN fetches'[Kind(r)] = DOMAIN fetches[Kind(r)]
          BY <1>1, <2>1
        <5>3. Recalled(r)'
          BY <1>1, <2>2, <2>4, <5>1, <5>2 DEF Recalled
        <5> QED
          BY <3>1, <5>3 DEF Known
      <4> QED
        BY <4>1, <4>2
    <3>2. CASE r \notin lost'
      <4>1. k = Kind(r) /\ Silent(r)
        BY <1>0, <1>1, <2>1, <2>4, <3>2, SilentIs
      <4>2. i \in DOMAIN fetches'[k] /\ fetches'[k][i].read /\ r \notin fetches'[k][i].missed
        BY <1>1
      <4>3. Listed(r)'
        BY <2>2, <4>1, <4>2 DEF Listed
      <4> QED
        BY <4>3 DEF Known
    <3> QED
      BY <3>1, <3>2
  <2> QED
    BY <1>1, <2>1, <2>2, <2>3, <2>4 DEF Known
<1> QED
  BY <1>3, <1>4, <1>5 DEF Travels

LEMMA ApplyListStep ==
  ASSUME Inv, TypeOK', NEW k \in Kinds, NEW i \in DOMAIN fetches[k], ApplyList(k, i)
  PROVE  Travels'
<1>0. TypeOK
  BY DEF Inv
<1>1. fetches' = [fetches EXCEPT ![k] = RemoveAt(@, i)]
  BY DEF ApplyList
<1>2. /\ \A l \in Kinds : l # k => fetches'[l] = fetches[l]
      /\ \A j \in DOMAIN fetches'[k] :
           \E m \in DOMAIN fetches[k] : m # i /\ fetches'[k][j] = fetches[k][m]
  BY <1>0, <1>1, DropListIs
<1> DEFINE f == fetches[k][i]
<1>3. /\ f.read /\ view' = Replaced(k, f)
      /\ doubt' = (doubt \ OfKind(k)) \cup (Clouded(f) \cap OfKind(k))
      /\ UNCHANGED <<asker, pending, up, wire, refresh, lost>>
  BY DEF ApplyList, server
<1>4. f.read => \A r \in OfKind(k) : r \notin f.missed => (r \in f.snap <=> r \in pending)
  BY DEF Inv, ListHolds
<1>5. f.read => f.snap \subseteq OfKind(k)
  BY DEF Inv, ListHolds
<1> HIDE DEF f
<1>6. ASSUME NEW l \in Kinds, NEW j \in DOMAIN fetches'[l]
      PROVE  ListHolds(l, j)'
  BY <1>3, <1>2 DEF Inv, ListHolds
<1>7. ASSUME NEW j \in DOMAIN wire'
      PROVE  EndIsLast(j)'
  BY <1>3 DEF Inv, EndIsLast
<1>8. ASSUME NEW r \in Requests
      PROVE  Known(r)'
  <2>1. Kind(r) \in Kinds /\ Known(r) /\ (r \in OfKind(k) <=> k = Kind(r))
    BY RequestFacts DEF Inv
  <2>2. (Silent(r) <=> Silent(r)') /\ (Told(r) => Told(r)') /\ (Silent(r) <=> r \notin InWire(wire))
    BY <1>0, <1>3, SilentIs DEF Silent, Told, LastWord
  <2>3. CASE k = Kind(r)
    <3>1. CASE r \in Clouded(f)
      BY <1>3, <2>1, <2>3, <3>1 DEF Known
    <3>2. CASE r \notin Clouded(f) /\ Silent(r)
      <4>1. r \notin f.missed
        BY <2>2, <3>2 DEF Clouded
      <4>2. r \in view' <=> r \in pending
        BY <1>3, <1>4, <2>1, <2>3, <4>1 DEF Replaced
      <4> QED
        BY <1>3, <2>2, <3>2, <4>2 DEF Known, Seen
    <3>3. CASE r \notin Clouded(f) /\ ~Silent(r)
      <4>1. r \notin doubt
        BY <2>2, <3>3 DEF Clouded
      <4>2. Told(r) \/ (r \in lost /\ Recalled(r))
        BY <2>1, <3>3, <4>1 DEF Known, Seen, Listed
      <4>3. Recalled(r) => Recalled(r)'
        BY <1>3, <3>3 DEF Recalled
      <4> QED
        BY <1>3, <2>2, <4>2, <4>3 DEF Known
    <3> QED
      BY <3>1, <3>2, <3>3
  <2>4. CASE k # Kind(r)
    <3>1. r \notin OfKind(k) /\ fetches'[Kind(r)] = fetches[Kind(r)]
      BY <1>2, <2>1, <2>4
    <3>2. r \in view' <=> r \in view
      BY <1>3, <1>5, <3>1 DEF Replaced
    <3>3. r \in doubt' <=> r \in doubt
      BY <1>3, <3>1
    <3>4. (Listed(r) => Listed(r)') /\ (Recalled(r) => Recalled(r)')
      BY <1>3, <2>2, <3>1 DEF Listed, Recalled
    <3> QED
      BY <1>3, <2>1, <2>2, <3>1, <3>2, <3>3, <3>4 DEF Known, Seen
  <2> QED
    BY <2>3, <2>4
<1> QED
  BY <1>6, <1>7, <1>8 DEF Travels

LEMMA LoseListStep ==
  ASSUME Inv, TypeOK', NEW k \in Kinds, NEW i \in DOMAIN fetches[k], LoseList(k, i)
  PROVE  Travels'
<1>0. TypeOK
  BY DEF Inv
<1>1. /\ fetches' = [fetches EXCEPT ![k] = RemoveAt(@, i)]
      /\ doubt' = doubt \cup OfKind(k)
      /\ UNCHANGED <<asker, pending, up, wire, view, refresh, lost>>
  BY DEF LoseList, server
<1>2. /\ \A l \in Kinds : l # k => fetches'[l] = fetches[l]
      /\ \A j \in DOMAIN fetches'[k] :
           \E m \in DOMAIN fetches[k] : m # i /\ fetches'[k][j] = fetches[k][m]
  BY <1>0, <1>1, DropListIs
<1>3. ASSUME NEW l \in Kinds, NEW j \in DOMAIN fetches'[l]
      PROVE  ListHolds(l, j)'
  BY <1>1, <1>2 DEF Inv, ListHolds
<1>4. ASSUME NEW j \in DOMAIN wire'
      PROVE  EndIsLast(j)'
  BY <1>1 DEF Inv, EndIsLast
<1>5. ASSUME NEW r \in Requests
      PROVE  Known(r)'
  <2>1. Kind(r) \in Kinds /\ Known(r) /\ (r \in OfKind(k) <=> k = Kind(r))
    BY RequestFacts DEF Inv
  <2>2. CASE k = Kind(r)
    BY <1>1, <2>1, <2>2 DEF Known
  <2>3. CASE k # Kind(r)
    <3>1. fetches'[Kind(r)] = fetches[Kind(r)]
      BY <1>2, <2>1, <2>3
    <3>2. (Silent(r) <=> Silent(r)') /\ (Told(r) => Told(r)') /\ (Seen(r) => Seen(r)')
      BY <1>1 DEF Silent, Told, LastWord, Seen
    <3>3. (Listed(r) => Listed(r)') /\ (Recalled(r) => Recalled(r)')
      BY <1>1, <3>1, <3>2 DEF Listed, Recalled
    <3> QED
      BY <1>1, <2>1, <3>2, <3>3 DEF Known
  <2> QED
    BY <2>2, <2>3
<1> QED
  BY <1>3, <1>4, <1>5 DEF Travels

LEMMA OtherStep ==
  ASSUME Inv, TypeOK',
         \/ Settle
         \/ \E k \in Kinds : Decide(k)
         \/ \E c \in replies : LoseReply(c)
         \/ Enable \/ Disable
         \/ \E i \in DOMAIN lists : ReadPending(i) \/ AcceptPending(i)
         \/ UNCHANGED vars
  PROVE  Travels'
<1>1. UNCHANGED <<asker, pending, up, wire, view, fetches, refresh, lost>> /\ doubt \subseteq doubt'
  BY DEF Settle, Decide, LoseReply, Enable, Disable, ReadPending, AcceptPending, vars,
         server, store, accept
<1> QED
  BY <1>1, QuietStep

LEMMA InvStep ==
  ASSUME Inv, [Next]_vars
  PROVE  Inv'
<1>1. TypeOK'
  BY TypeStep DEF Inv
<1>2. Travels'
  BY <1>1, AskStep, HandleStep, SilentEndStep, DropStep, ReconnectStep, DeliverStep, RefreshStep,
     ReadListStep, ApplyListStep, LoseListStep, OtherStep DEF Next
<1> QED
  BY <1>1, <1>2 DEF Inv, Travels

\* When the stream is connected and nothing is under way, the app shows exactly the
\* requests that are pending, of those it can know of: however often the stream broke
\* and whatever overtook what, each request was either told, listed after it changed
\* or refetched (global-sync/bootstrap.ts:289-340, event-reducer.ts:286-358,
\* global-sync.tsx:293-338).
THEOREM ViewIsCurrentAlways == Spec => []ViewIsCurrent
<1>1. Inv => ViewIsCurrent
  <2> SUFFICES ASSUME Inv, up, wire = <<>>, ~refresh, \A k \in Kinds : fetches[k] = <<>>,
                      NEW r \in Requests \ doubt
               PROVE  r \in view <=> r \in pending
    BY DEF ViewIsCurrent
  <2>1. DOMAIN wire = {} /\ DOMAIN fetches[Kind(r)] = {} /\ Known(r)
    BY RequestFacts DEF Inv
  <2> QED
    BY <2>1 DEF Known, Told, Seen, Listed, Recalled
<1> QED
  BY InitInv, InvStep, <1>1, PTL DEF Spec


=============================================================================
