------------------------- MODULE BrokerGatherProofs --------------------------
(***************************************************************************)
(* Proofs about BrokerGather, for any agents, connections and requests,    *)
(* and any way in which requests share ids: a batch_gather is answered at  *)
(* most once, is only reported ok with every reply, and never stays in     *)
(* _gathers without a task that will take it out.                          *)
(***************************************************************************)
EXTENDS BrokerGather, SequenceTheorems, TLAPS

Answers == [ok : BOOLEAN, replies : SUBSET Agents]

TypeInv == TypeOK /\ results \in [Requests -> Seq(Answers)]

\* A request is registered once: before that, and as long as it is registered,
\* it has no answer.
Unanswered ==
  \A r \in Requests :
    /\ pc[r] \in {"new", "asked"} => gathers[IdOf[r]] # r
    /\ pc[r] \in {"new", "asked"} \/ gathers[IdOf[r]] = r => results[r] = <<>>

\* The task of a registered gather waits for that gather's own event.
AwaitsOwn == \A r \in Requests : pc[r] = "wait" /\ gathers[IdOf[r]] = r => awaits[r] = r

OnlyTargets == \A r \in Requests : replies[r] \subseteq Expected(r)

GatherInv ==
  /\ OneResult
  /\ OkMeansAll
  /\ GatherIsServed
  /\ Unanswered
  /\ AwaitsOwn
  /\ OnlyTargets

-----------------------------------------------------------------------------
(***************************************************************************)
(* Helpers.                                                                *)
(***************************************************************************)

\* The targets of a request are agents.
LEMMA ExpectedType == \A r \in Requests : Expected(r) \subseteq Agents
  BY GatherAssumption DEF GatherAssumption, Expected

\* Telling an initiator adds at most one answer, to its request only.
LEMMA TellType ==
  ASSUME TypeInv, NEW r \in Requests, NEW ok \in BOOLEAN, Tell(r, ok)
  PROVE  /\ results' \in [Requests -> Seq(Answers)]
         /\ \A q \in Requests : q # r => results'[q] = results[q]
         /\ \/ results'[r] = results[r]
            \/ results'[r] = Append(results[r], [ok |-> ok, replies |-> replies[r]])
<1>1. [ok |-> ok, replies |-> replies[r]] \in Answers
  BY DEF TypeInv, TypeOK, Answers
<1>2. Append(results[r], [ok |-> ok, replies |-> replies[r]]) \in Seq(Answers)
  BY <1>1 DEF TypeInv
<1> QED
  BY <1>2 DEF Tell, TypeInv

\* Taking a gather out, with or without telling its initiator.
Popped(i) ==
  /\ gathers' = [gathers EXCEPT ![i] = None]
  /\ \/ UNCHANGED results
     \/ /\ gathers[i] # None
        /\ \E ok \in BOOLEAN : Tell(gathers[i], ok) /\ (ok => Complete(gathers[i]))

LEMMA FailPops == ASSUME NEW i, Fail(i) PROVE Popped(i)
  BY DEF Fail, Popped

-----------------------------------------------------------------------------
(***************************************************************************)
(* Types.                                                                  *)
(***************************************************************************)

LEMMA InitType == Init => TypeInv
<1> SUFFICES ASSUME Init PROVE TypeInv
  OBVIOUS
<1>1. <<>> \in Seq(Answers) /\ \A r \in Requests : 0 <= Len(Items[r])
  BY GatherAssumption DEF GatherAssumption
<1> QED
  BY <1>1 DEF Init, TypeInv, TypeOK

\* A gather that is taken out leaves the tables typed.
LEMMA PopType ==
  ASSUME TypeInv, NEW i \in Ids, Popped(i)
  PROVE  gathers' \in [Ids -> Requests \cup {None}] /\ results' \in [Requests -> Seq(Answers)]
<1>1. gathers' \in [Ids -> Requests \cup {None}]
  BY DEF Popped, TypeInv, TypeOK
<1>2. results' \in [Requests -> Seq(Answers)]
  <2>1. CASE UNCHANGED results
    BY <2>1 DEF TypeInv
  <2>2. CASE gathers[i] # None /\ \E ok \in BOOLEAN : Tell(gathers[i], ok)
    <3>1. gathers[i] \in Requests
      BY <2>2 DEF TypeInv, TypeOK
    <3> QED
      BY <2>2, <3>1, TellType
  <2> QED
    BY <2>1, <2>2 DEF Popped
<1> QED
  BY <1>1, <1>2

\* Connections come, fall silent and go.
LEMMA LinkType ==
  ASSUME TypeInv,
         \/ \E c \in Conns : Register(c) \/ Pong(c) \/ Lose(c) \/ Leave(c) \/ LeftEnd(c)
         \/ \E a \in Agents : Silence(a) \/ LeaveEvicted(a)
         \/ Beat
  PROVE  TypeInv'
<1> USE GatherAssumption DEF GatherAssumption, TypeInv, TypeOK, leaving, tasks, links, Leavers
<1>1. ASSUME NEW c \in Conns, Register(c) \/ Pong(c) \/ Lose(c) PROVE TypeInv'
  <2>1. AgentOf[c] \in Agents
    OBVIOUS
  <2>2. UNCHANGED <<gathers, replies, results, owed, pc, sent, awaits, evicted, toDrop, toFail>>
    BY <1>1 DEF Register, Pong, Lose
  <2>3. agents' \in [Agents -> Conns \cup {None}]
    <3>1. agents' = agents \/ agents' = [agents EXCEPT ![AgentOf[c]] = c]
      BY <1>1 DEF Register, Pong, Lose
    <3> QED
      BY <3>1
  <2>5. conn' \in [Conns -> {"new", "up", "leaving", "closed"}]
    <3>1. \/ conn' = conn
          \/ conn' = [conn EXCEPT ![c] = "closed"]
          \/ conn' = [conn EXCEPT ![c] = "up"]
      BY <1>1 DEF Register, Pong, Lose
    <3> QED
      BY <3>1
  <2>4. lastSeen' \in [Agents -> {"fresh", "old", "absent"}] /\ closing' \subseteq Conns
    BY <1>1, <2>1 DEF Register, Pong, Hears, Lose
  <2> QED
    BY <2>2, <2>3, <2>4, <2>5
<1>2. ASSUME NEW c \in Conns, Leave(c) PROVE TypeInv'
  BY <1>2 DEF Leave, Scan
<1>3. ASSUME NEW c \in Conns, LeftEnd(c) PROVE TypeInv'
  BY <1>3 DEF LeftEnd
<1>4. ASSUME NEW a \in Agents, Silence(a) PROVE TypeInv'
  BY <1>4 DEF Silence
<1>5. ASSUME NEW a \in Agents, LeaveEvicted(a) PROVE TypeInv'
  BY <1>5 DEF LeaveEvicted, Scan
<1>6. CASE Beat
  BY <1>6 DEF Beat, Stale
<1> QED
  BY <1>1, <1>2, <1>3, <1>4, <1>5, <1>6

\* A gather ends on behalf of an agent that has left.
LEMMA LeftType ==
  ASSUME TypeInv, NEW l \in Leavers, NEW i \in Ids, LeftDrop(l, i) \/ LeftFail(l, i)
  PROVE  TypeInv'
<1>1. Popped(i)
  BY FailPops DEF LeftDrop, LeftFail, Popped
<1>2. toDrop' \in [Leavers -> SUBSET Ids] /\ toFail' \in [Leavers -> SUBSET Ids]
  BY DEF LeftDrop, LeftFail, TypeInv, TypeOK
<1>3. UNCHANGED <<agents, lastSeen, conn, closing, evicted, replies, pc, sent, awaits, owed>>
  BY DEF LeftDrop, LeftFail, links, tasks
<1> QED
  BY <1>1, <1>2, <1>3, PopType DEF TypeInv, TypeOK

Phases == {"new", "asked", "dispatch", "wait", "timeout", "end"}

\* What a request's task changes, apart from the gathers and answers.
LEMMA TaskFrame ==
  ASSUME TypeInv, NEW r \in Requests, NEW s \in Phases, pc' = [pc EXCEPT ![r] = s],
         UNCHANGED <<agents, lastSeen, conn, closing, evicted, toDrop, toFail, replies>>,
         gathers' \in [Ids -> Requests \cup {None}],
         results' \in [Requests -> Seq(Answers)],
         sent' \in [Requests -> Nat], \A q \in Requests : sent'[q] <= Len(Items[q]),
         awaits' \in [Requests -> Requests \cup {None}],
         owed' \subseteq Requests \X Agents
  PROVE  TypeInv'
  BY DEF TypeInv, TypeOK, Phases

LEMMA TaskType ==
  ASSUME TypeInv, NEW r \in Requests, Ask(r) \/ TaskStep(r)
  PROVE  TypeInv'
<1>1. IdOf[r] \in Ids /\ Items[r] \in Seq(Agents)
  BY GatherAssumption DEF GatherAssumption
<1> USE <1>1 DEF leaving, tasks, links, Phases
<1>2. CASE Ask(r)
  <2>1. AgentOf[Initiator[r]] \in Agents
    BY GatherAssumption DEF GatherAssumption
  <2> QED
    BY <1>2, <2>1 DEF Ask, Hears, TypeInv, TypeOK
<1>3. CASE Accept(r)
  <2>1. gathers' \in [Ids -> Requests \cup {None}]
    BY <1>3 DEF Accept, TypeInv, TypeOK
  <2>2. results' \in [Requests -> Seq(Answers)]
    BY <1>3, TellType DEF Accept, TypeInv
  <2> QED
    BY <1>3, <2>1, <2>2, TaskFrame DEF Accept, TypeInv, TypeOK
<1>4. CASE Dispatch(r)
  <2>1. CASE Fail(IdOf[r]) /\ UNCHANGED <<sent, owed>>
    BY <1>4, <2>1, FailPops, PopType, TaskFrame DEF Dispatch, TypeInv, TypeOK
  <2>2. CASE /\ sent' = [sent EXCEPT ![r] = @ + 1]
             /\ owed' = owed \cup {<<r, Items[r][sent[r] + 1]>>}
             /\ UNCHANGED <<gathers, results, pc>>
    <3>1. sent[r] \in Nat /\ sent[r] < Len(Items[r]) /\ Len(Items[r]) \in Nat
      BY <1>4 DEF Dispatch, TypeInv, TypeOK
    <3>2. sent[r] + 1 \in 1..Len(Items[r]) /\ Items[r][sent[r] + 1] \in Agents
      BY <3>1
    <3>3. sent' \in [Requests -> Nat] /\ \A q \in Requests : sent'[q] <= Len(Items[q])
      BY <2>2, <3>1 DEF TypeInv, TypeOK
    <3> QED
      BY <1>4, <2>2, <3>2, <3>3 DEF Dispatch, TypeInv, TypeOK
  <2> QED
    BY <1>4, <2>1, <2>2 DEF Dispatch
<1>5. CASE Await(r)
  BY <1>5, TaskFrame DEF Await, TypeInv, TypeOK
<1>6. CASE Done(r)
  <2>1. Popped(IdOf[r]) \/ UNCHANGED <<gathers, results>>
    BY <1>6 DEF Done, Popped
  <2>2. gathers' \in [Ids -> Requests \cup {None}] /\ results' \in [Requests -> Seq(Answers)]
    BY <2>1, PopType DEF TypeInv, TypeOK
  <2> QED
    BY <1>6, <2>2, TaskFrame DEF Done, TypeInv, TypeOK
<1>7. CASE InitiatorClosed(r)
  BY <1>7, TaskFrame DEF InitiatorClosed, TypeInv, TypeOK
<1>8. CASE Timeout(r)
  BY <1>8, TaskFrame DEF Timeout, TypeInv, TypeOK
<1>9. CASE TimeoutPop(r)
  BY <1>9, FailPops, PopType, TaskFrame DEF TimeoutPop, TypeInv, TypeOK
<1> QED
  BY <1>2, <1>3, <1>4, <1>5, <1>6, <1>7, <1>8, <1>9 DEF TaskStep

LEMMA ReplyType ==
  ASSUME TypeInv, NEW r \in Requests, NEW a \in Agents, Reply(r, a)
  PROVE  TypeInv'
<1>1. replies' \in [Requests -> SUBSET Agents]
  <2>1. gathers[IdOf[r]] \in Requests \cup {None}
    BY GatherAssumption DEF GatherAssumption, TypeInv, TypeOK
  <2>2. CASE UNCHANGED replies
    BY <2>2 DEF TypeInv, TypeOK
  <2>3. CASE gathers[IdOf[r]] # None
             /\ replies' = [replies EXCEPT ![gathers[IdOf[r]]] = @ \cup {a}]
    BY <2>1, <2>3 DEF TypeInv, TypeOK
  <2> QED
    BY <2>2, <2>3 DEF Reply
<1>2. lastSeen' \in [Agents -> {"fresh", "old", "absent"}]
  BY DEF Reply, Hears, TypeInv, TypeOK
<1> QED
  BY <1>1, <1>2 DEF Reply, leaving, tasks, TypeInv, TypeOK

LEMMA TypeStep == TypeInv /\ [Next]_vars => TypeInv'
<1> SUFFICES ASSUME TypeInv, [Next]_vars PROVE TypeInv'
  OBVIOUS
<1>1. CASE UNCHANGED vars
  BY <1>1 DEF vars, TypeInv, TypeOK
<1>2. ASSUME NEW l \in Leavers, LeftStep(l) PROVE TypeInv'
  BY <1>2, LeftType, LinkType DEF LeftStep, Leavers
<1> QED
  BY <1>1, <1>2, LinkType, TaskType, ReplyType DEF Next

LEMMA TypeHolds == Spec => []TypeInv
  BY InitType, TypeStep, PTL DEF Spec

\* The broker's tables are well typed in every run.
THEOREM GatherTypeCorrect == Spec => []TypeOK
  BY TypeHolds, PTL DEF TypeInv

-----------------------------------------------------------------------------
(***************************************************************************)
(* The invariant.                                                          *)
(***************************************************************************)

LEMMA InitGather == Init => GatherInv
<1> SUFFICES ASSUME Init PROVE GatherInv
  OBVIOUS
<1>1. \A r \in Requests : results[r] = <<>> /\ IdOf[r] \in Ids /\ gathers[IdOf[r]] # r
  BY GatherAssumption DEF Init, GatherAssumption
<1> QED
  BY <1>1 DEF Init, GatherInv, OneResult, OkMeansAll, GatherIsServed, Unanswered, AwaitsOwn, OnlyTargets

\* What a step must not do: register a gather again, answer one that stays,
\* start a request anew, or leave a gather without its waiting task.
LEMMA GatherFrame ==
  ASSUME TypeInv, GatherInv, TypeInv',
         \A i \in Ids : gathers'[i] = None \/ gathers'[i] = gathers[i],
         \A r \in Requests : pc'[r] \in {"new", "asked"} => pc[r] \in {"new", "asked"},
         \A r \in Requests : pc[r] \in {"new", "asked"} \/ gathers'[IdOf[r]] = r => results'[r] = results[r],
         \A r \in Requests : gathers'[IdOf[r]] = r =>
            pc'[r] \in {"dispatch", "wait", "timeout"} /\ (pc'[r] = "wait" => awaits'[r] = r),
         OneResult', OkMeansAll', OnlyTargets'
  PROVE  GatherInv'
<1>1. \A r \in Requests : IdOf[r] \in Ids /\ r # None
  BY GatherAssumption DEF GatherAssumption
<1>2. GatherIsServed'
  <2>1. \A i \in Ids : gathers'[i] # None => gathers'[i] \in Requests /\ IdOf[gathers'[i]] = i
    BY DEF GatherInv, GatherIsServed, TypeInv, TypeOK
  <2> QED
    BY <2>1 DEF GatherIsServed
<1>3. Unanswered'
  BY <1>1 DEF GatherInv, Unanswered
<1>4. AwaitsOwn'
  BY DEF AwaitsOwn
<1> QED
  BY <1>2, <1>3, <1>4 DEF GatherInv

\* Taking a gather out answers its request for the first time.
LEMMA PopInv ==
  ASSUME TypeInv, GatherInv, NEW i \in Ids, Popped(i), UNCHANGED replies
  PROVE  /\ OneResult' /\ OkMeansAll' /\ OnlyTargets'
         /\ \A j \in Ids : gathers'[j] = None \/ gathers'[j] = gathers[j]
         /\ \A r \in Requests : pc[r] \in {"new", "asked"} \/ gathers'[IdOf[r]] = r => results'[r] = results[r]
         /\ \A r \in Requests : gathers'[IdOf[r]] = r => IdOf[r] # i /\ gathers[IdOf[r]] = r
<1>1. gathers' = [gathers EXCEPT ![i] = None]
  BY DEF Popped
<1>2. \A j \in Ids : gathers'[j] = None \/ (gathers'[j] = gathers[j] /\ j # i)
  BY <1>1 DEF TypeInv, TypeOK
<1>3. \A r \in Requests : r # None /\ IdOf[r] \in Ids
  BY GatherAssumption DEF GatherAssumption
<1>4. OnlyTargets'
  BY DEF GatherInv, OnlyTargets, Expected
<1>5. \A r \in Requests : gathers'[IdOf[r]] = r => IdOf[r] # i /\ gathers[IdOf[r]] = r
  BY <1>2, <1>3
<1>6. CASE UNCHANGED results
  BY <1>2, <1>4, <1>5, <1>6 DEF GatherInv, OneResult, OkMeansAll, Expected
<1>7. ASSUME gathers[i] # None, NEW ok \in BOOLEAN, Tell(gathers[i], ok), ok => Complete(gathers[i])
      PROVE  /\ OneResult' /\ OkMeansAll'
             /\ \A r \in Requests : pc[r] \in {"new", "asked"} \/ gathers'[IdOf[r]] = r => results'[r] = results[r]
  <2> DEFINE g == gathers[i]
             answer == [ok |-> ok, replies |-> replies[g]]
  <2>1. g \in Requests /\ IdOf[g] = i /\ results[g] = <<>> /\ pc[g] \notin {"new", "asked"}
    BY <1>7 DEF GatherInv, GatherIsServed, Unanswered, TypeInv, TypeOK
  <2>2. /\ \A q \in Requests : q # g => results'[q] = results[q]
        /\ results'[g] = <<>> \/ results'[g] = Append(<<>>, answer)
    BY <1>7, <2>1, TellType
  <2>3. Append(<<>>, answer) = <<answer>> /\ Len(<<answer>>) = 1 /\ Len(<<>>) = 0
    OBVIOUS
  <2>4. OneResult'
    <3>1. Len(results'[g]) = 0 \/ Len(results'[g]) = 1
      BY <2>2, <2>3, Zenon
    <3>3. Len(results'[g]) <= 1
      <4>1. 0 <= 1 /\ 1 <= 1
        OBVIOUS
      <4> QED
        BY <3>1, <4>1, Zenon
    <3>2. \A q \in Requests : q # g => Len(results'[q]) <= 1
      BY <2>2 DEF GatherInv, OneResult
    <3> QED
      BY <3>2, <3>3 DEF OneResult
  <2>5. ok => replies[g] = Expected(g)
    BY <1>7, <2>1 DEF Complete, GatherInv, OnlyTargets
  <2>6. \A k \in DOMAIN results'[g] : results'[g][k].ok => results'[g][k].replies = Expected(g)
    <3>1. DOMAIN <<answer>> = {1} /\ <<answer>>[1] = answer /\ DOMAIN <<>> = {}
      OBVIOUS
    <3> QED
      BY <2>2, <2>3, <2>5, <3>1
  <2>7. OkMeansAll'
    BY <2>1, <2>2, <2>6 DEF GatherInv, OkMeansAll, Expected
  <2>8. \A r \in Requests : pc[r] \in {"new", "asked"} \/ gathers'[IdOf[r]] = r => r # g
    BY <1>5, <2>1
  <2> QED
    BY <2>2, <2>4, <2>7, <2>8
<1> QED
  BY <1>2, <1>4, <1>5, <1>6, <1>7 DEF Popped

\* Connections come and go without a look at gathers; what an agent leaves
\* behind is ended gather by gather.
LEMMA LinkInv ==
  ASSUME TypeInv, GatherInv, TypeInv',
         \/ UNCHANGED <<gathers, replies, pc, awaits, results>>
         \/ \E l \in Leavers, i \in Ids : LeftDrop(l, i) \/ LeftFail(l, i)
  PROVE  GatherInv'
<1>1. CASE UNCHANGED <<gathers, replies, pc, awaits, results>>
  BY <1>1 DEF GatherInv, OneResult, OkMeansAll, GatherIsServed, Unanswered, AwaitsOwn, OnlyTargets, Expected
<1>2. ASSUME NEW l \in Leavers, NEW i \in Ids, LeftDrop(l, i) \/ LeftFail(l, i)
      PROVE  GatherInv'
  <2>1. Popped(i) /\ UNCHANGED <<replies, pc, awaits>>
    BY <1>2, FailPops DEF LeftDrop, LeftFail, Popped, tasks
  <2>2. \A r \in Requests : gathers[IdOf[r]] = r =>
          pc[r] \in {"dispatch", "wait", "timeout"} /\ (pc[r] = "wait" => awaits[r] = r)
    BY GatherAssumption DEF GatherAssumption, GatherInv, GatherIsServed, AwaitsOwn
  <2>3. \A r \in Requests : gathers'[IdOf[r]] = r => gathers[IdOf[r]] = r
    BY <2>1, PopInv
  <2>4. OneResult' /\ OkMeansAll' /\ OnlyTargets'
    BY <2>1, PopInv
  <2>5. \A j \in Ids : gathers'[j] = None \/ gathers'[j] = gathers[j]
    BY <2>1, PopInv
  <2>6. \A r \in Requests : pc[r] \in {"new", "asked"} \/ gathers'[IdOf[r]] = r => results'[r] = results[r]
    BY <2>1, PopInv
  <2> QED
    BY <2>1, <2>2, <2>3, <2>4, <2>5, <2>6, GatherFrame
<1> QED
  BY <1>1, <1>2

\* A task that ends leaves no gather of its own behind, if it has taken out
\* what stands under its id or found another request there.
LEMMA EndInv ==
  ASSUME TypeInv, GatherInv, TypeInv', NEW r \in Requests, NEW s \in {"end", "timeout"},
         pc[r] \in {"dispatch", "wait", "timeout"}, pc' = [pc EXCEPT ![r] = s],
         UNCHANGED <<replies, awaits>>,
         \/ Popped(IdOf[r])
         \/ (UNCHANGED <<gathers, results>> /\ (gathers[IdOf[r]] # r \/ s = "timeout"))
  PROVE  GatherInv'
<1>1. \A q \in Requests : IdOf[q] \in Ids
  BY GatherAssumption DEF GatherAssumption
<1>2. \A q \in Requests : q # r => pc'[q] = pc[q]
  BY DEF TypeInv, TypeOK
<1>3. pc'[r] = s
  BY DEF TypeInv, TypeOK
<1>4. \A q \in Requests : gathers[IdOf[q]] = q =>
        pc[q] \in {"dispatch", "wait", "timeout"} /\ (pc[q] = "wait" => awaits[q] = q)
  BY GatherAssumption DEF GatherAssumption, GatherInv, GatherIsServed, AwaitsOwn
<1>5. \A q \in Requests : pc'[q] \in {"new", "asked"} => pc[q] \in {"new", "asked"}
  BY <1>2, <1>3
<1>6. CASE Popped(IdOf[r])
  <2>1. OneResult' /\ OkMeansAll' /\ OnlyTargets'
    BY <1>1, <1>6, PopInv
  <2>2. \A j \in Ids : gathers'[j] = None \/ gathers'[j] = gathers[j]
    BY <1>1, <1>6, PopInv
  <2>3. \A q \in Requests : pc[q] \in {"new", "asked"} \/ gathers'[IdOf[q]] = q => results'[q] = results[q]
    BY <1>1, <1>6, PopInv
  <2>4. \A q \in Requests : gathers'[IdOf[q]] = q => q # r /\ gathers[IdOf[q]] = q
    <3>1. \A q \in Requests : gathers'[IdOf[q]] = q => IdOf[q] # IdOf[r] /\ gathers[IdOf[q]] = q
      BY <1>1, <1>6, PopInv
    <3> QED
      BY <3>1
  <2>5. \A q \in Requests : gathers'[IdOf[q]] = q =>
          pc'[q] \in {"dispatch", "wait", "timeout"} /\ (pc'[q] = "wait" => awaits'[q] = q)
    BY <1>2, <1>4, <2>4
  <2> QED
    BY <1>5, <2>1, <2>2, <2>3, <2>5, GatherFrame
<1>7. CASE UNCHANGED <<gathers, results>> /\ (gathers[IdOf[r]] # r \/ s = "timeout")
  <2>1. OneResult' /\ OkMeansAll' /\ OnlyTargets'
    BY <1>7 DEF GatherInv, OneResult, OkMeansAll, OnlyTargets, Expected
  <2>2. \A q \in Requests : gathers'[IdOf[q]] = q =>
          pc'[q] \in {"dispatch", "wait", "timeout"} /\ (pc'[q] = "wait" => awaits'[q] = q)
    BY <1>2, <1>3, <1>4, <1>7
  <2> QED
    BY <1>5, <1>7, <2>1, <2>2, GatherFrame
<1> QED
  BY <1>6, <1>7

LEMMA AcceptInv ==
  ASSUME TypeInv, GatherInv, TypeInv', NEW r \in Requests, Accept(r)
  PROVE  GatherInv'
<1>1. \A q \in Requests : IdOf[q] \in Ids /\ q # None
  BY GatherAssumption DEF GatherAssumption
<1>2. pc[r] = "asked" /\ gathers[IdOf[r]] # r /\ results[r] = <<>> /\ UNCHANGED <<replies, awaits>>
  BY DEF Accept, GatherInv, Unanswered
<1>3. OnlyTargets'
  BY <1>2 DEF GatherInv, OnlyTargets, Expected
<1>4. \A q \in Requests : gathers[IdOf[q]] = q =>
        q # r /\ pc[q] \in {"dispatch", "wait", "timeout"} /\ (pc[q] = "wait" => awaits[q] = q)
  BY <1>1, <1>2 DEF GatherInv, GatherIsServed, AwaitsOwn
<1>5. CASE Tell(r, FALSE) /\ pc' = [pc EXCEPT ![r] = "end"] /\ UNCHANGED gathers
  <2> DEFINE answer == [ok |-> FALSE, replies |-> replies[r]]
  <2>1. /\ \A q \in Requests : q # r => results'[q] = results[q]
        /\ results'[r] = <<>> \/ results'[r] = Append(<<>>, answer)
    BY <1>2, <1>5, TellType
  <2>2. Append(<<>>, answer) = <<answer>> /\ Len(<<answer>>) = 1 /\ Len(<<>>) = 0
    OBVIOUS
  <2>3. OneResult'
    <3>1. Len(results'[r]) = 0 \/ Len(results'[r]) = 1
      BY <2>1, <2>2, Zenon
    <3>3. Len(results'[r]) <= 1
      <4>1. 0 <= 1 /\ 1 <= 1
        OBVIOUS
      <4> QED
        BY <3>1, <4>1, Zenon
    <3>2. \A q \in Requests : q # r => Len(results'[q]) <= 1
      BY <2>1 DEF GatherInv, OneResult
    <3> QED
      BY <3>2, <3>3 DEF OneResult
  <2>4. \A k \in DOMAIN results'[r] : ~results'[r][k].ok
    <3>1. DOMAIN <<answer>> = {1} /\ <<answer>>[1] = answer /\ DOMAIN <<>> = {}
      OBVIOUS
    <3> QED
      BY <2>1, <2>2, <3>1
  <2>5. OkMeansAll'
    BY <2>1, <2>4 DEF GatherInv, OkMeansAll, Expected
  <2>6. \A q \in Requests : pc'[q] = IF q = r THEN "end" ELSE pc[q]
    BY <1>5 DEF TypeInv, TypeOK
  <2>7. GatherIsServed' /\ AwaitsOwn'
    BY <1>1, <1>2, <1>4, <1>5, <2>6 DEF GatherInv, GatherIsServed, AwaitsOwn, TypeInv, TypeOK
  <2>8. Unanswered'
    BY <1>4, <1>5, <2>1, <2>6 DEF GatherInv, Unanswered
  <2> QED
    BY <1>3, <2>3, <2>5, <2>7, <2>8 DEF GatherInv
<1>6. CASE /\ gathers[IdOf[r]] = None
           /\ gathers' = [gathers EXCEPT ![IdOf[r]] = r]
           /\ pc' = [pc EXCEPT ![r] = "dispatch"]
           /\ UNCHANGED results
  <2>1. \A q \in Requests : pc'[q] = IF q = r THEN "dispatch" ELSE pc[q]
    BY <1>6 DEF TypeInv, TypeOK
  <2>2. \A i \in Ids : gathers'[i] = IF i = IdOf[r] THEN r ELSE gathers[i]
    BY <1>6 DEF TypeInv, TypeOK
  <2>3. OneResult' /\ OkMeansAll'
    BY <1>6 DEF GatherInv, OneResult, OkMeansAll, Expected
  <2>4. \A q \in Requests : gathers'[IdOf[q]] = q => q = r \/ gathers[IdOf[q]] = q
    BY <1>1, <2>2
  <2>5. GatherIsServed'
    BY <2>1, <2>2 DEF GatherInv, GatherIsServed, TypeInv, TypeOK
  <2>6. AwaitsOwn'
    BY <1>2, <2>1, <2>4 DEF GatherInv, AwaitsOwn
  <2>7. Unanswered'
    BY <1>2, <1>6, <2>1, <2>4 DEF GatherInv, Unanswered
  <2> QED
    BY <1>3, <2>3, <2>5, <2>6, <2>7 DEF GatherInv
<1> QED
  BY <1>5, <1>6 DEF Accept

LEMMA TaskInv ==
  ASSUME TypeInv, GatherInv, TypeInv', NEW r \in Requests, Ask(r) \/ TaskStep(r)
  PROVE  GatherInv'
<1>1. \A q \in Requests : IdOf[q] \in Ids /\ q # None
  BY GatherAssumption DEF GatherAssumption
<1>2. OnlyTargets' /\ UNCHANGED replies
  BY DEF Ask, TaskStep, Accept, Dispatch, Await, Done, InitiatorClosed, Timeout, TimeoutPop,
         GatherInv, OnlyTargets, Expected
<1>3. CASE Ask(r)
  <2>1. pc[r] = "new" /\ \A q \in Requests : pc'[q] = IF q = r THEN "asked" ELSE pc[q]
    BY <1>3 DEF Ask, TypeInv, TypeOK
  <2>2. UNCHANGED <<gathers, awaits, results>>
    BY <1>3 DEF Ask
  <2>3. OneResult' /\ OkMeansAll' /\ Unanswered'
    BY <2>1, <2>2 DEF GatherInv, OneResult, OkMeansAll, Unanswered, Expected
  <2>4. \A i \in Ids : gathers[i] # r
    BY <1>1, <2>1 DEF GatherInv, Unanswered, GatherIsServed
  <2>5. GatherIsServed' /\ AwaitsOwn'
    BY <2>1, <2>2, <2>4 DEF GatherInv, GatherIsServed, AwaitsOwn, TypeInv, TypeOK
  <2> QED
    BY <1>2, <2>3, <2>5 DEF GatherInv
<1>4. CASE Dispatch(r)
  <2>1. CASE Fail(IdOf[r]) /\ pc' = [pc EXCEPT ![r] = "end"]
    BY <1>2, <1>4, <2>1, FailPops, EndInv DEF Dispatch
  <2>2. CASE UNCHANGED <<gathers, results, pc>>
    BY <1>2, <1>4, <2>2
       DEF Dispatch, GatherInv, OneResult, OkMeansAll, GatherIsServed, Unanswered, AwaitsOwn, Expected
  <2> QED
    BY <1>4, <2>1, <2>2 DEF Dispatch
<1>5. CASE Await(r)
  <2>1. UNCHANGED <<gathers, results>> /\ pc[r] = "dispatch"
    BY <1>5 DEF Await
  <2>2. \A q \in Requests : q # r => pc'[q] = pc[q] /\ awaits'[q] = awaits[q]
    BY <1>5 DEF Await, TypeInv, TypeOK
  <2>3. /\ awaits'[r] = gathers[IdOf[r]]
        /\ pc'[r] = IF gathers[IdOf[r]] = None THEN "end" ELSE "wait"
    BY <1>5 DEF Await, TypeInv, TypeOK
  <2>4. OneResult' /\ OkMeansAll'
    BY <2>1 DEF GatherInv, OneResult, OkMeansAll, Expected
  <2>5. Unanswered' /\ AwaitsOwn'
    BY <2>1, <2>2, <2>3 DEF GatherInv, Unanswered, AwaitsOwn
  <2>6. GatherIsServed'
    <3>1. \A i \in Ids : gathers[i] = r => i = IdOf[r] /\ gathers[IdOf[r]] # None
      BY <1>1 DEF GatherInv, GatherIsServed
    <3>2. \A i \in Ids : gathers[i] # None => gathers[i] \in Requests
      BY DEF TypeInv, TypeOK
    <3> QED
      BY <2>1, <2>2, <2>3, <3>1, <3>2 DEF GatherInv, GatherIsServed
  <2> QED
    BY <1>2, <2>4, <2>5, <2>6 DEF GatherInv
<1>6. CASE Done(r)
  <2>1. /\ pc[r] = "wait" /\ pc' = [pc EXCEPT ![r] = "end"] /\ UNCHANGED <<replies, awaits>>
        /\ Complete(awaits[r])
    BY <1>6 DEF Done
  <2>2. Popped(IdOf[r]) \/ (UNCHANGED <<gathers, results>> /\ gathers[IdOf[r]] # r)
    <3>1. CASE gathers[IdOf[r]] = None \/ ~Complete(gathers[IdOf[r]])
      BY <1>1, <1>6, <2>1, <3>1 DEF Done, GatherInv, AwaitsOwn
    <3>2. CASE gathers[IdOf[r]] # None /\ Complete(gathers[IdOf[r]])
      BY <1>6, <3>2 DEF Done, Popped
    <3> QED
      BY <3>1, <3>2
  <2> QED
    BY <2>1, <2>2, EndInv
<1>7. CASE InitiatorClosed(r)
  BY <1>7, EndInv DEF InitiatorClosed, Popped, tasks
<1>8. CASE Timeout(r)
  <2>1. CASE gathers[IdOf[r]] = None
    BY <1>1, <1>8, <2>1, EndInv DEF Timeout
  <2>2. CASE gathers[IdOf[r]] # None
    BY <1>8, <2>2, EndInv DEF Timeout
  <2> QED
    BY <2>1, <2>2
<1>9. CASE TimeoutPop(r)
  BY <1>9, FailPops, EndInv DEF TimeoutPop
<1> QED
  BY <1>3, <1>4, <1>5, <1>6, <1>7, <1>8, <1>9, AcceptInv DEF TaskStep

\* A reply counts for a target that was asked, and answers nobody.
LEMMA ReplyInv ==
  ASSUME TypeInv, GatherInv, NEW r \in Requests, NEW a \in Agents, Reply(r, a)
  PROVE  GatherInv'
<1>1. UNCHANGED <<gathers, pc, awaits, results>>
  BY DEF Reply, tasks
<1>2. OnlyTargets'
  <2>1. CASE UNCHANGED replies
    BY <2>1 DEF GatherInv, OnlyTargets, Expected
  <2>2. CASE /\ gathers[IdOf[r]] # None /\ a \in Expected(gathers[IdOf[r]])
             /\ replies' = [replies EXCEPT ![gathers[IdOf[r]]] = @ \cup {a}]
    <3>1. gathers[IdOf[r]] \in Requests
      BY <2>2, GatherAssumption DEF GatherAssumption, TypeInv, TypeOK
    <3> QED
      BY <2>2, <3>1 DEF GatherInv, OnlyTargets, Expected, TypeInv, TypeOK
  <2> QED
    BY <2>1, <2>2 DEF Reply
<1> QED
  BY <1>1, <1>2 DEF GatherInv, OneResult, OkMeansAll, GatherIsServed, Unanswered, AwaitsOwn, Expected

LEMMA GatherStep == TypeInv /\ GatherInv /\ [Next]_vars => GatherInv'
<1> SUFFICES ASSUME TypeInv, GatherInv, [Next]_vars PROVE GatherInv'
  OBVIOUS
<1>0. TypeInv'
  BY TypeStep
<1>1. CASE UNCHANGED vars
  BY <1>0, <1>1, LinkInv DEF vars
<1>2. ASSUME NEW c \in Conns, Register(c) \/ Pong(c) \/ Lose(c) \/ Leave(c) PROVE GatherInv'
  BY <1>0, <1>2, LinkInv DEF Register, Pong, Lose, Leave, tasks
<1>3. ASSUME NEW a \in Agents, Silence(a) PROVE GatherInv'
  BY <1>0, <1>3, LinkInv DEF Silence, tasks
<1>4. CASE Beat
  BY <1>0, <1>4, LinkInv DEF Beat, tasks
<1>5. ASSUME NEW l \in Leavers, LeftStep(l) PROVE GatherInv'
  <2>1. ASSUME NEW a \in Agents, LeaveEvicted(a) PROVE UNCHANGED <<gathers, replies, pc, awaits, results>>
    BY <2>1 DEF LeaveEvicted, tasks
  <2>2. CASE l # Heart /\ LeftEnd(l)
    BY <1>0, <2>2, LinkInv DEF LeftEnd, tasks
  <2> QED
    BY <1>0, <1>5, <2>1, <2>2, LinkInv DEF LeftStep
<1> QED
  BY <1>0, <1>1, <1>2, <1>3, <1>4, <1>5, TaskInv, ReplyInv DEF Next

LEMMA GatherHolds == Spec => []GatherInv
  BY InitGather, GatherStep, TypeHolds, PTL DEF Spec

\* A batch_gather is answered at most once, whoever of its task, leaving
\* connections, the heartbeat and older tasks of its id ends it.
THEOREM OneResultAlways == Spec => []OneResult
  BY GatherHolds, PTL DEF GatherInv

\* A result marked ok holds the reply of every target.
THEOREM OkMeansAllAlways == Spec => []OkMeansAll
  BY GatherHolds, PTL DEF GatherInv

\* A registered gather has a task that is going to take it out.
THEOREM GatherIsServedAlways == Spec => []GatherIsServed
  BY GatherHolds, PTL DEF GatherInv
=============================================================================
