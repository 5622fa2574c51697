--------------------------- MODULE SessionLoopProofs ---------------------------
(***************************************************************************)
(* Proofs about SessionLoop: its types; that one fiber works at a time and *)
(* is the one its runner names; that the session comes to rest idle; and,  *)
(* with messages stored in the order of their ids, that a run which leaves *)
(* the loop by itself has had the messages of all its callers read.        *)
(***************************************************************************)
EXTENDS SessionLoop, FiniteSetTheorems, WellFoundedInduction, TLAPS

\* A fiber that was started has a runner and the other way round, and who waits
\* for the end of a fiber knows which one and whose.
TypeInv ==
  /\ TypeOK
  /\ IsFiniteSet(replies)
  /\ \A f \in Works : fiber[f] # "none" => home[f] \in Works
  /\ \A c \in Cancels : pc[c] = "stopping" =>
        target[c].runner \in Works /\ target[c].fiber \in Works
  /\ \A o \in Works, f \in Works : Backs(o, f) => fiber[f] # "none"

-----------------------------------------------------------------------------
(***************************************************************************)
(* Types.                                                                  *)
(***************************************************************************)

LEMMA FiniteImage ==
  ASSUME NEW S, IsFiniteSet(S), NEW f
  PROVE  IsFiniteSet({f[x] : x \in S})
<1> DEFINE T == {f[x] : x \in S}
           g == [x \in S |-> f[x]]
<1>1. g \in Surjection(S, T)
  BY DEF Surjection
<1> HIDE DEF g, T
<1>2. IsFiniteSet(T)
  BY <1>1, FS_Surjection
<1> QED
  BY <1>2 DEF T

LEMMA TakenFinite ==
  ASSUME TypeInv
  PROVE  /\ IsFiniteSet(Taken \ {0})
         /\ Taken \subseteq Nat
         /\ NextId \in Nat \ {0}
<1>1. IsFiniteSet({id[p] : p \in Prompts})
  BY FiniteImage, LoopAssumption DEF LoopAssumption
<1>2. IsFiniteSet({r.id : r \in replies})
  <2> DEFINE f == [r \in replies |-> r.id]
  <2>1. IsFiniteSet({f[r] : r \in replies})
    BY FiniteImage DEF TypeInv
  <2>2. {f[r] : r \in replies} = {r.id : r \in replies}
    OBVIOUS
  <2> QED
    BY <2>1, <2>2
<1>3. IsFiniteSet(Taken)
  BY <1>1, <1>2, FS_Union DEF Taken
<1>4. IsFiniteSet(Taken \ {0})
  BY <1>3, FS_Difference
<1>5. Cardinality(Taken \ {0}) \in Nat
  BY <1>4, FS_CardinalityType
<1>6. Taken \subseteq Nat
  <2>1. \A p \in Prompts : id[p] \in Nat
    BY DEF TypeInv, TypeOK
  <2>2. \A r \in replies : r.id \in Nat
    BY DEF TypeInv, TypeOK
  <2> QED
    BY <2>1, <2>2 DEF Taken
<1> QED
  BY <1>4, <1>5, <1>6 DEF NextId

LEMMA FinishedFinite ==
  ASSUME TypeInv, NEW i, NEW how
  PROVE  IsFiniteSet(Finished(i, how))
<1>1. IsFiniteSet({r \in replies : r.id # i})
  BY FS_Subset DEF TypeInv
<1> QED
  BY <1>1, FS_AddElement DEF Finished

LEMMA StatesConstant == States' = States
  BY DEF States, Idle, Running, Shell, ShellThenRun

LEMMA StagesHas ==
  /\ "none" \in Stages /\ "head" \in Stages /\ "model" \in Stages /\ "halted" \in Stages
  /\ "shell" \in Stages /\ "dying model" \in Stages /\ "dying" \in Stages /\ "ended" \in Stages
  BY DEF Stages

LEMMA PlacesHas ==
  /\ "new" \in Places /\ "creating" \in Places /\ "waiting" \in Places
  /\ "busy" \in Places /\ "stopping" \in Places /\ "returned" \in Places
  BY DEF Places

LEMMA ResultsHas ==
  /\ "open" \in Results /\ "ok" \in Results /\ "stopped" \in Results
  /\ "error" \in Results /\ "cancelled" \in Results
  BY DEF Results

LEMMA Constants ==
  States' = States /\ Stages' = Stages /\ Places' = Places /\ Results' = Results
  BY StatesConstant DEF Stages, Places, Results

LEMMA StateForms ==
  /\ Idle \in States
  /\ \A f \in Prompts : Running(f) \in States
  /\ \A h \in Shells : Shell(h) \in States
  /\ \A h \in Shells, f \in Prompts : ShellThenRun(h, f) \in States
  BY DEF States

LEMMA StateFields ==
  ASSUME NEW st \in States
  PROVE  /\ st.shell \in Shells \cup {None}
         /\ st.run \in Prompts \cup {None}
         /\ \/ st.tag = "Idle" /\ st.shell = None /\ st.run = None /\ st = Idle
            \/ st.tag = "Running" /\ st.shell = None /\ st.run \in Prompts /\ st = Running(st.run)
            \/ st.tag = "Shell" /\ st.shell \in Shells /\ st.run = None /\ st = Shell(st.shell)
            \/ st.tag = "ShellThenRun" /\ st.shell \in Shells /\ st.run \in Prompts
  BY DEF States, Idle, Running, Shell, ShellThenRun

LEMMA TypeInit == Init => TypeInv
<1> SUFFICES ASSUME Init PROVE TypeInv
  OBVIOUS
<1>1. TypeOK /\ IsFiniteSet(replies)
  BY FS_EmptySet, Constants, StagesHas, PlacesHas, ResultsHas, StateForms DEF Init, TypeOK, Works
<1>2. \A o \in Works, f \in Works : ~Backs(o, f)
  BY LoopAssumption DEF Init, Backs, Idle, LoopAssumption
<1>3. \A c \in Cancels : pc[c] # "stopping"
  BY DEF Init
<1> QED
  BY <1>1, <1>2, <1>3 DEF Init, TypeInv

\* What the end of a run leaves typed.
FinishKept ==
  /\ fiber' \in [Works -> Stages]
  /\ done' \in [Prompts -> Results]
  /\ runner' \in [Works -> States]
  /\ map' \in Works \cup {None}
  /\ status' \in {"idle", "busy"}
  /\ \A g \in Works : fiber'[g] # "none" <=> fiber[g] # "none"
  /\ \A o \in Works, g \in Works : Backs(o, g)' => fiber'[g] # "none"

LEMMA FinishTypes ==
  ASSUME TypeInv, NEW f \in Prompts, fiber[f] # "none",
         NEW result \in {"ok", "stopped", "error", "cancelled"}, FinishRun(f, result)
  PROVE  FinishKept
<1>1. fiber' = [fiber EXCEPT ![f] = "ended"] /\ done' = [done EXCEPT ![f] = result]
  BY DEF FinishRun
<1>2. \A g \in Works : fiber'[g] # "none" <=> fiber[g] # "none"
  BY <1>1 DEF TypeInv, TypeOK, Works
<1>3. \A o \in Works : runner'[o] = runner[o] \/ runner'[o] = Idle
  BY DEF FinishRun, TypeInv, TypeOK
<1>4. Idle.shell = None /\ Idle.tag # "Running"
  BY DEF Idle
<1>5. \A o \in Works, g \in Works : Backs(o, g)' => fiber'[g] # "none"
  BY <1>2, <1>3, <1>4, LoopAssumption DEF Backs, TypeInv, LoopAssumption
<1>6. runner' \in [Works -> States] /\ map' \in Works \cup {None} /\ status' \in {"idle", "busy"}
  BY StateForms DEF FinishRun, OnIdle, TypeInv, TypeOK
<1> QED
  BY <1>1, <1>2, <1>5, <1>6, Constants, StagesHas, PlacesHas, ResultsHas DEF TypeInv, TypeOK, Works, FinishKept, Results

THEOREM TypesKept == ASSUME TypeInv, [Next]_vars PROVE TypeInv'
<1> USE DEF Works
<1>1. ASSUME NEW p \in Prompts, Begin(p) PROVE TypeInv'
  BY <1>1, Constants, StagesHas, PlacesHas, ResultsHas, TakenFinite DEF Begin, TypeInv, TypeOK, Backs, Goto, runnerVars, fiberVars, callerVars, messageVars
<1>2. ASSUME NEW p \in Prompts, Join(p) PROVE TypeInv'
  <2> DEFINE o == RunnerFor(p)
             st == runner[o]
  <2>0. /\ runner \in [Works -> States] /\ fiber \in [Works -> Stages]
        /\ home \in [Works -> Works \cup {None}]
        /\ \A f \in Works : fiber[f] # "none" => home[f] \in Works
    BY DEF TypeInv, TypeOK
  <2>1. o \in Works /\ st \in States
    BY DEF RunnerFor, TypeInv, TypeOK
  <2>2. /\ st.shell \in Shells \cup {None} /\ st.run \in Prompts \cup {None}
        /\ st.tag = "Shell" => st.shell \in Shells
    BY <2>1, StateFields
  <2>3. WaitsFor(p, st) \in Prompts
    BY <2>2 DEF WaitsFor
  <2>4. \/ UNCHANGED <<runner, fiber, home>>
        \/ /\ runner' = [runner EXCEPT ![o] = ShellThenRun(st.shell, p)]
           /\ st.tag = "Shell"
           /\ UNCHANGED <<fiber, home>>
        \/ /\ runner' = [runner EXCEPT ![o] = Running(p)]
           /\ fiber' = [fiber EXCEPT ![p] = "head"]
           /\ home' = [home EXCEPT ![p] = o]
    BY <1>2 DEF Join
  <2>5. /\ joined' = [joined EXCEPT ![p] = WaitsFor(p, st)]
        /\ map' = o
    BY <1>2 DEF Join
  <2> HIDE DEF o, st
  <2>6. id' \in [Prompts -> Nat] /\ stored' \subseteq Prompts
    BY <1>2, TakenFinite DEF Join, TypeInv, TypeOK
  <2>7. runner' \in [Works -> States]
    BY <2>1, <2>2, <2>4, StateForms DEF TypeInv, TypeOK
  <2>8. /\ fiber' \in [Works -> Stages]
        /\ home' \in [Works -> Works \cup {None}]
        /\ \A f \in Works : fiber'[f] # "none" => home'[f] \in Works
        /\ \A f \in Works : fiber[f] # "none" => fiber'[f] # "none"
    <3>1. "head" \in Stages
      BY StagesHas
    <3> QED
      BY <2>0, <2>1, <2>4, <3>1
  <2>9. \A x \in Works, f \in Works : Backs(x, f)' => fiber'[f] # "none"
    <3> SUFFICES ASSUME NEW x \in Works, NEW f \in Works, Backs(x, f)' PROVE fiber'[f] # "none"
      OBVIOUS
    <3>1. CASE x # o \/ UNCHANGED runner
      <4>1. runner'[x] = runner[x]
        BY <2>0, <2>1, <3>1, <2>4
      <4> QED
        BY <4>1, <2>8 DEF Backs, TypeInv
    <3>2. CASE x = o /\ runner' = [runner EXCEPT ![o] = Running(p)] /\ fiber' = [fiber EXCEPT ![p] = "head"]
      <4>1. runner'[x] = Running(p)
        BY <3>2, <2>1 DEF TypeInv, TypeOK
      <4>2. f = p
        BY <4>1, LoopAssumption DEF Running, Backs, LoopAssumption
      <4> QED
        BY <3>2, <4>2 DEF TypeInv, TypeOK
    <3>3. CASE x = o /\ st.tag = "Shell" /\ runner' = [runner EXCEPT ![o] = ShellThenRun(st.shell, p)] /\ UNCHANGED fiber
      <4>1. runner'[x] = ShellThenRun(st.shell, p)
        BY <3>3, <2>1 DEF TypeInv, TypeOK
      <4>2. f = st.shell
        BY <4>1 DEF ShellThenRun, Backs
      <4>3. Backs(o, f)
        BY <4>2 DEF Backs, st
      <4> QED
        BY <3>3, <4>3, <2>1 DEF TypeInv
    <3> QED
      BY <2>4, <3>1, <3>2, <3>3
  <2>10. joined' \in [Prompts -> Prompts \cup {None}] /\ map' \in Works \cup {None}
    BY <2>1, <2>3, <2>5 DEF TypeInv, TypeOK
  <2>11. pc' \in [Works \cup Cancels -> Places] /\ \A c \in Cancels : pc'[c] = pc[c]
    BY <1>2, PlacesHas, LoopAssumption DEF Join, Goto, TypeInv, TypeOK, LoopAssumption
  <2> QED
    BY <1>2, <2>6, <2>7, <2>8, <2>9, <2>10, <2>11, Constants, StagesHas, PlacesHas, ResultsHas
    DEF Join, TypeInv, TypeOK
<1>3. ASSUME NEW p \in Prompts, Return(p) PROVE TypeInv'
  BY <1>3, Constants, StagesHas, PlacesHas, ResultsHas, LoopAssumption DEF LoopAssumption, Return, TypeInv, TypeOK, Backs, Goto, runnerVars, fiberVars, callerVars, messageVars
<1>4. ASSUME NEW p \in Prompts, Leave(p) PROVE TypeInv'
  <2>1. FinishKept
    BY <1>4, FinishTypes DEF Leave
  <2> QED
    BY <1>4, <2>1, Constants, StagesHas, PlacesHas, ResultsHas DEF Leave, FinishKept, TypeInv, TypeOK, Goto, runnerVars, fiberVars, callerVars, messageVars
<1>5. ASSUME NEW p \in Prompts, Ask(p) PROVE TypeInv'
  <2>1. NextId \in Nat
    BY TakenFinite
  <2>2. IsFiniteSet(replies')
    BY <1>5, FS_AddElement DEF Ask, TypeInv
  <2>3. \A r \in replies' : r.id \in Nat /\ r.finish \in {"none", "stop", "tool-calls"}
    BY <1>5, <2>1 DEF Ask, TypeInv, TypeOK
  <2>4. reply' \in [Prompts -> Nat]
    BY <1>5, <2>1 DEF Ask, TypeInv, TypeOK
  <2> QED
    BY <1>5, <2>2, <2>3, <2>4, Constants, StagesHas, PlacesHas, ResultsHas DEF Ask, TypeInv, TypeOK, Backs, Goto, runnerVars, fiberVars, callerVars, messageVars
<1>6. ASSUME NEW p \in Prompts, Throw(p) PROVE TypeInv'
  <2>1. FinishKept
    BY <1>6, FinishTypes DEF Throw
  <2> QED
    BY <1>6, <2>1, Constants, StagesHas, PlacesHas, ResultsHas DEF Throw, FinishKept, TypeInv, TypeOK, Goto, runnerVars, fiberVars, callerVars, messageVars
<1>7. ASSUME NEW p \in Prompts, ModelEnds(p) PROVE TypeInv'
  <2>1. reply[p] \in Nat
    BY DEF TypeInv, TypeOK
  <2>2. replies' = Finished(reply[p], "stop") \/ replies' = Finished(reply[p], "tool-calls")
    BY <1>7 DEF ModelEnds
  <2>3. IsFiniteSet(replies')
    BY <2>2, FinishedFinite
  <2>4. \A r \in replies' : r.id \in Nat /\ r.finish \in {"none", "stop", "tool-calls"}
    BY <2>1, <2>2 DEF Finished, TypeInv, TypeOK
  <2>5. tools' \in Nat
    BY <1>7 DEF ModelEnds, TypeInv, TypeOK
  <2> QED
    BY <1>7, <2>3, <2>4, <2>5, Constants, StagesHas, PlacesHas, ResultsHas DEF ModelEnds, TypeInv, TypeOK, Backs, Goto, runnerVars, fiberVars, callerVars, messageVars
<1>8. ASSUME NEW p \in Prompts, Halt(p) PROVE TypeInv'
  BY <1>8, Constants, StagesHas, PlacesHas, ResultsHas DEF Halt, TypeInv, TypeOK, Backs, Goto, runnerVars, fiberVars, callerVars, messageVars
<1>9. ASSUME NEW p \in Prompts, Stop(p) PROVE TypeInv'
  <2>1. FinishKept
    BY <1>9, FinishTypes DEF Stop
  <2> QED
    BY <1>9, <2>1, Constants, StagesHas, PlacesHas, ResultsHas DEF Stop, FinishKept, TypeInv, TypeOK, Goto, runnerVars, fiberVars, callerVars, messageVars
<1>10. ASSUME NEW p \in Prompts, DyingHalts(p) PROVE TypeInv'
  BY <1>10, Constants, StagesHas, PlacesHas, ResultsHas DEF DyingHalts, TypeInv, TypeOK, Backs, Goto, runnerVars, fiberVars, callerVars, messageVars
<1>11. ASSUME NEW p \in Prompts, DyingEnds(p) PROVE TypeInv'
  <2>1. FinishKept
    BY <1>11, FinishTypes DEF DyingEnds
  <2> QED
    BY <1>11, <2>1, Constants, StagesHas, PlacesHas, ResultsHas DEF DyingEnds, FinishKept, TypeInv, TypeOK, Goto, runnerVars, fiberVars, callerVars, messageVars
<1>12. ASSUME NEW h \in Shells, StartShell(h) PROVE TypeInv'
  <2> DEFINE o == RunnerFor(h)
  <2>1. o \in Works
    BY DEF RunnerFor, TypeInv, TypeOK
  <2>2. NextId \in Nat
    BY TakenFinite
  <2>3. IsFiniteSet(replies')
    BY <1>12, FS_AddElement DEF StartShell, TypeInv
  <2>4. \A r \in replies' : r.id \in Nat /\ r.finish \in {"none", "stop", "tool-calls"}
    BY <1>12, <2>2 DEF StartShell, TypeInv, TypeOK
  <2>5. \/ UNCHANGED <<runner, home, fiber, status>>
        \/ /\ runner' = [runner EXCEPT ![o] = Shell(h)]
           /\ home' = [home EXCEPT ![h] = o]
           /\ fiber' = [fiber EXCEPT ![h] = "shell"]
           /\ status' = "busy"
    BY <1>12 DEF StartShell
  <2>6. map' = o
    BY <1>12 DEF StartShell
  <2>7. pc' = [pc EXCEPT ![h] = "busy"] \/ pc' = [pc EXCEPT ![h] = "waiting"]
    BY <1>12 DEF StartShell, Goto
  <2> HIDE DEF o
  <2>8. runner' \in [Works -> States]
    BY <2>5, StateForms DEF TypeInv, TypeOK
  <2>9. \A x \in Works, f \in Works : Backs(x, f)' => fiber'[f] # "none"
    <3>1. runner \in [Works -> States] /\ DOMAIN fiber = Works
      BY DEF TypeInv, TypeOK
    <3>2. Shell(h).shell = h /\ Shell(h).tag = "Shell"
      BY DEF Shell
    <3> QED
      BY <2>1, <2>5, <3>1, <3>2 DEF Backs, TypeInv
  <2>10. pc' \in [Works \cup Cancels -> Places] /\ \A c \in Cancels : pc'[c] = pc[c]
    BY <2>7, PlacesHas, LoopAssumption DEF TypeInv, TypeOK, LoopAssumption
  <2>11. /\ fiber' \in [Works -> Stages] /\ home' \in [Works -> Works \cup {None}]
         /\ \A f \in Works : fiber'[f] # "none" => home'[f] \in Works
    <3>1. "shell" \in Stages
      BY StagesHas
    <3>2. /\ fiber \in [Works -> Stages] /\ home \in [Works -> Works \cup {None}]
          /\ \A f \in Works : fiber[f] # "none" => home[f] \in Works
      BY DEF TypeInv, TypeOK
    <3> QED
      BY <2>1, <2>5, <3>1, <3>2
  <2>12. status' \in {"idle", "busy"} /\ map' \in Works \cup {None}
    BY <2>1, <2>5, <2>6 DEF TypeInv, TypeOK
  <2> QED
    BY <1>12, <2>3, <2>4, <2>8, <2>9, <2>10, <2>11, <2>12, Constants, StagesHas, PlacesHas, ResultsHas
    DEF StartShell, TypeInv, TypeOK
<1>13. ASSUME NEW h \in Shells, EndShell(h) PROVE TypeInv'
  <2> DEFINE o == home[h]
             st == runner[o]
  <2>0. /\ runner \in [Works -> States] /\ fiber \in [Works -> Stages]
        /\ home \in [Works -> Works \cup {None}]
        /\ \A f \in Works : fiber[f] # "none" => home[f] \in Works
    BY DEF TypeInv, TypeOK
  <2>1. o \in Works /\ st \in States
    BY <1>13 DEF EndShell, TypeInv, TypeOK
  <2>2. st.tag = "ShellThenRun" => st.run \in Prompts
    BY <2>1, StateFields
  <2>3. \/ /\ runner' = [runner EXCEPT ![o] = Idle]
           /\ fiber' = [fiber EXCEPT ![h] = "ended"]
           /\ UNCHANGED home
        \/ /\ st.tag = "ShellThenRun"
           /\ runner' = [runner EXCEPT ![o] = Running(st.run)]
           /\ fiber' = [fiber EXCEPT ![h] = "ended", ![st.run] = "head"]
           /\ home' = [home EXCEPT ![st.run] = o]
        \/ /\ fiber' = [fiber EXCEPT ![h] = "ended"]
           /\ UNCHANGED <<runner, home>>
    BY <1>13 DEF EndShell
  <2>4. fiber[h] # "none"
    BY <1>13 DEF EndShell
  <2> HIDE DEF o, st
  <2>5. runner' \in [Works -> States]
    BY <2>1, <2>2, <2>3, StateForms DEF TypeInv, TypeOK
  <2>6. /\ fiber' \in [Works -> Stages]
        /\ home' \in [Works -> Works \cup {None}]
    <3>1. "head" \in Stages /\ "ended" \in Stages
      BY StagesHas
    <3> QED
      BY <2>0, <2>1, <2>2, <2>3, <3>1
  <2>7. /\ \A f \in Works : fiber'[f] # "none" => home'[f] \in Works
        /\ \A f \in Works : fiber[f] # "none" => fiber'[f] # "none"
    BY <2>1, <2>2, <2>3, <2>4 DEF TypeInv, TypeOK
  <2>8. \A x \in Works, f \in Works : Backs(x, f)' => fiber'[f] # "none"
    <3> SUFFICES ASSUME NEW x \in Works, NEW f \in Works, Backs(x, f)' PROVE fiber'[f] # "none"
      OBVIOUS
    <3>1. CASE runner'[x] = runner[x]
      BY <3>1, <2>7 DEF Backs, TypeInv
    <3>2. CASE runner'[x] = Idle
      BY <3>2, LoopAssumption DEF Backs, Idle, LoopAssumption
    <3>3. CASE /\ runner'[x] = Running(st.run) /\ st.run \in Prompts
               /\ fiber' = [fiber EXCEPT ![h] = "ended", ![st.run] = "head"]
      <4>1. f = st.run
        BY <3>3, LoopAssumption DEF Backs, Running, LoopAssumption
      <4> QED
        BY <4>1, <3>3 DEF TypeInv, TypeOK
    <3> QED
      BY <2>1, <2>2, <2>3, <3>1, <3>2, <3>3 DEF TypeInv, TypeOK
  <2>9. map' \in Works \cup {None} /\ status' \in {"idle", "busy"}
    BY <1>13 DEF EndShell, OnIdle, TypeInv, TypeOK
  <2> QED
    BY <1>13, <2>5, <2>6, <2>7, <2>8, <2>9, Constants, StagesHas, PlacesHas, ResultsHas, LoopAssumption
    DEF EndShell, TypeInv, TypeOK, LoopAssumption, Goto, runnerVars, fiberVars, callerVars, messageVars
<1>14. ASSUME NEW c \in Cancels, Cancel(c) PROVE TypeInv'
  <2> DEFINE st == runner[map]
             f == IF st.shell # None THEN st.shell ELSE st.run
  <2>0. /\ runner \in [Works -> States] /\ fiber \in [Works -> Stages]
        /\ home \in [Works -> Works \cup {None}]
        /\ \A g \in Works : fiber[g] # "none" => home[g] \in Works
    BY DEF TypeInv, TypeOK
  <2>1. map \in Works /\ st \in States /\ st.tag # "Idle"
    BY <1>14 DEF Cancel, TypeInv, TypeOK
  <2>2. f \in Works /\ Backs(map, f) /\ (st.tag = "ShellThenRun" => st.run \in Prompts)
    BY <2>1, StateFields, LoopAssumption DEF Backs, LoopAssumption
  <2>3. \/ fiber' = [fiber EXCEPT ![f] = "dying model"]
        \/ fiber' = [fiber EXCEPT ![f] = "dying"]
    BY <1>14 DEF Cancel, Interrupted
  <2>4. /\ target' = [target EXCEPT ![c] = [runner |-> map, fiber |-> f]]
        /\ done' = IF st.tag = "ShellThenRun" THEN [done EXCEPT ![st.run] = "cancelled"] ELSE done
        /\ runner' = [runner EXCEPT ![map] = Idle]
    BY <1>14 DEF Cancel
  <2> HIDE DEF f, st
  <2>5. /\ fiber' \in [Works -> Stages]
        /\ \A g \in Works : fiber'[g] # "none" <=> fiber[g] # "none"
    <3>1. "dying" \in Stages /\ "dying model" \in Stages
      BY StagesHas
    <3>2. fiber[f] # "none"
      BY <2>1, <2>2 DEF TypeInv
    <3>3. fiber \in [Works -> Stages] /\ f \in Works
      BY <2>0, <2>2
    <3>4. CASE fiber' = [fiber EXCEPT ![f] = "dying model"]
      BY <3>1, <3>2, <3>3, <3>4
    <3>5. CASE fiber' = [fiber EXCEPT ![f] = "dying"]
      BY <3>1, <3>2, <3>3, <3>5
    <3> QED
      BY <2>3, <3>4, <3>5
  <2>6. /\ target' \in [Cancels -> [runner : Works \cup {None}, fiber : Works \cup {None}]]
        /\ target'[c].runner \in Works /\ target'[c].fiber \in Works
        /\ \A x \in Cancels \ {c} : target'[x] = target[x]
    BY <2>1, <2>2, <2>4 DEF TypeInv, TypeOK
  <2>7. runner' \in [Works -> States]
    BY <2>4, StateForms DEF TypeInv, TypeOK
  <2>8. done' \in [Prompts -> Results]
    BY <2>2, <2>4, ResultsHas DEF TypeInv, TypeOK
  <2>9. \A x \in Works, g \in Works : Backs(x, g)' => fiber'[g] # "none"
    <3>1. \A x \in Works : runner'[x] = runner[x] \/ runner'[x] = Idle
      BY <2>4 DEF TypeInv, TypeOK
    <3>2. Idle.shell = None /\ Idle.tag # "Running"
      BY DEF Idle
    <3> QED
      BY <2>5, <3>1, <3>2, LoopAssumption DEF Backs, TypeInv, LoopAssumption
  <2> QED
    BY <1>14, <2>5, <2>6, <2>7, <2>8, <2>9, Constants, StagesHas, PlacesHas, ResultsHas, LoopAssumption
    DEF Cancel, TypeInv, TypeOK, LoopAssumption, Goto, runnerVars, fiberVars, callerVars, messageVars
<1>15. ASSUME NEW c \in Cancels, CancelIdle(c) PROVE TypeInv'
  BY <1>15, Constants, StagesHas, PlacesHas, ResultsHas, LoopAssumption DEF LoopAssumption, CancelIdle, TypeInv, TypeOK, Backs, Goto, runnerVars, fiberVars, callerVars, messageVars
<1>16. ASSUME NEW c \in Cancels, Cancelled(c) PROVE TypeInv'
  BY <1>16, Constants, StagesHas, PlacesHas, ResultsHas, LoopAssumption DEF LoopAssumption, Cancelled, TypeInv, TypeOK, Backs, Goto, runnerVars, fiberVars, callerVars, messageVars, OnIdle
<1>17. CASE UNCHANGED vars
  BY <1>17, Constants, StagesHas, PlacesHas, ResultsHas DEF vars, TypeInv, TypeOK, Backs
<1> QED
  BY <1>1, <1>2, <1>3, <1>4, <1>5, <1>6, <1>7, <1>8, <1>9, <1>10, <1>11, <1>12, <1>13, <1>14, <1>15, <1>16, <1>17 DEF Next, Work

\* Whatever is stored, answered, stopped or refused in whatever order, the session's
\* state has its types (session/run-state.ts, effect/runner.ts).
THEOREM Types == Spec => []TypeOK
<1>1. TypeInv /\ [Next]_vars => TypeInv'
  BY TypesKept
<1>2. TypeInv => TypeOK
  BY DEF TypeInv
<1> QED
  BY TypeInit, <1>1, <1>2, PTL DEF Spec

-----------------------------------------------------------------------------
(***************************************************************************)
(* One fiber at work.                                                      *)
(***************************************************************************)

\* A caller that has not begun yet has left no trace.
Fresh(p) ==
  /\ fiber[p] = "none" /\ done[p] = "open"
  /\ \A o \in Works : runner[o].run # p

\* A run behind a shell has not begun, and waits behind one shell only.
Pending(o) ==
  /\ fiber[runner[o].run] = "none"
  /\ \A x \in Works : runner[x].run = runner[o].run => x = o

WorkInv ==
  /\ Exclusive
  /\ \A p \in Prompts : pc[p] \in {"new", "creating"} => Fresh(p)
  /\ \A h \in Shells : pc[h] = "new" => fiber[h] = "none"
  /\ \A o \in Works : runner[o].tag = "ShellThenRun" => Pending(o)

LEMMA WorkInit == Init => WorkInv
  BY LoopAssumption DEF Init, WorkInv, Exclusive, Fresh, Backs, Live, Idle, LoopAssumption, Works

\* Who backs whom in each state of a runner.
LEMMA BacksWhom ==
  ASSUME TypeInv, NEW o \in Works, NEW f \in Works
  PROVE  /\ Backs(o, f) <=>
              \/ runner[o].tag = "Running" /\ runner[o].run = f
              \/ runner[o].tag \in {"Shell", "ShellThenRun"} /\ runner[o].shell = f
         /\ runner[o].tag \in {"Idle", "Running", "Shell", "ShellThenRun"}
<1>1. runner[o] \in States
  BY DEF TypeInv, TypeOK
<1> QED
  BY <1>1, StateFields, LoopAssumption DEF Backs, LoopAssumption

\* A step that changes no runner and neither starts nor ends a fiber.
LEMMA QuietKeeps ==
  ASSUME TypeInv, WorkInv, UNCHANGED <<runner, home, done>>,
         \A f \in Works : Live(f)' <=> Live(f),
         \A f \in Works : fiber'[f] = "none" <=> fiber[f] = "none",
         \A p \in Prompts : pc'[p] \in {"new", "creating"} => pc[p] \in {"new", "creating"},
         \A h \in Shells : pc'[h] = "new" => pc[h] = "new"
  PROVE  WorkInv'
<1>1. \A o \in Works, f \in Works : Backs(o, f)' <=> Backs(o, f)
  BY DEF Backs
<1>2. Exclusive'
  BY <1>1 DEF WorkInv, Exclusive, Works
<1>3. \A p \in Prompts : pc'[p] \in {"new", "creating"} => Fresh(p)'
  BY DEF WorkInv, Fresh, Works
<1>4. \A o \in Works : runner'[o].tag = "ShellThenRun" => Pending(o)'
  <2>1. \A o \in Works : runner'[o].tag = "ShellThenRun" => Pending(o)
    BY DEF WorkInv
  <2>2. \A o \in Works : runner[o].tag = "ShellThenRun" => runner[o].run \in Works
    BY StateFields DEF TypeInv, TypeOK, Works
  <2> QED
    BY <2>1, <2>2 DEF Pending, Works
<1>5. \A h \in Shells : pc'[h] = "new" => fiber'[h] = "none"
  BY DEF WorkInv, Works
<1> QED
  BY <1>2, <1>3, <1>4, <1>5 DEF WorkInv, Works

LEMMA FinishKeeps ==
  ASSUME TypeInv, WorkInv, NEW f \in Prompts, NEW result, fiber[f] # "none",
         FinishRun(f, result), UNCHANGED <<home, pc>>
  PROVE  WorkInv'
<1> DEFINE o == home[f]
<1>0. /\ f \in Works /\ o \in Works
      /\ DOMAIN fiber = Works /\ DOMAIN done = Prompts /\ runner \in [Works -> States]
  BY DEF TypeInv, TypeOK, Works
<1>1. Live(f) <=> runner[o] = Running(f)
  <2>1. Backs(o, f) <=> Live(f)
    BY <1>0 DEF WorkInv, Exclusive
  <2>2. Backs(o, f) => runner[o] = Running(f)
    BY <1>0, BacksWhom, StateFields, LoopAssumption DEF LoopAssumption
  <2>3. runner[o] = Running(f) => Backs(o, f)
    BY DEF Running, Backs
  <2> QED
    BY <2>1, <2>2, <2>3
<1>2. \A x \in Works : runner'[x] = IF runner[o] = Running(f) /\ x = o THEN Idle ELSE runner[x]
  BY <1>0 DEF FinishRun
<1>3. /\ \A g \in Works \ {f} : fiber'[g] = fiber[g]
      /\ \A g \in Prompts \ {f} : done'[g] = done[g]
      /\ fiber'[f] = "ended"
  BY <1>0 DEF FinishRun
<1>4. /\ \A g \in Works : ~(Idle.shell = g) /\ Idle.run # g
      /\ Idle.tag = "Idle" /\ Running(f).run = f /\ Running(f).tag = "Running"
      /\ \A g \in Works : Running(f).shell # g
  BY LoopAssumption DEF Idle, Running, LoopAssumption
<1> HIDE DEF o
<1>5. Exclusive'
  <2> SUFFICES ASSUME NEW x \in Works, NEW g \in Works
               PROVE  Backs(x, g)' <=> Live(g)' /\ home[g] = x
    BY DEF Exclusive, Works
  <2>1. Backs(x, g) <=> Live(g) /\ home[g] = x
    BY DEF WorkInv, Exclusive
  <2>2. CASE runner[o] = Running(f) /\ x = o
    <3>1. ~Backs(x, g)'
      BY <1>2, <1>4, <2>2 DEF Backs
    <3>2. Backs(x, g) => g = f
      BY <1>4, <2>2 DEF Backs
    <3> QED
      BY <1>3, <2>1, <3>1, <3>2 DEF Live
  <2>3. CASE ~(runner[o] = Running(f) /\ x = o)
    <3>1. Backs(x, g)' <=> Backs(x, g)
      BY <1>2, <2>3 DEF Backs
    <3>2. g # f => (Live(g)' <=> Live(g))
      BY <1>3 DEF Live
    <3>3. g = f => ~Live(g)' /\ ~(Live(g) /\ home[g] = x)
      BY <1>1, <1>3, <2>3 DEF Live, o
    <3> QED
      BY <2>1, <3>1, <3>2, <3>3
  <2> QED
    BY <2>2, <2>3
<1>6. \A p \in Prompts : pc'[p] \in {"new", "creating"} => Fresh(p)'
  <2> SUFFICES ASSUME NEW p \in Prompts, pc[p] \in {"new", "creating"} PROVE Fresh(p)'
    OBVIOUS
  <2>1. Fresh(p)
    BY DEF WorkInv
  <2> QED
    BY <1>2, <1>3, <1>4, <2>1 DEF Fresh, Works
<1>7. \A h \in Shells : pc'[h] = "new" => fiber'[h] = "none"
  BY <1>3 DEF WorkInv, Works
<1>8. \A x \in Works : runner'[x].tag = "ShellThenRun" => Pending(x)'
  <2> SUFFICES ASSUME NEW x \in Works, runner'[x].tag = "ShellThenRun" PROVE Pending(x)'
    BY DEF Works
  <2>1. runner'[x] = runner[x]
    BY <1>2, <1>4
  <2>2. Pending(x) /\ runner[x].run \in Prompts
    BY <1>0, <2>1, StateFields DEF WorkInv
  <2>3. runner[x].run \in Works \ {f}
    BY <2>2 DEF Pending, Works
  <2> QED
    BY <1>2, <1>3, <1>4, <2>1, <2>2, <2>3 DEF Pending, Works
<1> QED
  BY <1>5, <1>6, <1>7, <1>8 DEF WorkInv, Works

\* A caller that finds work joins it; one that finds a shell waits behind it; one
\* that finds nothing starts its own.
LEMMA JoinKeeps ==
  ASSUME TypeInv, WorkInv, NEW p \in Prompts, Join(p)
  PROVE  WorkInv'
<1> DEFINE o == RunnerFor(p)
           st == runner[o]
<1>0. /\ p \in Works /\ o \in Works /\ st \in States
      /\ DOMAIN fiber = Works /\ DOMAIN home = Works /\ runner \in [Works -> States]
  BY DEF RunnerFor, TypeInv, TypeOK, Works
<1>1. /\ Fresh(p) /\ UNCHANGED done
      /\ \A q \in Prompts : pc'[q] \in {"new", "creating"} => pc[q] \in {"new", "creating"} /\ q # p
      /\ \A h \in Shells : pc'[h] = "new" => pc[h] = "new"
  BY LoopAssumption DEF Join, Goto, WorkInv, TypeInv, TypeOK, Works, LoopAssumption
<1>2. CASE UNCHANGED <<runner, fiber, home>>
  BY <1>1, <1>2, QuietKeeps DEF Live
<1>3. CASE /\ st.tag = "Shell" /\ UNCHANGED <<fiber, home>>
           /\ runner' = [runner EXCEPT ![o] = ShellThenRun(st.shell, p)]
  <2>1. /\ runner'[o].tag = "ShellThenRun" /\ runner'[o].shell = st.shell /\ runner'[o].run = p
        /\ \A x \in Works \ {o} : runner'[x] = runner[x]
    BY <1>0, <1>3 DEF ShellThenRun
  <2> HIDE DEF o
  <2>2. \A x \in Works, f \in Works : Backs(x, f)' <=> Backs(x, f)
    BY <1>3, <2>1 DEF Backs
  <2>3. Exclusive'
    BY <1>3, <2>2 DEF WorkInv, Exclusive, Live, Works
  <2>4. \A q \in Prompts : pc'[q] \in {"new", "creating"} => Fresh(q)'
    <3> SUFFICES ASSUME NEW q \in Prompts, pc'[q] \in {"new", "creating"} PROVE Fresh(q)'
      OBVIOUS
    <3>1. Fresh(q) /\ q # p
      BY <1>1 DEF WorkInv
    <3> QED
      BY <1>1, <1>3, <2>1, <3>1 DEF Fresh, Works
  <2>5. \A x \in Works : runner'[x].tag = "ShellThenRun" => Pending(x)'
    <3> SUFFICES ASSUME NEW x \in Works, runner'[x].tag = "ShellThenRun" PROVE Pending(x)'
      BY DEF Works
    <3>1. \A y \in Works : runner[y].run # p
      BY <1>1 DEF Fresh
    <3>2. CASE x = o
      <4>1. \A y \in Works : runner'[y].run = p => y = o
        BY <2>1, <3>1
      <4> QED
        BY <1>1, <1>3, <2>1, <3>2, <4>1 DEF Pending, Fresh, Works
    <3>3. CASE x # o
      <4>1. runner'[x] = runner[x] /\ Pending(x)
        BY <2>1, <3>3 DEF WorkInv
      <4> QED
        BY <1>3, <2>1, <3>1, <4>1 DEF Pending, Works
    <3> QED
      BY <3>2, <3>3
  <2>6. \A h \in Shells : pc'[h] = "new" => fiber'[h] = "none"
    BY <1>1, <1>3 DEF WorkInv
  <2> QED
    BY <2>3, <2>4, <2>5, <2>6 DEF WorkInv, Works
<1>4. CASE /\ st.tag = "Idle"
           /\ runner' = [runner EXCEPT ![o] = Running(p)]
           /\ fiber' = [fiber EXCEPT ![p] = "head"]
           /\ home' = [home EXCEPT ![p] = o]
  <2>1. /\ runner'[o].tag = "Running" /\ runner'[o].shell = None /\ runner'[o].run = p
        /\ \A x \in Works \ {o} : runner'[x] = runner[x]
        /\ fiber'[p] = "head" /\ home'[p] = o
        /\ \A f \in Works \ {p} : fiber'[f] = fiber[f] /\ home'[f] = home[f]
    BY <1>0, <1>4 DEF Running
  <2>2. \A f \in Works : ~Backs(o, f)
    BY <1>0, <1>4, BacksWhom
  <2>3. ~Live(p)
    BY <1>1 DEF Fresh, Live
  <2> HIDE DEF o
  <2>4. Exclusive'
    <3> SUFFICES ASSUME NEW x \in Works, NEW f \in Works
                 PROVE  Backs(x, f)' <=> Live(f)' /\ home'[f] = x
      BY DEF Exclusive, Works
    <3>1. Backs(x, f) <=> Live(f) /\ home[f] = x
      BY DEF WorkInv, Exclusive
    <3>2. Backs(x, f)' <=> IF x = o THEN f = p ELSE Backs(x, f)
      BY <2>1, LoopAssumption DEF Backs, LoopAssumption
    <3>3. CASE f = p
      BY <2>1, <2>3, <3>1, <3>2, <3>3 DEF Live
    <3>4. CASE f # p
      BY <2>1, <2>2, <3>1, <3>2, <3>4 DEF Live
    <3> QED
      BY <3>3, <3>4
  <2>5. \A q \in Prompts : pc'[q] \in {"new", "creating"} => Fresh(q)'
    <3> SUFFICES ASSUME NEW q \in Prompts, pc'[q] \in {"new", "creating"} PROVE Fresh(q)'
      OBVIOUS
    <3>1. Fresh(q) /\ q # p
      BY <1>1 DEF WorkInv
    <3> QED
      BY <1>1, <2>1, <3>1 DEF Fresh, Works
  <2>6. \A x \in Works : runner'[x].tag = "ShellThenRun" => Pending(x)'
    <3> SUFFICES ASSUME NEW x \in Works, runner'[x].tag = "ShellThenRun" PROVE Pending(x)'
      BY DEF Works
    <3>1. \A y \in Works : runner[y].run # p
      BY <1>1 DEF Fresh
    <3>2. x # o /\ runner'[x] = runner[x]
      BY <2>1
    <3>3. Pending(x) /\ runner[x].run \in Works \ {p}
      BY <1>0, <3>1, <3>2, StateFields DEF WorkInv, Works
    <3> QED
      BY <2>1, <3>2, <3>3 DEF Pending, Works
  <2>7. \A h \in Shells : pc'[h] = "new" => fiber'[h] = "none"
    BY <1>1, <2>1, LoopAssumption DEF WorkInv, LoopAssumption, Works
  <2> QED
    BY <2>4, <2>5, <2>6, <2>7 DEF WorkInv, Works
<1> QED
  BY <1>2, <1>3, <1>4 DEF Join

LEMMA StartShellKeeps ==
  ASSUME TypeInv, WorkInv, NEW h \in Shells, StartShell(h)
  PROVE  WorkInv'
<1> DEFINE o == RunnerFor(h)
<1>0. /\ h \in Works /\ o \in Works
      /\ DOMAIN fiber = Works /\ DOMAIN home = Works /\ runner \in [Works -> States]
  BY DEF RunnerFor, TypeInv, TypeOK, Works
<1>1. /\ UNCHANGED done
      /\ \A q \in Prompts : pc'[q] = pc[q]
      /\ \A g \in Shells : pc'[g] = "new" => pc[g] = "new" /\ g # h
      /\ fiber[h] = "none"
  BY LoopAssumption DEF StartShell, Goto, WorkInv, TypeInv, TypeOK, Works, LoopAssumption
<1>2. CASE UNCHANGED <<runner, fiber, home>>
  BY <1>1, <1>2, QuietKeeps DEF Live
<1>3. CASE /\ runner[o].tag = "Idle"
           /\ runner' = [runner EXCEPT ![o] = Shell(h)]
           /\ fiber' = [fiber EXCEPT ![h] = "shell"]
           /\ home' = [home EXCEPT ![h] = o]
  <2>1. /\ runner'[o].tag = "Shell" /\ runner'[o].shell = h /\ runner'[o].run = None
        /\ \A x \in Works \ {o} : runner'[x] = runner[x]
        /\ fiber'[h] = "shell" /\ home'[h] = o
        /\ \A f \in Works \ {h} : fiber'[f] = fiber[f] /\ home'[f] = home[f]
    BY <1>0, <1>3 DEF Shell
  <2>2. \A f \in Works : ~Backs(o, f)
    BY <1>0, <1>3, BacksWhom
  <2>3. ~Live(h)
    BY <1>1 DEF Live
  <2> HIDE DEF o
  <2>4. Exclusive'
    <3> SUFFICES ASSUME NEW x \in Works, NEW f \in Works
                 PROVE  Backs(x, f)' <=> Live(f)' /\ home'[f] = x
      BY DEF Exclusive, Works
    <3>1. Backs(x, f) <=> Live(f) /\ home[f] = x
      BY DEF WorkInv, Exclusive
    <3>2. Backs(x, f)' <=> IF x = o THEN f = h ELSE Backs(x, f)
      BY <2>1 DEF Backs
    <3>3. CASE f = h
      BY <2>1, <2>3, <3>1, <3>2, <3>3 DEF Live
    <3>4. CASE f # h
      BY <2>1, <2>2, <3>1, <3>2, <3>4 DEF Live
    <3> QED
      BY <3>3, <3>4
  <2>5. \A q \in Prompts : pc'[q] \in {"new", "creating"} => Fresh(q)'
    <3> SUFFICES ASSUME NEW q \in Prompts, pc'[q] \in {"new", "creating"} PROVE Fresh(q)'
      OBVIOUS
    <3>1. Fresh(q) /\ q # h /\ q # None
      BY <1>1, LoopAssumption DEF WorkInv, LoopAssumption, Works
    <3> QED
      BY <1>1, <2>1, <3>1 DEF Fresh, Works
  <2>6. \A x \in Works : runner'[x].tag = "ShellThenRun" => Pending(x)'
    <3> SUFFICES ASSUME NEW x \in Works, runner'[x].tag = "ShellThenRun" PROVE Pending(x)'
      BY DEF Works
    <3>1. x # o /\ runner'[x] = runner[x]
      BY <2>1
    <3>2. Pending(x) /\ runner[x].run \in Works \ {h} /\ runner[x].run # None
      BY <1>0, <3>1, StateFields, LoopAssumption DEF WorkInv, Works, LoopAssumption
    <3> QED
      BY <2>1, <3>1, <3>2 DEF Pending, Works
  <2>7. \A g \in Shells : pc'[g] = "new" => fiber'[g] = "none"
    BY <1>1, <2>1 DEF WorkInv, Works
  <2> QED
    BY <2>4, <2>5, <2>6, <2>7 DEF WorkInv, Works
<1> QED
  BY <1>2, <1>3 DEF StartShell

\* The end of a shell frees its runner, or starts the run that waits behind it.
LEMMA EndShellKeeps ==
  ASSUME TypeInv, WorkInv, NEW h \in Shells, EndShell(h)
  PROVE  WorkInv'
<1> DEFINE o == home[h]
           st == runner[o]
<1>0. /\ h \in Works /\ h \notin Prompts /\ o \in Works /\ st \in States
      /\ DOMAIN fiber = Works /\ DOMAIN home = Works /\ runner \in [Works -> States]
      /\ fiber[h] # "none"
  BY LoopAssumption DEF EndShell, TypeInv, TypeOK, Works, LoopAssumption
<1>1. /\ UNCHANGED done
      /\ \A q \in Prompts : pc'[q] = pc[q]
      /\ \A g \in Shells : pc'[g] = "new" => pc[g] = "new"
  BY LoopAssumption DEF EndShell, Goto, TypeInv, TypeOK, Works, LoopAssumption
<1>2. /\ \A g \in Works : Idle.shell # g /\ Idle.run # g
      /\ Idle.tag = "Idle"
  BY LoopAssumption DEF Idle, LoopAssumption
<1>3. Backs(o, h) <=> st.shell = h
  BY <1>0, BacksWhom, StateFields, LoopAssumption DEF Backs, LoopAssumption
<1>4. Live(h) <=> st.shell = h
  BY <1>0, <1>3 DEF WorkInv, Exclusive
<1>5. CASE /\ \/ st = Shell(h) /\ runner' = [runner EXCEPT ![o] = Idle]
              \/ st.shell # h /\ UNCHANGED runner
           /\ fiber' = [fiber EXCEPT ![h] = "ended"]
           /\ UNCHANGED home
  <2>1. /\ \A x \in Works : runner'[x] = IF st.shell = h /\ x = o THEN Idle ELSE runner[x]
        /\ fiber'[h] = "ended"
        /\ \A f \in Works \ {h} : fiber'[f] = fiber[f]
    BY <1>0, <1>5 DEF Shell
  <2>2. \A f \in Works : st.shell = h /\ Backs(o, f) => f = h
    BY <1>0, <1>5, BacksWhom DEF Shell
  <2> HIDE DEF o, st
  <2>3. Exclusive'
    <3> SUFFICES ASSUME NEW x \in Works, NEW f \in Works
                 PROVE  Backs(x, f)' <=> Live(f)' /\ home[f] = x
      BY <1>5 DEF Exclusive, Works
    <3>1. Backs(x, f) <=> Live(f) /\ home[f] = x
      BY DEF WorkInv, Exclusive
    <3>2. Backs(x, f)' <=> Backs(x, f) /\ ~(st.shell = h /\ x = o)
      BY <1>2, <2>1 DEF Backs
    <3>3. CASE f = h
      BY <1>4, <2>1, <3>1, <3>2, <3>3 DEF Live, o
    <3>4. CASE f # h
      BY <2>1, <2>2, <3>1, <3>2, <3>4 DEF Live
    <3> QED
      BY <3>3, <3>4
  <2>4. \A q \in Prompts : pc'[q] \in {"new", "creating"} => Fresh(q)'
    <3> SUFFICES ASSUME NEW q \in Prompts, pc'[q] \in {"new", "creating"} PROVE Fresh(q)'
      OBVIOUS
    <3>1. Fresh(q) /\ q # h
      BY <1>0, <1>1 DEF WorkInv
    <3> QED
      BY <1>1, <1>2, <2>1, <3>1 DEF Fresh, Works
  <2>5. \A x \in Works : runner'[x].tag = "ShellThenRun" => Pending(x)'
    <3> SUFFICES ASSUME NEW x \in Works, runner'[x].tag = "ShellThenRun" PROVE Pending(x)'
      BY DEF Works
    <3>1. runner'[x] = runner[x]
      BY <1>2, <2>1
    <3>2. Pending(x) /\ runner[x].run \in Works
      BY <1>0, <3>1, StateFields DEF WorkInv, Works
    <3> QED
      BY <1>0, <1>2, <2>1, <3>1, <3>2 DEF Pending, Works
  <2>6. \A g \in Shells : pc'[g] = "new" => fiber'[g] = "none"
    BY <1>0, <1>1, <2>1 DEF WorkInv, Works
  <2> QED
    BY <2>3, <2>4, <2>5, <2>6 DEF WorkInv, Works
<1>6. CASE /\ st.tag = "ShellThenRun" /\ st.shell = h
           /\ runner' = [runner EXCEPT ![o] = Running(st.run)]
           /\ fiber' = [fiber EXCEPT ![h] = "ended", ![st.run] = "head"]
           /\ home' = [home EXCEPT ![st.run] = o]
  <2> DEFINE r == st.run
  <2>1. r \in Prompts /\ r \in Works /\ r # h /\ Pending(o)
    BY <1>0, <1>6, StateFields DEF WorkInv, Works
  <2>2. /\ runner'[o].tag = "Running" /\ runner'[o].shell = None /\ runner'[o].run = r
        /\ \A x \in Works \ {o} : runner'[x] = runner[x]
    BY <1>0, <1>6 DEF Running
  <2>3. /\ fiber'[h] = "ended" /\ fiber'[r] = "head" /\ home'[r] = o
        /\ \A f \in Works \ {h, r} : fiber'[f] = fiber[f]
        /\ \A f \in Works \ {r} : home'[f] = home[f]
    <3> HIDE DEF r
    <3>1. fiber' = [fiber EXCEPT ![h] = "ended", ![r] = "head"] /\ home' = [home EXCEPT ![r] = o]
      BY <1>6 DEF r
    <3> QED
      BY <1>0, <2>1, <3>1
  <2>4. \A f \in Works : Backs(o, f) <=> f = h
    BY <1>0, <1>6, BacksWhom
  <2>5. fiber[r] = "none" /\ \A x \in Works : runner[x].run = r => x = o
    BY <2>1 DEF Pending
  <2> HIDE DEF o, st, r
  <2>6. Exclusive'
    <3> SUFFICES ASSUME NEW x \in Works, NEW f \in Works
                 PROVE  Backs(x, f)' <=> Live(f)' /\ home'[f] = x
      BY DEF Exclusive, Works
    <3>1. Backs(x, f) <=> Live(f) /\ home[f] = x
      BY DEF WorkInv, Exclusive
    <3>2. Backs(x, f)' <=> IF x = o THEN f = r ELSE Backs(x, f)
      BY <2>2, LoopAssumption DEF Backs, LoopAssumption
    <3>3. CASE f = r
      BY <2>3, <2>5, <3>1, <3>2, <3>3 DEF Live
    <3>4. CASE f = h
      <4>1. Backs(o, h)
        BY <1>0, <2>4
      <4>2. home[h] = o
        BY DEF o
      <4> QED
        BY <2>1, <2>3, <3>1, <3>2, <3>4, <4>1, <4>2 DEF Live
    <3>5. CASE f # r /\ f # h
      BY <2>3, <2>4, <3>1, <3>2, <3>5 DEF Live
    <3> QED
      BY <3>3, <3>4, <3>5
  <2>7. \A q \in Prompts : pc'[q] \in {"new", "creating"} => Fresh(q)'
    <3> SUFFICES ASSUME NEW q \in Prompts, pc'[q] \in {"new", "creating"} PROVE Fresh(q)'
      OBVIOUS
    <3>1. Fresh(q) /\ q # h
      BY <1>0, <1>1 DEF WorkInv
    <3>2. runner[o].run = r
      BY DEF r, st
    <3>3. q # r
      BY <1>0, <3>1, <3>2 DEF Fresh
    <3> QED
      BY <1>1, <2>2, <2>3, <3>1, <3>3 DEF Fresh, Works
  <2>8. \A x \in Works : runner'[x].tag = "ShellThenRun" => Pending(x)'
    <3> SUFFICES ASSUME NEW x \in Works, runner'[x].tag = "ShellThenRun" PROVE Pending(x)'
      BY DEF Works
    <3>1. x # o /\ runner'[x] = runner[x]
      BY <2>2
    <3>2. Pending(x) /\ runner[x].run \in Works \ {h, r}
      BY <1>0, <2>5, <3>1, StateFields DEF WorkInv, Works
    <3> QED
      BY <2>2, <2>3, <3>1, <3>2 DEF Pending, Works
  <2>9. \A g \in Shells : pc'[g] = "new" => fiber'[g] = "none"
    <3> SUFFICES ASSUME NEW g \in Shells, pc'[g] = "new" PROVE fiber'[g] = "none"
      OBVIOUS
    <3>1. fiber[g] = "none" /\ g \notin Prompts
      BY <1>1, LoopAssumption DEF WorkInv, LoopAssumption
    <3> QED
      BY <1>0, <2>1, <2>3, <3>1 DEF Works
  <2> QED
    BY <2>6, <2>7, <2>8, <2>9 DEF WorkInv, Works
<1> QED
  <2>1. \/ st = Shell(h) /\ runner' = [runner EXCEPT ![o] = Idle]
           /\ fiber' = [fiber EXCEPT ![h] = "ended"] /\ UNCHANGED home
        \/ /\ st.tag = "ShellThenRun" /\ st.shell = h
           /\ runner' = [runner EXCEPT ![o] = Running(st.run)]
           /\ fiber' = [fiber EXCEPT ![h] = "ended", ![st.run] = "head"]
           /\ home' = [home EXCEPT ![st.run] = o]
        \/ st.shell # h /\ fiber' = [fiber EXCEPT ![h] = "ended"] /\ UNCHANGED <<runner, home>>
    BY DEF EndShell
  <2> QED
    BY <1>5, <1>6, <2>1

\* A cancellation leaves the runner idle and what it stops to its own end.
LEMMA CancelKeeps ==
  ASSUME TypeInv, WorkInv, NEW c \in Cancels, Cancel(c)
  PROVE  WorkInv'
<1> DEFINE st == runner[map]
           f == IF st.shell # None THEN st.shell ELSE st.run
<1>0. /\ map \in Works /\ st \in States /\ st.tag # "Idle"
      /\ DOMAIN fiber = Works /\ runner \in [Works -> States] /\ DOMAIN done = Prompts
  BY DEF Cancel, TypeInv, TypeOK
<1>1. /\ UNCHANGED home
      /\ \A q \in Works : pc'[q] = pc[q]
  BY LoopAssumption DEF Cancel, Goto, TypeInv, TypeOK, Works, LoopAssumption
<1>2. /\ \A g \in Works : Idle.shell # g /\ Idle.run # g
      /\ Idle.tag = "Idle"
  BY LoopAssumption DEF Idle, LoopAssumption
<1>3. f \in Works /\ \A g \in Works : Backs(map, g) <=> g = f
  BY <1>0, BacksWhom, StateFields, LoopAssumption DEF Works, LoopAssumption
<1>4. /\ runner' = [runner EXCEPT ![map] = Idle]
      /\ fiber' = [fiber EXCEPT ![f] = "dying model"] \/ fiber' = [fiber EXCEPT ![f] = "dying"]
      /\ done' = IF st.tag = "ShellThenRun" THEN [done EXCEPT ![st.run] = "cancelled"] ELSE done
  BY DEF Cancel, Interrupted
<1>5. Live(f) /\ home[f] = map
  BY <1>0, <1>3 DEF WorkInv, Exclusive
<1>6. st.tag = "ShellThenRun" => Pending(map) /\ st.run \in Prompts
  BY <1>0, StateFields DEF WorkInv
<1>7. /\ runner'[map] = Idle /\ \A x \in Works \ {map} : runner'[x] = runner[x]
      /\ fiber'[f] \in {"dying", "dying model"} /\ \A g \in Works \ {f} : fiber'[g] = fiber[g]
      /\ \A q \in Prompts : done'[q] # done[q] => st.tag = "ShellThenRun" /\ q = st.run
  BY <1>0, <1>3, <1>4
<1> HIDE DEF f, st
<1>8. Exclusive'
  <2> SUFFICES ASSUME NEW x \in Works, NEW g \in Works
               PROVE  Backs(x, g)' <=> Live(g)' /\ home[g] = x
    BY <1>1 DEF Exclusive, Works
  <2>1. Backs(x, g) <=> Live(g) /\ home[g] = x
    BY DEF WorkInv, Exclusive
  <2>2. Backs(x, g)' <=> Backs(x, g) /\ x # map
    BY <1>2, <1>7 DEF Backs
  <2>3. CASE g = f
    BY <1>5, <1>7, <2>1, <2>2, <2>3 DEF Live
  <2>4. CASE g # f
    BY <1>3, <1>7, <2>1, <2>2, <2>4 DEF Live
  <2> QED
    BY <2>3, <2>4
<1>9. \A q \in Prompts : pc'[q] \in {"new", "creating"} => Fresh(q)'
  <2> SUFFICES ASSUME NEW q \in Prompts, pc'[q] \in {"new", "creating"} PROVE Fresh(q)'
    OBVIOUS
  <2>1. Fresh(q) /\ q \in Works
    BY <1>1 DEF WorkInv, Works
  <2>2. q # f
    BY <1>5, <2>1 DEF Live, Fresh
  <2>3. done'[q] = done[q]
    BY <1>0, <1>7, <2>1 DEF Fresh, st
  <2> QED
    BY <1>2, <1>7, <2>1, <2>2, <2>3 DEF Fresh, Works
<1>10. \A x \in Works : runner'[x].tag = "ShellThenRun" => Pending(x)'
  <2> SUFFICES ASSUME NEW x \in Works, runner'[x].tag = "ShellThenRun" PROVE Pending(x)'
    BY DEF Works
  <2>1. x # map /\ runner'[x] = runner[x]
    BY <1>2, <1>7
  <2>2. Pending(x) /\ runner[x].run \in Works
    BY <1>0, <2>1, StateFields DEF WorkInv, Works
  <2>3. runner[x].run # f
    BY <1>5, <2>2 DEF Pending, Live
  <2> QED
    BY <1>2, <1>7, <2>1, <2>2, <2>3 DEF Pending, Works
<1>11. \A g \in Shells : pc'[g] = "new" => fiber'[g] = "none"
  <2> SUFFICES ASSUME NEW g \in Shells, pc'[g] = "new" PROVE fiber'[g] = "none"
    OBVIOUS
  <2>1. fiber[g] = "none" /\ g \in Works
    BY <1>1 DEF WorkInv, Works
  <2>2. g # f
    BY <1>5, <2>1 DEF Live
  <2> QED
    BY <1>7, <2>1, <2>2
<1> QED
  BY <1>8, <1>9, <1>10, <1>11 DEF WorkInv, Works

LEMMA WorkKept == ASSUME TypeInv, WorkInv, [Next]_vars PROVE WorkInv'
<1>1. ASSUME NEW p \in Prompts, Begin(p) PROVE WorkInv'
  <2>1. /\ UNCHANGED <<runner, home, done>>
        /\ \A f \in Works : (Live(f)' <=> Live(f)) /\ (fiber'[f] = "none" <=> fiber[f] = "none")
    BY <1>1 DEF Begin, Live, Works, TypeInv, TypeOK, runnerVars, fiberVars, callerVars, messageVars
  <2>2. /\ \A q \in Prompts : pc'[q] \in {"new", "creating"} => pc[q] \in {"new", "creating"}
        /\ \A h \in Shells : pc'[h] = "new" => pc[h] = "new"
    BY <1>1, LoopAssumption DEF Begin, Goto, Works, TypeInv, TypeOK, callerVars, LoopAssumption
  <2> QED
    BY <2>1, <2>2, QuietKeeps
<1>2. ASSUME NEW p \in Prompts, Join(p) PROVE WorkInv'
  BY <1>2, JoinKeeps
<1>3. ASSUME NEW p \in Prompts, Return(p) PROVE WorkInv'
  <2>1. /\ UNCHANGED <<runner, home, done>>
        /\ \A f \in Works : (Live(f)' <=> Live(f)) /\ (fiber'[f] = "none" <=> fiber[f] = "none")
    BY <1>3 DEF Return, Live, Works, TypeInv, TypeOK, runnerVars, fiberVars, callerVars, messageVars
  <2>2. /\ \A q \in Prompts : pc'[q] \in {"new", "creating"} => pc[q] \in {"new", "creating"}
        /\ \A h \in Shells : pc'[h] = "new" => pc[h] = "new"
    BY <1>3, LoopAssumption DEF Return, Goto, Works, TypeInv, TypeOK, callerVars, LoopAssumption
  <2> QED
    BY <2>1, <2>2, QuietKeeps
<1>4. ASSUME NEW p \in Prompts, Leave(p) PROVE WorkInv'
  BY <1>4, FinishKeeps DEF Leave, callerVars
<1>5. ASSUME NEW p \in Prompts, Ask(p) PROVE WorkInv'
  <2>1. /\ UNCHANGED <<runner, home, done>>
        /\ \A f \in Works : (Live(f)' <=> Live(f)) /\ (fiber'[f] = "none" <=> fiber[f] = "none")
    BY <1>5 DEF Ask, Live, Works, TypeInv, TypeOK, runnerVars, fiberVars, callerVars, messageVars
  <2>2. /\ \A q \in Prompts : pc'[q] \in {"new", "creating"} => pc[q] \in {"new", "creating"}
        /\ \A h \in Shells : pc'[h] = "new" => pc[h] = "new"
    BY <1>5, LoopAssumption DEF Ask, Goto, Works, TypeInv, TypeOK, callerVars, LoopAssumption
  <2> QED
    BY <2>1, <2>2, QuietKeeps
<1>6. ASSUME NEW p \in Prompts, Throw(p) PROVE WorkInv'
  BY <1>6, FinishKeeps DEF Throw, callerVars
<1>7. ASSUME NEW p \in Prompts, ModelEnds(p) PROVE WorkInv'
  <2>1. /\ UNCHANGED <<runner, home, done>>
        /\ \A f \in Works : (Live(f)' <=> Live(f)) /\ (fiber'[f] = "none" <=> fiber[f] = "none")
    BY <1>7 DEF ModelEnds, Live, Works, TypeInv, TypeOK, runnerVars, fiberVars, callerVars, messageVars
  <2>2. /\ \A q \in Prompts : pc'[q] \in {"new", "creating"} => pc[q] \in {"new", "creating"}
        /\ \A h \in Shells : pc'[h] = "new" => pc[h] = "new"
    BY <1>7, LoopAssumption DEF ModelEnds, Goto, Works, TypeInv, TypeOK, callerVars, LoopAssumption
  <2> QED
    BY <2>1, <2>2, QuietKeeps
<1>8. ASSUME NEW p \in Prompts, Halt(p) PROVE WorkInv'
  <2>1. /\ UNCHANGED <<runner, home, done>>
        /\ \A f \in Works : (Live(f)' <=> Live(f)) /\ (fiber'[f] = "none" <=> fiber[f] = "none")
    BY <1>8 DEF Halt, Live, Works, TypeInv, TypeOK, runnerVars, fiberVars, callerVars, messageVars
  <2>2. /\ \A q \in Prompts : pc'[q] \in {"new", "creating"} => pc[q] \in {"new", "creating"}
        /\ \A h \in Shells : pc'[h] = "new" => pc[h] = "new"
    BY <1>8, LoopAssumption DEF Halt, Goto, Works, TypeInv, TypeOK, callerVars, LoopAssumption
  <2> QED
    BY <2>1, <2>2, QuietKeeps
<1>9. ASSUME NEW p \in Prompts, Stop(p) PROVE WorkInv'
  BY <1>9, FinishKeeps DEF Stop, callerVars
<1>10. ASSUME NEW p \in Prompts, DyingHalts(p) PROVE WorkInv'
  <2>1. /\ UNCHANGED <<runner, home, done>>
        /\ \A f \in Works : (Live(f)' <=> Live(f)) /\ (fiber'[f] = "none" <=> fiber[f] = "none")
    BY <1>10 DEF DyingHalts, Live, Works, TypeInv, TypeOK, runnerVars, fiberVars, callerVars, messageVars
  <2>2. /\ \A q \in Prompts : pc'[q] \in {"new", "creating"} => pc[q] \in {"new", "creating"}
        /\ \A h \in Shells : pc'[h] = "new" => pc[h] = "new"
    BY <1>10, LoopAssumption DEF DyingHalts, Goto, Works, TypeInv, TypeOK, callerVars, LoopAssumption
  <2> QED
    BY <2>1, <2>2, QuietKeeps
<1>11. ASSUME NEW p \in Prompts, DyingEnds(p) PROVE WorkInv'
  BY <1>11, FinishKeeps DEF DyingEnds, callerVars
<1>12. ASSUME NEW h \in Shells, StartShell(h) PROVE WorkInv'
  BY <1>12, StartShellKeeps
<1>13. ASSUME NEW h \in Shells, EndShell(h) PROVE WorkInv'
  BY <1>13, EndShellKeeps
<1>14. ASSUME NEW c \in Cancels, Cancel(c) PROVE WorkInv'
  BY <1>14, CancelKeeps
<1>15. ASSUME NEW c \in Cancels, CancelIdle(c) PROVE WorkInv'
  <2>1. /\ UNCHANGED <<runner, home, done>>
        /\ \A f \in Works : (Live(f)' <=> Live(f)) /\ (fiber'[f] = "none" <=> fiber[f] = "none")
    BY <1>15 DEF CancelIdle, Live, Works, TypeInv, TypeOK, runnerVars, fiberVars, callerVars, messageVars
  <2>2. /\ \A q \in Prompts : pc'[q] \in {"new", "creating"} => pc[q] \in {"new", "creating"}
        /\ \A h \in Shells : pc'[h] = "new" => pc[h] = "new"
    BY <1>15, LoopAssumption DEF CancelIdle, Goto, Works, TypeInv, TypeOK, callerVars, LoopAssumption
  <2> QED
    BY <2>1, <2>2, QuietKeeps
<1>16. ASSUME NEW c \in Cancels, Cancelled(c) PROVE WorkInv'
  <2>1. /\ UNCHANGED <<runner, home, done>>
        /\ \A f \in Works : (Live(f)' <=> Live(f)) /\ (fiber'[f] = "none" <=> fiber[f] = "none")
    BY <1>16 DEF Cancelled, Live, Works, TypeInv, TypeOK, runnerVars, fiberVars, callerVars, messageVars
  <2>2. /\ \A q \in Prompts : pc'[q] \in {"new", "creating"} => pc[q] \in {"new", "creating"}
        /\ \A h \in Shells : pc'[h] = "new" => pc[h] = "new"
    BY <1>16, LoopAssumption DEF Cancelled, Goto, Works, TypeInv, TypeOK, callerVars, LoopAssumption
  <2> QED
    BY <2>1, <2>2, QuietKeeps
<1>17. CASE UNCHANGED vars
  BY <1>17, QuietKeeps DEF vars, Live
<1> QED
  BY <1>1, <1>2, <1>3, <1>4, <1>5, <1>6, <1>7, <1>8, <1>9, <1>10, <1>11, <1>12, <1>13, <1>14, <1>15, <1>16, <1>17 DEF Next, Work

\* Callers, shells and cancellations may come in any order: the fiber that works is
\* the one the runner names, and no runner is left busy with work that has ended
\* (effect/runner.ts).
THEOREM OneAtWork == Spec => []Exclusive
<1>1. Init => TypeInv /\ WorkInv
  BY TypeInit, WorkInit
<1>2. TypeInv /\ WorkInv /\ [Next]_vars => TypeInv' /\ WorkInv'
  BY TypesKept, WorkKept
<1>3. WorkInv => Exclusive
  BY DEF WorkInv
<1> QED
  BY <1>1, <1>2, <1>3, PTL DEF Spec

-----------------------------------------------------------------------------
(***************************************************************************)
(* The session at rest.                                                    *)
(***************************************************************************)

Dying(f) == fiber[f] \in {"dying", "dying model"}
AtWork(f) == fiber[f] \notin {"none", "ended"}
Awaited(f) == \E c \in Cancels : pc[c] = "stopping" /\ target[c].fiber = f

\* An interrupted fiber is awaited by who interrupted it; the session is busy only
\* while a fiber works or is awaited.
RestInv ==
  /\ \A f \in Works : Dying(f) => Awaited(f)
  /\ status = "busy" => (\E f \in Works : AtWork(f)) \/ (\E c \in Cancels : pc[c] = "stopping")

LEMMA RestInit == Init => RestInv
  BY DEF Init, RestInv, Dying

\* A step that no cancellation takes.
LEMMA AwaitedStays ==
  ASSUME RestInv, UNCHANGED target, \A c \in Cancels : pc'[c] = pc[c],
         \A f \in Works : Dying(f)' => Dying(f)
  PROVE  \A f \in Works : Dying(f)' => Awaited(f)'
  BY DEF RestInv, Awaited, Works

\* A step that ends no fiber and does not make the session busy, or that leaves a
\* fiber at work.
LEMMA BusyStays ==
  ASSUME RestInv, \A c \in Cancels : pc'[c] = pc[c],
         \/ /\ status' \in {"idle", status}
            /\ \A f \in Works : AtWork(f) => AtWork(f)'
         \/ \E f \in Works : AtWork(f)'
  PROVE  status' = "busy" => (\E f \in Works : AtWork(f)') \/ (\E c \in Cancels : pc'[c] = "stopping")
  BY DEF RestInv

LEMMA FinishRests ==
  ASSUME TypeInv, WorkInv, RestInv, NEW f \in Prompts, AtWork(f), NEW result,
         FinishRun(f, result), UNCHANGED callerVars
  PROVE  RestInv'
<1>0. /\ f \in Works /\ home[f] \in Works /\ DOMAIN fiber = Works /\ runner[home[f]] \in States
  BY DEF TypeInv, TypeOK, Works, AtWork
<1>1. fiber' = [fiber EXCEPT ![f] = "ended"] /\ UNCHANGED <<pc, target>>
  BY DEF FinishRun, callerVars
<1>2. \A g \in Works : Dying(g)' => Dying(g)
  BY <1>0, <1>1 DEF Dying
<1>3. status' = "idle" \/ (status' = status /\ ~Live(f))
  <2>1. CASE runner[home[f]] = Running(f)
    BY <2>1 DEF FinishRun, OnIdle
  <2>2. CASE runner[home[f]] # Running(f)
    <3>1. ~Backs(home[f], f)
      BY <1>0, <2>2, BacksWhom, StateFields, LoopAssumption DEF LoopAssumption
    <3>2. ~Live(f)
      BY <1>0, <3>1 DEF WorkInv, Exclusive
    <3> QED
      BY <2>2, <3>2 DEF FinishRun
  <2> QED
    BY <2>1, <2>2
<1>4. ~Live(f) => \E c \in Cancels : pc[c] = "stopping"
  <2>1. fiber[f] \in Stages
    BY <1>0 DEF TypeInv, TypeOK
  <2>2. ~Live(f) => Dying(f)
    BY <2>1 DEF Live, Dying, AtWork, Stages
  <2> QED
    BY <1>0, <2>2 DEF RestInv, Awaited
<1>5. status' = "busy" => \E c \in Cancels : pc'[c] = "stopping"
  BY <1>1, <1>3, <1>4
<1> QED
  BY <1>1, <1>2, <1>5, AwaitedStays DEF RestInv, Works

LEMMA EndShellRests ==
  ASSUME TypeInv, WorkInv, RestInv, NEW h \in Shells, EndShell(h)
  PROVE  RestInv'
<1> DEFINE o == home[h]
           st == runner[o]
<1>0. /\ h \in Works /\ o \in Works /\ st \in States /\ DOMAIN fiber = Works
      /\ fiber[h] \in {"shell", "dying"}
  BY DEF EndShell, TypeInv, TypeOK, Works
<1>1. UNCHANGED target /\ \A c \in Cancels : pc'[c] = pc[c]
  BY LoopAssumption DEF EndShell, Goto, TypeInv, TypeOK, LoopAssumption, Works
<1>2. CASE st = Shell(h) /\ fiber' = [fiber EXCEPT ![h] = "ended"] /\ OnIdle
  <2>1. \A f \in Works : Dying(f)' => Dying(f)
    BY <1>0, <1>2 DEF Dying
  <2> QED
    BY <1>1, <1>2, <2>1, AwaitedStays DEF RestInv, OnIdle, Works
<1>3. CASE st.tag = "ShellThenRun" /\ fiber' = [fiber EXCEPT ![h] = "ended", ![st.run] = "head"]
  <2>1. st.run \in Works /\ st.run # h
    BY <1>0, <1>3, StateFields, LoopAssumption DEF Works, LoopAssumption
  <2>2. PICK r \in Works : fiber' = [fiber EXCEPT ![h] = "ended", ![r] = "head"]
    BY <1>3, <2>1
  <2>3. \A f \in Works : Dying(f)' => Dying(f)
    BY <1>0, <2>2 DEF Dying
  <2>4. AtWork(r)'
    BY <1>0, <2>2 DEF AtWork
  <2> QED
    BY <1>1, <2>2, <2>3, <2>4, AwaitedStays, BusyStays DEF RestInv, Works
<1>4. CASE st.shell # h /\ fiber' = [fiber EXCEPT ![h] = "ended"] /\ UNCHANGED status
  <2>1. \A f \in Works : Dying(f)' => Dying(f)
    BY <1>0, <1>4 DEF Dying
  <2>2. ~Backs(o, h)
    BY <1>0, <1>4, BacksWhom, StateFields, LoopAssumption DEF LoopAssumption
  <2>3. Dying(h)
    BY <1>0, <2>2 DEF WorkInv, Exclusive, Live, Dying
  <2>4. \E c \in Cancels : pc'[c] = "stopping"
    BY <1>0, <1>1, <2>3 DEF RestInv, Awaited
  <2> QED
    BY <1>1, <2>1, <2>4, AwaitedStays DEF RestInv, Works
<1> QED
  BY <1>2, <1>3, <1>4 DEF EndShell

LEMMA CancelRests ==
  ASSUME TypeInv, RestInv, NEW c \in Cancels, Cancel(c)
  PROVE  RestInv'
<1> DEFINE st == runner[map]
           f == IF st.shell # None THEN st.shell ELSE st.run
<1>1. /\ pc'[c] = "stopping" /\ target'[c].fiber = f
      /\ \A x \in Cancels \ {c} : pc'[x] = pc[x] /\ target'[x] = target[x]
      /\ pc[c] = "new"
      /\ \A g \in Works \ {f} : fiber'[g] = fiber[g]
  BY DEF Cancel, Goto, Interrupted, TypeInv, TypeOK
<1> HIDE DEF f
<1>2. \A g \in Works : Dying(g)' => Awaited(g)'
  <2> SUFFICES ASSUME NEW g \in Works, Dying(g)' PROVE Awaited(g)'
    BY DEF Works
  <2>1. CASE g = f
    BY <1>1, <2>1 DEF Awaited
  <2>2. CASE g # f
    <3>1. PICK x \in Cancels : pc[x] = "stopping" /\ target[x].fiber = g
      BY <1>1, <2>2 DEF RestInv, Dying, Awaited
    <3> QED
      BY <1>1, <3>1 DEF Awaited
  <2> QED
    BY <2>1, <2>2
<1> QED
  BY <1>1, <1>2 DEF RestInv, Works

LEMMA CancelIdleRests ==
  ASSUME TypeInv, RestInv, NEW c \in Cancels, CancelIdle(c)
  PROVE  RestInv'
<1>1. /\ \A x \in Cancels : pc'[x] = "stopping" <=> pc[x] = "stopping"
      /\ UNCHANGED <<fiber, target>> /\ status' = "idle"
  BY DEF CancelIdle, Goto, TypeInv, TypeOK, fiberVars
<1> QED
  BY <1>1 DEF RestInv, Dying, Awaited, Works

LEMMA CancelledRests ==
  ASSUME TypeInv, WorkInv, RestInv, NEW c \in Cancels, Cancelled(c)
  PROVE  RestInv'
<1> DEFINE o == target[c].runner
<1>1. /\ \A x \in Cancels \ {c} : pc'[x] = pc[x]
      /\ UNCHANGED <<fiber, target>>
      /\ fiber[target[c].fiber] = "ended" /\ o \in Works
  BY DEF Cancelled, Goto, TypeInv, TypeOK, fiberVars
<1>2. \A f \in Works : Dying(f)' => Awaited(f)'
  <2> SUFFICES ASSUME NEW f \in Works, Dying(f)' PROVE Awaited(f)'
    BY DEF Works
  <2>1. PICK x \in Cancels : pc[x] = "stopping" /\ target[x].fiber = f
    BY <1>1 DEF RestInv, Dying, Awaited
  <2>2. x # c
    BY <1>1, <2>1 DEF Dying
  <2> QED
    BY <1>1, <2>1, <2>2 DEF Awaited
<1>3. CASE runner[o].tag = "Idle"
  BY <1>2, <1>3 DEF Cancelled, OnIdle, RestInv, Works
<1>4. CASE runner[o].tag # "Idle"
  <2>1. runner[o] \in States
    BY <1>1 DEF TypeInv, TypeOK
  <2>2. PICK g \in Works : Backs(o, g)
    BY <1>1, <1>4, <2>1, BacksWhom, StateFields DEF Works
  <2>3. AtWork(g)
    BY <1>1, <2>2 DEF WorkInv, Exclusive, Live, AtWork
  <2> QED
    BY <1>1, <1>2, <2>3 DEF RestInv, AtWork, Works
<1> QED
  BY <1>3, <1>4

LEMMA RestKept == ASSUME TypeInv, WorkInv, RestInv, [Next]_vars PROVE RestInv'
<1>1. ASSUME NEW p \in Prompts, Begin(p) PROVE RestInv'
  <2>1. UNCHANGED target /\ \A c \in Cancels : pc'[c] = pc[c]
    BY <1>1, LoopAssumption DEF Begin, Goto, TypeInv, TypeOK, callerVars, LoopAssumption, Works
  <2>2. \A f \in Works : Dying(f)' => Dying(f)
    BY <1>1 DEF Begin, Dying, TypeInv, TypeOK, fiberVars, Works
  <2>3. \/ status' \in {"idle", status} /\ \A f \in Works : AtWork(f) => AtWork(f)'
        \/ \E f \in Works : AtWork(f)'
    BY <1>1 DEF Begin, AtWork, TypeInv, TypeOK, fiberVars, Works
  <2> QED
    BY <2>1, <2>2, <2>3, AwaitedStays, BusyStays DEF RestInv, Works
<1>2. ASSUME NEW p \in Prompts, Join(p) PROVE RestInv'
  <2>1. UNCHANGED target /\ \A c \in Cancels : pc'[c] = pc[c]
    BY <1>2, LoopAssumption DEF Join, Goto, TypeInv, TypeOK, callerVars, LoopAssumption, Works
  <2>2. \A f \in Works : Dying(f)' => Dying(f)
    BY <1>2 DEF Join, Dying, TypeInv, TypeOK, fiberVars, Works
  <2>3. \/ status' \in {"idle", status} /\ \A f \in Works : AtWork(f) => AtWork(f)'
        \/ \E f \in Works : AtWork(f)'
    BY <1>2 DEF Join, AtWork, TypeInv, TypeOK, fiberVars, Works
  <2> QED
    BY <2>1, <2>2, <2>3, AwaitedStays, BusyStays DEF RestInv, Works
<1>3. ASSUME NEW p \in Prompts, Return(p) PROVE RestInv'
  <2>1. UNCHANGED target /\ \A c \in Cancels : pc'[c] = pc[c]
    BY <1>3, LoopAssumption DEF Return, Goto, TypeInv, TypeOK, callerVars, LoopAssumption, Works
  <2>2. \A f \in Works : Dying(f)' => Dying(f)
    BY <1>3 DEF Return, Dying, TypeInv, TypeOK, fiberVars, Works
  <2>3. \/ status' \in {"idle", status} /\ \A f \in Works : AtWork(f) => AtWork(f)'
        \/ \E f \in Works : AtWork(f)'
    BY <1>3 DEF Return, AtWork, TypeInv, TypeOK, fiberVars, Works
  <2> QED
    BY <2>1, <2>2, <2>3, AwaitedStays, BusyStays DEF RestInv, Works
<1>4. ASSUME NEW p \in Prompts, Leave(p) PROVE RestInv'
  BY <1>4, FinishRests DEF Leave, AtWork
<1>5. ASSUME NEW p \in Prompts, Ask(p) PROVE RestInv'
  <2>1. UNCHANGED target /\ \A c \in Cancels : pc'[c] = pc[c]
    BY <1>5, LoopAssumption DEF Ask, Goto, TypeInv, TypeOK, callerVars, LoopAssumption, Works
  <2>2. \A f \in Works : Dying(f)' => Dying(f)
    BY <1>5 DEF Ask, Dying, TypeInv, TypeOK, fiberVars, Works
  <2>3. \/ status' \in {"idle", status} /\ \A f \in Works : AtWork(f) => AtWork(f)'
        \/ \E f \in Works : AtWork(f)'
    BY <1>5 DEF Ask, AtWork, TypeInv, TypeOK, fiberVars, Works
  <2> QED
    BY <2>1, <2>2, <2>3, AwaitedStays, BusyStays DEF RestInv, Works
<1>6. ASSUME NEW p \in Prompts, Throw(p) PROVE RestInv'
  BY <1>6, FinishRests DEF Throw, AtWork
<1>7. ASSUME NEW p \in Prompts, ModelEnds(p) PROVE RestInv'
  <2>1. UNCHANGED target /\ \A c \in Cancels : pc'[c] = pc[c]
    BY <1>7, LoopAssumption DEF ModelEnds, Goto, TypeInv, TypeOK, callerVars, LoopAssumption, Works
  <2>2. \A f \in Works : Dying(f)' => Dying(f)
    BY <1>7 DEF ModelEnds, Dying, TypeInv, TypeOK, fiberVars, Works
  <2>3. \/ status' \in {"idle", status} /\ \A f \in Works : AtWork(f) => AtWork(f)'
        \/ \E f \in Works : AtWork(f)'
    BY <1>7 DEF ModelEnds, AtWork, TypeInv, TypeOK, fiberVars, Works
  <2> QED
    BY <2>1, <2>2, <2>3, AwaitedStays, BusyStays DEF RestInv, Works
<1>8. ASSUME NEW p \in Prompts, Halt(p) PROVE RestInv'
  <2>1. UNCHANGED target /\ \A c \in Cancels : pc'[c] = pc[c]
    BY <1>8, LoopAssumption DEF Halt, Goto, TypeInv, TypeOK, callerVars, LoopAssumption, Works
  <2>2. \A f \in Works : Dying(f)' => Dying(f)
    BY <1>8 DEF Halt, Dying, TypeInv, TypeOK, fiberVars, Works
  <2>3. \/ status' \in {"idle", status} /\ \A f \in Works : AtWork(f) => AtWork(f)'
        \/ \E f \in Works : AtWork(f)'
    BY <1>8 DEF Halt, AtWork, TypeInv, TypeOK, fiberVars, Works
  <2> QED
    BY <2>1, <2>2, <2>3, AwaitedStays, BusyStays DEF RestInv, Works
<1>9. ASSUME NEW p \in Prompts, Stop(p) PROVE RestInv'
  BY <1>9, FinishRests DEF Stop, AtWork
<1>10. ASSUME NEW p \in Prompts, DyingHalts(p) PROVE RestInv'
  <2>1. UNCHANGED target /\ \A c \in Cancels : pc'[c] = pc[c]
    BY <1>10, LoopAssumption DEF DyingHalts, Goto, TypeInv, TypeOK, callerVars, LoopAssumption, Works
  <2>2. \A f \in Works : Dying(f)' => Dying(f)
    BY <1>10 DEF DyingHalts, Dying, TypeInv, TypeOK, fiberVars, Works
  <2>3. \/ status' \in {"idle", status} /\ \A f \in Works : AtWork(f) => AtWork(f)'
        \/ \E f \in Works : AtWork(f)'
    BY <1>10 DEF DyingHalts, AtWork, TypeInv, TypeOK, fiberVars, Works
  <2> QED
    BY <2>1, <2>2, <2>3, AwaitedStays, BusyStays DEF RestInv, Works
<1>11. ASSUME NEW p \in Prompts, DyingEnds(p) PROVE RestInv'
  BY <1>11, FinishRests DEF DyingEnds, AtWork
<1>12. ASSUME NEW h \in Shells, StartShell(h) PROVE RestInv'
  <2>1. UNCHANGED target /\ \A c \in Cancels : pc'[c] = pc[c]
    BY <1>12, LoopAssumption DEF StartShell, Goto, TypeInv, TypeOK, callerVars, LoopAssumption, Works
  <2>2. \A f \in Works : Dying(f)' => Dying(f)
    BY <1>12 DEF StartShell, Dying, TypeInv, TypeOK, fiberVars, Works
  <2>3. \/ status' \in {"idle", status} /\ \A f \in Works : AtWork(f) => AtWork(f)'
        \/ \E f \in Works : AtWork(f)'
    BY <1>12 DEF StartShell, AtWork, TypeInv, TypeOK, fiberVars, Works
  <2> QED
    BY <2>1, <2>2, <2>3, AwaitedStays, BusyStays DEF RestInv, Works
<1>13. ASSUME NEW h \in Shells, EndShell(h) PROVE RestInv'
  BY <1>13, EndShellRests
<1>14. ASSUME NEW c \in Cancels, Cancel(c) PROVE RestInv'
  BY <1>14, CancelRests
<1>15. ASSUME NEW c \in Cancels, CancelIdle(c) PROVE RestInv'
  BY <1>15, CancelIdleRests
<1>16. ASSUME NEW c \in Cancels, Cancelled(c) PROVE RestInv'
  BY <1>16, CancelledRests
<1>17. CASE UNCHANGED vars
  BY <1>17 DEF vars, RestInv, Dying, AtWork, Awaited, Works
<1> QED
  BY <1>1, <1>2, <1>3, <1>4, <1>5, <1>6, <1>7, <1>8, <1>9, <1>10, <1>11, <1>12, <1>13, <1>14, <1>15, <1>16, <1>17 DEF Next, Work

\* When nothing works and no cancellation is under way, the session is idle and its
\* runner can be used (session/run-state.ts, session/status.ts).
THEOREM ComesToRest == Spec => []SettlesIdle
<1>1. Init => TypeInv /\ WorkInv /\ RestInv
  BY TypeInit, WorkInit, RestInit
<1>2. TypeInv /\ WorkInv /\ RestInv /\ [Next]_vars => TypeInv' /\ WorkInv' /\ RestInv'
  BY TypesKept, WorkKept, RestKept
<1>3. TypeInv /\ WorkInv /\ RestInv => SettlesIdle
  <2> SUFFICES ASSUME TypeInv, WorkInv, RestInv,
                      \A f \in Works : fiber[f] \in {"none", "ended"},
                      \A c \in Cancels : pc[c] # "stopping"
               PROVE  status = "idle" /\ (map # None => runner[map] = Idle)
    BY DEF SettlesIdle
  <2>1. status = "idle"
    BY DEF RestInv, AtWork, TypeInv, TypeOK
  <2>2. ASSUME map # None PROVE runner[map] = Idle
    <3>1. map \in Works /\ runner[map] \in States
      BY <2>2 DEF TypeInv, TypeOK
    <3>2. \A f \in Works : ~Backs(map, f)
      BY <3>1 DEF WorkInv, Exclusive, Live
    <3> QED
      BY <3>1, <3>2, BacksWhom, StateFields DEF Works
  <2> QED
    BY <2>1, <2>2
<1> QED
  BY <1>1, <1>2, <1>3, PTL DEF Spec

-----------------------------------------------------------------------------
(***************************************************************************)
(* Every prompt is read.                                                   *)
(***************************************************************************)

\* The ids that were drawn are the first ones, and a prompt draws its own late.
Numbered ==
  /\ Taken \ {0} \subseteq 1..Cardinality(Taken \ {0})
  /\ \A p \in Prompts : pc[p] \in {"new", "creating"} => id[p] = 0

\* What the model is at work on, or has finished, is later only than messages
\* that were put to it.
Given ==
  /\ \A f \in Prompts : fiber[f] = "model" =>
        /\ \E r \in replies : r.id = reply[f]
        /\ \A p \in stored : id[p] < reply[f] => p \in seen
  /\ \A r \in replies : r.finish = "stop" =>
        \A p \in stored : id[p] < r.id => p \in seen

\* A run that can be joined has not ended, and one that left the loop was heard.
Heard ==
  /\ \A p \in Prompts : pc[p] \in {"waiting", "returned"} => joined[p] \in Prompts
  /\ \A p \in Prompts : joined[p] \in Prompts =>
        p \in stored /\ (done[joined[p]] = "ok" => p \in seen)
  /\ \A o \in Works : runner[o].run # None => done[runner[o].run] = "open"

LEMMA ReadInit == Init => Numbered /\ Given /\ Heard
<1> SUFFICES ASSUME Init PROVE Numbered /\ Given /\ Heard
  OBVIOUS
<1>1. Taken \ {0} = {}
  BY DEF Init, Taken
<1>2. Numbered
  BY <1>1 DEF Init, Numbered
<1>3. Given
  <2>1. /\ replies = {} /\ \A f \in Prompts : fiber[f] = "none"
    BY DEF Init, Works
  <2> QED
    BY <2>1 DEF Given
<1>4. Heard
  BY LoopAssumption DEF Init, Heard, Idle, LoopAssumption, Works
<1> QED
  BY <1>2, <1>3, <1>4

LEMMA NextIsNew ==
  ASSUME TypeInv, Numbered
  PROVE  /\ NextId \in Nat
         /\ \A p \in Prompts : id[p] < NextId
         /\ \A r \in replies : r.id < NextId
<1>1. Cardinality(Taken \ {0}) \in Nat /\ NextId \in Nat \ {0} /\ Taken \subseteq Nat
  BY TakenFinite, FS_CardinalityType
<1>2. \A i \in Taken : i < NextId
  <2> SUFFICES ASSUME NEW i \in Taken PROVE i < NextId
    OBVIOUS
  <2>1. CASE i = 0
    BY <1>1, <2>1
  <2>2. CASE i # 0
    <3>1. i \in 1..Cardinality(Taken \ {0})
      BY <2>2 DEF Numbered
    <3> QED
      BY <1>1, <3>1 DEF NextId
  <2> QED
    BY <2>1, <2>2
<1> QED
  BY <1>1, <1>2 DEF Taken

LEMMA OneMore ==
  ASSUME TypeInv, Numbered, Taken' \ {0} = (Taken \ {0}) \cup {NextId}
  PROVE  Taken' \ {0} \subseteq 1..Cardinality(Taken' \ {0})
<1> DEFINE T == Taken \ {0}
           n == Cardinality(T)
<1>1. IsFiniteSet(T) /\ n \in Nat
  BY TakenFinite, FS_CardinalityType
<1>2. T \subseteq 1..n /\ NextId = n + 1
  BY <1>1 DEF Numbered, NextId
<1>3. NextId \notin T
  BY <1>1, <1>2
<1>4. Cardinality(T \cup {NextId}) = n + 1
  BY <1>1, <1>3, FS_AddElement
<1> HIDE DEF n, T
<1>5. T \cup {NextId} \subseteq 1..(n + 1)
  BY <1>1, <1>2
<1> QED
  BY <1>4, <1>5 DEF T

LEMMA NewReply ==
  ASSUME NEW i, NEW how
  PROVE  {r.id : r \in replies \cup {[id |-> i, finish |-> how]}} = {r.id : r \in replies} \cup {i}
<1> DEFINE new == [id |-> i, finish |-> how]
<1>1. new.id = i
  OBVIOUS
<1> HIDE DEF new
<1>2. {r.id : r \in replies \cup {new}} = {r.id : r \in replies} \cup {i}
  BY <1>1
<1> QED
  BY <1>2 DEF new

\* A step that draws no id.
LEMMA NumberedStays ==
  ASSUME Numbered, UNCHANGED <<id, replies>>,
         \A p \in Prompts : pc'[p] \in {"new", "creating"} => pc[p] \in {"new", "creating"}
  PROVE  Numbered'
<1>1. Taken' = Taken
  BY DEF Taken
<1> QED
  BY <1>1 DEF Numbered

LEMMA NumberedKept ==
  ASSUME TypeInv, Numbered, Given, InOrder, [Next]_vars
  PROVE  Numbered'
<1>1. ASSUME NEW p \in Prompts, Begin(p) PROVE Numbered'
  BY <1>1 DEF Begin, Goto, Numbered, Taken, TypeInv, TypeOK, callerVars, messageVars, Works
<1>2. ASSUME NEW p \in Prompts, Join(p) PROVE Numbered'
  <2>1. id' = [id EXCEPT ![p] = NextId] /\ id[p] = 0 /\ UNCHANGED replies
    BY <1>2 DEF Join, Numbered
  <2>2. Taken' \ {0} = (Taken \ {0}) \cup {NextId}
    <3>1. /\ DOMAIN id = Prompts /\ id'[p] = NextId /\ NextId # 0
          /\ \A q \in Prompts \ {p} : id'[q] = id[q]
      BY <2>1, TakenFinite DEF TypeInv, TypeOK
    <3> QED
      BY <2>1, <3>1 DEF Taken
  <2>3. \A q \in Prompts : pc'[q] \in {"new", "creating"} => id'[q] = 0
    BY <1>2, <2>1, LoopAssumption DEF Join, Goto, Numbered, TypeInv, TypeOK, Works, LoopAssumption
  <2> QED
    BY <2>2, <2>3, OneMore DEF Numbered
<1>3. ASSUME NEW p \in Prompts, Return(p) PROVE Numbered'
  <2>1. \A q \in Prompts : pc'[q] \in {"new", "creating"} => pc[q] \in {"new", "creating"}
    BY <1>3, LoopAssumption DEF Return, Goto, TypeInv, TypeOK, Works, callerVars, LoopAssumption
  <2> QED
    BY <1>3, <2>1, NumberedStays DEF Return, messageVars
<1>4. ASSUME NEW p \in Prompts, Leave(p) PROVE Numbered'
  <2>1. \A q \in Prompts : pc'[q] \in {"new", "creating"} => pc[q] \in {"new", "creating"}
    BY <1>4, LoopAssumption DEF Leave, Goto, TypeInv, TypeOK, Works, callerVars, LoopAssumption
  <2> QED
    BY <1>4, <2>1, NumberedStays DEF Leave, messageVars
<1>5. ASSUME NEW p \in Prompts, Ask(p) PROVE Numbered'
  <2>1. Taken' \ {0} = (Taken \ {0}) \cup {NextId}
    <3>1. {r.id : r \in replies'} = {r.id : r \in replies} \cup {NextId}
      BY <1>5, NewReply DEF Ask
    <3>2. UNCHANGED id /\ NextId # 0
      BY <1>5, TakenFinite DEF Ask
    <3> QED
      BY <3>1, <3>2 DEF Taken
  <2> QED
    BY <1>5, <2>1, OneMore DEF Ask, Numbered, callerVars
<1>6. ASSUME NEW p \in Prompts, Throw(p) PROVE Numbered'
  <2>1. \A q \in Prompts : pc'[q] \in {"new", "creating"} => pc[q] \in {"new", "creating"}
    BY <1>6, LoopAssumption DEF Throw, Goto, TypeInv, TypeOK, Works, callerVars, LoopAssumption
  <2> QED
    BY <1>6, <2>1, NumberedStays DEF Throw, messageVars
<1>7. ASSUME NEW p \in Prompts, ModelEnds(p) PROVE Numbered'
  <2>1. PICK r \in replies : r.id = reply[p]
    BY <1>7 DEF ModelEnds, Given
  <2>2. {q.id : q \in replies'} = {q.id : q \in replies}
    <3>1. \A q \in replies' : \E x \in replies : x.id = q.id
      BY <1>7, <2>1 DEF ModelEnds, Finished
    <3>2. \A x \in replies : \E q \in replies' : x.id = q.id
      BY <1>7, <2>1 DEF ModelEnds, Finished
    <3> QED
      BY <3>1, <3>2
  <2>3. Taken' = Taken
    BY <1>7, <2>2 DEF ModelEnds, Taken
  <2> QED
    BY <1>7, <2>3 DEF ModelEnds, Numbered, callerVars
<1>8. ASSUME NEW p \in Prompts, Halt(p) PROVE Numbered'
  <2>1. \A q \in Prompts : pc'[q] \in {"new", "creating"} => pc[q] \in {"new", "creating"}
    BY <1>8, LoopAssumption DEF Halt, Goto, TypeInv, TypeOK, Works, callerVars, LoopAssumption
  <2> QED
    BY <1>8, <2>1, NumberedStays DEF Halt, messageVars
<1>9. ASSUME NEW p \in Prompts, Stop(p) PROVE Numbered'
  <2>1. \A q \in Prompts : pc'[q] \in {"new", "creating"} => pc[q] \in {"new", "creating"}
    BY <1>9, LoopAssumption DEF Stop, Goto, TypeInv, TypeOK, Works, callerVars, LoopAssumption
  <2> QED
    BY <1>9, <2>1, NumberedStays DEF Stop, messageVars
<1>10. ASSUME NEW p \in Prompts, DyingHalts(p) PROVE Numbered'
  <2>1. \A q \in Prompts : pc'[q] \in {"new", "creating"} => pc[q] \in {"new", "creating"}
    BY <1>10, LoopAssumption DEF DyingHalts, Goto, TypeInv, TypeOK, Works, callerVars, LoopAssumption
  <2> QED
    BY <1>10, <2>1, NumberedStays DEF DyingHalts, messageVars
<1>11. ASSUME NEW p \in Prompts, DyingEnds(p) PROVE Numbered'
  <2>1. \A q \in Prompts : pc'[q] \in {"new", "creating"} => pc[q] \in {"new", "creating"}
    BY <1>11, LoopAssumption DEF DyingEnds, Goto, TypeInv, TypeOK, Works, callerVars, LoopAssumption
  <2> QED
    BY <1>11, <2>1, NumberedStays DEF DyingEnds, messageVars
<1>12. ASSUME NEW h \in Shells, StartShell(h) PROVE Numbered'
  <2>1. \A q \in Prompts : pc'[q] = pc[q]
    BY <1>12, LoopAssumption DEF StartShell, Goto, TypeInv, TypeOK, Works, LoopAssumption
  <2>2. CASE UNCHANGED replies
    BY <1>12, <2>1, <2>2 DEF StartShell, Numbered, Taken
  <2>3. CASE replies' = replies \cup {[id |-> NextId, finish |-> "none"]}
    <3>1. Taken' \ {0} = (Taken \ {0}) \cup {NextId}
      <4>1. {r.id : r \in replies'} = {r.id : r \in replies} \cup {NextId}
        BY <2>3, NewReply
      <4>2. UNCHANGED id /\ NextId # 0
        BY <1>12, TakenFinite DEF StartShell
      <4> QED
        BY <4>1, <4>2 DEF Taken
    <3> QED
      BY <1>12, <2>1, <3>1, OneMore DEF StartShell, Numbered
  <2> QED
    BY <1>12, <2>2, <2>3 DEF StartShell
<1>13. ASSUME NEW h \in Shells, EndShell(h) PROVE Numbered'
  <2>1. \A q \in Prompts : pc'[q] \in {"new", "creating"} => pc[q] \in {"new", "creating"}
    BY <1>13, LoopAssumption DEF EndShell, Goto, TypeInv, TypeOK, Works, callerVars, LoopAssumption
  <2> QED
    BY <1>13, <2>1, NumberedStays DEF EndShell, messageVars
<1>14. ASSUME NEW c \in Cancels, Cancel(c) PROVE Numbered'
  <2>1. \A q \in Prompts : pc'[q] \in {"new", "creating"} => pc[q] \in {"new", "creating"}
    BY <1>14, LoopAssumption DEF Cancel, Goto, TypeInv, TypeOK, Works, callerVars, LoopAssumption
  <2> QED
    BY <1>14, <2>1, NumberedStays DEF Cancel, messageVars
<1>15. ASSUME NEW c \in Cancels, CancelIdle(c) PROVE Numbered'
  <2>1. \A q \in Prompts : pc'[q] \in {"new", "creating"} => pc[q] \in {"new", "creating"}
    BY <1>15, LoopAssumption DEF CancelIdle, Goto, TypeInv, TypeOK, Works, callerVars, LoopAssumption
  <2> QED
    BY <1>15, <2>1, NumberedStays DEF CancelIdle, messageVars
<1>16. ASSUME NEW c \in Cancels, Cancelled(c) PROVE Numbered'
  <2>1. \A q \in Prompts : pc'[q] \in {"new", "creating"} => pc[q] \in {"new", "creating"}
    BY <1>16, LoopAssumption DEF Cancelled, Goto, TypeInv, TypeOK, Works, callerVars, LoopAssumption
  <2> QED
    BY <1>16, <2>1, NumberedStays DEF Cancelled, messageVars
<1>17. CASE UNCHANGED vars
  BY <1>17, NumberedStays DEF vars
<1> QED
  BY <1>1, <1>2, <1>3, <1>4, <1>5, <1>6, <1>7, <1>8, <1>9, <1>10, <1>11, <1>12, <1>13, <1>14, <1>15, <1>16, <1>17 DEF Next, Work

\* A step that stores, answers and gives nothing new.
LEMMA GivenStays ==
  ASSUME Given, UNCHANGED <<id, stored, replies, seen, reply>>,
         \A f \in Prompts : fiber'[f] = "model" => fiber[f] = "model"
  PROVE  Given'
  BY DEF Given

LEMMA GivenKept ==
  ASSUME TypeInv, Numbered, Given, InOrder, [Next]_vars
  PROVE  Given'
<1>1. ASSUME NEW p \in Prompts, Begin(p) PROVE Given'
  <2>1. UNCHANGED <<id, stored, replies, seen, reply>>
    BY <1>1 DEF Begin, messageVars, fiberVars
  <2>2. \A f \in Prompts : fiber'[f] = "model" => fiber[f] = "model"
    BY <1>1 DEF Begin, TypeInv, TypeOK, fiberVars, Works
  <2> QED
    BY <2>1, <2>2, GivenStays
<1>2. ASSUME NEW p \in Prompts, Join(p) PROVE Given'
  <2>1. /\ id' = [id EXCEPT ![p] = NextId] /\ stored' = stored \cup {p}
        /\ UNCHANGED <<replies, seen, reply>>
    BY <1>2 DEF Join, Numbered
  <2>2. /\ id'[p] = NextId /\ \A q \in Prompts \ {p} : id'[q] = id[q]
        /\ stored \subseteq Prompts
    BY <2>1 DEF TypeInv, TypeOK
  <2>3. \A r \in replies : r.id \in Nat /\ ~(NextId < r.id)
    BY NextIsNew DEF TypeInv, TypeOK
  <2>4. \A r \in replies : \A q \in stored' :
          id'[q] < r.id => q \in stored \ {p} /\ id'[q] = id[q]
    BY <2>1, <2>2, <2>3
  <2>5. \A f \in Prompts : fiber'[f] = "model" => fiber[f] = "model"
    BY <1>2 DEF Join, TypeInv, TypeOK, Works
  <2>6. \A f \in Prompts : fiber'[f] = "model" =>
          /\ \E r \in replies : r.id = reply[f]
          /\ \A q \in stored' : id'[q] < reply[f] => q \in seen
    <3> SUFFICES ASSUME NEW f \in Prompts, fiber'[f] = "model"
                 PROVE  /\ \E r \in replies : r.id = reply[f]
                        /\ \A q \in stored' : id'[q] < reply[f] => q \in seen
      OBVIOUS
    <3>1. PICK r \in replies : r.id = reply[f]
      BY <2>5 DEF Given
    <3>2. \A q \in stored : id[q] < reply[f] => q \in seen
      BY <2>5 DEF Given
    <3> QED
      BY <2>4, <3>1, <3>2
  <2>7. \A r \in replies : r.finish = "stop" => \A q \in stored' : id'[q] < r.id => q \in seen
    BY <2>4 DEF Given
  <2> QED
    BY <2>1, <2>6, <2>7 DEF Given
<1>3. ASSUME NEW p \in Prompts, Return(p) PROVE Given'
  <2>1. UNCHANGED <<id, stored, replies, seen, reply>>
    BY <1>3 DEF Return, messageVars, fiberVars
  <2>2. \A f \in Prompts : fiber'[f] = "model" => fiber[f] = "model"
    BY <1>3 DEF Return, TypeInv, TypeOK, fiberVars, Works
  <2> QED
    BY <2>1, <2>2, GivenStays
<1>4. ASSUME NEW p \in Prompts, Leave(p) PROVE Given'
  <2>1. UNCHANGED <<id, stored, replies, seen, reply>>
    BY <1>4 DEF Leave, messageVars, fiberVars
  <2>2. \A f \in Prompts : fiber'[f] = "model" => fiber[f] = "model"
    BY <1>4 DEF Leave, FinishRun, TypeInv, TypeOK, fiberVars, Works
  <2> QED
    BY <2>1, <2>2, GivenStays
<1>5. ASSUME NEW p \in Prompts, Ask(p) PROVE Given'
  <2>1. /\ UNCHANGED <<id, stored>>
        /\ seen' = seen \cup stored
        /\ reply' = [reply EXCEPT ![p] = NextId]
        /\ replies' = replies \cup {[id |-> NextId, finish |-> "none"]}
        /\ fiber' = [fiber EXCEPT ![p] = "model"]
    BY <1>5 DEF Ask
  <2>2. \A q \in stored' : q \in seen'
    BY <2>1
  <2>3. \A f \in Prompts : fiber'[f] = "model" => \E r \in replies' : r.id = reply'[f]
    <3> SUFFICES ASSUME NEW f \in Prompts, fiber'[f] = "model"
                 PROVE  \E r \in replies' : r.id = reply'[f]
      OBVIOUS
    <3>1. CASE f = p
      <4>1. reply'[p] = NextId
        BY <2>1 DEF TypeInv, TypeOK
      <4>2. [id |-> NextId, finish |-> "none"] \in replies'
        BY <2>1
      <4> QED
        BY <3>1, <4>1, <4>2
    <3>2. CASE f # p
      <4>1. reply'[f] = reply[f] /\ fiber[f] = "model"
        BY <2>1, <3>2 DEF TypeInv, TypeOK, Works
      <4>2. \E r \in replies : r.id = reply[f]
        BY <4>1 DEF Given
      <4> QED
        BY <2>1, <4>1, <4>2
    <3> QED
      BY <3>1, <3>2
  <2> QED
    BY <2>2, <2>3 DEF Given
<1>6. ASSUME NEW p \in Prompts, Throw(p) PROVE Given'
  <2>1. UNCHANGED <<id, stored, replies, seen, reply>>
    BY <1>6 DEF Throw, messageVars, fiberVars
  <2>2. \A f \in Prompts : fiber'[f] = "model" => fiber[f] = "model"
    BY <1>6 DEF Throw, FinishRun, TypeInv, TypeOK, fiberVars, Works
  <2> QED
    BY <2>1, <2>2, GivenStays
<1>7. ASSUME NEW p \in Prompts, ModelEnds(p) PROVE Given'
  <2>1. /\ UNCHANGED <<id, stored, seen, reply>>
        /\ fiber[p] = "model" /\ fiber' = [fiber EXCEPT ![p] = "head"]
        /\ \E how : replies' = Finished(reply[p], how)
    BY <1>7 DEF ModelEnds
  <2>2. PICK r \in replies : r.id = reply[p]
    BY <2>1 DEF Given
  <2>3. PICK how : replies' = {x \in replies : x.id # reply[p]} \cup {[id |-> reply[p], finish |-> how]}
    BY <2>1 DEF Finished
  <2>4. \A x \in replies : \E y \in replies' : y.id = x.id
    <3>1. [id |-> reply[p], finish |-> how] \in replies'
      BY <2>3
    <3>2. \A x \in replies : x.id # reply[p] => x \in replies'
      BY <2>3
    <3> QED
      BY <3>1, <3>2
  <2>5. \A f \in Prompts : fiber'[f] = "model" => fiber[f] = "model"
    BY <2>1 DEF TypeInv, TypeOK, Works
  <2>6. \A f \in Prompts : fiber'[f] = "model" =>
          /\ \E y \in replies' : y.id = reply[f]
          /\ \A q \in stored : id[q] < reply[f] => q \in seen
    BY <2>4, <2>5 DEF Given
  <2>7. \A y \in replies' : y.finish = "stop" => \A q \in stored : id[q] < y.id => q \in seen
    <3> SUFFICES ASSUME NEW y \in replies', y.finish = "stop"
                 PROVE  \A q \in stored : id[q] < y.id => q \in seen
      OBVIOUS
    <3>1. CASE y \in replies
      BY <3>1 DEF Given
    <3>2. CASE y.id = reply[p]
      BY <2>1, <3>2 DEF Given
    <3> QED
      BY <2>3, <3>1, <3>2
  <2> QED
    BY <2>1, <2>6, <2>7 DEF Given
<1>8. ASSUME NEW p \in Prompts, Halt(p) PROVE Given'
  <2>1. UNCHANGED <<id, stored, replies, seen, reply>>
    BY <1>8 DEF Halt, messageVars, fiberVars
  <2>2. \A f \in Prompts : fiber'[f] = "model" => fiber[f] = "model"
    BY <1>8 DEF Halt, TypeInv, TypeOK, fiberVars, Works
  <2> QED
    BY <2>1, <2>2, GivenStays
<1>9. ASSUME NEW p \in Prompts, Stop(p) PROVE Given'
  <2>1. UNCHANGED <<id, stored, replies, seen, reply>>
    BY <1>9 DEF Stop, messageVars, fiberVars
  <2>2. \A f \in Prompts : fiber'[f] = "model" => fiber[f] = "model"
    BY <1>9 DEF Stop, FinishRun, TypeInv, TypeOK, fiberVars, Works
  <2> QED
    BY <2>1, <2>2, GivenStays
<1>10. ASSUME NEW p \in Prompts, DyingHalts(p) PROVE Given'
  <2>1. UNCHANGED <<id, stored, replies, seen, reply>>
    BY <1>10 DEF DyingHalts, messageVars, fiberVars
  <2>2. \A f \in Prompts : fiber'[f] = "model" => fiber[f] = "model"
    BY <1>10 DEF DyingHalts, TypeInv, TypeOK, fiberVars, Works
  <2> QED
    BY <2>1, <2>2, GivenStays
<1>11. ASSUME NEW p \in Prompts, DyingEnds(p) PROVE Given'
  <2>1. UNCHANGED <<id, stored, replies, seen, reply>>
    BY <1>11 DEF DyingEnds, messageVars, fiberVars
  <2>2. \A f \in Prompts : fiber'[f] = "model" => fiber[f] = "model"
    BY <1>11 DEF DyingEnds, FinishRun, TypeInv, TypeOK, fiberVars, Works
  <2> QED
    BY <2>1, <2>2, GivenStays
<1>12. ASSUME NEW h \in Shells, StartShell(h) PROVE Given'
  <2>1. /\ UNCHANGED <<id, stored, seen, reply>>
        /\ \A f \in Prompts : fiber'[f] = "model" => fiber[f] = "model"
    BY <1>12 DEF StartShell, TypeInv, TypeOK, Works
  <2>2. /\ \A r \in replies : r \in replies'
        /\ \A r \in replies' : r.finish = "stop" => r \in replies
    BY <1>12 DEF StartShell
  <2> QED
    BY <2>1, <2>2 DEF Given
<1>13. ASSUME NEW h \in Shells, EndShell(h) PROVE Given'
  <2>1. UNCHANGED <<id, stored, replies, seen, reply>>
    BY <1>13 DEF EndShell, messageVars, fiberVars
  <2>2. \A f \in Prompts : fiber'[f] = "model" => fiber[f] = "model"
    BY <1>13 DEF EndShell, TypeInv, TypeOK, fiberVars, Works
  <2> QED
    BY <2>1, <2>2, GivenStays
<1>14. ASSUME NEW c \in Cancels, Cancel(c) PROVE Given'
  <2>1. UNCHANGED <<id, stored, replies, seen, reply>>
    BY <1>14 DEF Cancel, messageVars, fiberVars
  <2>2. \A f \in Prompts : fiber'[f] = "model" => fiber[f] = "model"
    BY <1>14 DEF Cancel, Interrupted, TypeInv, TypeOK, fiberVars, Works
  <2> QED
    BY <2>1, <2>2, GivenStays
<1>15. ASSUME NEW c \in Cancels, CancelIdle(c) PROVE Given'
  <2>1. UNCHANGED <<id, stored, replies, seen, reply>>
    BY <1>15 DEF CancelIdle, messageVars, fiberVars
  <2>2. \A f \in Prompts : fiber'[f] = "model" => fiber[f] = "model"
    BY <1>15 DEF CancelIdle, TypeInv, TypeOK, fiberVars, Works
  <2> QED
    BY <2>1, <2>2, GivenStays
<1>16. ASSUME NEW c \in Cancels, Cancelled(c) PROVE Given'
  <2>1. UNCHANGED <<id, stored, replies, seen, reply>>
    BY <1>16 DEF Cancelled, messageVars, fiberVars
  <2>2. \A f \in Prompts : fiber'[f] = "model" => fiber[f] = "model"
    BY <1>16 DEF Cancelled, TypeInv, TypeOK, fiberVars, Works
  <2> QED
    BY <2>1, <2>2, GivenStays
<1>17. CASE UNCHANGED vars
  BY <1>17, GivenStays DEF vars
<1> QED
  BY <1>1, <1>2, <1>3, <1>4, <1>5, <1>6, <1>7, <1>8, <1>9, <1>10, <1>11, <1>12, <1>13, <1>14, <1>15, <1>16, <1>17 DEF Next, Work

\* The queries for a newest message take the greatest id of a finite set, and a
\* finite set of numbers has one: a least final segment.
LEMMA Smallest ==
  ASSUME NEW T, T # {}, \A X \in T : IsFiniteSet(X)
  PROVE  \E X \in T : \A Y \in T : Y \subseteq X => Y = X
<1> DEFINE W == UNION T
           R == StrictSubsetOrdering(W)
<1>1. T \subseteq FiniteSubsetsOf(W)
  BY DEF FiniteSubsetsOf
<1>2. IsWellFoundedOn(R, FiniteSubsetsOf(W))
  BY FS_StrictSubsetOrderingWellFounded
<1>3. \E X \in T : \A Y \in T : ~(<<Y, X>> \in R)
  <2> HIDE DEF R, W
  <2> QED
    BY <1>1, <1>2, WFMin
<1>4. PICK X \in T : \A Y \in T : ~(<<Y, X>> \in R)
  BY <1>3
<1>5. ASSUME NEW Y \in T, Y \subseteq X, Y # X PROVE FALSE
  <2>1. <<Y, X>> \in (SUBSET W) \X (SUBSET W)
    OBVIOUS
  <2>2. <<Y, X>> \in R
    BY <2>1, <1>5 DEF StrictSubsetOrdering
  <2> QED
    BY <2>2, <1>4
<1> QED
  BY <1>5

LEMMA GreatestOf ==
  ASSUME NEW S, S \subseteq Nat, IsFiniteSet(S), S # {}
  PROVE  \E i \in S : \A j \in S : j <= i
<1> DEFINE From(i) == {j \in S : i <= j}
           T == {From(i) : i \in S}
<1>1. \A X \in T : IsFiniteSet(X)
  <2>1. \A i \in S : From(i) \in SUBSET S
    OBVIOUS
  <2> QED
    BY <2>1, FS_Subset
<1>2. PICK X \in T : \A Y \in T : Y \subseteq X => Y = X
  <2>1. T # {}
    OBVIOUS
  <2> HIDE DEF T
  <2> QED
    BY <1>1, <2>1, Smallest
<1>3. PICK i \in S : X = From(i)
  OBVIOUS
<1>4. ASSUME NEW j \in S, i < j PROVE FALSE
  <2>1. i \in Nat /\ j \in Nat
    OBVIOUS
  <2>2. From(j) \subseteq From(i)
    <3> SUFFICES ASSUME NEW k \in S, j <= k PROVE i <= k
      OBVIOUS
    <3>1. k \in Nat
      OBVIOUS
    <3> QED
      BY <1>4, <2>1, <3>1
  <2>3. i \in From(i) /\ i \notin From(j)
    BY <1>4, <2>1
  <2> QED
    BY <1>2, <1>3, <2>2, <2>3
<1> QED
  <2>1. \A j \in S : j \in Nat /\ i \in Nat
    OBVIOUS
  <2> QED
    BY <1>4, <2>1

LEMMA LastUserIs ==
  ASSUME TypeInv, NEW p \in stored
  PROVE  LastUser \in Nat /\ id[p] <= LastUser
<1> DEFINE S == {id[q] : q \in stored}
<1>1. stored \subseteq Prompts /\ \A q \in stored : id[q] \in Nat
  BY DEF TypeInv, TypeOK
<1>2. IsFiniteSet(S)
  <2>1. IsFiniteSet(stored)
    BY <1>1, LoopAssumption, FS_Subset DEF LoopAssumption
  <2> QED
    BY <2>1, FiniteImage
<1>3. S \subseteq Nat /\ S # {}
  BY <1>1
<1>4. \E i \in S : \A j \in S : j <= i
  <2> HIDE DEF S
  <2> QED
    BY <1>2, <1>3, GreatestOf
<1>5. \E i \in S : \A q \in stored : id[q] <= i
  BY <1>4
<1>6. LastUser \in S /\ \A q \in stored : id[q] <= LastUser
  BY <1>5 DEF LastUser
<1> QED
  BY <1>3, <1>6

LEMMA LastReplyIs ==
  ASSUME TypeInv, replies # {}
  PROVE  LastReply \in replies
<1> DEFINE S == {r.id : r \in replies}
           f == [r \in replies |-> r.id]
<1>1. IsFiniteSet(S)
  <2>1. IsFiniteSet({f[r] : r \in replies})
    BY FiniteImage DEF TypeInv
  <2>2. {f[r] : r \in replies} = S
    OBVIOUS
  <2> QED
    BY <2>1, <2>2
<1>2. S \subseteq Nat /\ S # {}
  BY DEF TypeInv, TypeOK
<1>3. \E i \in S : \A j \in S : j <= i
  <2> HIDE DEF S
  <2> QED
    BY <1>1, <1>2, GreatestOf
<1>4. \E r \in replies : \A q \in replies : q.id <= r.id
  BY <1>3
<1> QED
  BY <1>4 DEF LastReply

\* The query of runLoop: nothing is left to do only when all messages were given.
LEMMA NothingUnread ==
  ASSUME TypeInv, Given, NothingToDo
  PROVE  stored \subseteq seen
<1> SUFFICES ASSUME NEW p \in stored PROVE p \in seen
  OBVIOUS
<1>1. LastReply \in replies /\ LastReply.finish = "stop" /\ LastUser < LastReply.id
  BY LastReplyIs DEF NothingToDo
<1>2. LastUser \in Nat /\ id[p] <= LastUser /\ id[p] \in Nat /\ LastReply.id \in Nat
  BY <1>1, LastUserIs DEF TypeInv, TypeOK
<1>3. id[p] < LastReply.id
  BY <1>1, <1>2
<1> QED
  BY <1>1, <1>3 DEF Given

\* A step that lets nobody join and ends no run.
LEMMA HeardStays ==
  ASSUME Heard, UNCHANGED <<joined, done>>, stored \subseteq stored', seen \subseteq seen',
         \A o \in Works : runner'[o].run # None =>
           \E x \in Works : runner[x].run = runner'[o].run,
         \A p \in Prompts : pc'[p] \in {"waiting", "returned"} => pc[p] \in {"waiting", "returned"}
  PROVE  Heard'
<1>1. \A p \in Prompts : joined'[p] \in Prompts =>
        p \in stored' /\ (done'[joined'[p]] = "ok" => p \in seen')
  BY DEF Heard
<1>2. \A o \in Works : runner'[o].run # None => done'[runner'[o].run] = "open"
  <2> SUFFICES ASSUME NEW o \in Works, runner'[o].run # None
               PROVE  done[runner'[o].run] = "open"
    BY DEF Works
  <2>1. PICK x \in Works : runner[x].run = runner'[o].run
    OBVIOUS
  <2> QED
    BY <2>1 DEF Heard
<1>3. \A p \in Prompts : pc'[p] \in {"waiting", "returned"} => joined'[p] \in Prompts
  BY DEF Heard
<1> QED
  BY <1>1, <1>2, <1>3 DEF Heard, Works

\* The end of a run: those that joined it have been heard if it left the loop, and
\* no runner names it any more.
LEMMA FinishHeard ==
  ASSUME TypeInv, WorkInv, WorkInv', Heard, NEW f \in Prompts, AtWork(f), NEW result,
         FinishRun(f, result), UNCHANGED <<callerVars, stored, seen>>,
         result = "ok" => stored \subseteq seen
  PROVE  Heard'
<1>0. /\ f \in Works /\ home[f] \in Works /\ DOMAIN fiber = Works /\ DOMAIN done = Prompts
      /\ runner \in [Works -> States]
  BY DEF TypeInv, TypeOK, Works, AtWork
<1>1. /\ fiber'[f] = "ended" /\ done'[f] = result
      /\ \A g \in Prompts \ {f} : done'[g] = done[g]
      /\ UNCHANGED <<pc, joined>>
  BY <1>0 DEF FinishRun, callerVars
<1>2. \A o \in Works : runner'[o] \in States /\ (runner'[o] = runner[o] \/ runner'[o] = Idle)
  BY <1>0, StateForms DEF FinishRun
<1>3. \A o \in Works : runner'[o].run # f
  <2> SUFFICES ASSUME NEW o \in Works, runner'[o].run = f PROVE FALSE
    OBVIOUS
  <2>1. runner'[o].tag \in {"Running", "ShellThenRun"}
    BY <1>0, <1>2, StateFields, LoopAssumption DEF LoopAssumption
  <2>2. CASE runner'[o].tag = "Running"
    <3>1. Backs(o, f)'
      BY <2>2 DEF Backs
    <3> QED
      BY <1>0, <1>1, <3>1 DEF WorkInv, Exclusive, Live, Works
  <2>3. CASE runner'[o].tag = "ShellThenRun"
    <3>1. Pending(o)'
      BY <2>3 DEF WorkInv, Works
    <3> QED
      BY <1>1, <3>1 DEF Pending
  <2> QED
    BY <2>1, <2>2, <2>3
<1>4. \A o \in Works : runner'[o].run # None => done'[runner'[o].run] = "open"
  <2> SUFFICES ASSUME NEW o \in Works, runner'[o].run # None PROVE done'[runner'[o].run] = "open"
    OBVIOUS
  <2>1. runner'[o].run \in Prompts \ {f}
    BY <1>2, <1>3, StateFields
  <2>2. runner'[o] = runner[o]
    BY <1>2 DEF Idle
  <2> QED
    BY <1>1, <2>1, <2>2 DEF Heard
<1>5. \A p \in Prompts : joined'[p] \in Prompts =>
        p \in stored' /\ (done'[joined'[p]] = "ok" => p \in seen')
  <2> SUFFICES ASSUME NEW p \in Prompts, joined[p] \in Prompts
               PROVE  p \in stored /\ (done'[joined[p]] = "ok" => p \in seen)
    BY <1>1
  <2>1. p \in stored
    BY DEF Heard
  <2>2. CASE joined[p] = f
    BY <1>1, <2>1, <2>2
  <2>3. CASE joined[p] # f
    BY <1>1, <2>1, <2>3 DEF Heard
  <2> QED
    BY <2>2, <2>3
<1> QED
  BY <1>1, <1>4, <1>5 DEF Heard, Works

LEMMA HeardKept ==
  ASSUME TypeInv, WorkInv, WorkInv', Given, Heard, [Next]_vars
  PROVE  Heard'
<1>1. ASSUME NEW p \in Prompts, Begin(p) PROVE Heard'
  <2>1. \A q \in Prompts : pc'[q] \in {"waiting", "returned"} => pc[q] \in {"waiting", "returned"}
    BY <1>1, LoopAssumption DEF Begin, Goto, TypeInv, TypeOK, Works, callerVars, LoopAssumption
  <2> QED
    BY <1>1, <2>1, HeardStays DEF Begin, runnerVars, fiberVars, messageVars
<1>2. ASSUME NEW p \in Prompts, Join(p) PROVE Heard'
  <2> DEFINE st == runner[RunnerFor(p)]
             j == WaitsFor(p, st)
  <2>1. /\ RunnerFor(p) \in Works /\ st \in States /\ runner \in [Works -> States]
        /\ DOMAIN joined = Prompts /\ p \in Works
    BY DEF RunnerFor, TypeInv, TypeOK, Works
  <2>2. done[p] = "open"
    BY <1>2 DEF Join, WorkInv, Fresh
  <2>3. j \in Prompts /\ done[j] = "open"
    <3>1. st.run \in Prompts \cup {None}
      BY <2>1, StateFields
    <3> QED
      BY <2>1, <2>2, <3>1 DEF WaitsFor, Heard
  <2>4. /\ UNCHANGED <<done, seen>> /\ stored' = stored \cup {p}
        /\ joined' = [joined EXCEPT ![p] = j]
        /\ \A q \in Prompts : q # p => pc'[q] = pc[q]
    BY <1>2 DEF Join, Goto, TypeInv, TypeOK
  <2>5. \A o \in Works : runner'[o] = runner[o] \/ runner'[o].run = p
    <3>1. \/ UNCHANGED runner
          \/ runner' = [runner EXCEPT ![RunnerFor(p)] = ShellThenRun(st.shell, p)]
          \/ runner' = [runner EXCEPT ![RunnerFor(p)] = Running(p)]
      BY <1>2 DEF Join
    <3>2. ShellThenRun(st.shell, p).run = p /\ Running(p).run = p
      BY DEF ShellThenRun, Running
    <3> QED
      BY <2>1, <3>1, <3>2
  <2> HIDE DEF j
  <2>6. \A o \in Works : runner'[o].run # None => done'[runner'[o].run] = "open"
    BY <2>2, <2>4, <2>5 DEF Heard
  <2>7. \A q \in Prompts : joined'[q] \in Prompts =>
          q \in stored' /\ (done'[joined'[q]] = "ok" => q \in seen')
    <3> SUFFICES ASSUME NEW q \in Prompts, joined'[q] \in Prompts
                 PROVE  q \in stored' /\ (done[joined'[q]] = "ok" => q \in seen)
      BY <2>4
    <3>1. CASE q = p
      BY <2>1, <2>3, <2>4, <3>1
    <3>2. CASE q # p
      BY <2>1, <2>4, <3>2 DEF Heard
    <3> QED
      BY <3>1, <3>2
  <2>8. \A q \in Prompts : pc'[q] \in {"waiting", "returned"} => joined'[q] \in Prompts
    BY <2>1, <2>3, <2>4 DEF Heard
  <2> QED
    BY <2>6, <2>7, <2>8 DEF Heard, Works
<1>3. ASSUME NEW p \in Prompts, Return(p) PROVE Heard'
  <2>1. \A q \in Prompts : pc'[q] \in {"waiting", "returned"} => pc[q] \in {"waiting", "returned"}
    BY <1>3, LoopAssumption DEF Return, Goto, TypeInv, TypeOK, Works, callerVars, LoopAssumption
  <2> QED
    BY <1>3, <2>1, HeardStays DEF Return, runnerVars, fiberVars, messageVars
<1>4. ASSUME NEW p \in Prompts, Leave(p) PROVE Heard'
  BY <1>4, FinishHeard, NothingUnread DEF Leave, AtWork, messageVars
<1>5. ASSUME NEW p \in Prompts, Ask(p) PROVE Heard'
  <2>1. \A q \in Prompts : pc'[q] \in {"waiting", "returned"} => pc[q] \in {"waiting", "returned"}
    BY <1>5, LoopAssumption DEF Ask, Goto, TypeInv, TypeOK, Works, callerVars, LoopAssumption
  <2> QED
    BY <1>5, <2>1, HeardStays DEF Ask, runnerVars, callerVars, fiberVars, messageVars
<1>6. ASSUME NEW p \in Prompts, Throw(p) PROVE Heard'
  BY <1>6, FinishHeard DEF Throw, AtWork, messageVars
<1>7. ASSUME NEW p \in Prompts, ModelEnds(p) PROVE Heard'
  <2>1. \A q \in Prompts : pc'[q] \in {"waiting", "returned"} => pc[q] \in {"waiting", "returned"}
    BY <1>7, LoopAssumption DEF ModelEnds, Goto, TypeInv, TypeOK, Works, callerVars, LoopAssumption
  <2> QED
    BY <1>7, <2>1, HeardStays DEF ModelEnds, runnerVars, callerVars, fiberVars, messageVars
<1>8. ASSUME NEW p \in Prompts, Halt(p) PROVE Heard'
  <2>1. \A q \in Prompts : pc'[q] \in {"waiting", "returned"} => pc[q] \in {"waiting", "returned"}
    BY <1>8, LoopAssumption DEF Halt, Goto, TypeInv, TypeOK, Works, callerVars, LoopAssumption
  <2> QED
    BY <1>8, <2>1, HeardStays DEF Halt, runnerVars, callerVars, fiberVars, messageVars
<1>9. ASSUME NEW p \in Prompts, Stop(p) PROVE Heard'
  BY <1>9, FinishHeard DEF Stop, AtWork, messageVars
<1>10. ASSUME NEW p \in Prompts, DyingHalts(p) PROVE Heard'
  <2>1. \A q \in Prompts : pc'[q] \in {"waiting", "returned"} => pc[q] \in {"waiting", "returned"}
    BY <1>10, LoopAssumption DEF DyingHalts, Goto, TypeInv, TypeOK, Works, callerVars, LoopAssumption
  <2> QED
    BY <1>10, <2>1, HeardStays DEF DyingHalts, runnerVars, callerVars, fiberVars, messageVars
<1>11. ASSUME NEW p \in Prompts, DyingEnds(p) PROVE Heard'
  BY <1>11, FinishHeard DEF DyingEnds, AtWork, messageVars
<1>12. ASSUME NEW h \in Shells, StartShell(h) PROVE Heard'
  <2>1. \A q \in Prompts : pc'[q] \in {"waiting", "returned"} => pc[q] \in {"waiting", "returned"}
    BY <1>12, LoopAssumption DEF StartShell, Goto, TypeInv, TypeOK, Works, callerVars, LoopAssumption
  <2>2. \A o \in Works : runner'[o] = runner[o] \/ runner'[o].run = None
    BY <1>12 DEF StartShell, Shell, TypeInv, TypeOK
  <2> QED
    BY <1>12, <2>1, <2>2, HeardStays DEF StartShell
<1>13. ASSUME NEW h \in Shells, EndShell(h) PROVE Heard'
  <2>1. \A q \in Prompts : pc'[q] \in {"waiting", "returned"} => pc[q] \in {"waiting", "returned"}
    BY <1>13, LoopAssumption DEF EndShell, Goto, TypeInv, TypeOK, Works, callerVars, LoopAssumption
  <2>2. home[h] \in Works /\ runner \in [Works -> States]
    BY <1>13 DEF EndShell, TypeInv, TypeOK, Works
  <2>3. \A o \in Works : runner'[o].run # None => \E x \in Works : runner[x].run = runner'[o].run
    BY <1>13, <2>2 DEF EndShell, Idle, Running
  <2> QED
    BY <1>13, <2>1, <2>3, HeardStays DEF EndShell, messageVars
<1>14. ASSUME NEW c \in Cancels, Cancel(c) PROVE Heard'
  <2> DEFINE st == runner[map]
  <2>1. /\ map \in Works /\ st \in States /\ runner \in [Works -> States] /\ DOMAIN done = Prompts
        /\ UNCHANGED <<joined, stored, seen>>
        /\ \A q \in Prompts : pc'[q] = pc[q]
    BY <1>14, LoopAssumption DEF Cancel, Goto, messageVars, TypeInv, TypeOK, Works, LoopAssumption
  <2>2. /\ runner' = [runner EXCEPT ![map] = Idle]
        /\ done' = IF st.tag = "ShellThenRun" THEN [done EXCEPT ![st.run] = "cancelled"] ELSE done
    BY <1>14 DEF Cancel
  <2>3. \A q \in Prompts : \/ done'[q] = done[q]
                           \/ st.tag = "ShellThenRun" /\ q = st.run /\ done'[q] = "cancelled"
    BY <2>1, <2>2
  <2>4. \A o \in Works : runner'[o].run # None => done'[runner'[o].run] = "open"
    <3> SUFFICES ASSUME NEW o \in Works, runner'[o].run # None PROVE done'[runner'[o].run] = "open"
      OBVIOUS
    <3>1. o # map /\ runner'[o] = runner[o]
      BY <2>1, <2>2 DEF Idle
    <3>2. runner[o].run \in Prompts /\ done[runner[o].run] = "open"
      BY <2>1, <3>1, StateFields DEF Heard
    <3>3. st.tag = "ShellThenRun" => runner[o].run # st.run
      BY <2>1, <3>1 DEF WorkInv, Pending
    <3> QED
      BY <2>3, <3>1, <3>2, <3>3
  <2>5. \A p \in Prompts : joined[p] \in Prompts =>
          p \in stored /\ (done'[joined[p]] = "ok" => p \in seen)
    BY <2>3 DEF Heard
  <2> QED
    BY <2>1, <2>4, <2>5 DEF Heard, Works
<1>15. ASSUME NEW c \in Cancels, CancelIdle(c) PROVE Heard'
  <2>1. \A q \in Prompts : pc'[q] \in {"waiting", "returned"} => pc[q] \in {"waiting", "returned"}
    BY <1>15, LoopAssumption DEF CancelIdle, Goto, TypeInv, TypeOK, Works, callerVars, LoopAssumption
  <2> QED
    BY <1>15, <2>1, HeardStays DEF CancelIdle, runnerVars, fiberVars, messageVars
<1>16. ASSUME NEW c \in Cancels, Cancelled(c) PROVE Heard'
  <2>1. \A q \in Prompts : pc'[q] \in {"waiting", "returned"} => pc[q] \in {"waiting", "returned"}
    BY <1>16, LoopAssumption DEF Cancelled, Goto, TypeInv, TypeOK, Works, callerVars, LoopAssumption
  <2> QED
    BY <1>16, <2>1, HeardStays DEF Cancelled, runnerVars, fiberVars, messageVars
<1>17. CASE UNCHANGED vars
  BY <1>17, HeardStays DEF vars
<1> QED
  BY <1>1, <1>2, <1>3, <1>4, <1>5, <1>6, <1>7, <1>8, <1>9, <1>10, <1>11, <1>12, <1>13, <1>14, <1>15, <1>16, <1>17 DEF Next, Work

\* When messages are stored in the order of their ids, a prompt whose run left the
\* loop by itself has been put to the model, whichever prompt's run that was and
\* however many callers it had (session/prompt.ts).
THEOREM EveryPromptRead == InOrder /\ Spec => []Answered
<1> SUFFICES ASSUME InOrder PROVE Spec => []Answered
  OBVIOUS
<1> DEFINE ReadInv == TypeInv /\ WorkInv /\ Numbered /\ Given /\ Heard
<1>1. Init => ReadInv
  BY TypeInit, WorkInit, ReadInit
<1>2. ReadInv /\ [Next]_vars => ReadInv'
  <2> SUFFICES ASSUME ReadInv, [Next]_vars PROVE ReadInv'
    OBVIOUS
  <2>1. TypeInv' /\ WorkInv'
    BY TypesKept, WorkKept
  <2> QED
    BY <2>1, NumberedKept, GivenKept, HeardKept
<1>3. ReadInv => Answered
  BY DEF Answered, Heard
<1> HIDE DEF ReadInv
<1> QED
  BY <1>1, <1>2, <1>3, PTL DEF Spec

=============================================================================
