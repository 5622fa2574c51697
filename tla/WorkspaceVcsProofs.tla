------------------------- MODULE WorkspaceVcsProofs -------------------------
(***************************************************************************)
(* Proofs about WorkspaceVcs: its types; and, when workspace operations do *)
(* not overlap and agents sync after an accepted submit, that checkouts    *)
(* differ from their base in the agent's own work only, that a submit does *)
(* not silently replace what its agent never had, that a rollback does not *)
(* take away what the user wrote, and that what it took away stays away.   *)
(***************************************************************************)
EXTENDS WorkspaceVcs, SequenceTheorems, WellFoundedInduction, TLAPS

ChangeRecords == [before : Partial, after : Partial, rolled : Nat]
Places == Paths \X Regions \X Versions

TypeInv ==
  /\ TypeOK
  /\ changes \in Seq(ChangeRecords)
  /\ \A i \in DOMAIN changes : DOMAIN changes[i].before = DOMAIN changes[i].after
  /\ \A a \in Agents : DOMAIN before[a] = DOMAIN after[a]
  /\ seen \in [Agents -> SUBSET Places]

-----------------------------------------------------------------------------
(***************************************************************************)
(* A bounded set of positions has a first and a last element.              *)
(***************************************************************************)

LEMMA LeastExists ==
  ASSUME NEW n \in Nat, NEW S, S \subseteq 1..n, S # {}
  PROVE  \E i \in S : \A j \in S : i <= j
<1>1. S \subseteq Nat
  OBVIOUS
<1>2. PICK i \in S : \A j \in S : <<j, i>> \notin OpToRel(<, Nat)
  BY <1>1, NatLessThanWellFounded, WFMin, Zenon
<1>3. ASSUME NEW j \in S PROVE i <= j
  <2>1. <<j, i>> \in Nat \X Nat /\ i \in Nat /\ j \in Nat
    BY <1>1
  <2>2. ~(j < i)
    BY <1>2, <2>1, Zenon DEF OpToRel
  <2> QED
    BY <2>1, <2>2
<1> QED
  BY <1>3

LEMMA GreatestExists ==
  ASSUME NEW n \in Nat, NEW S, S \subseteq 1..n, S # {}
  PROVE  \E i \in S : \A j \in S : j <= i
<1> DEFINE T == {n + 1 - i : i \in S}
<1>1. T \subseteq 1..n /\ T # {}
  <2>1. ASSUME NEW i \in S PROVE n + 1 - i \in 1..n
    <3>1. i \in 1..n
      OBVIOUS
    <3> QED
      BY <3>1
  <2> QED
    BY <2>1
<1>2. PICK k \in T : \A j \in T : k <= j
  <2> HIDE DEF T
  <2> QED
    BY <1>1, LeastExists
<1>3. PICK i \in S : k = n + 1 - i
  OBVIOUS
<1>4. ASSUME NEW j \in S PROVE j <= i
  <2>1. n + 1 - j \in T
    OBVIOUS
  <2>2. i \in 1..n /\ j \in 1..n
    OBVIOUS
  <2>3. k <= n + 1 - j
    BY <2>1, <1>2
  <2> QED
    BY <1>3, <2>2, <2>3
<1> QED
  BY <1>4

LEMMA FirstLast ==
  ASSUME NEW n \in Nat, NEW S, S \subseteq 1..n, S # {}
  PROVE  /\ First(S) \in S /\ \A j \in S : First(S) <= j
         /\ Last(S) \in S /\ \A j \in S : j <= Last(S)
  BY LeastExists, GreatestExists DEF First, Last

-----------------------------------------------------------------------------
(***************************************************************************)
(* Contents, trees and partial trees.                                      *)
(***************************************************************************)

LEMMA PartialDef ==
  \A f : f \in Partial <=> DOMAIN f \in SUBSET Paths /\ f \in [DOMAIN f -> Contents]
  BY DEF Partial

LEMMA PartialAt == \A f \in Partial : \A p \in DOMAIN f : p \in Paths /\ f[p] \in Contents
  BY PartialDef

LEMMA HeldType ==
  ASSUME NEW tree, NEW p \in Paths, tree[p] \in Contents
  PROVE  Held(tree, p) \subseteq Places
  BY DEF Held, Contents, Places

LEMMA HeldInType == \A tree \in Trees : HeldIn(tree) \subseteq Places
<1> SUFFICES ASSUME NEW tree \in Trees, NEW p \in Paths PROVE Held(tree, p) \subseteq Places
  BY DEF HeldIn
<1> QED
  BY HeldType DEF Trees

LEMMA InScopeType == \A a \in Agents : \A tree \in Trees : InScope(a, tree) \in Trees
  BY DEF InScope, Trees, Contents

LEMMA EditedType ==
  ASSUME NEW content \in Contents, NEW r \in Regions, NEW v \in Versions
  PROVE  Edited(content, r, v) \in Contents
  BY DEF Edited, Contents

LEMMA ResolvedType ==
  ASSUME NEW b \in Contents, NEW c \in Contents, NEW j \in Contents
  PROVE  Resolved(b, c, j) \subseteq Contents
  BY DEF Resolved, Merged, Contents

LEMMA WithType ==
  ASSUME NEW f \in Partial, NEW p \in Paths, NEW c \in Contents
  PROVE  /\ With(f, p, c) \in Partial
         /\ DOMAIN With(f, p, c) = DOMAIN f \cup {p}
  BY PartialDef DEF With

LEMMA WithoutType ==
  ASSUME NEW f \in Partial, NEW p
  PROVE  /\ Without(f, p) \in Partial
         /\ DOMAIN Without(f, p) = DOMAIN f \ {p}
  BY PartialDef DEF Without

LEMMA NowhereType == Nowhere \in Partial /\ DOMAIN Nowhere = {}
  BY PartialDef DEF Nowhere

-----------------------------------------------------------------------------
(***************************************************************************)
(* Types.                                                                  *)
(***************************************************************************)

\* The part of TypeInv about the archive.
Archive ==
  /\ changes \in Seq(ChangeRecords)
  /\ rollbacks \in 0..MaxRollbacks
  /\ \A i \in DOMAIN changes :
       /\ changes[i].before \in Partial /\ changes[i].after \in Partial
       /\ changes[i].rolled \in 0..rollbacks
       /\ DOMAIN changes[i].before = DOMAIN changes[i].after

LEMMA VersionKinds ==
  /\ Original \in Versions
  /\ \A a \in Agents : Work[a] \subseteq Versions /\ Work[a] \subseteq Edits
  /\ UserEdits \subseteq Versions
  BY DEF Versions, Edits

LEMMA InitType == Init => TypeInv
<1> SUFFICES ASSUME Init PROVE TypeInv
  OBVIOUS
<1>1. <<>> \in Seq(ChangeRecords)
  OBVIOUS
<1>2. target \in Trees /\ [p \in Paths |-> Missing] \in Trees
  BY VersionKinds DEF Init, Trees, Contents
<1>3. 0 \in 0..MaxRollbacks
  BY VcsAssumption DEF VcsAssumption
<1> QED
  BY <1>1, <1>2, <1>3, NowhereType DEF Init, TypeInv, TypeOK

\* Taking a checkout keeps the types.
LEMMA CopyType ==
  ASSUME TypeInv, NEW a \in Agents, CopyCheckout(a) \/ CopyBase(a)
  PROVE  TypeInv'
<1>1. InScope(a, target) \in Trees
  BY InScopeType DEF TypeInv, TypeOK
<1>2. CASE CopyCheckout(a)
  <2>1. HeldIn(InScope(a, target)) \subseteq Places
    BY <1>1, HeldInType
  <2>2. checkout' \in [Agents -> Trees] /\ seen' \in [Agents -> SUBSET Places]
    BY <1>1, <1>2, <2>1 DEF CopyCheckout, TypeInv, TypeOK
  <2>3. pc' \in [Agents -> {"none", "ready", "stale", "copying", "applying"}]
    BY <1>2 DEF CopyCheckout, TypeInv, TypeOK
  <2>4. UNCHANGED <<target, base, plan, before, after, changes, rollbacks, used>>
    BY <1>2 DEF CopyCheckout
  <2> QED
    BY <2>2, <2>3, <2>4 DEF TypeInv, TypeOK, Places
<1>3. CASE CopyBase(a)
  <2>1. base' \in [Agents -> Trees]
    BY <1>1, <1>3 DEF CopyBase, TypeInv, TypeOK
  <2>2. pc' \in [Agents -> {"none", "ready", "stale", "copying", "applying"}]
    BY <1>3 DEF CopyBase, TypeInv, TypeOK
  <2>3. UNCHANGED <<target, checkout, plan, before, after, changes, rollbacks, used, seen>>
    BY <1>3 DEF CopyBase
  <2> QED
    BY <2>1, <2>2, <2>3 DEF TypeInv, TypeOK
<1> QED
  BY <1>2, <1>3

\* Edits of agents and of the user keep the types.
LEMMA EditType ==
  ASSUME TypeInv, NEW a \in Agents, NEW p \in Paths, Edit(a, p)
  PROVE  TypeInv'
<1>1. PICK v \in Work[a] \ used :
        /\ used' = used \cup {v}
        /\ \/ \E r \in Regions : checkout' = [checkout EXCEPT ![a][p] = Edited(@, r, v)]
           \/ checkout' = [checkout EXCEPT ![a][p] = Missing]
  BY DEF Edit
<1>2. \E c \in Contents : checkout' = [checkout EXCEPT ![a][p] = c]
  <2>1. checkout[a][p] \in Contents
    BY DEF TypeInv, TypeOK, Trees
  <2>2. \A r \in Regions : Edited(checkout[a][p], r, v) \in Contents
    BY <2>1, EditedType, VersionKinds
  <2>3. Missing \in Contents
    BY DEF Contents
  <2> QED
    BY <1>1, <2>2, <2>3
<1>3. checkout' \in [Agents -> Trees]
  BY <1>2 DEF TypeInv, TypeOK, Trees
<1>4. seen' \in [Agents -> SUBSET Places]
  <2>1. HeldIn(checkout'[a]) \subseteq Places
    BY <1>3, HeldInType
  <2> QED
    BY <2>1 DEF Edit, TypeInv
<1>5. used' \subseteq Edits \cup UserEdits
  BY <1>1, VersionKinds DEF TypeInv, TypeOK
<1>6. UNCHANGED <<target, base, pc, plan, before, after, changes, rollbacks>>
  BY DEF Edit
<1> QED
  BY <1>3, <1>4, <1>5, <1>6 DEF TypeInv, TypeOK, Places

LEMMA UserEditType ==
  ASSUME TypeInv, NEW p \in Paths, UserEdit(p)
  PROVE  TypeInv'
<1>1. PICK v \in UserEdits \ used, r \in Regions :
        /\ target' = [target EXCEPT ![p] = Edited(@, r, v)]
        /\ used' = used \cup {v}
  BY DEF UserEdit
<1>2. Edited(target[p], r, v) \in Contents
  BY EditedType, VersionKinds DEF TypeInv, TypeOK, Trees
<1>3. target' \in Trees /\ used' \subseteq Edits \cup UserEdits
  BY <1>1, <1>2 DEF TypeInv, TypeOK, Trees
<1>4. UNCHANGED <<checkout, base, pc, plan, before, after, changes, rollbacks, seen>>
  BY DEF UserEdit
<1> QED
  BY <1>3, <1>4 DEF TypeInv, TypeOK

\* What a submit plans for a file is what the merge of that file gives.
LEMMA PlannedIsResolved ==
  ASSUME TypeInv, NEW a \in Agents, PlanSubmit(a)
  PROVE  /\ DOMAIN plan'[a] = Diff(a)
         /\ \A p \in Diff(a) : plan'[a][p] \in ResolvedAt(a, p)
         /\ \A b \in Agents : b # a => plan'[b] = plan[b]
<1> DEFINE f == [p \in Diff(a) |-> CHOOSE c \in ResolvedAt(a, p) : TRUE]
<1>1. plan' = [plan EXCEPT ![a] = f]
  BY DEF PlanSubmit
<1>2. plan'[a] = f
  BY <1>1 DEF TypeInv, TypeOK
<1>3. \A p \in Diff(a) : f[p] \in ResolvedAt(a, p)
  BY DEF PlanSubmit
<1> QED
  BY <1>1, <1>2, <1>3 DEF TypeInv, TypeOK

LEMMA ResolvedAtType ==
  ASSUME TypeInv, NEW a \in Agents, NEW p \in Paths
  PROVE  ResolvedAt(a, p) \subseteq Contents
<1>1. base[a][p] \in Contents /\ target[p] \in Contents /\ checkout[a][p] \in Contents
  BY DEF TypeInv, TypeOK, Trees
<1> QED
  BY <1>1, ResolvedType DEF ResolvedAt

\* Planning a submit, writing one file and finishing keep the types.
LEMMA PlanType ==
  ASSUME TypeInv, NEW a \in Agents, PlanSubmit(a)
  PROVE  TypeInv'
<1>1. plan'[a] \in Partial
  <2>1. Diff(a) \subseteq Paths
    BY DEF Diff
  <2>2. \A p \in Diff(a) : plan'[a][p] \in Contents
    BY <2>1, PlannedIsResolved, ResolvedAtType
  <2>3. plan'[a] = [p \in Diff(a) |-> CHOOSE c \in ResolvedAt(a, p) : TRUE]
    BY DEF PlanSubmit, TypeInv, TypeOK
  <2> QED
    BY <2>1, <2>2, <2>3, PartialDef
<1>2. plan' \in [Agents -> Partial]
  BY <1>1 DEF PlanSubmit, TypeInv, TypeOK
<1>3. pc' \in [Agents -> {"none", "ready", "stale", "copying", "applying"}]
  BY DEF PlanSubmit, TypeInv, TypeOK
<1>4. UNCHANGED <<target, checkout, base, before, after, changes, rollbacks, used, seen>>
  BY DEF PlanSubmit
<1> QED
  BY <1>2, <1>3, <1>4 DEF TypeInv, TypeOK

LEMMA ApplyType ==
  ASSUME TypeInv, NEW a \in Agents, NEW p \in Paths, ApplyChange(a, p)
  PROVE  TypeInv'
<1>1. target[p] \in Contents /\ plan[a] \in Partial /\ before[a] \in Partial /\ after[a] \in Partial
  BY DEF TypeInv, TypeOK, Trees
<1>2. plan[a][p] \in Contents
  BY <1>1, PartialAt DEF ApplyChange
<1>3. target' \in Trees
  BY <1>2 DEF ApplyChange, TypeInv, TypeOK, Trees
<1>4. /\ With(before[a], p, target[p]) \in Partial
      /\ DOMAIN With(before[a], p, target[p]) = DOMAIN before[a] \cup {p}
      /\ With(after[a], p, plan[a][p]) \in Partial
      /\ DOMAIN With(after[a], p, plan[a][p]) = DOMAIN after[a] \cup {p}
      /\ Without(plan[a], p) \in Partial
  BY <1>1, <1>2, WithType, WithoutType
<1>5. /\ before' = [before EXCEPT ![a] = With(before[a], p, target[p])]
      /\ after' = [after EXCEPT ![a] = With(after[a], p, plan[a][p])]
      /\ plan' = [plan EXCEPT ![a] = Without(plan[a], p)]
  BY DEF ApplyChange
<1>6. /\ before' \in [Agents -> Partial] /\ after' \in [Agents -> Partial]
      /\ plan' \in [Agents -> Partial]
  BY <1>4, <1>5 DEF TypeInv, TypeOK
<1>7. \A b \in Agents : DOMAIN before'[b] = DOMAIN after'[b]
  <2> TAKE b \in Agents
  <2>1. CASE b = a
    BY <2>1, <1>4, <1>5 DEF TypeInv, TypeOK
  <2>2. CASE b # a
    BY <2>2, <1>5 DEF TypeInv, TypeOK
  <2> QED
    BY <2>1, <2>2
<1>8. UNCHANGED <<checkout, base, pc, changes, rollbacks, used, seen>>
  BY DEF ApplyChange
<1> QED
  BY <1>3, <1>6, <1>7, <1>8 DEF TypeInv, TypeOK

\* The archive's part of TypeInv, from any archive and back to it.
LEMMA ArchiveOf == TypeInv => Archive
  BY DEF TypeInv, TypeOK, Archive

\* A changeset that is archived has the two images of the same files.
LEMMA FinishArchive ==
  ASSUME TypeInv, NEW a \in Agents, FinishSubmit(a)
  PROVE  Archive'
<1> DEFINE c == [before |-> before[a], after |-> after[a], rolled |-> 0]
<1>1. changes' = changes \/ changes' = Append(changes, c)
  BY DEF FinishSubmit
<1>2. /\ before[a] \in Partial /\ after[a] \in Partial
      /\ DOMAIN before[a] = DOMAIN after[a]
  BY DEF TypeInv, TypeOK
<1>3. c \in ChangeRecords /\ DOMAIN c.before = DOMAIN c.after
  BY <1>2 DEF ChangeRecords
<1>4. rollbacks' = rollbacks
  BY DEF FinishSubmit
<1>5. CASE changes' = changes
  BY <1>4, <1>5, ArchiveOf DEF Archive
<1>6. CASE changes' = Append(changes, c)
  <2>1. changes' \in Seq(ChangeRecords)
    BY <1>3, <1>6 DEF TypeInv
  <2>2. ASSUME NEW i \in DOMAIN changes' PROVE changes'[i] = c \/ (i \in DOMAIN changes /\ changes'[i] = changes[i])
    BY <1>6 DEF TypeInv
  <2>3. ASSUME NEW i \in DOMAIN changes'
        PROVE  /\ changes'[i].before \in Partial /\ changes'[i].after \in Partial
               /\ changes'[i].rolled \in 0..rollbacks
               /\ DOMAIN changes'[i].before = DOMAIN changes'[i].after
    <3>1. CASE changes'[i] = c
      BY <3>1, <1>2, VcsAssumption DEF TypeInv, TypeOK, VcsAssumption
    <3>2. CASE i \in DOMAIN changes /\ changes'[i] = changes[i]
      BY <3>2 DEF TypeInv, TypeOK
    <3> QED
      BY <2>2, <3>1, <3>2
  <2> QED
    BY <1>4, <2>1, <2>3 DEF Archive, TypeInv, TypeOK
<1> QED
  BY <1>1, <1>5, <1>6

LEMMA FinishType ==
  ASSUME TypeInv, NEW a \in Agents, FinishSubmit(a)
  PROVE  TypeInv'
<1>1. Archive'
  BY FinishArchive
<1>2. /\ before' \in [Agents -> Partial] /\ after' \in [Agents -> Partial]
      /\ \A b \in Agents : DOMAIN before'[b] = DOMAIN after'[b]
  BY NowhereType DEF FinishSubmit, TypeInv, TypeOK
<1>3. base' \in [Agents -> Trees]
  BY InScopeType DEF FinishSubmit, TypeInv, TypeOK
<1>4. pc' \in [Agents -> {"none", "ready", "stale", "copying", "applying"}]
  BY DEF FinishSubmit, TypeInv, TypeOK
<1>5. UNCHANGED <<target, checkout, plan, used, seen>>
  BY DEF FinishSubmit
<1> QED
  BY <1>1, <1>2, <1>3, <1>4, <1>5 DEF Archive, TypeInv, TypeOK

\* Marking changesets as rolled back keeps the archive.
LEMMA MarkedType ==
  ASSUME TypeInv, NEW S, NEW n \in 0..rollbacks', rollbacks <= rollbacks',
         rollbacks' \in 0..MaxRollbacks, changes' = Marked(S, n)
  PROVE  /\ Archive'
         /\ DOMAIN changes' = DOMAIN changes
         /\ \A i \in DOMAIN changes :
              changes'[i].before = changes[i].before /\ changes'[i].after = changes[i].after
<1>1. PICK m \in Nat : changes \in [1..m -> ChangeRecords]
  BY SeqDef DEF TypeInv
<1>2. \A i \in DOMAIN changes :
        IF i \in S THEN [changes[i] EXCEPT !.rolled = n] \in ChangeRecords
                   ELSE changes[i] \in ChangeRecords
  <2>1. n \in Nat
    BY DEF TypeInv, TypeOK
  <2> QED
    BY <1>1, <2>1 DEF ChangeRecords
<1>3. changes' \in [1..m -> ChangeRecords]
  BY <1>1, <1>2 DEF Marked
<1>4. changes' \in Seq(ChangeRecords)
  BY <1>3, SeqDef
<1>5. ASSUME NEW i \in DOMAIN changes
      PROVE  /\ changes'[i].before = changes[i].before /\ changes'[i].after = changes[i].after
             /\ changes'[i].rolled \in {n, changes[i].rolled}
  <2>1. changes[i] \in ChangeRecords
    BY <1>1
  <2>2. changes'[i] = IF i \in S THEN [changes[i] EXCEPT !.rolled = n] ELSE changes[i]
    BY DEF Marked
  <2> QED
    BY <2>1, <2>2 DEF ChangeRecords
<1>6. DOMAIN changes' = DOMAIN changes
  BY DEF Marked
<1>7. \A i \in DOMAIN changes : changes[i].rolled \in 0..rollbacks'
  <2>1. rollbacks \in Nat /\ rollbacks' \in Nat
    BY DEF TypeInv, TypeOK
  <2>2. \A i \in DOMAIN changes : changes[i].rolled \in 0..rollbacks
    BY DEF TypeInv, TypeOK
  <2> QED
    BY <2>1, <2>2
<1> QED
  BY <1>4, <1>5, <1>6, <1>7 DEF Archive, TypeInv, TypeOK

\* A path that changesets of S touch has a first and a last of them.
LEMMA TouchingEnds ==
  ASSUME TypeInv, NEW S, S \subseteq DOMAIN changes, NEW p, Touching(S, p) # {}
  PROVE  LET T == Touching(S, p) IN
         /\ T \subseteq 1..Len(changes)
         /\ First(T) \in T /\ \A j \in T : First(T) <= j
         /\ Last(T) \in T /\ \A j \in T : j <= Last(T)
<1>1. Len(changes) \in Nat /\ DOMAIN changes = 1..Len(changes)
  BY DEF TypeInv
<1>2. Touching(S, p) \subseteq 1..Len(changes)
  BY <1>1 DEF Touching
<1> HIDE DEF Touching
<1> QED
  BY <1>1, <1>2, FirstLast

\* Both images of a file that a changeset touches are contents.
LEMMA ImagesType ==
  ASSUME TypeInv, NEW S, S \subseteq DOMAIN changes, NEW p, NEW i \in Touching(S, p)
  PROVE  changes[i].before[p] \in Contents /\ changes[i].after[p] \in Contents
<1>1. i \in DOMAIN changes /\ p \in DOMAIN changes[i].after
  BY DEF Touching
<1> QED
  BY <1>1, PartialAt DEF TypeInv, TypeOK

LEMMA UndoRedoType ==
  ASSUME TypeInv, NEW S, S \subseteq DOMAIN changes
  PROVE  Undo(S) \in Trees /\ Redo(S) \in Trees
<1>1. ASSUME NEW p \in Paths
      PROVE  /\ (IF Touching(S, p) = {} THEN target[p]
                 ELSE changes[First(Touching(S, p))].before[p]) \in Contents
             /\ (IF Touching(S, p) = {} THEN target[p]
                 ELSE changes[Last(Touching(S, p))].after[p]) \in Contents
  <2>1. CASE Touching(S, p) = {}
    BY <2>1 DEF TypeInv, TypeOK, Trees
  <2>2. CASE Touching(S, p) # {}
    BY <2>2, TouchingEnds, ImagesType
  <2> QED
    BY <2>1, <2>2
<1> QED
  BY <1>1 DEF Undo, Redo, Trees

LEMMA RollbackType ==
  ASSUME TypeInv, NEW i, Rollback(i)
  PROVE  TypeInv'
<1> DEFINE S == {j \in Accepted : i <= j}
<1>1. S \subseteq DOMAIN changes
  BY DEF Accepted
<1>2. target' = Undo(S) /\ changes' = Marked(S, rollbacks + 1) /\ rollbacks' = rollbacks + 1
  BY DEF Rollback
<1>3. /\ rollbacks + 1 \in 0..rollbacks' /\ rollbacks <= rollbacks'
      /\ rollbacks' \in 0..MaxRollbacks
  BY <1>2, VcsAssumption DEF Rollback, TypeInv, TypeOK, VcsAssumption
<1>4. UNCHANGED <<checkout, base, pc, plan, before, after, used, seen>>
  BY DEF Rollback
<1> HIDE DEF S
<1>5. Archive'
  BY <1>2, <1>3, MarkedType
<1>6. target' \in Trees
  BY <1>1, <1>2, UndoRedoType
<1> QED
  BY <1>4, <1>5, <1>6 DEF Archive, TypeInv, TypeOK

LEMMA RestoreType ==
  ASSUME TypeInv, Restore
  PROVE  TypeInv'
<1> DEFINE S == RolledBy(Last({n \in 1..rollbacks : RolledBy(n) # {}}))
<1>1. S \subseteq DOMAIN changes
  BY DEF RolledBy
<1>2. target' = Redo(S) /\ changes' = Marked(S, 0) /\ rollbacks' = rollbacks
  BY DEF Restore
<1>3. 0 \in 0..rollbacks' /\ rollbacks <= rollbacks' /\ rollbacks' \in 0..MaxRollbacks
  BY <1>2 DEF TypeInv, TypeOK
<1>4. UNCHANGED <<checkout, base, pc, plan, before, after, used, seen>>
  BY DEF Restore
<1> HIDE DEF S
<1>5. Archive'
  BY <1>2, <1>3, MarkedType
<1>6. target' \in Trees
  BY <1>1, <1>2, UndoRedoType
<1> QED
  BY <1>4, <1>5, <1>6 DEF Archive, TypeInv, TypeOK

LEMMA TypeStep == TypeInv /\ [Next]_vars => TypeInv'
<1> SUFFICES ASSUME TypeInv, [Next]_vars PROVE TypeInv'
  OBVIOUS
<1>1. CASE \E a \in Agents : CopyCheckout(a) \/ CopyBase(a) \/ PlanSubmit(a) \/ FinishSubmit(a)
  BY <1>1, CopyType, PlanType, FinishType
<1>2. CASE \E a \in Agents, p \in Paths : Edit(a, p) \/ ApplyChange(a, p)
  BY <1>2, EditType, ApplyType
<1>3. CASE \E p \in Paths : UserEdit(p)
  BY <1>3, UserEditType
<1>4. CASE \E i \in DOMAIN changes : Rollback(i)
  BY <1>4, RollbackType
<1>5. CASE Restore
  BY <1>5, RestoreType
<1>6. CASE UNCHANGED vars
  BY <1>6 DEF vars, TypeInv, TypeOK
<1> QED
  BY <1>1, <1>2, <1>3, <1>4, <1>5, <1>6 DEF Next

LEMMA TypeHolds == Spec => []TypeInv
  BY InitType, TypeStep, PTL DEF Spec

\* Trees, checkouts, plans and the archive are well typed, whoever overlaps.
THEOREM VcsTypeCorrect == Spec => []TypeOK
  BY TypeHolds, PTL DEF TypeInv

-----------------------------------------------------------------------------
(***************************************************************************)
(* The invariant under Serial and SyncAfterSubmit.                         *)
(***************************************************************************)

Busy == {"copying", "applying"}
OneBusy == \A a, b \in Agents : pc[a] \in Busy /\ pc[b] \in Busy => a = b

\* A checkout whose base is not copied yet is what the base is going to be.
Copied ==
  \A a \in Agents : pc[a] = "copying" =>
    checkout[a] = InScope(a, target) /\ HeldIn(checkout[a]) \subseteq seen[a]

BaseSeen ==
  \A a \in Agents : pc[a] \in {"ready", "applying"} => HeldIn(base[a]) \subseteq seen[a]

\* A planned file was merged with the content the target still has.
Planned ==
  \A a \in Agents : pc[a] = "applying" =>
    \A p \in DOMAIN plan[a] : plan[a][p] \in ResolvedAt(a, p)

OwnDiff ==
  \A a \in Agents : pc[a] \in {"ready", "applying"} =>
    \A p \in Paths : \A h \in Held(checkout[a], p) \ Held(base[a], p) : h[3] \in Work[a]

\* A changeset adds what agents wrote, and nothing of the user's.
Agentic(b, c) == \A p \in DOMAIN c : \A h \in Held(c, p) \ Held(b, p) : h[3] \in Edits
OwnChanges ==
  /\ \A i \in DOMAIN changes : Agentic(changes[i].before, changes[i].after)
  /\ \A a \in Agents : Agentic(before[a], after[a])

SerialInv == OneBusy /\ Copied /\ BaseSeen /\ Planned /\ OwnDiff /\ OwnChanges

LEMMA InitSerial == Init => SerialInv
  BY NowhereType
     DEF Init, SerialInv, OneBusy, Busy, Copied, BaseSeen, Planned, OwnDiff, OwnChanges, Agentic

\* The versions of one content at path p.
At(p, c) == IF c = Missing THEN {} ELSE {<<p, r, c[r]>> : r \in Regions}

LEMMA HeldAt == \A tree, p : Held(tree, p) = At(p, tree[p])
  BY DEF Held, At

LEMMA MissingIsNoText == \A c \in Contents : c = Missing \/ c \in [Regions -> Versions]
  BY DEF Contents

LEMMA TextIsNotMissing == Missing \notin [Regions -> Versions]
  BY VcsAssumption DEF VcsAssumption, Versions

\* A merge drops nothing of the current content but what the base has too,
LEMMA MergeKeeps ==
  ASSUME NEW p, NEW b \in Contents, NEW c \in Contents, NEW j \in Contents,
         NEW d \in Resolved(b, c, j)
  PROVE  At(p, c) \ At(p, d) \subseteq At(p, b)
<1>1. CASE c = j \/ c = b
  BY <1>1 DEF Resolved
<1>2. CASE ~(c = j \/ c = b)
  <2>1. /\ b # Missing /\ c # Missing /\ j # Missing
        /\ Mergeable(b, c, j) /\ d = Merged(b, c, j)
    BY <1>2 DEF Resolved
  <2>2. d \in [Regions -> Versions]
    BY <2>1 DEF Merged, Contents
  <2>3. d # Missing
    BY <2>2, TextIsNotMissing
  <2>4. \A r \in Regions : d[r] = c[r] \/ b[r] = c[r]
    BY <2>1 DEF Merged, Mergeable
  <2> QED
    BY <2>1, <2>3, <2>4 DEF At
<1> QED
  BY <1>1, <1>2

\* and adds nothing but what the job changed.
LEMMA MergeAdds ==
  ASSUME NEW p, NEW b \in Contents, NEW c \in Contents, NEW j \in Contents,
         NEW d \in Resolved(b, c, j)
  PROVE  At(p, d) \ At(p, c) \subseteq At(p, j) \ At(p, b)
<1>1. CASE c = j \/ c = b
  BY <1>1 DEF Resolved
<1>2. CASE ~(c = j \/ c = b)
  <2>1. /\ b # Missing /\ c # Missing /\ j # Missing
        /\ Mergeable(b, c, j) /\ d = Merged(b, c, j)
    BY <1>2 DEF Resolved
  <2>2. d \in [Regions -> Versions]
    BY <2>1 DEF Merged, Contents
  <2>3. d # Missing
    BY <2>2, TextIsNotMissing
  <2>4. \A r \in Regions : d[r] = c[r] \/ (d[r] = j[r] /\ j[r] # b[r])
    BY <2>1 DEF Merged
  <2> QED
    BY <2>1, <2>3, <2>4 DEF At
<1> QED
  BY <1>1, <1>2

\* Writing one planned file replaces only what the agent has seen, and adds only its work.
LEMMA ApplyMerges ==
  ASSUME TypeInv, SerialInv, NEW a \in Agents, NEW p \in Paths, ApplyChange(a, p)
  PROVE  /\ target'[p] = plan[a][p]
         /\ Held(target, p) \ Held(target', p) \subseteq seen[a]
         /\ Held(target', p) \ Held(target, p) \subseteq Held(checkout[a], p) \ Held(base[a], p)
         /\ \A h \in Held(target', p) \ Held(target, p) : h[3] \in Work[a]
<1> DEFINE b == base[a][p]
           c == target[p]
           j == checkout[a][p]
           d == plan[a][p]
<1>1. b \in Contents /\ c \in Contents /\ j \in Contents
  BY DEF TypeInv, TypeOK, Trees
<1>2. d \in Resolved(b, c, j)
  BY DEF ApplyChange, SerialInv, Planned, ResolvedAt
<1>3. target'[p] = d
  BY DEF ApplyChange, TypeInv, TypeOK, Trees
<1>4. At(p, c) \ At(p, d) \subseteq At(p, b) /\ At(p, d) \ At(p, c) \subseteq At(p, j) \ At(p, b)
  BY <1>1, <1>2, MergeKeeps, MergeAdds
<1>5. At(p, b) \subseteq seen[a]
  BY HeldAt DEF ApplyChange, SerialInv, BaseSeen, HeldIn
<1>6. \A h \in At(p, j) \ At(p, b) : h[3] \in Work[a]
  BY HeldAt DEF ApplyChange, SerialInv, OwnDiff
<1>7. /\ Held(target, p) = At(p, c) /\ Held(target', p) = At(p, d)
      /\ Held(checkout[a], p) = At(p, j) /\ Held(base[a], p) = At(p, b)
  BY <1>3, HeldAt
<1> QED
  BY <1>3, <1>4, <1>5, <1>6, <1>7

LEMMA CopySerial ==
  ASSUME Serial, TypeInv, SerialInv, NEW a \in Agents, CopyCheckout(a)
  PROVE  SerialInv'
<1>1. \A b \in Agents : pc[b] \notin Busy
  BY DEF CopyCheckout, Free, Quiet, Resting, Busy
<1>2. pc' = [pc EXCEPT ![a] = "copying"]
  BY DEF CopyCheckout
<1>3. OneBusy'
  BY <1>1, <1>2 DEF OneBusy, Busy, TypeInv, TypeOK
<1>4. Copied'
  BY <1>1, <1>2 DEF CopyCheckout, Copied, Busy, TypeInv, TypeOK
<1>5. BaseSeen' /\ OwnDiff'
  BY <1>2 DEF CopyCheckout, SerialInv, BaseSeen, OwnDiff, TypeInv, TypeOK
<1>6. Planned'
  BY <1>1, <1>2 DEF Planned, Busy, TypeInv, TypeOK
<1>7. OwnChanges'
  BY DEF CopyCheckout, SerialInv, OwnChanges, Agentic
<1> QED
  BY <1>3, <1>4, <1>5, <1>6, <1>7 DEF SerialInv

LEMMA CopyBaseSerial ==
  ASSUME TypeInv, SerialInv, NEW a \in Agents, CopyBase(a)
  PROVE  SerialInv'
<1>1. /\ pc[a] = "copying" /\ pc' = [pc EXCEPT ![a] = "ready"]
      /\ base' = [base EXCEPT ![a] = InScope(a, target)]
      /\ UNCHANGED <<target, checkout, plan, before, after, changes, rollbacks, used, seen>>
  BY DEF CopyBase
<1>2. base'[a] = checkout[a] /\ HeldIn(checkout[a]) \subseteq seen[a]
  BY <1>1 DEF SerialInv, Copied, TypeInv, TypeOK
<1>3. OneBusy' /\ Copied'
  BY <1>1 DEF SerialInv, OneBusy, Copied, Busy, TypeInv, TypeOK
<1>4. BaseSeen'
  BY <1>1, <1>2 DEF SerialInv, BaseSeen, TypeInv, TypeOK
<1>5. Planned'
  BY <1>1 DEF SerialInv, Planned, ResolvedAt, TypeInv, TypeOK
<1>6. OwnDiff'
  <2>1. \A p \in Paths : Held(checkout'[a], p) = Held(base'[a], p)
    BY <1>1, <1>2
  <2>2. \A b \in Agents : b # a => base'[b] = base[b] /\ pc'[b] = pc[b]
    BY <1>1 DEF TypeInv, TypeOK
  <2> QED
    BY <1>1, <2>1, <2>2 DEF SerialInv, OwnDiff
<1>7. OwnChanges'
  BY <1>1 DEF SerialInv, OwnChanges, Agentic
<1> QED
  BY <1>3, <1>4, <1>5, <1>6, <1>7 DEF SerialInv

\* An edit changes one file by a version of the agent's own.
LEMMA EditedHolds ==
  ASSUME NEW p, NEW content, NEW r \in Regions, NEW v
  PROVE  \A h \in At(p, Edited(content, r, v)) \ At(p, content) : h[3] = v
  BY DEF At, Edited

LEMMA EditSerial ==
  ASSUME TypeInv, SerialInv, NEW a \in Agents, NEW p \in Paths, Edit(a, p)
  PROVE  SerialInv'
<1>1. /\ pc[a] = "ready"
      /\ UNCHANGED <<target, base, pc, plan, before, after, changes, rollbacks>>
      /\ seen' = [seen EXCEPT ![a] = @ \cup HeldIn(checkout'[a])]
  BY DEF Edit
<1>2. \E c : /\ checkout' = [checkout EXCEPT ![a][p] = c]
             /\ \A h \in At(p, c) \ At(p, checkout[a][p]) : h[3] \in Work[a]
  <2>1. PICK v \in Work[a] :
           \/ \E r \in Regions : checkout' = [checkout EXCEPT ![a][p] = Edited(@, r, v)]
           \/ checkout' = [checkout EXCEPT ![a][p] = Missing]
    BY DEF Edit
  <2>2. At(p, Missing) = {}
    BY DEF At
  <2> QED
    BY <2>1, <2>2, EditedHolds
<1>3. PICK c : /\ checkout' = [checkout EXCEPT ![a][p] = c]
               /\ \A h \in At(p, c) \ At(p, checkout[a][p]) : h[3] \in Work[a]
  BY <1>2
<1>4. \A b \in Agents : b # a => checkout'[b] = checkout[b] /\ seen'[b] = seen[b]
  BY <1>1, <1>3 DEF TypeInv, TypeOK
<1>5. OneBusy' /\ BaseSeen'
  BY <1>1 DEF SerialInv, OneBusy, BaseSeen, TypeInv
<1>6. Copied' /\ Planned'
  BY <1>1, <1>4 DEF SerialInv, Copied, Planned, ResolvedAt
<1>7. OwnDiff'
  <2>1. \A q \in Paths : checkout'[a][q] = IF q = p THEN c ELSE checkout[a][q]
    BY <1>3 DEF TypeInv, TypeOK, Trees
  <2>2. \A q \in Paths : \A h \in At(q, checkout'[a][q]) \ At(q, base[a][q]) : h[3] \in Work[a]
    BY <1>1, <1>3, <2>1, HeldAt DEF SerialInv, OwnDiff
  <2>3. \A q \in Paths : \A h \in Held(checkout'[a], q) \ Held(base[a], q) : h[3] \in Work[a]
    BY <2>2, HeldAt
  <2> QED
    BY <1>1, <1>4, <2>3 DEF SerialInv, OwnDiff
<1>8. OwnChanges'
  BY <1>1 DEF SerialInv, OwnChanges, Agentic
<1> QED
  BY <1>5, <1>6, <1>7, <1>8 DEF SerialInv

\* A step that no operation overlaps, and that leaves checkouts and images
\* alone, keeps the invariant, whatever it does to the target.
LEMMA QuietSerial ==
  ASSUME TypeInv, SerialInv, Quiet,
         UNCHANGED <<checkout, base, pc, plan, before, after, seen>>,
         \A i \in DOMAIN changes' :
           i \in DOMAIN changes /\ changes'[i].before = changes[i].before
                                /\ changes'[i].after = changes[i].after
  PROVE  SerialInv'
<1>1. \A b \in Agents : pc[b] \notin Busy
  BY DEF Quiet, Resting, Busy
<1>2. OneBusy' /\ BaseSeen' /\ OwnDiff'
  BY DEF SerialInv, OneBusy, BaseSeen, OwnDiff
<1>3. Copied' /\ Planned'
  BY <1>1 DEF Copied, Planned, Busy
<1>4. OwnChanges'
  BY DEF SerialInv, OwnChanges, Agentic
<1> QED
  BY <1>2, <1>3, <1>4 DEF SerialInv

LEMMA PlanSerial ==
  ASSUME Serial, TypeInv, SerialInv, NEW a \in Agents, PlanSubmit(a)
  PROVE  SerialInv'
<1>1. \A b \in Agents : pc[b] \notin Busy
  BY DEF PlanSubmit, Free, Quiet, Resting, Busy
<1>2. /\ pc[a] = "ready" /\ pc' = [pc EXCEPT ![a] = "applying"]
      /\ UNCHANGED <<target, checkout, base, before, after, changes, rollbacks, used, seen>>
  BY DEF PlanSubmit
<1>3. OneBusy' /\ Copied'
  BY <1>1, <1>2 DEF OneBusy, Copied, Busy, TypeInv, TypeOK
<1>4. BaseSeen' /\ OwnDiff'
  BY <1>2 DEF SerialInv, BaseSeen, OwnDiff, TypeInv, TypeOK
<1>5. Planned'
  <2>1. \A b \in Agents : pc'[b] = "applying" => b = a
    BY <1>1, <1>2 DEF Busy, TypeInv, TypeOK
  <2>2. \A p \in DOMAIN plan'[a] : plan'[a][p] \in ResolvedAt(a, p)
    BY PlannedIsResolved
  <2>3. \A p : ResolvedAt(a, p)' = ResolvedAt(a, p)
    BY <1>2 DEF ResolvedAt
  <2> QED
    BY <2>1, <2>2, <2>3 DEF Planned
<1>6. OwnChanges'
  BY <1>2 DEF SerialInv, OwnChanges, Agentic
<1> QED
  BY <1>3, <1>4, <1>5, <1>6 DEF SerialInv

LEMMA ApplySerial ==
  ASSUME TypeInv, SerialInv, NEW a \in Agents, NEW p \in Paths, ApplyChange(a, p)
  PROVE  SerialInv'
<1>1. /\ pc[a] = "applying"
      /\ before' = [before EXCEPT ![a] = With(before[a], p, target[p])]
      /\ after' = [after EXCEPT ![a] = With(after[a], p, plan[a][p])]
      /\ target' = [target EXCEPT ![p] = plan[a][p]]
      /\ plan' = [plan EXCEPT ![a] = Without(plan[a], p)]
      /\ UNCHANGED <<checkout, base, pc, changes, rollbacks, used, seen>>
  BY DEF ApplyChange
<1>2. OneBusy' /\ BaseSeen' /\ OwnDiff'
  BY <1>1 DEF SerialInv, OneBusy, BaseSeen, OwnDiff
<1>3. \A b \in Agents : pc[b] \in Busy => b = a
  BY <1>1 DEF SerialInv, OneBusy, Busy
<1>4. Copied'
  BY <1>1, <1>3 DEF Copied, Busy
<1>5. Planned'
  <2>1. plan[a] \in Partial /\ plan'[a] = Without(plan[a], p)
    BY <1>1 DEF TypeInv, TypeOK
  <2>2. \A q \in DOMAIN plan'[a] :
           q \in DOMAIN plan[a] /\ q # p /\ plan'[a][q] = plan[a][q]
    BY <2>1 DEF Without
  <2>3. ASSUME NEW q \in DOMAIN plan'[a]
        PROVE  plan'[a][q] \in ResolvedAt(a, q)'
    <3>1. target'[q] = target[q]
      BY <1>1, <2>1, <2>2, PartialAt DEF TypeInv, TypeOK, Trees
    <3>2. ResolvedAt(a, q)' = ResolvedAt(a, q)
      BY <1>1, <3>1 DEF ResolvedAt
    <3> QED
      BY <1>1, <2>2, <3>2 DEF SerialInv, Planned
  <2> QED
    BY <1>1, <1>3, <2>3 DEF Planned, Busy
<1>6. OwnChanges'
  <2>1. \A b \in Agents : b # a => before'[b] = before[b] /\ after'[b] = after[b]
    BY <1>1 DEF TypeInv, TypeOK
  <2>2. before'[a] = With(before[a], p, target[p]) /\ after'[a] = With(after[a], p, plan[a][p])
    BY <1>1 DEF TypeInv, TypeOK
  <2>3. DOMAIN before[a] = DOMAIN after[a]
    BY DEF TypeInv
  <2>4. ASSUME NEW q \in DOMAIN after'[a], NEW h \in Held(after'[a], q) \ Held(before'[a], q)
        PROVE  h[3] \in Edits
    <3>1. CASE q = p
      <4>1. after'[a][q] = target'[p] /\ before'[a][q] = target[p]
        BY <2>2, <3>1, ApplyMerges DEF With
      <4>2. h \in Held(target', p) \ Held(target, p)
        BY <4>1, <3>1, <2>4, HeldAt
      <4> QED
        BY <4>2, ApplyMerges, VersionKinds
    <3>2. CASE q # p
      <4>1. q \in DOMAIN after[a] /\ after'[a][q] = after[a][q] /\ before'[a][q] = before[a][q]
        BY <2>2, <2>3, <3>2 DEF With
      <4>2. h \in Held(after[a], q) \ Held(before[a], q)
        BY <4>1, <2>4, HeldAt
      <4> QED
        BY <4>1, <4>2 DEF SerialInv, OwnChanges, Agentic
    <3> QED
      BY <3>1, <3>2
  <2>5. Agentic(before'[a], after'[a])
    BY <2>4 DEF Agentic
  <2> QED
    BY <1>1, <2>1, <2>5 DEF SerialInv, OwnChanges
<1> QED
  BY <1>2, <1>4, <1>5, <1>6 DEF SerialInv

LEMMA FinishSerial ==
  ASSUME SyncAfterSubmit, TypeInv, SerialInv, NEW a \in Agents, FinishSubmit(a)
  PROVE  SerialInv'
<1>1. /\ pc[a] = "applying" /\ pc' = [pc EXCEPT ![a] = "stale"]
      /\ base' = [base EXCEPT ![a] = InScope(a, target)]
      /\ before' = [before EXCEPT ![a] = Nowhere]
      /\ after' = [after EXCEPT ![a] = Nowhere]
      /\ UNCHANGED <<target, checkout, plan, rollbacks, used, seen>>
  BY DEF FinishSubmit
<1>2. /\ pc'[a] = "stale"
      /\ \A b \in Agents : b # a => pc'[b] = pc[b] /\ base'[b] = base[b]
  BY <1>1 DEF TypeInv, TypeOK
<1>3. OneBusy' /\ Copied' /\ BaseSeen' /\ OwnDiff'
  BY <1>1, <1>2 DEF SerialInv, OneBusy, Busy, Copied, BaseSeen, OwnDiff
<1>4. Planned'
  BY <1>1, <1>2 DEF SerialInv, Planned, ResolvedAt
<1>5. OwnChanges'
  <2>1. \A b \in Agents : Agentic(before'[b], after'[b])
    <3> TAKE b \in Agents
    <3>1. CASE b = a
      BY <1>1, <3>1, NowhereType DEF TypeInv, TypeOK, Agentic
    <3>2. CASE b # a
      BY <1>1, <3>2 DEF SerialInv, OwnChanges, TypeInv, TypeOK
    <3> QED
      BY <3>1, <3>2
  <2>2. \A i \in DOMAIN changes' : Agentic(changes'[i].before, changes'[i].after)
    <3> DEFINE c == [before |-> before[a], after |-> after[a], rolled |-> 0]
    <3>1. CASE changes' = changes
      BY <3>1 DEF SerialInv, OwnChanges
    <3>2. CASE changes' = Append(changes, c)
      <4>1. ASSUME NEW i \in DOMAIN changes'
            PROVE  changes'[i] = c \/ (i \in DOMAIN changes /\ changes'[i] = changes[i])
        BY <3>2 DEF TypeInv
      <4>2. c.before = before[a] /\ c.after = after[a]
        OBVIOUS
      <4> QED
        BY <4>1, <4>2 DEF SerialInv, OwnChanges
    <3> QED
      BY <3>1, <3>2 DEF FinishSubmit
  <2> QED
    BY <2>1, <2>2 DEF OwnChanges
<1> QED
  BY <1>3, <1>4, <1>5 DEF SerialInv

\* User edits, rollbacks and restores run when nothing else does.
LEMMA UserSerial ==
  ASSUME TypeInv, SerialInv, (\E p \in Paths : UserEdit(p)) \/ (\E i : Rollback(i)) \/ Restore
  PROVE  SerialInv'
<1>1. /\ Quiet
      /\ UNCHANGED <<checkout, base, pc, plan, before, after, seen>>
      /\ changes' = changes \/ \E S, n : changes' = Marked(S, n)
  BY DEF UserEdit, Rollback, Restore
<1>2. ASSUME NEW i \in DOMAIN changes'
      PROVE  i \in DOMAIN changes /\ changes'[i].before = changes[i].before
                                  /\ changes'[i].after = changes[i].after
  <2>1. CASE changes' = changes
    BY <2>1
  <2>2. ASSUME NEW S, NEW n, changes' = Marked(S, n)
        PROVE  i \in DOMAIN changes /\ changes'[i].before = changes[i].before
                                    /\ changes'[i].after = changes[i].after
    <3>1. i \in DOMAIN changes /\ changes[i] \in ChangeRecords
      BY <2>2 DEF Marked, TypeInv
    <3>2. changes'[i] = IF i \in S THEN [changes[i] EXCEPT !.rolled = n] ELSE changes[i]
      BY <2>2, <3>1 DEF Marked
    <3> QED
      BY <3>1, <3>2 DEF ChangeRecords
  <2> QED
    BY <1>1, <2>1, <2>2
<1> QED
  BY <1>1, <1>2, QuietSerial

LEMMA SerialStep ==
  ASSUME Serial, SyncAfterSubmit
  PROVE  TypeInv /\ SerialInv /\ [Next]_vars => SerialInv'
<1> SUFFICES ASSUME TypeInv, SerialInv, [Next]_vars PROVE SerialInv'
  OBVIOUS
<1>1. CASE \E a \in Agents : CopyCheckout(a) \/ CopyBase(a) \/ PlanSubmit(a) \/ FinishSubmit(a)
  BY <1>1, CopySerial, CopyBaseSerial, PlanSerial, FinishSerial
<1>2. CASE \E a \in Agents, p \in Paths : Edit(a, p) \/ ApplyChange(a, p)
  BY <1>2, EditSerial, ApplySerial
<1>3. CASE (\E p \in Paths : UserEdit(p)) \/ (\E i \in DOMAIN changes : Rollback(i)) \/ Restore
  BY <1>3, UserSerial
<1>4. CASE UNCHANGED vars
  BY <1>4 DEF vars, SerialInv, OneBusy, Copied, BaseSeen, Planned, ResolvedAt, OwnDiff, OwnChanges
<1> QED
  BY <1>1, <1>2, <1>3, <1>4 DEF Next

LEMMA SerialHolds == ASSUME Serial, SyncAfterSubmit PROVE Spec => []SerialInv
<1>1. TypeInv /\ SerialInv /\ [Next]_vars => SerialInv'
  BY SerialStep
<1> QED
  BY <1>1, InitSerial, TypeHolds, PTL DEF Spec

\* A checkout differs from its base in the agent's own work only, for any
\* number of agents, files and edits.
THEOREM OwnWorkAlways == ASSUME Serial, SyncAfterSubmit PROVE Spec => []OwnWork
<1>1. SerialInv => OwnWork
  BY DEF SerialInv, OwnDiff, OwnWork
<1> QED
  BY <1>1, SerialHolds, PTL

\* A submit replaces nothing that its agent has not had in its checkout.
THEOREM NoSilentOverwriteAlways ==
  ASSUME Serial, SyncAfterSubmit PROVE Spec => NoSilentOverwrite
<1> DEFINE A == \A a \in Agents, p \in Paths :
                  ApplyChange(a, p) => Held(target, p) \ Held(target', p) \subseteq seen[a]
<1>1. TypeInv /\ SerialInv /\ [Next]_vars => [A]_vars
  BY ApplyMerges
<1> QED
  BY <1>1, SerialHolds, TypeHolds, PTL DEF Spec, NoSilentOverwrite

-----------------------------------------------------------------------------
(***************************************************************************)
(* Rollbacks.                                                              *)
(***************************************************************************)

\* In a chain of images without a gap, what the last changeset left and the
\* first one did not find was added by a changeset between them.  The earliest
\* changeset that left it added it: the one before did not leave it to find.
LEMMA AddedOnTheWay ==
  ASSUME TypeInv, SerialInv, NEW S, S \subseteq DOMAIN changes, NEW p \in Paths,
         Touching(S, p) # {}, Linked(S, p),
         NEW h \in At(p, changes[Last(Touching(S, p))].after[p])
                   \ At(p, changes[First(Touching(S, p))].before[p])
  PROVE  h[3] \in Edits
<1> DEFINE T == Touching(S, p)
           n == Len(changes)
           Leaves == {i \in T : h \in At(p, changes[i].after[p])}
<1>1. /\ n \in Nat /\ T \subseteq 1..n
      /\ First(T) \in T /\ \A j \in T : First(T) <= j
      /\ Last(T) \in T
  BY TouchingEnds DEF TypeInv
<1>2. Leaves \subseteq 1..n /\ Last(T) \in Leaves
  BY <1>1
<1>3. PICK k \in Leaves : \A j \in Leaves : k <= j
  <2> HIDE DEF Leaves, T, n
  <2> QED
    BY <1>1, <1>2, LeastExists
<1>4. k \in T /\ k \in DOMAIN changes /\ p \in DOMAIN changes[k].after
  BY DEF Touching
<1>5. h \notin At(p, changes[k].before[p])
  <2>1. CASE k = First(T)
    BY <2>1
  <2>2. CASE k # First(T)
    <3> DEFINE U == {j \in T : j < k}
    <3>1. U \subseteq 1..n /\ First(T) \in U
      BY <1>1, <1>4, <2>2
    <3>2. PICK m \in U : \A j \in U : j <= m
      <4> HIDE DEF U, T, n
      <4> QED
        BY <1>1, <3>1, GreatestExists
    <3>3. m \in T /\ m < k /\ m \in Nat /\ k \in Nat
      BY <1>1, <1>4, <3>2
    <3>4. Consecutive(T, m, k)
      <4>1. ASSUME NEW j \in T, m < j, j < k PROVE FALSE
        <5>1. j \in U /\ j \in Nat
          BY <1>1, <4>1
        <5>2. j <= m
          BY <5>1, <3>2
        <5> QED
          BY <3>3, <4>1, <5>1, <5>2
      <4> QED
        BY <3>3, <4>1 DEF Consecutive
    <3>5. changes[m].after[p] = changes[k].before[p]
      BY <1>4, <3>3, <3>4 DEF Linked
    <3>6. m \notin Leaves
      <4>1. m \in Leaves => k <= m
        BY <1>3
      <4> QED
        BY <3>3, <4>1
    <3> QED
      BY <3>3, <3>5, <3>6
  <2> QED
    BY <2>1, <2>2
<1>6. h \in Held(changes[k].after, p) \ Held(changes[k].before, p)
  BY <1>5, HeldAt
<1> QED
  BY <1>4, <1>6 DEF SerialInv, OwnChanges, Agentic

LEMMA RollbackTakesEdits ==
  ASSUME TypeInv, SerialInv, NEW i \in DOMAIN changes, Rollback(i),
         NEW h \in HeldIn(target) \ HeldIn(target')
  PROVE  h[3] \in Edits
<1> DEFINE S == {j \in Accepted : i <= j}
<1>1. S \subseteq DOMAIN changes /\ Undoable(S) /\ target' = Undo(S)
  BY DEF Rollback, Accepted
<1> HIDE DEF S
<1>2. PICK p \in Paths : h \in Held(target, p) /\ h \notin Held(target', p)
  BY DEF HeldIn
<1>3. h \in At(p, target[p]) /\ h \notin At(p, target'[p])
  BY <1>2, HeldAt
<1>4. Touching(S, p) # {}
  BY <1>1, <1>3 DEF Undo
<1>5. /\ target'[p] = changes[First(Touching(S, p))].before[p]
      /\ target[p] = changes[Last(Touching(S, p))].after[p]
      /\ Linked(S, p)
  BY <1>1, <1>4 DEF Undo, Undoable
<1> QED
  BY <1>1, <1>3, <1>4, <1>5, AddedOnTheWay

\* Whatever changesets a rollback undoes and however often they were rolled
\* back and restored before, it takes only agents' work from the target.
THEOREM RollbackKeepsUserWorkAlways ==
  ASSUME Serial, SyncAfterSubmit PROVE Spec => RollbackKeepsUserWork
<1> DEFINE A == \A i \in DOMAIN changes : Rollback(i) =>
                  \A h \in HeldIn(target) \ HeldIn(target') : h[3] \notin UserEdits
<1>1. TypeInv /\ SerialInv /\ [Next]_vars => [A]_vars
  BY RollbackTakesEdits, VcsAssumption DEF VcsAssumption
<1> QED
  BY <1>1, SerialHolds, TypeHolds, PTL DEF Spec, RollbackKeepsUserWork

-----------------------------------------------------------------------------
(***************************************************************************)
(* What a rollback took away stays away.  A version enters the project in  *)
(* one changeset only, as its agent's unpublished work, and a changeset    *)
(* that found a version there is rolled back no later than the one that    *)
(* added it.                                                               *)
(***************************************************************************)

\* What a change from b to c finds at path p, adds to it, and speaks of at all.
Finds(b, c, p) == IF p \in DOMAIN c THEN At(p, b[p]) ELSE {}
Adds(b, c, p) == IF p \in DOMAIN c THEN At(p, c[p]) \ At(p, b[p]) ELSE {}
Both(b, c, p) == IF p \in DOMAIN c THEN At(p, b[p]) \cup At(p, c[p]) ELSE {}

Found(i, p) == Finds(changes[i].before, changes[i].after, p)
Added(i, p) == Adds(changes[i].before, changes[i].after, p)
Images(i, p) == Both(changes[i].before, changes[i].after, p)

Used(X) == \A h \in X : h[3] \in used \cup {Original}

\* No place holds a version before it is written.
AllUsed ==
  \A p \in Paths :
    /\ Used(Held(target, p))
    /\ \A a \in Agents : Used(Held(checkout[a], p)) /\ Used(Both(before[a], after[a], p))
    /\ \A i \in DOMAIN changes : Used(Images(i, p))

Idle == \A a \in Agents : pc[a] # "applying" => DOMAIN after[a] = {}

\* Neither the project nor an image has any of X.
New(X, p) ==
  /\ X \cap Held(target, p) = {}
  /\ \A a \in Agents : X \cap Both(before[a], after[a], p) = {}
  /\ \A i \in DOMAIN changes : X \cap Images(i, p) = {}

\* The agent's own work in a checkout is nowhere else until it is submitted.
Unpublished ==
  \A a \in Agents : \A p \in Paths :
    pc[a] = "ready" \/ (pc[a] = "applying" /\ p \in DOMAIN plan[a]) =>
      New(Held(checkout[a], p) \ Held(base[a], p), p)

AddedOnce ==
  \A p \in Paths : \A i \in DOMAIN changes :
    /\ \A j \in DOMAIN changes :
         /\ Added(i, p) \cap Found(j, p) # {} => i < j
         /\ Added(i, p) \cap Added(j, p) # {} => i = j
    /\ \A a \in Agents : Adds(before[a], after[a], p) \cap Images(i, p) = {}

\* What found the work of a changeset that is rolled back is rolled back as well,
\* by the same rollback or an earlier one; the project has none of that work.
BuiltOn ==
  \A p \in Paths : \A k \in DOMAIN changes : changes[k].rolled # 0 =>
    /\ \A i \in DOMAIN changes : Added(k, p) \cap Found(i, p) # {} =>
         changes[i].rolled # 0 /\ changes[i].rolled <= changes[k].rolled
    /\ \A a \in Agents : Added(k, p) \cap Finds(before[a], after[a], p) = {}
    /\ Added(k, p) \cap Held(target, p) = {}

GoneInv == AllUsed /\ Idle /\ Unpublished /\ AddedOnce /\ BuiltOn

LEMMA ChangeSplits ==
  \A b, c, p : /\ Both(b, c, p) = Finds(b, c, p) \cup Adds(b, c, p)
               /\ Finds(b, c, p) \cap Adds(b, c, p) = {}
               /\ DOMAIN c = {} => Both(b, c, p) = {} /\ Finds(b, c, p) = {} /\ Adds(b, c, p) = {}
  BY DEF Both, Finds, Adds

LEMMA ImagesSplit ==
  \A i, p : /\ Images(i, p) = Found(i, p) \cup Added(i, p)
            /\ Found(i, p) \cap Added(i, p) = {}
  BY ChangeSplits DEF Images, Found, Added

LEMMA InitGone == Init => GoneInv
<1> SUFFICES ASSUME Init PROVE GoneInv
  OBVIOUS
<1>1. /\ DOMAIN changes = {}
      /\ \A a \in Agents : before[a] = Nowhere /\ after[a] = Nowhere /\ pc[a] = "none"
  BY DEF Init
<1>2. \A a \in Agents : \A p : Both(before[a], after[a], p) = {}
  BY <1>1, NowhereType, ChangeSplits
<1>3. ASSUME NEW p \in Paths
      PROVE  Used(Held(target, p)) /\ \A a \in Agents : Used(Held(checkout[a], p))
  <2>1. \A h \in At(p, [r \in Regions |-> Original]) : h[3] = Original
    BY DEF At
  <2>2. At(p, Missing) = {}
    BY DEF At
  <2>3. \A h \in Held(target, p) : h[3] = Original
    BY <2>1, <2>2, HeldAt DEF Init
  <2>4. \A a \in Agents : Held(checkout[a], p) = {}
    BY <2>2, HeldAt DEF Init
  <2> QED
    BY <2>3, <2>4 DEF Used
<1>4. AllUsed
  BY <1>1, <1>2, <1>3 DEF AllUsed, Used
<1> QED
  BY <1>1, <1>4, NowhereType DEF GoneInv, Idle, Unpublished, AddedOnce, BuiltOn

\* Checkouts, syncs, plans and edits change no image and not the project.
LEMMA ImagesStay ==
  ASSUME UNCHANGED <<target, before, after, changes>>
  PROVE  /\ AddedOnce => AddedOnce'
         /\ BuiltOn => BuiltOn'
<1>1. \A i, p : /\ Images(i, p)' = Images(i, p) /\ Added(i, p)' = Added(i, p)
                /\ Found(i, p)' = Found(i, p)
  BY DEF Images, Added, Found, Both, Adds, Finds
<1>2. AddedOnce => AddedOnce'
  BY <1>1 DEF AddedOnce
<1>3. BuiltOn => BuiltOn'
  BY <1>1 DEF BuiltOn, Held
<1> QED
  BY <1>2, <1>3

LEMMA InScopeHolds ==
  ASSUME NEW a \in Agents, NEW tree, NEW p \in Paths
  PROVE  Held(InScope(a, tree), p) \subseteq Held(tree, p)
  BY DEF Held, InScope

LEMMA CopyGone ==
  ASSUME TypeInv, SerialInv, GoneInv, NEW a \in Agents, CopyCheckout(a) \/ CopyBase(a)
  PROVE  GoneInv'
<1>1. /\ UNCHANGED <<target, before, after, changes, plan, used>>
      /\ pc[a] # "applying" /\ pc'[a] # "applying"
      /\ \A b \in Agents : b # a =>
           pc'[b] = pc[b] /\ checkout'[b] = checkout[b] /\ base'[b] = base[b]
  BY DEF CopyCheckout, CopyBase, Free, Resting, TypeInv, TypeOK
<1>2. AddedOnce' /\ BuiltOn'
  BY <1>1, ImagesStay DEF GoneInv
<1>3. Idle'
  BY <1>1 DEF GoneInv, Idle
<1>4. AllUsed'
  <2>1. \A p \in Paths : \A h \in Held(checkout'[a], p) :
          h \in Held(checkout[a], p) \cup Held(target, p)
    <3>1. CASE CopyCheckout(a)
      <4>1. checkout'[a] = InScope(a, target)
        BY <3>1 DEF CopyCheckout, TypeInv, TypeOK
      <4> QED
        BY <4>1, InScopeHolds
    <3>2. CASE CopyBase(a)
      BY <3>2 DEF CopyBase
    <3> QED
      BY <3>1, <3>2
  <2>2. ASSUME NEW b \in Agents, NEW p \in Paths, NEW h \in Held(checkout'[b], p)
        PROVE  h[3] \in used \cup {Original}
    <3>1. CASE b = a
      BY <2>1, <3>1 DEF GoneInv, AllUsed, Used
    <3>2. CASE b # a
      BY <1>1, <3>2 DEF GoneInv, AllUsed, Used
    <3> QED
      BY <3>1, <3>2
  <2> QED
    BY <1>1, <2>2 DEF GoneInv, AllUsed, Used, Images, Both, Held
<1>5. Unpublished'
  <2> SUFFICES ASSUME NEW b \in Agents, NEW p \in Paths,
                      pc'[b] = "ready" \/ (pc'[b] = "applying" /\ p \in DOMAIN plan'[b])
               PROVE  New(Held(checkout'[b], p) \ Held(base'[b], p), p)
    BY <1>1 DEF Unpublished, New, Held, Images, Both
  <2>1. CASE b # a
    BY <1>1, <2>1 DEF GoneInv, Unpublished
  <2>2. CASE b = a
    <3>1. CopyBase(a)
      BY <1>1, <2>2 DEF CopyCheckout, TypeInv, TypeOK
    <3>2. base'[a] = checkout[a] /\ checkout'[a] = checkout[a]
      BY <3>1 DEF CopyBase, SerialInv, Copied, TypeInv, TypeOK
    <3>3. Held(checkout'[a], p) \ Held(base'[a], p) = {}
      BY <3>2
    <3> QED
      BY <2>2, <3>3 DEF New
  <2> QED
    BY <2>1, <2>2
<1> QED
  BY <1>2, <1>3, <1>4, <1>5 DEF GoneInv

LEMMA PlanGone ==
  ASSUME TypeInv, GoneInv, NEW a \in Agents, PlanSubmit(a)
  PROVE  GoneInv'
<1>1. /\ UNCHANGED <<target, checkout, base, before, after, changes, used>>
      /\ pc[a] = "ready" /\ pc'[a] = "applying"
      /\ \A b \in Agents : b # a => pc'[b] = pc[b] /\ plan'[b] = plan[b]
  BY DEF PlanSubmit, TypeInv, TypeOK
<1>2. AddedOnce' /\ BuiltOn'
  BY <1>1, ImagesStay DEF GoneInv
<1>3. Idle' /\ AllUsed'
  BY <1>1 DEF GoneInv, Idle, AllUsed, Used, Images, Both, Held
<1>4. Unpublished'
  <2> SUFFICES ASSUME NEW b \in Agents, NEW p \in Paths,
                      pc'[b] = "ready" \/ (pc'[b] = "applying" /\ p \in DOMAIN plan'[b])
               PROVE  New(Held(checkout[b], p) \ Held(base[b], p), p)
    BY <1>1 DEF Unpublished, New, Held, Images, Both
  <2> QED
    BY <1>1 DEF GoneInv, Unpublished
<1> QED
  BY <1>2, <1>3, <1>4 DEF GoneInv

\* A version that nobody has written yet is nowhere.
LEMMA UnwrittenIsNew ==
  ASSUME AllUsed, NEW p \in Paths, NEW v, v \notin used, v # Original,
         NEW X, \A h \in X : h[3] = v
  PROVE  New(X, p)
  BY DEF AllUsed, New, Used

LEMMA EditGone ==
  ASSUME TypeInv, GoneInv, NEW a \in Agents, NEW p \in Paths, Edit(a, p)
  PROVE  GoneInv'
<1>1. /\ UNCHANGED <<target, base, pc, plan, before, after, changes>>
      /\ pc[a] = "ready"
  BY DEF Edit
<1>2. PICK v \in Work[a] \ used :
        /\ used' = used \cup {v}
        /\ \/ \E r \in Regions : checkout' = [checkout EXCEPT ![a][p] = Edited(@, r, v)]
           \/ checkout' = [checkout EXCEPT ![a][p] = Missing]
  BY DEF Edit
<1>3. \E c : /\ checkout' = [checkout EXCEPT ![a][p] = c]
             /\ \A h \in At(p, c) \ At(p, checkout[a][p]) : h[3] = v
  <2>1. At(p, Missing) = {}
    BY DEF At
  <2> QED
    BY <1>2, <2>1, EditedHolds
<1>4. PICK c : /\ checkout' = [checkout EXCEPT ![a][p] = c]
               /\ \A h \in At(p, c) \ At(p, checkout[a][p]) : h[3] = v
  BY <1>3
<1>5. \A b \in Agents : \A q \in Paths :
        checkout'[b][q] = IF b = a /\ q = p THEN c ELSE checkout[b][q]
  BY <1>4 DEF TypeInv, TypeOK, Trees
<1>6. \A b \in Agents : \A q \in Paths : \A h \in Held(checkout'[b], q) :
        h \in Held(checkout[b], q) \/ (b = a /\ q = p /\ h[3] = v)
  <2> SUFFICES ASSUME NEW b \in Agents, NEW q \in Paths
               PROVE  \A h \in Held(checkout'[b], q) :
                        h \in Held(checkout[b], q) \/ (b = a /\ q = p /\ h[3] = v)
    OBVIOUS
  <2>1. CASE b = a /\ q = p
    <3>1. Held(checkout'[b], q) = At(p, c) /\ Held(checkout[b], q) = At(p, checkout[a][p])
      BY <1>5, <2>1, HeldAt
    <3> QED
      BY <1>4, <2>1, <3>1
  <2>2. CASE ~(b = a /\ q = p)
    BY <1>5, <2>2 DEF Held
  <2> QED
    BY <2>1, <2>2
<1>7. v # Original
  BY <1>2, VcsAssumption, VersionKinds DEF VcsAssumption
<1>8. AddedOnce' /\ BuiltOn'
  BY <1>1, ImagesStay DEF GoneInv
<1>9. Idle'
  BY <1>1 DEF GoneInv, Idle
<1>10. AllUsed'
  BY <1>1, <1>2, <1>6 DEF GoneInv, AllUsed, Used, Images, Both, Held
<1>11. Unpublished'
  <2> SUFFICES ASSUME NEW b \in Agents, NEW q \in Paths,
                      pc[b] = "ready" \/ (pc[b] = "applying" /\ q \in DOMAIN plan[b])
               PROVE  New(Held(checkout'[b], q) \ Held(base[b], q), q)
    BY <1>1 DEF Unpublished, New, Held, Images, Both
  <2> DEFINE W == {h \in Held(checkout'[b], q) : h[3] = v}
             X == Held(checkout[b], q) \ Held(base[b], q)
  <2>1. Held(checkout'[b], q) \ Held(base[b], q) \subseteq X \cup W
    BY <1>6
  <2>2. New(X, q)
    BY DEF GoneInv, Unpublished
  <2>3. New(W, q)
    <3>1. \A h \in W : h[3] = v
      OBVIOUS
    <3> HIDE DEF W
    <3> QED
      BY <1>2, <1>7, <3>1, UnwrittenIsNew DEF GoneInv
  <2> HIDE DEF W, X
  <2> QED
    BY <2>1, <2>2, <2>3 DEF New
<1> QED
  BY <1>8, <1>9, <1>10, <1>11 DEF GoneInv

LEMMA ApplyChanges ==
  ASSUME TypeInv, SerialInv, NEW a \in Agents, NEW p \in Paths, ApplyChange(a, p)
  PROVE  LET A == Held(target', p) \ Held(target, p) IN
         /\ A \subseteq Held(checkout[a], p) \ Held(base[a], p)
         /\ \A h \in A : h[3] \in Work[a]
         /\ \A q \in Paths : q # p => Held(target', q) = Held(target, q)
         /\ \A b \in Agents : \A q \in Paths :
              IF b = a /\ q = p
              THEN /\ Finds(before'[b], after'[b], q) = Held(target, p)
                   /\ Adds(before'[b], after'[b], q) = A
                   /\ Both(before'[b], after'[b], q) = Held(target, p) \cup Held(target', p)
              ELSE /\ Finds(before'[b], after'[b], q) = Finds(before[b], after[b], q)
                   /\ Adds(before'[b], after'[b], q) = Adds(before[b], after[b], q)
                   /\ Both(before'[b], after'[b], q) = Both(before[b], after[b], q)
         /\ \A b \in Agents : b # a => after'[b] = after[b]
         /\ \A q \in DOMAIN plan'[a] : q \in DOMAIN plan[a] /\ q # p
<1>1. /\ before'[a] = With(before[a], p, target[p]) /\ after'[a] = With(after[a], p, plan[a][p])
      /\ plan'[a] = Without(plan[a], p)
      /\ \A b \in Agents : b # a => before'[b] = before[b] /\ after'[b] = after[b]
  BY DEF ApplyChange, TypeInv, TypeOK
<1>2. \A q \in Paths : target'[q] = IF q = p THEN plan[a][p] ELSE target[q]
  BY DEF ApplyChange, TypeInv, TypeOK, Trees
<1>3. /\ DOMAIN after'[a] = DOMAIN after[a] \cup {p}
      /\ \A q \in DOMAIN after'[a] :
           /\ after'[a][q] = IF q = p THEN plan[a][p] ELSE after[a][q]
           /\ before'[a][q] = IF q = p THEN target[p] ELSE before[a][q]
  <2>1. DOMAIN before[a] = DOMAIN after[a]
    BY DEF TypeInv
  <2> QED
    BY <1>1, <2>1 DEF With
<1>4. \A q \in Paths : q # p => Held(target', q) = Held(target, q)
  BY <1>2 DEF Held
<1>5. Held(target', p) = At(p, plan[a][p]) /\ Held(target, p) = At(p, target[p])
  BY <1>2, HeldAt
<1>6. ASSUME NEW b \in Agents, NEW q \in Paths, b = a, q = p
      PROVE  /\ Finds(before'[b], after'[b], q) = Held(target, p)
             /\ Adds(before'[b], after'[b], q) = Held(target', p) \ Held(target, p)
             /\ Both(before'[b], after'[b], q) = Held(target, p) \cup Held(target', p)
  BY <1>3, <1>5, <1>6 DEF Finds, Adds, Both
<1>7. ASSUME NEW b \in Agents, NEW q \in Paths, ~(b = a /\ q = p)
      PROVE  /\ Finds(before'[b], after'[b], q) = Finds(before[b], after[b], q)
             /\ Adds(before'[b], after'[b], q) = Adds(before[b], after[b], q)
             /\ Both(before'[b], after'[b], q) = Both(before[b], after[b], q)
  <2>1. CASE b # a
    BY <1>1, <2>1
  <2>2. CASE b = a
    <3>1. /\ q \in DOMAIN after'[a] <=> q \in DOMAIN after[a]
          /\ q \in DOMAIN after[a] => after'[a][q] = after[a][q] /\ before'[a][q] = before[a][q]
      BY <1>3, <1>7, <2>2
    <3> QED
      BY <2>2, <3>1 DEF Finds, Adds, Both
  <2> QED
    BY <2>1, <2>2
<1>8. \A q \in DOMAIN plan'[a] : q \in DOMAIN plan[a] /\ q # p
  BY <1>1 DEF Without
<1> QED
  BY <1>1, <1>4, <1>6, <1>7, <1>8, ApplyMerges

\* Writing a file publishes its agent's work, which was nowhere before.
LEMMA ApplyGone ==
  ASSUME TypeInv, SerialInv, GoneInv, NEW a \in Agents, NEW p \in Paths, ApplyChange(a, p)
  PROVE  GoneInv'
<1> DEFINE A == Held(target', p) \ Held(target, p)
<1>1. /\ pc[a] = "applying" /\ p \in DOMAIN plan[a]
      /\ UNCHANGED <<checkout, base, pc, changes, used>>
      /\ \A b \in Agents : b # a => plan'[b] = plan[b]
  BY DEF ApplyChange, TypeInv, TypeOK
<1>2. /\ A \subseteq Held(checkout[a], p) \ Held(base[a], p)
      /\ \A h \in A : h[3] \in Work[a]
      /\ \A q \in Paths : q # p => Held(target', q) = Held(target, q)
      /\ \A b \in Agents : b # a => after'[b] = after[b]
      /\ \A q \in DOMAIN plan'[a] : q \in DOMAIN plan[a] /\ q # p
  BY ApplyChanges
<1>3. \A b \in Agents : \A q \in Paths :
        IF b = a /\ q = p
        THEN /\ Finds(before'[b], after'[b], q) = Held(target, p)
             /\ Adds(before'[b], after'[b], q) = A
             /\ Both(before'[b], after'[b], q) = Held(target, p) \cup Held(target', p)
        ELSE /\ Finds(before'[b], after'[b], q) = Finds(before[b], after[b], q)
             /\ Adds(before'[b], after'[b], q) = Adds(before[b], after[b], q)
             /\ Both(before'[b], after'[b], q) = Both(before[b], after[b], q)
  BY ApplyChanges
<1>4. Held(target', p) \subseteq Held(target, p) \cup A
  OBVIOUS
<1>5. New(A, p)
  <2>1. New(Held(checkout[a], p) \ Held(base[a], p), p)
    BY <1>1 DEF GoneInv, Unpublished
  <2> HIDE DEF A
  <2> QED
    BY <1>2, <2>1 DEF New
<1>6. \A i, q : /\ Images(i, q)' = Images(i, q) /\ Added(i, q)' = Added(i, q)
                /\ Found(i, q)' = Found(i, q)
  BY <1>1 DEF Images, Added, Found, Both, Adds, Finds
<1>7. \A b \in Agents : pc[b] \in Busy => b = a
  BY <1>1 DEF SerialInv, OneBusy, Busy
<1>8. Used(Held(target', p))
  <2>1. Used(Held(target, p)) /\ Used(Held(checkout[a], p))
    BY DEF GoneInv, AllUsed
  <2> QED
    BY <1>2, <2>1 DEF Used
<1> HIDE DEF A
<1>9. AllUsed'
  <2>1. ASSUME NEW q \in Paths
        PROVE  Used(Held(target', q)) /\ \A b \in Agents : Used(Both(before'[b], after'[b], q))
    <3>1. Used(Held(target, q)) /\ \A b \in Agents : Used(Both(before[b], after[b], q))
      BY DEF GoneInv, AllUsed
    <3>2. Used(Held(target', q))
      BY <1>2, <1>8, <3>1
    <3>3. ASSUME NEW b \in Agents PROVE Used(Both(before'[b], after'[b], q))
      <4>1. CASE b = a /\ q = p
        BY <1>3, <1>8, <3>1, <4>1 DEF Used
      <4>2. CASE ~(b = a /\ q = p)
        BY <1>3, <3>1, <4>2
      <4> QED
        BY <4>1, <4>2
    <3> QED
      BY <3>2, <3>3
  <2> QED
    BY <1>1, <1>6, <2>1 DEF GoneInv, AllUsed, Used, Held
<1>10. Idle'
  BY <1>1, <1>2 DEF GoneInv, Idle
<1>11. Unpublished'
  <2> SUFFICES ASSUME NEW b \in Agents, NEW q \in Paths,
                      pc[b] = "ready" \/ (pc[b] = "applying" /\ q \in DOMAIN plan'[b])
               PROVE  New(Held(checkout[b], q) \ Held(base[b], q), q)'
    BY <1>1 DEF Unpublished, New, Held
  <2> DEFINE X == Held(checkout[b], q) \ Held(base[b], q)
  <2>1. New(X, q)
    BY <1>1, <1>2 DEF GoneInv, Unpublished
  <2>2. X \cap Held(target', q) = {}
    <3>1. CASE q # p
      BY <1>2, <2>1, <3>1 DEF New
    <3>2. CASE q = p
      <4>1. b # a
        BY <1>1, <1>2, <3>2
      <4>2. \A h \in X : h[3] \in Work[b]
        BY DEF SerialInv, OwnDiff
      <4>3. \A h \in A : h \notin X
        BY <1>2, <4>1, <4>2, VcsAssumption DEF VcsAssumption
      <4> QED
        BY <1>4, <2>1, <3>2, <4>3 DEF New
    <3> QED
      BY <3>1, <3>2
  <2>3. \A d \in Agents : X \cap Both(before'[d], after'[d], q) = {}
    <3> TAKE d \in Agents
    <3>1. CASE d = a /\ q = p
      BY <1>3, <2>1, <2>2, <3>1 DEF New
    <3>2. CASE ~(d = a /\ q = p)
      BY <1>3, <2>1, <3>2 DEF New
    <3> QED
      BY <3>1, <3>2
  <2>4. \A i \in DOMAIN changes' : X \cap Images(i, q)' = {}
    BY <1>1, <1>6, <2>1 DEF New
  <2> QED
    BY <1>1, <2>2, <2>3, <2>4 DEF New, Held
<1>12. AddedOnce'
  <2>1. ASSUME NEW q \in Paths, NEW i \in DOMAIN changes, NEW b \in Agents
        PROVE  Adds(before'[b], after'[b], q) \cap Images(i, q) = {}
    <3>1. CASE b = a /\ q = p
      BY <1>3, <1>5, <3>1 DEF New
    <3>2. CASE ~(b = a /\ q = p)
      BY <1>3, <3>2 DEF GoneInv, AddedOnce
    <3> QED
      BY <3>1, <3>2
  <2> QED
    BY <1>1, <1>6, <2>1 DEF GoneInv, AddedOnce
<1>13. BuiltOn'
  <2>1. ASSUME NEW q \in Paths, NEW k \in DOMAIN changes, changes[k].rolled # 0
        PROVE  /\ \A b \in Agents : Added(k, q) \cap Finds(before'[b], after'[b], q) = {}
               /\ Added(k, q) \cap Held(target', q) = {}
    <3>1. /\ \A b \in Agents : Added(k, q) \cap Finds(before[b], after[b], q) = {}
          /\ Added(k, q) \cap Held(target, q) = {}
      BY <2>1 DEF GoneInv, BuiltOn
    <3>2. ASSUME NEW b \in Agents PROVE Added(k, q) \cap Finds(before'[b], after'[b], q) = {}
      <4>1. CASE b = a /\ q = p
        BY <1>3, <3>1, <4>1
      <4>2. CASE ~(b = a /\ q = p)
        BY <1>3, <3>1, <4>2
      <4> QED
        BY <4>1, <4>2
    <3>3. Added(k, q) \cap Held(target', q) = {}
      <4>1. CASE q = p
        BY <1>4, <1>5, <3>1, <4>1, ImagesSplit DEF New
      <4>2. CASE q # p
        BY <1>2, <3>1, <4>2
      <4> QED
        BY <4>1, <4>2
    <3> QED
      BY <3>2, <3>3
  <2> QED
    BY <1>1, <1>6, <2>1 DEF GoneInv, BuiltOn, Held
<1> QED
  BY <1>9, <1>10, <1>11, <1>12, <1>13 DEF GoneInv

\* A finished submit is archived as it was made, and not rolled back.
LEMMA FinishGone ==
  ASSUME SyncAfterSubmit, TypeInv, SerialInv, GoneInv, NEW a \in Agents, FinishSubmit(a)
  PROVE  GoneInv'
<1> DEFINE c == [before |-> before[a], after |-> after[a], rolled |-> 0]
           n == Len(changes) + 1
<1>1. /\ pc[a] = "applying" /\ pc'[a] = "stale"
      /\ before'[a] = Nowhere /\ after'[a] = Nowhere
      /\ UNCHANGED <<target, checkout, plan, used>>
      /\ \A b \in Agents : b # a =>
           /\ pc'[b] = pc[b] /\ base'[b] = base[b]
           /\ before'[b] = before[b] /\ after'[b] = after[b]
      /\ changes' = changes \/ changes' = Append(changes, c)
  BY DEF FinishSubmit, TypeInv, TypeOK
<1>2. \A i \in DOMAIN changes' :
        \/ i \in DOMAIN changes /\ changes'[i] = changes[i] /\ i < n
        \/ i = n /\ changes'[i] = c
  BY <1>1 DEF TypeInv
<1>3. \A i \in DOMAIN changes' : \A p :
        /\ i # n => /\ i \in DOMAIN changes /\ changes'[i].rolled = changes[i].rolled /\ i < n
                    /\ Images(i, p)' = Images(i, p) /\ Added(i, p)' = Added(i, p)
                    /\ Found(i, p)' = Found(i, p)
        /\ i = n => /\ changes'[i].rolled = 0
                    /\ Images(i, p)' = Both(before[a], after[a], p)
                    /\ Added(i, p)' = Adds(before[a], after[a], p)
                    /\ Found(i, p)' = Finds(before[a], after[a], p)
  <2> SUFFICES ASSUME NEW i \in DOMAIN changes', NEW p
               PROVE  /\ i # n => /\ i \in DOMAIN changes
                                  /\ changes'[i].rolled = changes[i].rolled /\ i < n
                                  /\ Images(i, p)' = Images(i, p) /\ Added(i, p)' = Added(i, p)
                                  /\ Found(i, p)' = Found(i, p)
                      /\ i = n => /\ changes'[i].rolled = 0
                                  /\ Images(i, p)' = Both(before[a], after[a], p)
                                  /\ Added(i, p)' = Adds(before[a], after[a], p)
                                  /\ Found(i, p)' = Finds(before[a], after[a], p)
    OBVIOUS
  <2>1. CASE i # n
    <3>1. i \in DOMAIN changes /\ changes'[i] = changes[i] /\ i < n
      BY <1>2, <2>1
    <3> QED
      BY <2>1, <3>1 DEF Images, Added, Found
  <2>2. CASE i = n
    <3>1. /\ changes'[i].before = before[a] /\ changes'[i].after = after[a]
          /\ changes'[i].rolled = 0
      BY <1>2, <2>2
    <3> HIDE DEF c, n
    <3> QED
      BY <2>2, <3>1 DEF Images, Added, Found
  <2> QED
    BY <2>1, <2>2
<1>4. \A b \in Agents : DOMAIN after'[b] = {}
  <2> TAKE b \in Agents
  <2>1. CASE b = a
    BY <1>1, <2>1, NowhereType
  <2>2. CASE b # a
    BY <1>1, <2>2 DEF GoneInv, Idle, SerialInv, OneBusy, Busy
  <2> QED
    BY <2>1, <2>2
<1>5. \A b \in Agents : \A p : /\ Both(before'[b], after'[b], p) = {}
                               /\ Finds(before'[b], after'[b], p) = {}
                               /\ Adds(before'[b], after'[b], p) = {}
  BY <1>4, ChangeSplits
<1> HIDE DEF c, n
<1>6. AllUsed'
  <2>1. ASSUME NEW p \in Paths, NEW i \in DOMAIN changes' PROVE Used(Images(i, p))'
    <3>1. \/ i \in DOMAIN changes /\ Images(i, p)' = Images(i, p)
          \/ Images(i, p)' = Both(before[a], after[a], p)
      BY <1>3
    <3> QED
      BY <1>1, <3>1 DEF GoneInv, AllUsed, Used
  <2>2. ASSUME NEW p \in Paths PROVE Used(Held(target, p))'
    BY <1>1 DEF GoneInv, AllUsed, Used, Held
  <2>3. ASSUME NEW p \in Paths, NEW b \in Agents
        PROVE  Used(Held(checkout[b], p))' /\ Used(Both(before[b], after[b], p))'
    <3>1. Used(Held(checkout[b], p))'
      BY <1>1 DEF GoneInv, AllUsed, Used, Held
    <3>2. Both(before[b], after[b], p)' = {}
      BY <1>5
    <3> QED
      BY <3>1, <3>2 DEF Used
  <2> QED
    BY <2>1, <2>2, <2>3 DEF AllUsed
<1>7. Idle'
  BY <1>4 DEF Idle
<1>8. Unpublished'
  <2> SUFFICES ASSUME NEW b \in Agents, NEW p \in Paths,
                      (pc[b] = "ready" \/ (pc[b] = "applying" /\ p \in DOMAIN plan[b]))'
               PROVE  New(Held(checkout[b], p) \ Held(base[b], p), p)'
    BY DEF Unpublished
  <2> DEFINE X == Held(checkout[b], p) \ Held(base[b], p)
  <2>1. b # a /\ base'[b] = base[b] /\ checkout'[b] = checkout[b]
    BY <1>1
  <2>2. New(X, p)
    BY <1>1, <2>1 DEF GoneInv, Unpublished
  <2>3. X \cap Held(target, p) = {}
    BY <2>2 DEF New
  <2>4. \A d \in Agents : X \cap Both(before'[d], after'[d], p) = {}
    BY <1>5
  <2>5. \A i \in DOMAIN changes' : X \cap Images(i, p)' = {}
    BY <1>3, <2>2 DEF New
  <2> QED
    <3>1. (Held(checkout[b], p) \ Held(base[b], p))' = X /\ Held(target, p)' = Held(target, p)
      BY <1>1, <2>1 DEF Held
    <3> HIDE DEF X
    <3> QED
      BY <2>3, <2>4, <2>5, <3>1 DEF New
<1>9. AddedOnce'
  <2>1. ASSUME NEW p \in Paths, NEW i \in DOMAIN changes', NEW j \in DOMAIN changes'
        PROVE  /\ Added(i, p)' \cap Found(j, p)' # {} => i < j
               /\ Added(i, p)' \cap Added(j, p)' # {} => i = j
    <3>1. \A k \in DOMAIN changes : Adds(before[a], after[a], p) \cap Images(k, p) = {}
      BY DEF GoneInv, AddedOnce
    <3>2. \A k : /\ Images(k, p) = Found(k, p) \cup Added(k, p)
                 /\ Found(k, p) \cap Added(k, p) = {}
      BY ImagesSplit
    <3>3. Finds(before[a], after[a], p) \cap Adds(before[a], after[a], p) = {}
      BY ChangeSplits
    <3>4. CASE i = n /\ j = n
      BY <1>3, <3>3, <3>4
    <3>5. CASE i # n /\ j # n
      BY <1>3, <3>5 DEF GoneInv, AddedOnce
    <3>6. CASE i = n /\ j # n
      <4>1. /\ j \in DOMAIN changes /\ Added(i, p)' = Adds(before[a], after[a], p)
            /\ Added(j, p)' = Added(j, p) /\ Found(j, p)' = Found(j, p)
        BY <1>3, <3>6
      <4> QED
        BY <3>1, <3>2, <4>1
    <3>7. CASE i # n /\ j = n
      <4>1. /\ i \in DOMAIN changes /\ i < n /\ Added(i, p)' = Added(i, p)
            /\ Added(j, p)' = Adds(before[a], after[a], p)
        BY <1>3, <3>7
      <4> QED
        BY <3>1, <3>2, <3>7, <4>1
    <3> QED
      BY <3>4, <3>5, <3>6, <3>7
  <2> QED
    BY <1>5, <2>1 DEF AddedOnce
<1>10. BuiltOn'
  <2>1. ASSUME NEW p \in Paths, NEW k \in DOMAIN changes', changes'[k].rolled # 0
        PROVE  /\ \A i \in DOMAIN changes' : Added(k, p)' \cap Found(i, p)' # {} =>
                    changes'[i].rolled # 0 /\ changes'[i].rolled <= changes'[k].rolled
               /\ Added(k, p)' \cap Held(target, p) = {}
    <3>1. /\ k \in DOMAIN changes /\ changes[k].rolled # 0
          /\ changes'[k].rolled = changes[k].rolled /\ Added(k, p)' = Added(k, p)
      BY <1>3, <2>1
    <3>2. /\ \A i \in DOMAIN changes : Added(k, p) \cap Found(i, p) # {} =>
               changes[i].rolled # 0 /\ changes[i].rolled <= changes[k].rolled
          /\ Added(k, p) \cap Finds(before[a], after[a], p) = {}
          /\ Added(k, p) \cap Held(target, p) = {}
      BY <3>1 DEF GoneInv, BuiltOn
    <3> QED
      BY <1>3, <3>1, <3>2
  <2> QED
    BY <1>1, <1>5, <2>1 DEF BuiltOn, Held
<1> QED
  BY <1>6, <1>7, <1>8, <1>9, <1>10 DEF GoneInv

\* The user writes straight into the project, and only what is new.
LEMMA UserGone ==
  ASSUME TypeInv, SerialInv, GoneInv, NEW p \in Paths, UserEdit(p)
  PROVE  GoneInv'
<1>1. /\ Quiet
      /\ UNCHANGED <<checkout, base, pc, plan, before, after, changes>>
  BY DEF UserEdit
<1>2. PICK v \in UserEdits \ used, r \in Regions :
        target' = [target EXCEPT ![p] = Edited(@, r, v)] /\ used' = used \cup {v}
  BY DEF UserEdit
<1>3. v # Original /\ v \notin Edits
  BY <1>2, VcsAssumption DEF VcsAssumption
<1>4. \A q \in Paths : \A h \in Held(target', q) : h \in Held(target, q) \/ h[3] = v
  <2>1. \A q \in Paths : target'[q] = IF q = p THEN Edited(target[p], r, v) ELSE target[q]
    BY <1>2 DEF TypeInv, TypeOK, Trees
  <2> QED
    BY <2>1, HeldAt, EditedHolds
<1>5. \A i, q : /\ Images(i, q)' = Images(i, q) /\ Added(i, q)' = Added(i, q)
                /\ Found(i, q)' = Found(i, q)
  BY <1>1 DEF Images, Added, Found, Both, Adds, Finds
<1>6. AllUsed'
  BY <1>1, <1>2, <1>4, <1>5 DEF GoneInv, AllUsed, Used, Held
<1>7. Idle' /\ AddedOnce'
  BY <1>1, <1>5 DEF GoneInv, Idle, AddedOnce
<1>8. Unpublished'
  <2> SUFFICES ASSUME NEW b \in Agents, NEW q \in Paths,
                      pc[b] = "ready" \/ (pc[b] = "applying" /\ q \in DOMAIN plan[b])
               PROVE  New(Held(checkout[b], q) \ Held(base[b], q), q)'
    BY <1>1 DEF Unpublished, New, Held
  <2> DEFINE X == Held(checkout[b], q) \ Held(base[b], q)
  <2>1. New(X, q)
    BY DEF GoneInv, Unpublished
  <2>2. \A h \in X : h[3] \in Edits
    BY VersionKinds DEF SerialInv, OwnDiff
  <2>3. X \cap Held(target', q) = {}
    BY <1>3, <1>4, <2>1, <2>2 DEF New
  <2>4. \A i \in DOMAIN changes : X \cap Images(i, q)' = {}
    BY <1>5, <2>1 DEF New
  <2> QED
    BY <1>1, <2>1, <2>3, <2>4 DEF New, Held
<1>9. BuiltOn'
  <2>1. ASSUME NEW q \in Paths, NEW k \in DOMAIN changes, changes[k].rolled # 0
        PROVE  Added(k, q) \cap Held(target', q) = {}
    <3>1. Added(k, q) \cap Held(target, q) = {}
      BY <2>1 DEF GoneInv, BuiltOn
    <3>2. \A h \in Added(k, q) : h[3] # v
      BY <1>2, <1>3, ImagesSplit DEF GoneInv, AllUsed, Used
    <3> QED
      BY <1>4, <3>1, <3>2
  <2> QED
    BY <1>1, <1>5, <2>1 DEF GoneInv, BuiltOn, Held
<1> QED
  BY <1>6, <1>7, <1>8, <1>9 DEF GoneInv

\* Marking changesets changes no image, and no mark but theirs.
LEMMA MarkedIs ==
  ASSUME TypeInv, NEW S, NEW n, changes' = Marked(S, n)
  PROVE  /\ DOMAIN changes' = DOMAIN changes
         /\ \A i \in DOMAIN changes :
              /\ changes'[i].rolled = IF i \in S THEN n ELSE changes[i].rolled
              /\ \A p : /\ Images(i, p)' = Images(i, p) /\ Added(i, p)' = Added(i, p)
                        /\ Found(i, p)' = Found(i, p)
<1>1. DOMAIN changes' = DOMAIN changes
  BY DEF Marked
<1>2. ASSUME NEW i \in DOMAIN changes
      PROVE  /\ changes'[i].rolled = IF i \in S THEN n ELSE changes[i].rolled
             /\ changes'[i].before = changes[i].before /\ changes'[i].after = changes[i].after
  <2>1. changes[i] \in ChangeRecords
    BY DEF TypeInv
  <2>2. changes'[i] = IF i \in S THEN [changes[i] EXCEPT !.rolled = n] ELSE changes[i]
    BY DEF Marked
  <2> QED
    BY <2>1, <2>2 DEF ChangeRecords
<1> QED
  BY <1>1, <1>2 DEF Images, Added, Found, Both, Adds, Finds

\* Rollbacks and restores write images, between operations.
LEMMA ReversalGone ==
  ASSUME TypeInv, GoneInv, Quiet, NEW S, NEW n, changes' = Marked(S, n),
         UNCHANGED <<checkout, base, pc, plan, before, after, used>>,
         \A p \in Paths : \/ Held(target', p) = Held(target, p)
                          \/ \E i \in DOMAIN changes : Held(target', p) \subseteq Images(i, p)
  PROVE  /\ AllUsed' /\ Idle' /\ Unpublished' /\ AddedOnce'
         /\ \A a \in Agents : \A p : Finds(before[a], after[a], p)' = {}
<1>1. /\ DOMAIN changes' = DOMAIN changes
      /\ \A i \in DOMAIN changes : \A p :
           /\ Images(i, p)' = Images(i, p) /\ Added(i, p)' = Added(i, p)
           /\ Found(i, p)' = Found(i, p)
  BY MarkedIs
<1>2. AllUsed'
  <2>1. \A p \in Paths : Used(Held(target', p))
    BY DEF GoneInv, AllUsed, Used
  <2> QED
    BY <1>1, <2>1 DEF GoneInv, AllUsed, Used, Held
<1>3. Idle' /\ AddedOnce'
  BY <1>1 DEF GoneInv, Idle, AddedOnce
<1>4. Unpublished'
  <2> SUFFICES ASSUME NEW b \in Agents, NEW q \in Paths,
                      pc[b] = "ready" \/ (pc[b] = "applying" /\ q \in DOMAIN plan[b])
               PROVE  New(Held(checkout[b], q) \ Held(base[b], q), q)'
    BY DEF Unpublished, New, Held
  <2> DEFINE X == Held(checkout[b], q) \ Held(base[b], q)
  <2>1. New(X, q)
    BY DEF GoneInv, Unpublished
  <2>2. X \cap Held(target', q) = {}
    BY <2>1 DEF New
  <2>3. \A i \in DOMAIN changes' : X \cap Images(i, q)' = {}
    BY <1>1, <2>1 DEF New
  <2> QED
    BY <2>1, <2>2, <2>3 DEF New, Held
<1>5. ASSUME NEW a \in Agents, NEW p PROVE Finds(before[a], after[a], p)' = {}
  <2>1. DOMAIN after[a] = {}
    BY DEF GoneInv, Idle, Quiet, Resting
  <2> QED
    BY <2>1 DEF Finds
<1> QED
  BY <1>2, <1>3, <1>4, <1>5

\* What is rolled back now was accepted, with all that was built on it; the image
\* put back was found by an accepted changeset, and before any work taken away now.
LEMMA RollbackGone ==
  ASSUME TypeInv, SerialInv, GoneInv, NEW i \in DOMAIN changes, Rollback(i)
  PROVE  GoneInv'
<1> DEFINE S == {j \in Accepted : i <= j}
           n == rollbacks + 1
<1>1. /\ Quiet /\ target' = Undo(S) /\ changes' = Marked(S, n)
      /\ UNCHANGED <<checkout, base, pc, plan, before, after, used>>
  BY DEF Rollback
<1>2. /\ S \subseteq DOMAIN changes
      /\ \A j \in DOMAIN changes : j \in S <=> changes[j].rolled = 0 /\ i <= j
  BY DEF Accepted
<1>3. /\ n \in Nat /\ n # 0 /\ DOMAIN changes \subseteq Nat
      /\ \A j \in DOMAIN changes : changes[j].rolled \in Nat /\ changes[j].rolled < n
  BY DEF TypeInv, TypeOK
<1> HIDE DEF S, n
<1>4. /\ DOMAIN changes' = DOMAIN changes
      /\ \A j \in DOMAIN changes :
           /\ changes'[j].rolled = IF j \in S THEN n ELSE changes[j].rolled
           /\ \A p : /\ Images(j, p)' = Images(j, p) /\ Added(j, p)' = Added(j, p)
                     /\ Found(j, p)' = Found(j, p)
  BY <1>1, MarkedIs
<1>5. ASSUME NEW p \in Paths
      PROVE  \/ Touching(S, p) = {} /\ Held(target', p) = Held(target, p)
             \/ \E f \in Touching(S, p) : /\ \A j \in Touching(S, p) : f <= j
                                          /\ Held(target', p) = Found(f, p)
  <2>1. CASE Touching(S, p) = {}
    BY <1>1, <2>1 DEF Undo, Held
  <2>2. CASE Touching(S, p) # {}
    <3>1. /\ First(Touching(S, p)) \in Touching(S, p)
          /\ \A j \in Touching(S, p) : First(Touching(S, p)) <= j
      BY <1>2, <2>2, TouchingEnds
    <3>2. Held(target', p) = At(p, changes[First(Touching(S, p))].before[p])
      BY <1>1, <2>2, HeldAt DEF Undo
    <3>3. p \in DOMAIN changes[First(Touching(S, p))].after
      BY <3>1 DEF Touching
    <3> QED
      BY <3>1, <3>2, <3>3 DEF Found, Finds
  <2> QED
    BY <2>1, <2>2
<1>6. \A p : Touching(S, p) \subseteq S
  BY DEF Touching
<1>7. /\ AllUsed' /\ Idle' /\ Unpublished' /\ AddedOnce'
      /\ \A a \in Agents : \A p : Finds(before[a], after[a], p)' = {}
  <2>1. \A p \in Paths : \/ Held(target', p) = Held(target, p)
                         \/ \E j \in DOMAIN changes : Held(target', p) \subseteq Images(j, p)
    BY <1>2, <1>5, <1>6, ImagesSplit
  <2> QED
    BY <1>1, <2>1, ReversalGone
<1>8. BuiltOn'
  <2>1. ASSUME NEW p \in Paths, NEW k \in DOMAIN changes, changes'[k].rolled # 0
        PROVE  /\ \A j \in DOMAIN changes : Added(k, p) \cap Found(j, p) # {} =>
                    changes'[j].rolled # 0 /\ changes'[j].rolled <= changes'[k].rolled
               /\ Added(k, p) \cap Held(target', p) = {}
    <3>1. \A j \in DOMAIN changes : Added(k, p) \cap Found(j, p) # {} => k < j
      BY DEF GoneInv, AddedOnce
    <3>2. CASE k \in S
      <4>1. ASSUME NEW j \in DOMAIN changes, Added(k, p) \cap Found(j, p) # {}
            PROVE  changes'[j].rolled # 0 /\ changes'[j].rolled <= n
        <5>1. k < j /\ i <= k /\ i <= j
          BY <1>2, <1>3, <3>1, <3>2, <4>1
        <5>2. j \in S <=> changes[j].rolled = 0
          BY <1>2, <5>1
        <5> QED
          BY <1>3, <1>4, <5>2
      <4>2. Added(k, p) \cap Held(target', p) = {}
        <5>1. CASE p \in DOMAIN changes[k].after
          <6>1. k \in Touching(S, p)
            BY <3>2, <5>1 DEF Touching
          <6>2. PICK f \in Touching(S, p) : f <= k /\ Held(target', p) = Found(f, p)
            BY <1>5, <6>1
          <6>3. f \in DOMAIN changes /\ ~(k < f)
            BY <1>2, <1>3, <1>6, <6>2
          <6> QED
            BY <3>1, <6>2, <6>3
        <5>2. CASE p \notin DOMAIN changes[k].after
          BY <5>2 DEF Added, Adds
        <5> QED
          BY <5>1, <5>2
      <4> QED
        BY <1>4, <3>2, <4>1, <4>2
    <3>3. CASE k \notin S
      <4>1. changes'[k].rolled = changes[k].rolled /\ changes[k].rolled # 0
        BY <1>4, <2>1, <3>3
      <4>2. /\ \A j \in DOMAIN changes : Added(k, p) \cap Found(j, p) # {} =>
                 changes[j].rolled # 0 /\ changes[j].rolled <= changes[k].rolled
            /\ Added(k, p) \cap Held(target, p) = {}
        BY <4>1 DEF GoneInv, BuiltOn
      <4>3. \A j \in DOMAIN changes : Added(k, p) \cap Found(j, p) # {} => j \notin S
        BY <1>2, <4>2
      <4>4. Added(k, p) \cap Held(target', p) = {}
        BY <1>2, <1>5, <1>6, <4>2, <4>3
      <4> QED
        BY <1>4, <4>1, <4>2, <4>3, <4>4
    <3> QED
      BY <3>2, <3>3
  <2> QED
    BY <1>4, <1>7, <2>1 DEF BuiltOn, Held
<1> QED
  BY <1>7, <1>8 DEF GoneInv

\* A restore takes back the latest rollback; work that stays rolled back went
\* earlier, and what is restored found none of it.
LEMMA RestoreGone ==
  ASSUME TypeInv, SerialInv, GoneInv, Restore
  PROVE  GoneInv'
<1> DEFINE pending == {m \in 1..rollbacks : RolledBy(m) # {}}
           n == Last(pending)
           S == RolledBy(n)
<1>1. /\ Quiet /\ target' = Redo(S) /\ changes' = Marked(S, 0) /\ pending # {}
      /\ UNCHANGED <<checkout, base, pc, plan, before, after, used>>
  BY DEF Restore
<1>2. n \in 1..rollbacks /\ \A m \in pending : m <= n
  <2>1. rollbacks \in Nat /\ pending \subseteq 1..rollbacks
    BY DEF TypeInv, TypeOK
  <2>2. n \in pending /\ \A m \in pending : m <= n
    <3> HIDE DEF pending
    <3> QED
      BY <1>1, <2>1, FirstLast
  <2> QED
    BY <2>1, <2>2
<1>3. S \subseteq DOMAIN changes /\ \A j \in DOMAIN changes : j \in S <=> changes[j].rolled = n
  BY DEF RolledBy
<1>4. \A j \in DOMAIN changes : /\ changes[j].rolled \in Nat
                                /\ changes[j].rolled # 0 => changes[j].rolled <= n
  <2> TAKE j \in DOMAIN changes
  <2>1. changes[j].rolled \in 0..rollbacks /\ rollbacks \in Nat
    BY DEF TypeInv, TypeOK
  <2>2. changes[j].rolled # 0 => changes[j].rolled \in pending
    BY <2>1 DEF RolledBy
  <2> HIDE DEF pending
  <2> QED
    BY <1>2, <2>1, <2>2
<1>5. n \in Nat /\ n # 0
  BY <1>2 DEF TypeInv, TypeOK
<1> HIDE DEF pending, n, S
<1>6. /\ DOMAIN changes' = DOMAIN changes
      /\ \A j \in DOMAIN changes :
           /\ changes'[j].rolled = IF j \in S THEN 0 ELSE changes[j].rolled
           /\ \A p : /\ Images(j, p)' = Images(j, p) /\ Added(j, p)' = Added(j, p)
                     /\ Found(j, p)' = Found(j, p)
  BY <1>1, MarkedIs
<1>7. ASSUME NEW p \in Paths
      PROVE  \/ Held(target', p) = Held(target, p)
             \/ \E l \in S : Held(target', p) \subseteq Images(l, p)
  <2>1. CASE Touching(S, p) = {}
    BY <1>1, <2>1 DEF Redo, Held
  <2>2. CASE Touching(S, p) # {}
    <3>1. Last(Touching(S, p)) \in Touching(S, p)
      BY <1>3, <2>2, TouchingEnds
    <3>2. Held(target', p) = At(p, changes[Last(Touching(S, p))].after[p])
      BY <1>1, <2>2, HeldAt DEF Redo
    <3>3. /\ Last(Touching(S, p)) \in S
          /\ p \in DOMAIN changes[Last(Touching(S, p))].after
      BY <3>1 DEF Touching
    <3> QED
      BY <3>2, <3>3 DEF Images, Both
  <2> QED
    BY <2>1, <2>2
<1>8. /\ AllUsed' /\ Idle' /\ Unpublished' /\ AddedOnce'
      /\ \A a \in Agents : \A p : Finds(before[a], after[a], p)' = {}
  <2>1. \A p \in Paths : \/ Held(target', p) = Held(target, p)
                         \/ \E j \in DOMAIN changes : Held(target', p) \subseteq Images(j, p)
    BY <1>3, <1>7
  <2> QED
    BY <1>1, <2>1, ReversalGone
<1>9. BuiltOn'
  <2>1. ASSUME NEW p \in Paths, NEW k \in DOMAIN changes, changes'[k].rolled # 0
        PROVE  /\ \A j \in DOMAIN changes : Added(k, p) \cap Found(j, p) # {} =>
                    changes'[j].rolled # 0 /\ changes'[j].rolled <= changes'[k].rolled
               /\ Added(k, p) \cap Held(target', p) = {}
    <3>1. k \notin S /\ changes'[k].rolled = changes[k].rolled /\ changes[k].rolled # 0
      BY <1>6, <2>1
    <3>2. changes[k].rolled < n
      BY <1>3, <1>4, <1>5, <3>1
    <3>3. /\ \A j \in DOMAIN changes : Added(k, p) \cap Found(j, p) # {} =>
               changes[j].rolled # 0 /\ changes[j].rolled <= changes[k].rolled
          /\ Added(k, p) \cap Held(target, p) = {}
      BY <3>1 DEF GoneInv, BuiltOn
    <3>4. \A j \in DOMAIN changes : Added(k, p) \cap Found(j, p) # {} => j \notin S
      BY <1>3, <1>4, <1>5, <3>2, <3>3
    <3>5. \A j \in S : Added(k, p) \cap Images(j, p) = {}
      <4>1. \A j \in S : Added(k, p) \cap Added(j, p) = {}
        BY <1>3, <3>1 DEF GoneInv, AddedOnce
      <4> QED
        BY <1>3, <3>4, <4>1, ImagesSplit
    <3> QED
      BY <1>6, <1>7, <3>1, <3>3, <3>4, <3>5
  <2> QED
    BY <1>6, <1>8, <2>1 DEF BuiltOn, Held
<1> QED
  BY <1>8, <1>9 DEF GoneInv

LEMMA GoneStep ==
  ASSUME SyncAfterSubmit
  PROVE  TypeInv /\ SerialInv /\ GoneInv /\ [Next]_vars => GoneInv'
<1> SUFFICES ASSUME TypeInv, SerialInv, GoneInv, [Next]_vars PROVE GoneInv'
  OBVIOUS
<1>1. CASE \E a \in Agents : CopyCheckout(a) \/ CopyBase(a) \/ PlanSubmit(a) \/ FinishSubmit(a)
  BY <1>1, CopyGone, PlanGone, FinishGone
<1>2. CASE \E a \in Agents, p \in Paths : Edit(a, p) \/ ApplyChange(a, p)
  BY <1>2, EditGone, ApplyGone
<1>3. CASE \E p \in Paths : UserEdit(p)
  BY <1>3, UserGone
<1>4. CASE \E i \in DOMAIN changes : Rollback(i)
  BY <1>4, RollbackGone
<1>5. CASE Restore
  BY <1>5, RestoreGone
<1>6. CASE UNCHANGED vars
  <2>1. AddedOnce' /\ BuiltOn'
    BY <1>6, ImagesStay DEF vars, GoneInv
  <2>2. AllUsed' /\ Idle' /\ Unpublished'
    BY <1>6 DEF vars, GoneInv, AllUsed, Used, Idle, Unpublished, New, Images, Both, Held
  <2> QED
    BY <2>1, <2>2 DEF GoneInv
<1> QED
  BY <1>1, <1>2, <1>3, <1>4, <1>5, <1>6 DEF Next

\* What a rolled-back changeset added is gone from the project until it is restored,
\* whoever submits, rolls back and restores what in between (rollback_changesets and
\* restore_latest_rollback, workspace_manager.py:1489-1704).
THEOREM RolledBackIsGoneAlways ==
  ASSUME Serial, SyncAfterSubmit PROVE Spec => []RolledBackIsGone
<1>1. TypeInv /\ GoneInv => RolledBackIsGone
  <2> SUFFICES ASSUME TypeInv, GoneInv, NEW i \in DOMAIN changes, changes[i].rolled # 0,
                      NEW p \in DOMAIN changes[i].after
               PROVE  (Held(changes[i].after, p) \ Held(changes[i].before, p))
                        \cap Held(target, p) = {}
    BY DEF RolledBackIsGone
  <2>1. p \in Paths
    BY PartialAt DEF TypeInv, TypeOK
  <2>2. Held(changes[i].after, p) \ Held(changes[i].before, p) = Added(i, p)
    BY HeldAt DEF Added, Adds
  <2> QED
    BY <2>1, <2>2 DEF GoneInv, BuiltOn
<1>2. TypeInv /\ SerialInv /\ GoneInv /\ [Next]_vars => GoneInv'
  BY GoneStep
<1> QED
  BY <1>1, <1>2, InitGone, SerialHolds, TypeHolds, PTL DEF Spec
=============================================================================
