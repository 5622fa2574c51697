---------------------------- MODULE WorkspaceVcs ----------------------------
(***************************************************************************)
(* The private checkouts of DulwichWorkspaceManager (workspace_manager.py):*)
(* an agent copies the project into a checkout and, beside it, a base;     *)
(* edits the checkout; and submits what differs from the base.  The submit *)
(* is merged three ways with the target (integration tree or project       *)
(* directory), archived with before/after images, and can be rolled back   *)
(* and restored from the desktop once the run has ended.                   *)
(*                                                                         *)
(* A file is a function from Regions to versions: text between which a     *)
(* merge can choose.  Every edit writes a version of its own, so that the  *)
(* content of a file tells whose work it holds.                            *)
(***************************************************************************)
EXTENDS Naturals, Sequences, FiniteSets

CONSTANTS
  Agents,
  Paths,
  Regions,    \* parts of a file that a three-way merge treats separately
  Work,       \* versions that each agent writes
  UserEdits,  \* versions that the user writes straight into the project
  Scope,      \* write_scope of an agent's checkout
  Tracked,    \* paths that exist when the run starts
  Serial,     \* no two workspace operations overlap
  SyncAfterSubmit, \* agents sync after an accepted submit before they go on
  MaxChanges,      \* bound: accepted changesets
  MaxRollbacks,    \* bound: rollbacks
  Original,   \* the version in every region of the tracked files
  Missing     \* no file at this path

Edits == UNION {Work[a] : a \in Agents}

ASSUME VcsAssumption ==
  /\ Scope \in [Agents -> SUBSET Paths]
  /\ Tracked \subseteq Paths
  /\ \A a, b \in Agents : a # b => Work[a] \cap Work[b] = {}
  /\ Edits \cap UserEdits = {}
  /\ MaxChanges \in Nat /\ MaxRollbacks \in Nat
  /\ Original \notin Edits \cup UserEdits
  /\ Missing \notin [Regions -> Edits \cup UserEdits \cup {Original}]
  /\ Serial \in BOOLEAN /\ SyncAfterSubmit \in BOOLEAN

Versions == Edits \cup UserEdits \cup {Original}
Contents == [Regions -> Versions] \cup {Missing}
Trees == [Paths -> Contents]

VARIABLES
  target,    \* _run_code_target: the integration tree or the project
  checkout,  \* checkout_dir of each agent
  base,      \* base_dir of each agent
  pc,        \* the workspace operation an agent's request is inside
  plan,      \* what the submit under way still has to write
  before,    \* reversible_files of the submit under way: content replaced
  after,     \* and content written
  changes,   \* archive of accepted changesets in created_at order
  rollbacks, \* rollback events in the journal
  used,      \* versions already written
  seen       \* <<path, region, version>> an agent's checkout has shown it

vars == <<target, checkout, base, pc, plan, before, after, changes, rollbacks,
          used, seen>>

Nowhere == [p \in {} |-> Missing]

\* Versions at a path of a tree, each with its place.
Held(tree, p) == IF tree[p] = Missing THEN {} ELSE {<<p, r, tree[p][r]>> : r \in Regions}
HeldIn(tree) == UNION {Held(tree, p) : p \in Paths}

InScope(a, tree) == [p \in Paths |-> IF p \in Scope[a] THEN tree[p] ELSE Missing]

\* The requests of one agent never overlap; Serial extends this to all agents.
Resting(a) == pc[a] \in {"none", "ready", "stale"}
Quiet == \A a \in Agents : Resting(a)
Free(a) == Resting(a) /\ (Serial => Quiet)

Init ==
  /\ target = [p \in Paths |-> IF p \in Tracked THEN [r \in Regions |-> Original] ELSE Missing]
  /\ checkout = [a \in Agents |-> [p \in Paths |-> Missing]]
  /\ base = checkout
  /\ pc = [a \in Agents |-> "none"]
  /\ plan = [a \in Agents |-> Nowhere]
  /\ before = plan /\ after = plan
  /\ changes = <<>>
  /\ rollbacks = 0
  /\ used = {}
  /\ seen = [a \in Agents |-> {}]

-----------------------------------------------------------------------------
(***************************************************************************)
(* Checkout and sync: the tree is copied twice.                            *)
(***************************************************************************)

CopyCheckout(a) ==
  /\ Free(a)
  /\ checkout' = [checkout EXCEPT ![a] = InScope(a, target)]
  /\ seen' = [seen EXCEPT ![a] = @ \cup HeldIn(InScope(a, target))]
  /\ pc' = [pc EXCEPT ![a] = "copying"]
  /\ UNCHANGED <<target, base, plan, before, after, changes, rollbacks, used>>

\* Faulty: a sync refreshes the checkout only.
CopyBaseForgotten(a) ==
  /\ pc[a] = "copying"
  /\ pc' = [pc EXCEPT ![a] = "ready"]
  /\ UNCHANGED <<target, checkout, base, plan, before, after, changes, rollbacks, used, seen>>

CopyBase(a) ==
  /\ pc[a] = "copying"
  /\ base' = [base EXCEPT ![a] = InScope(a, target)]
  /\ pc' = [pc EXCEPT ![a] = "ready"]
  /\ UNCHANGED <<target, checkout, plan, before, after, changes, rollbacks, used, seen>>

\* The agent writes region r of a file, creates the file or deletes it.  Each
\* of these uses up a version, which bounds them.
Edited(content, r, v) ==
  IF content = Missing THEN [s \in Regions |-> v] ELSE [content EXCEPT ![r] = v]

Edit(a, p) ==
  /\ pc[a] = "ready"
  /\ \E v \in Work[a] \ used :
       /\ used' = used \cup {v}
       /\ \/ \E r \in Regions : checkout' = [checkout EXCEPT ![a][p] = Edited(@, r, v)]
          \/ /\ checkout[a][p] # Missing
             /\ checkout' = [checkout EXCEPT ![a][p] = Missing]
  /\ seen' = [seen EXCEPT ![a] = @ \cup HeldIn(checkout'[a])]
  /\ UNCHANGED <<target, base, pc, plan, before, after, changes, rollbacks>>

\* The user edits the project itself while no workspace operation runs.
UserEdit(p) ==
  /\ Quiet
  /\ \E v \in UserEdits \ used, r \in Regions :
       /\ target' = [target EXCEPT ![p] = Edited(@, r, v)]
       /\ used' = used \cup {v}
  /\ UNCHANGED <<checkout, base, pc, plan, before, after, changes, rollbacks, seen>>

-----------------------------------------------------------------------------
(***************************************************************************)
(* Submit.                                                                 *)
(***************************************************************************)

Diff(a) == {p \in Paths : checkout[a][p] # base[a][p]}

\* _merge_text: every region changed on one side only, or alike on both.
Mergeable(b, c, j) == \A r \in Regions : c[r] = b[r] \/ j[r] = b[r] \/ c[r] = j[r]
Merged(b, c, j) == [r \in Regions |-> IF j[r] = b[r] THEN c[r] ELSE j[r]]

\* Faulty: added and deleted files are written without a look at the target.
ResolvedUnlessText(b, c, j) ==
  IF j = Missing \/ b = Missing \/ c = Missing THEN {j}
  ELSE IF Mergeable(b, c, j) THEN {Merged(b, c, j)} ELSE {}

\* _plan_checkout_change for base b, current content c and the job's content j:
\* what to write, or nothing when they conflict.
Resolved(b, c, j) ==
  IF c = j \/ c = b THEN {j}
  ELSE IF Missing \in {b, c, j} THEN {}
  ELSE IF Mergeable(b, c, j) THEN {Merged(b, c, j)} ELSE {}

ResolvedAt(a, p) == Resolved(base[a][p], target[p], checkout[a][p])

\* Submit up to the decision; a conflict or a path out of scope ends it there.
PlanSubmit(a) ==
  /\ Free(a)
  /\ pc[a] = "ready"
  /\ Diff(a) # {} => Len(changes) < MaxChanges
  /\ Diff(a) \subseteq Scope[a]
  /\ \A p \in Diff(a) : ResolvedAt(a, p) # {}
  /\ plan' = [plan EXCEPT ![a] = [p \in Diff(a) |-> CHOOSE c \in ResolvedAt(a, p) : TRUE]]
  /\ pc' = [pc EXCEPT ![a] = "applying"]
  /\ UNCHANGED <<target, checkout, base, before, after, changes, rollbacks, used, seen>>

Without(f, p) == [q \in DOMAIN f \ {p} |-> f[q]]
With(f, p, c) == [q \in DOMAIN f \cup {p} |-> IF q = p THEN c ELSE f[q]]

\* One planned file: its present content is kept for a rollback and replaced.
ApplyChange(a, p) ==
  /\ pc[a] = "applying"
  /\ p \in DOMAIN plan[a]
  /\ before' = [before EXCEPT ![a] = With(@, p, target[p])]
  /\ after' = [after EXCEPT ![a] = With(@, p, plan[a][p])]
  /\ target' = [target EXCEPT ![p] = plan[a][p]]
  /\ plan' = [plan EXCEPT ![a] = Without(@, p)]
  /\ UNCHANGED <<checkout, base, pc, changes, rollbacks, used, seen>>

\* The base is copied afresh from the target; the checkout is left as it is.
\* The archive of a submit without changes has no files, so that no rollback or
\* restore depends on it: it is left out.
FinishSubmit(a) ==
  /\ pc[a] = "applying"
  /\ DOMAIN plan[a] = {}
  /\ base' = [base EXCEPT ![a] = InScope(a, target)]
  /\ changes' = IF DOMAIN after[a] = {} THEN changes
                ELSE Append(changes, [before |-> before[a], after |-> after[a], rolled |-> 0])
  /\ before' = [before EXCEPT ![a] = Nowhere]
  /\ after' = [after EXCEPT ![a] = Nowhere]
  /\ pc' = [pc EXCEPT ![a] = IF SyncAfterSubmit THEN "stale" ELSE "ready"]
  /\ UNCHANGED <<target, checkout, plan, rollbacks, used, seen>>

-----------------------------------------------------------------------------
(***************************************************************************)
(* Rollback and restore.                                                   *)
(***************************************************************************)

Accepted == {i \in DOMAIN changes : changes[i].rolled = 0}
RolledBy(n) == {i \in DOMAIN changes : changes[i].rolled = n}
Touching(S, p) == {i \in S : p \in DOMAIN changes[i].after}

First(S) == CHOOSE i \in S : \A j \in S : i <= j
Last(S) == CHOOSE i \in S : \A j \in S : j <= i
Consecutive(S, i, j) == i < j /\ ~\E k \in S : i < k /\ k < j

\* _validate_reversible_changesets, backwards and forwards: each image expected
\* is the one the changeset handled just before leaves.
Linked(S, p) ==
  \A i, j \in Touching(S, p) :
    Consecutive(Touching(S, p), i, j) => changes[i].after[p] = changes[j].before[p]
\* Faulty: no hash guard.
UndoableAlways(S) == S # {}

Undoable(S) ==
  \A p \in Paths : Touching(S, p) # {} =>
    target[p] = changes[Last(Touching(S, p))].after[p] /\ Linked(S, p)
Redoable(S) ==
  \A p \in Paths : Touching(S, p) # {} =>
    target[p] = changes[First(Touching(S, p))].before[p] /\ Linked(S, p)

\* Faulty: images applied in the wrong order.
UndoForwards(S) ==
  [p \in Paths |-> IF Touching(S, p) = {} THEN target[p]
                   ELSE changes[Last(Touching(S, p))].before[p]]

Undo(S) ==
  [p \in Paths |-> IF Touching(S, p) = {} THEN target[p]
                   ELSE changes[First(Touching(S, p))].before[p]]
Redo(S) ==
  [p \in Paths |-> IF Touching(S, p) = {} THEN target[p]
                   ELSE changes[Last(Touching(S, p))].after[p]]

\* Faulty: marks the changesets with the number of the next rollback.
MarkedNext(S, n) ==
  [i \in DOMAIN changes |->
     IF i \in S THEN [changes[i] EXCEPT !.rolled = n + 1] ELSE changes[i]]

Marked(S, n) ==
  [i \in DOMAIN changes |->
     IF i \in S THEN [changes[i] EXCEPT !.rolled = n] ELSE changes[i]]

\* rollback_changesets to an accepted changeset: it and all accepted after it.
Rollback(i) ==
  LET suffix == {j \in Accepted : i <= j} IN
  /\ Quiet
  /\ rollbacks < MaxRollbacks
  /\ i \in Accepted
  /\ Undoable(suffix)
  /\ target' = Undo(suffix)
  /\ rollbacks' = rollbacks + 1
  /\ changes' = Marked(suffix, rollbacks + 1)
  /\ UNCHANGED <<checkout, base, pc, plan, before, after, used, seen>>

\* restore_latest_rollback: the last rollback that is not restored yet.
Restore ==
  LET pending == {n \in 1..rollbacks : RolledBy(n) # {}}
      S == RolledBy(Last(pending)) IN
  /\ Quiet
  /\ pending # {}
  /\ Redoable(S)
  /\ target' = Redo(S)
  /\ changes' = Marked(S, 0)
  /\ UNCHANGED <<checkout, base, pc, plan, before, after, rollbacks, used, seen>>

-----------------------------------------------------------------------------
Next ==
  \/ \E a \in Agents : CopyCheckout(a) \/ CopyBase(a) \/ PlanSubmit(a) \/ FinishSubmit(a)
  \/ \E a \in Agents, p \in Paths : Edit(a, p) \/ ApplyChange(a, p)
  \/ \E p \in Paths : UserEdit(p)
  \/ \E i \in DOMAIN changes : Rollback(i)
  \/ Restore

Spec == Init /\ [][Next]_vars

-----------------------------------------------------------------------------
(***************************************************************************)
(* Properties.                                                             *)
(***************************************************************************)

Partial == UNION {[S -> Contents] : S \in SUBSET Paths}

TypeOK ==
  /\ target \in Trees
  /\ checkout \in [Agents -> Trees]
  /\ base \in [Agents -> Trees]
  /\ pc \in [Agents -> {"none", "ready", "stale", "copying", "applying"}]
  /\ plan \in [Agents -> Partial]
  /\ before \in [Agents -> Partial]
  /\ after \in [Agents -> Partial]
  /\ \A i \in DOMAIN changes :
       /\ changes[i].before \in Partial /\ changes[i].after \in Partial
       /\ changes[i].rolled \in 0..rollbacks
  /\ rollbacks \in 0..MaxRollbacks
  /\ used \subseteq Edits \cup UserEdits
  /\ \A a \in Agents : seen[a] \subseteq Paths \X Regions \X Versions

\* A submit only replaces work its agent has had before it: whatever another
\* agent or the user put into the target meanwhile is kept or reported as a
\* conflict ("Conflict detection should happen at submit time, not after
\* silent overwrites", docs/workspace_vcs_design.md).
NoSilentOverwrite ==
  [][\A a \in Agents, p \in Paths :
       ApplyChange(a, p) => Held(target, p) \ Held(target', p) \subseteq seen[a]]_vars

\* What status and diff show of an agent's checkout is the agent's own work.
OwnWork ==
  \A a \in Agents : pc[a] = "ready" =>
    \A p \in Paths : \A h \in Held(checkout[a], p) \ Held(base[a], p) : h[3] \in Work[a]

\* What a rolled-back changeset wrote is gone from the target until it is
\* restored: no later submit brings it back, though checkouts still hold it.
RolledBackIsGone ==
  \A i \in DOMAIN changes : changes[i].rolled # 0 =>
    \A p \in DOMAIN changes[i].after :
      (Held(changes[i].after, p) \ Held(changes[i].before, p)) \cap Held(target, p) = {}

\* The hash guards: a rollback never takes away what the user wrote into the
\* project himself.
RollbackKeepsUserWork ==
  [][\A i \in DOMAIN changes : Rollback(i) =>
       \A h \in HeldIn(target) \ HeldIn(target') : h[3] \notin UserEdits]_vars
=============================================================================
