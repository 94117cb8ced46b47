------------------------------ MODULE TaskGraph ------------------------------
(***************************************************************************)
(* The dependency graph of a validated workflow (spec.go).  A task lists   *)
(* the tasks it depends on; the list is a sequence because the engine      *)
(* never removes a repeated entry and counts each one.                     *)
(***************************************************************************)
EXTENDS Integers, Sequences, FiniteSets

CONSTANTS
    Tasks,      \* the task ids of the workflow, without duplicates
    DependsOn   \* DependsOn[t] is the depends_on list of task t

Deps(t) == {DependsOn[t][i] : i \in DOMAIN DependsOn[t]}

Children(t) == {c \in Tasks : t \in Deps(c)}

\* Where d occurs in the depends_on list of c.
Positions(d, c) == {i \in DOMAIN DependsOn[c] : DependsOn[c][i] = d}

(***************************************************************************)
(* What is skipped when t fails and the run goes on.  Both engines walk    *)
(* from t over tasks that have no span yet; what they mark is the least    *)
(* set of open tasks closed under Children.                                *)
(***************************************************************************)
ClosedFrom(S, t, open) == (UNION {Children(u) : u \in S \cup {t}}) \cap open \subseteq S

\* Slip: the direct children only.
OnlyChildren(t, open) == Children(t) \cap open

Descendants(t, open) ==
    {c \in open : \A S \in SUBSET open : ClosedFrom(S, t, open) => c \in S}

(***************************************************************************)
(* What Validate accepts: every dependency is a task of the workflow, and  *)
(* there is no cycle.  Acyclicity is stated by its consequence for sets:   *)
(* every nonempty set of tasks has one that depends on none of the others. *)
(***************************************************************************)
Acyclic == \A S \in SUBSET Tasks : S # {} => \E t \in S : Deps(t) \cap S = {}

ASSUME GraphAssumption ==
    /\ IsFiniteSet(Tasks)
    /\ Tasks # {}
    /\ DependsOn \in [Tasks -> Seq(Tasks)]
    /\ Acyclic
==============================================================================
