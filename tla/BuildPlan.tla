------------------------------ MODULE BuildPlan ------------------------------
(***************************************************************************)
(* How build-push orders the derivations it has to build (main.rs,         *)
(* create_build_plan and topological_sort): Kahn's algorithm over the      *)
(* dependency graph restricted to the derivations to build.                *)
(*                                                                         *)
(* One step handles one derivation of the work list.  Hash maps and sets   *)
(* are iterated in any order.  The graph is what nix prints, whatever it   *)
(* is; only PlanIsComplete needs it to be free of cycles.  BuildPush runs   *)
(* the sort before it queues the jobs.                                     *)
(***************************************************************************)
EXTENDS Integers, Sequences, FiniteSets, Listings, Derivations

VARIABLES
    deps,      \* deps[d]: the keys of d's inputDrvs, fixed
    toBuild,   \* derivations some output of which does not exist, fixed
    inDegree,  \* inDegree[d]: dependencies of d not yet in the result
    queue,     \* derivations without such dependencies, front first
    result     \* the build order so far

input == <<deps, toBuild>>
planVars == <<deps, toBuild, inDegree, queue, result>>

\* Dependencies that are to be built, too.
OpenDeps(d) == deps[d] \cap toBuild

PlanTypeOK ==
    /\ deps \in [Drv -> SUBSET Drv]
    /\ toBuild \in SUBSET Drv
    /\ inDegree \in [toBuild -> Nat]
    /\ queue \in Seq(toBuild)
    /\ result \in Seq(toBuild)

PlanInit ==
    /\ deps \in [Drv -> SUBSET Drv]
    /\ toBuild \in SUBSET Drv
    /\ inDegree = [d \in toBuild |-> Cardinality(OpenDeps(d))]
    /\ queue \in Orderings({d \in toBuild : inDegree[d] = 0})
    /\ result = <<>>

\* Dependents of d of which d is the last dependency left.
Freed(d) == {e \in toBuild : d \in deps[e] /\ inDegree[e] = 1}

Decremented(d) ==
    [e \in toBuild |-> IF d \in deps[e] THEN inDegree[e] - 1 ELSE inDegree[e]]

-----------------------------------------------------------------------------
(* Seeded faults, used to show that the properties can fail. *)

\* The derivation at the front is left in the work list.
VisitAgain ==
    /\ queue # <<>>
    /\ result' = Append(result, Head(queue))
    /\ inDegree' = Decremented(Head(queue))
    /\ \E order \in Orderings(Freed(Head(queue))) : queue' = queue \o order
    /\ UNCHANGED input

\* Every dependent joins the work list, whatever else it depends on.
VisitEager ==
    /\ queue # <<>>
    /\ result' = Append(result, Head(queue))
    /\ inDegree' = Decremented(Head(queue))
    /\ \E order \in Orderings({e \in toBuild : Head(queue) \in deps[e]}) :
           queue' = Tail(queue) \o order
    /\ UNCHANGED input

\* Only one of the dependents that become free joins the work list.
VisitForgetful ==
    /\ queue # <<>>
    /\ result' = Append(result, Head(queue))
    /\ inDegree' = Decremented(Head(queue))
    /\ \/ /\ Freed(Head(queue)) = {}
          /\ queue' = Tail(queue)
       \/ \E e \in Freed(Head(queue)) : queue' = Append(Tail(queue), e)
    /\ UNCHANGED input

-----------------------------------------------------------------------------
\* The front of the work list joins the result; each dependent has one
\* dependency less and joins the work list when that was the last.
Visit ==
    /\ queue # <<>>
    /\ result' = Append(result, Head(queue))
    /\ inDegree' = Decremented(Head(queue))
    /\ \E order \in Orderings(Freed(Head(queue))) : queue' = Tail(queue) \o order
    /\ UNCHANGED input

PlanSpec == PlanInit /\ [][Visit]_planVars

-----------------------------------------------------------------------------
(* Properties *)

\* "Derivations that need to be built, in dependency order": everything a
\* derivation of the order depends on and that is to be built comes before it.
DependenciesFirst ==
    \A i \in DOMAIN result :
        OpenDeps(result[i]) \subseteq {result[k] : k \in 1 .. i - 1}

\* No derivation is planned twice, whatever paths lead to it.
PlannedOnce == NoRepeats(result)

\* No set of derivations to build is a cycle.
Acyclic ==
    \A S \in SUBSET toBuild : S # {} => \E d \in S : deps[d] \cap S = {}

\* When the work list is empty, no derivation has been dropped, unless the
\* graph has a cycle.
PlanIsComplete ==
    Acyclic /\ queue = <<>> => Elements(result) = toBuild

=============================================================================
