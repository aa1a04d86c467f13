----------------------------- MODULE HookGraph -----------------------------
(***************************************************************************)
(* The hooks of one game build and their hard dependencies, as the hook    *)
(* list fixes them at compile time (validate.hpp, registry_impl.hpp).      *)
(* A hook is its index in AllHooks.  Soft dependencies only influence the  *)
(* installation order; they are in module TopoSort.                        *)
(***************************************************************************)
EXTENDS Integers

CONSTANTS
    N,              \* number of hooks, RegistryOps::N
    HardDeps,       \* HardDeps[h]: the hooks that h hard-depends on
    InstallOrder    \* InstallOrder[k]: the hook installed k-th

Hook == 0 .. (N - 1)

\* There is at least one hook in every shipped list.
ASSUME NAssumption == N \in Nat \ {0}

\* Dependencies name listed hooks, never the hook itself (the static_asserts
\* of validate_hook_deps).
ASSUME HardDepsAssumption ==
    /\ HardDeps \in [Hook -> SUBSET Hook]
    /\ \A h \in Hook : h \notin HardDeps[h]

\* What topo_sort returns once static_assert(sorted_result.second == N) has
\* passed; module TopoSort checks it, and SortDeliversInstallOrder of module
\* Operators_proof proves that the algorithm delivers it.
ASSUME InstallOrderAssumption ==
    /\ InstallOrder \in [Hook -> Hook]
    /\ \A h \in Hook : \E k \in Hook : InstallOrder[k] = h
    /\ \A j, k \in Hook : InstallOrder[j] = InstallOrder[k] => j = k
    /\ \A j, k \in Hook :
         InstallOrder[j] \in HardDeps[InstallOrder[k]] => j < k

\* A set of hooks that contains the hard dependencies of its members.
Closed(S) == \A h \in S : HardDeps[h] \subseteq S

\* The largest part of S in which nobody misses a dependency.
GreatestClosed(S) == UNION {T \in SUBSET S : Closed(T)}
=============================================================================
