------------------------------ MODULE TopoSort ------------------------------
(***************************************************************************)
(* RegistryOps::topo_sort, Kahn's algorithm over hard and soft             *)
(* dependencies, evaluated at compile time: an .at() out of range and a    *)
(* count below N both fail the build.  Every dependency graph on N hooks   *)
(* is an initial state.                                                    *)
(*                                                                         *)
(* `order` in the code is always the part of `queue` before `front`, so it *)
(* is not kept apart here.                                                 *)
(***************************************************************************)
EXTENDS Integers, Sequences, FiniteSets

CONSTANT N      \* number of hooks

ASSUME SizeAssumption == N \in Nat \ {0}

Hook == 0 .. (N - 1)

VARIABLES
    hard, soft,     \* the dependency lists of the hooks, as sets
    pc,             \* "edges", "seed", "drain", "done" or "overflow"
    i,              \* index of the loop in progress
    adj,            \* adj[d]: the hooks that depend on d, once per dependency
    inDegree,       \* dependencies of a hook not yet in the order
    queue,          \* hooks without open dependencies, in order of discovery
    front           \* how many of them have been taken

vars == <<hard, soft, pc, i, adj, inDegree, queue, front>>

\* check_all and the two static_asserts on self-dependency.
Deps == {d \in [Hook -> SUBSET Hook] : \A h \in Hook : h \notin d[h]}

TypeOK ==
    /\ hard \in Deps /\ soft \in Deps
    /\ pc \in {"edges", "seed", "drain", "done", "overflow"}
    /\ i \in 0 .. N
    /\ \A h \in Hook : adj[h] \in Seq(Hook) /\ Len(adj[h]) <= N
    /\ inDegree \in [Hook -> 0 .. 2 * N]
    /\ queue \in Seq(Hook) /\ Len(queue) <= N
    /\ front \in 0 .. Len(queue)

Init ==
    /\ hard \in Deps
    /\ soft \in Deps
    /\ pc = "edges"
    /\ i = 0
    /\ adj = [h \in Hook |-> <<>>]
    /\ inDegree = [h \in Hook |-> 0]
    /\ queue = <<>>
    /\ front = 0

\* How often i enters the row of d: once as a hard and once as a soft
\* dependent.
Entries(d) ==
    (IF d \in hard[i] THEN <<i>> ELSE <<>>)
        \o (IF d \in soft[i] THEN <<i>> ELSE <<>>)

\* Mutant: in_degree leaves the soft dependencies out.
AddEdges_HardOnly ==
    /\ pc = "edges"
    /\ i < N
    /\ adj' = [d \in Hook |-> IF d \in hard[i] THEN Append(adj[d], i)
                                              ELSE adj[d]]
    /\ inDegree' = [inDegree EXCEPT ![i] = Cardinality(hard[i])]
    /\ i' = i + 1
    /\ UNCHANGED <<hard, soft, pc, queue, front>>

\* One turn of the loop that fills adj and in_degree.  A row has N slots.
AddEdges ==
    /\ pc = "edges"
    /\ i < N
    /\ \A d \in Hook : Len(adj[d]) + Len(Entries(d)) <= N
    /\ adj' = [d \in Hook |-> adj[d] \o Entries(d)]
    /\ inDegree' = [inDegree EXCEPT ![i] = Cardinality(hard[i])
                                           + Cardinality(soft[i])]
    /\ i' = i + 1
    /\ UNCHANGED <<hard, soft, pc, queue, front>>

\* adj.at(dep).at(adj_count.at(dep)++) past the end of the row.
RowOverflow ==
    /\ pc = "edges"
    /\ i < N
    /\ \E d \in Hook : Len(adj[d]) + Len(Entries(d)) > N
    /\ pc' = "overflow"
    /\ UNCHANGED <<hard, soft, i, adj, inDegree, queue, front>>

EdgesDone ==
    /\ pc = "edges"
    /\ i = N
    /\ pc' = "seed"
    /\ i' = 0
    /\ UNCHANGED <<hard, soft, adj, inDegree, queue, front>>

\* The hooks without dependencies, in list order.
Seed ==
    /\ pc = "seed"
    /\ i < N
    /\ queue' = IF inDegree[i] = 0 THEN Append(queue, i) ELSE queue
    /\ i' = i + 1
    /\ UNCHANGED <<hard, soft, pc, adj, inDegree, front>>

SeedDone ==
    /\ pc = "seed"
    /\ i = N
    /\ pc' = "drain"
    /\ i' = 0
    /\ UNCHANGED <<hard, soft, adj, inDegree, queue, front>>

\* The hook at the front of the queue.
Current == queue[front + 1]

\* Mutant: a hook is queued for every dependency that is taken.
Relax_Eager ==
    /\ pc = "drain"
    /\ front < Len(queue)
    /\ i < Len(adj[Current])
    /\ queue' = Append(queue, adj[Current][i + 1])
    /\ i' = i + 1
    /\ UNCHANGED <<hard, soft, pc, adj, inDegree, front>>

\* Mutant: the degree is compared before it is decremented.
Relax_TestsFirst ==
    /\ pc = "drain"
    /\ front < Len(queue)
    /\ i < Len(adj[Current])
    /\ LET v == adj[Current][i + 1] IN
         /\ inDegree' = [inDegree EXCEPT ![v] = @ - 1]
         /\ queue' = IF inDegree[v] = 0 THEN Append(queue, v) ELSE queue
    /\ i' = i + 1
    /\ UNCHANGED <<hard, soft, pc, adj, front>>

\* One edge out of the current hook.
Relax ==
    /\ pc = "drain"
    /\ front < Len(queue)
    /\ i < Len(adj[Current])
    /\ LET v == adj[Current][i + 1] IN
         /\ inDegree' = [inDegree EXCEPT ![v] = @ - 1]
         /\ queue' = IF inDegree[v] = 1 THEN Append(queue, v) ELSE queue
    /\ i' = i + 1
    /\ UNCHANGED <<hard, soft, pc, adj, front>>

\* The current hook's row is exhausted: it is next in the order.
Take ==
    /\ pc = "drain"
    /\ front < Len(queue)
    /\ i = Len(adj[Current])
    /\ front' = front + 1
    /\ i' = 0
    /\ UNCHANGED <<hard, soft, pc, adj, inDegree, queue>>

Finish ==
    /\ pc = "drain"
    /\ front = Len(queue)
    /\ pc' = "done"
    /\ UNCHANGED <<hard, soft, i, adj, inDegree, queue, front>>

Next == \/ AddEdges \/ RowOverflow \/ EdgesDone \/ Seed \/ SeedDone
        \/ Relax \/ Take \/ Finish

Spec == Init /\ [][Next]_vars

-----------------------------------------------------------------------------
(* Properties.                                                             *)

AllDeps(h) == hard[h] \union soft[h]

\* The reference definition: no group of hooks each of which waits for another
\* of the group.
Acyclic ==
    \A S \in SUBSET Hook :
        S # {} => \E h \in S : AllDeps(h) \intersect S = {}

\* What the build answers is right: the static_assert on the count rejects
\* exactly the cyclic graphs, and the fixed rows of adj overflow (which fails the
\* build as well) only if some hook lists the same dependency as hard and as soft.
VerdictIsRight ==
    /\ pc = "done" => (Len(queue) = N <=> Acyclic)
    /\ pc = "overflow" => \E h \in Hook : hard[h] \intersect soft[h] # {}

\* An accepted order lists every hook once, after all that it depends on, hard
\* or soft: what install_all's comment "the install order is topological"
\* relies on.
OrderIsTopological ==
    (pc = "done" /\ Len(queue) = N) =>
        /\ \A h \in Hook : \E k \in 1 .. N : queue[k] = h
        /\ \A k \in 1 .. N : \A d \in AllDeps(queue[k]) :
              \E j \in 1 .. (k - 1) : queue[j] = d
=============================================================================
