------------------------------- MODULE TopoSort -------------------------------
(***************************************************************************)
(* RegistryOps::topo_sort: Kahn's algorithm over the hook graph, which the *)
(* compiler evaluates to give install_order.  An index error in a constant *)
(* expression (std::array::at) and an incomplete order (the static_assert  *)
(* on count) both stop the build, so the algorithm ends in "sorted" or     *)
(* "rejected".                                                             *)
(***************************************************************************)
EXTENDS AnyHookGraph, Sequences

VARIABLES
  topoPc,          \* "edges" -> "seed" -> "pop" <-> "relax" -> "sorted"; or "rejected"
  node,            \* i of the two loops over the list: edges, then seeds
  inDegree,        \* in_degree: dependencies of a hook not yet placed
  adj,             \* adj, adj_count: the dependents of a hook, in insertion order
  queue,           \* queue[1..back]: every hook ever pushed
  order,           \* order[1..count]: every hook popped; front = count
  edge             \* index into adj of the hook popped last

topoVars == <<topoPc, node, inDegree, adj, queue, order, edge>>

Front == Len(order)

TopoInit ==
  /\ topoPc = "edges"
  /\ node = 1
  /\ inDegree = [h \in Listed |-> 0]
  /\ adj = [h \in Listed |-> <<>>]
  /\ queue = <<>>
  /\ order = <<>>
  /\ edge = 1

-----------------------------------------------------------------------------
(* Mistakes a sort like this one invites, each above what it is a mistake  *)
(* in.                                                                     *)

(* The edges of hook `node`: one per hard and one per soft dependency, so  *)
(* a dependency listed as both counts twice.                               *)

NewEdges(d) == (IF d \in hard[node] THEN <<node>> ELSE <<>>)
            \o (IF d \in soft[node] THEN <<node>> ELSE <<>>)

EdgesFit == \A d \in Listed : Len(adj[d]) + Len(NewEdges(d)) <= n

BugHardEdgesOnly ==
  /\ topoPc = "edges"
  /\ node <= n
  /\ adj' = [d \in Listed |-> IF d \in hard[node] THEN Append(adj[d], node) ELSE adj[d]]
  /\ inDegree' = [inDegree EXCEPT ![node] = Cardinality(hard[node])]
  /\ node' = node + 1
  /\ UNCHANGED <<topoPc, queue, order, edge>>

AddEdges ==
  /\ topoPc = "edges"
  /\ node <= n
  /\ EdgesFit
  /\ adj' = [d \in Listed |-> adj[d] \o NewEdges(d)]
  /\ inDegree' = [inDegree EXCEPT ![node] = Cardinality(hard[node]) + Cardinality(soft[node])]
  /\ node' = node + 1
  /\ UNCHANGED <<topoPc, queue, order, edge>>

(* adj.at(dep).at(adj_count.at(dep)++) past the last column: not a         *)
(* constant expression, the build stops.                                   *)
RejectEdges ==
  /\ topoPc = "edges"
  /\ node <= n
  /\ ~EdgesFit
  /\ topoPc' = "rejected"
  /\ UNCHANGED <<node, inDegree, adj, queue, order, edge>>

EdgesDone ==
  /\ topoPc = "edges"
  /\ node = n + 1
  /\ topoPc' = "seed"
  /\ node' = 1
  /\ UNCHANGED <<inDegree, adj, queue, order, edge>>

(* The hooks without dependencies are pushed, in list order. *)
Seed ==
  /\ topoPc = "seed"
  /\ node <= n
  /\ queue' = IF inDegree[node] = 0 THEN Append(queue, node) ELSE queue
  /\ node' = node + 1
  /\ UNCHANGED <<topoPc, inDegree, adj, order, edge>>

SeedsDone ==
  /\ topoPc = "seed"
  /\ node = n + 1
  /\ topoPc' = "pop"
  /\ UNCHANGED <<node, inDegree, adj, queue, order, edge>>

Pop ==
  /\ topoPc = "pop"
  /\ Front < Len(queue)
  /\ order' = Append(order, queue[Front + 1])
  /\ edge' = 1
  /\ topoPc' = "relax"
  /\ UNCHANGED <<node, inDegree, adj, queue>>

(* One dependent of the popped hook loses a dependency; at zero it is      *)
(* pushed.                                                                 *)
Relax ==
  LET u == order[Front] IN
  /\ topoPc = "relax"
  /\ edge <= Len(adj[u])
  /\ LET v == adj[u][edge] IN
       /\ inDegree' = [inDegree EXCEPT ![v] = @ - 1]
       /\ queue' = IF inDegree[v] = 1 THEN Append(queue, v) ELSE queue
  /\ edge' = edge + 1
  /\ UNCHANGED <<topoPc, node, adj, order>>

NextHook ==
  /\ topoPc = "relax"
  /\ edge > Len(adj[order[Front]])
  /\ topoPc' = "pop"
  /\ UNCHANGED <<node, inDegree, adj, queue, order, edge>>

BugAcceptAny ==
  /\ topoPc = "pop"
  /\ Front = Len(queue)
  /\ topoPc' = "sorted"
  /\ UNCHANGED <<node, inDegree, adj, queue, order, edge>>

(* The queue ran dry: static_assert(sorted_result.second == N). *)
Finish ==
  /\ topoPc = "pop"
  /\ Front = Len(queue)
  /\ topoPc' = IF Len(order) = n THEN "sorted" ELSE "rejected"
  /\ UNCHANGED <<node, inDegree, adj, queue, order, edge>>

TopoNext ==
  /\ \/ AddEdges \/ RejectEdges \/ EdgesDone
     \/ Seed \/ SeedsDone
     \/ Pop \/ Relax \/ NextHook \/ Finish
  /\ UNCHANGED graphVars

TopoSpec == GraphOK /\ TopoInit /\ [][TopoNext]_<<graphVars, topoVars>>

-----------------------------------------------------------------------------
(* At every point of the sort a hook is placed only after all its hard and *)
(* soft dependencies: install_all's "installing in dependency order".      *)
PlacedAfterDeps ==
  \A i \in 1..Len(order) :
    AllDeps(hard, soft)[order[i]] \subseteq {order[j] : j \in 1..(i - 1)}

ListedTwice == \E h \in Listed : hard[h] \cap soft[h] # {}

(* The build accepts exactly the graphs without a cycle, and then places   *)
(* every hook once; only a dependency listed both hard and soft can make   *)
(* it reject a graph without a cycle (the adjacency row overflows).        *)
AcceptsExactlyAcyclic ==
  /\ topoPc = "sorted" =>
       /\ Acyclic(AllDeps(hard, soft))
       /\ Len(order) = n
       /\ {order[i] : i \in 1..n} = Listed
  /\ topoPc = "rejected" => ~Acyclic(AllDeps(hard, soft)) \/ ListedTwice
=============================================================================
