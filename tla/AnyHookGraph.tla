---------------------------- MODULE AnyHookGraph ----------------------------
(***************************************************************************)
(* A hook graph as rigid variables: an initial state chooses it and no     *)
(* action changes it, so one specification speaks of every graph.          *)
(***************************************************************************)
EXTENDS HookGraph

VARIABLES
  n,      \* hooks in the list: the hooks are 1..n
  hard,   \* hard_deps of a hook
  soft    \* soft_deps of a hook

graphVars == <<n, hard, soft>>

Listed == 1..n

GraphOK ==
  /\ n \in Nat
  /\ hard \in DepTables(n)
  /\ soft \in DepTables(n)
=============================================================================
