------------------------------ MODULE HookGraph ------------------------------
(***************************************************************************)
(* The hook dependency graph of include/core/hooks/registry: hooks are the *)
(* indices of the compile-time hook_list (1..n here, 0..N-1 in the code),  *)
(* a hook's hard and soft dependencies are the index arrays DepIndices     *)
(* computes from HookTraits.  This module holds the vocabulary the two     *)
(* algorithms over the graph (TopoSort, CascadeDisable) and the registry   *)
(* (HookRegistry) share, and the graph of the Rogue hook list.             *)
(***************************************************************************)
EXTENDS Naturals, FiniteSets

-----------------------------------------------------------------------------
(* Dependency tables: functions from a hook to the set of hooks it needs.  *)

HardClosed(hard, S) == \A h \in S : hard[h] \subseteq S
  (* no hook of S lacks a hard dependency *)

LargestClosed(hard, S) == UNION {T \in SUBSET S : HardClosed(hard, T)}
  (* what a set of wanted hooks comes to once every hook with a missing    *)
  (* hard dependency is taken out, to the end                              *)

AllDeps(hard, soft) == [h \in DOMAIN hard |-> hard[h] \cup soft[h]]

Acyclic(deps) ==
  \A S \in SUBSET DOMAIN deps :
    S # {} => \E h \in S : deps[h] \cap S = {}
  (* every nonempty set of hooks has one that depends on none of them *)

(* What validate_hook_deps lets through: dependencies are hooks of the     *)
(* list, and no hook depends on itself.                                    *)
DepTables(n) == {d \in [1..n -> SUBSET (1..n)] : \A h \in 1..n : h \notin d[h]}

-----------------------------------------------------------------------------
(* The Rogue hook list, games/rogue: position of each hook in AllHooks and *)
(* the dependencies its HookTraits declare.                                *)

GameState        == 1
DisplayDetection == 2
ViewportFitting  == 3
ViewportScaling  == 4
FOVCorrection    == 5
FPSUnlock        == 6
LanguageUnlock   == 7
ModeIndexGuard   == 8
FullModeList     == 9

RogueN    == 9
RogueHard == [h \in 1..RogueN |-> IF h = FOVCorrection THEN {ViewportFitting} ELSE {}]
RogueSoft == [h \in 1..RogueN |->
               IF h \in {ViewportFitting, FPSUnlock} THEN {GameState} ELSE {}]

=============================================================================
