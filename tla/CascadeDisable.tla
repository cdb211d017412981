---------------------------- MODULE CascadeDisable ----------------------------
(***************************************************************************)
(* RegistryOps::cascade_disable: passes over the array of enabled flags    *)
(* that clear the flag of every hook with a cleared hard dependency, until *)
(* a pass clears nothing.  The flags are the set of hooks whose flag is    *)
(* set.                                                                    *)
(***************************************************************************)
EXTENDS AnyHookGraph

VARIABLES
  wanted,          \* the flags the caller passed in; no step changes them
  kept,            \* enabled: the flags now
  at,              \* i: the next hook of this pass
  changed,         \* whether this pass cleared a flag
  cascadePc        \* "pass" or "done"

cascadeVars == <<wanted, kept, at, changed, cascadePc>>

CascadeInit ==
  /\ wanted \in SUBSET Listed
  /\ kept = wanted
  /\ at = 1
  /\ changed = FALSE
  /\ cascadePc = "pass"

LacksHardDep(h) == \E d \in hard[h] : d \notin kept

(* Two plausible mistakes in the loop, for the runs that seed them: the    *)
(* flag that asks for another pass is forgotten, or the cleared one is.    *)
BugForgetsChanged ==
  /\ cascadePc = "pass"
  /\ at <= n
  /\ kept' = IF at \in kept /\ LacksHardDep(at) THEN kept \ {at} ELSE kept
  /\ at' = at + 1
  /\ UNCHANGED <<wanted, changed, cascadePc>>

BugNeverClears ==
  /\ cascadePc = "pass"
  /\ at <= n
  /\ changed' = (changed \/ (at \in kept /\ LacksHardDep(at)))
  /\ at' = at + 1
  /\ UNCHANGED <<wanted, kept, cascadePc>>

Examine ==
  LET clear == at \in kept /\ LacksHardDep(at) IN
  /\ cascadePc = "pass"
  /\ at <= n
  /\ kept' = IF clear THEN kept \ {at} ELSE kept
  /\ changed' = (changed \/ clear)
  /\ at' = at + 1
  /\ UNCHANGED <<wanted, cascadePc>>

NewPass ==
  /\ cascadePc = "pass"
  /\ at = n + 1
  /\ changed
  /\ at' = 1
  /\ changed' = FALSE
  /\ UNCHANGED <<wanted, kept, cascadePc>>

Settle ==
  /\ cascadePc = "pass"
  /\ at = n + 1
  /\ ~changed
  /\ cascadePc' = "done"
  /\ UNCHANGED <<wanted, kept, at, changed>>

CascadeNext ==
  /\ Examine \/ NewPass \/ Settle
  /\ UNCHANGED graphVars

cascadeAll == <<graphVars, cascadeVars>>

CascadeSpec == GraphOK /\ CascadeInit /\ [][CascadeNext]_cascadeAll

-----------------------------------------------------------------------------
CascadeTypeOK ==
  /\ wanted \in SUBSET Listed
  /\ kept \in SUBSET wanted
  /\ at \in 1..(n + 1)
  /\ changed \in BOOLEAN
  /\ cascadePc \in {"pass", "done"}

(* What cascade_disable promises its caller: exactly the hooks whose hard  *)
(* dependencies, direct and indirect, are all wanted stay enabled; nothing *)
(* more is cleared, whatever the order of the hook list.                   *)
CascadeIsLargestClosed ==
  cascadePc = "done" => kept = LargestClosed(hard, wanted)

(* The argument: no pass clears a hook of a closed subset of what was      *)
(* wanted, and a pass that has cleared nothing has checked every hook      *)
(* before `at`.                                                            *)
KeepsClosedSubsets ==
  \A T \in SUBSET wanted : HardClosed(hard, T) => T \subseteq kept
CheckedSoFar ==
  ~changed => \A h \in kept : h < at => hard[h] \subseteq kept
CascadeInv ==
  /\ CascadeTypeOK
  /\ KeepsClosedSubsets
  /\ CheckedSoFar
  /\ cascadePc = "done" => ~changed /\ at = n + 1
=============================================================================
