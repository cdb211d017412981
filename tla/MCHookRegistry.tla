---------------------------- MODULE MCHookRegistry ----------------------------
(***************************************************************************)
(* Two parts, of which one runs and the other keeps one initial state.     *)
(*                                                                         *)
(* "graph": TopoSort at build time, then CascadeDisable at run time, on    *)
(* the same graph: every graph of MaxN hooks that validate_hook_deps lets  *)
(* through, and the graph of Rogue.  The sort does not look at the wanted  *)
(* hooks nor the cascade at the soft dependencies, so only one of the two  *)
(* varies over a graph.                                                    *)
(*                                                                         *)
(* "registry": three hooks whose list order is not a dependency order:     *)
(* hook 1 has a hard dependency on 2, hook 2 a soft one on 3.  The INI may *)
(* name or leave out any flag, and the config key of hook 1.               *)
(***************************************************************************)
EXTENDS HookRegistry, TopoSort, CascadeDisable

CONSTANT MaxN

VARIABLE part

MCHard == <<{2}, {}, {}>>
MCSoft == <<{}, {3}, {}>>
MCInstallOrder == <<3, 2, 1>>
MCIniFiles == {[flag |-> f, cfg |-> <<c, Absent, Absent>>] :
                 f \in [Hook -> {"on", "off", Absent}], c \in {Absent, "v"}}

mcGraph == <<graphVars, topoVars, cascadeVars>>
mcVars == <<part, vars, mcGraph>>

MCInit ==
  /\ part \in {"graph", "registry"}
  /\ \/ /\ n = MaxN
        /\ hard \in DepTables(MaxN)
        /\ soft \in DepTables(MaxN)
     \/ /\ n = RogueN
        /\ hard = RogueHard
        /\ soft = RogueSoft
  /\ TopoInit /\ CascadeInit
  /\ wanted = 1..n \/ soft = [h \in 1..n |-> {}] \/ n = RogueN
  /\ part # "graph" => n = RogueN /\ wanted = {}
  /\ Init
  /\ part # "registry" => found = {} /\ ini = EmptyIni

GraphNext ==
  \/ TopoNext /\ UNCHANGED cascadeVars
  \/ topoPc = "sorted" /\ CascadeNext /\ UNCHANGED topoVars

MCNext ==
  /\ UNCHANGED part
  /\ \/ part = "graph" /\ GraphNext
     \/ part = "registry" /\ Next
  /\ part # "graph" => UNCHANGED mcGraph
  /\ part # "registry" => UNCHANGED vars

(* The build runs to its end, and so does a pass that began.               *)
MCSpec ==
  /\ MCInit /\ [][MCNext]_mcVars
  /\ WF_mcGraph(part = "graph" /\ GraphNext)
  /\ WF_vars(part = "registry" /\ Work)

(* Neither loop runs forever: the build ends, and so does every            *)
(* cascade_disable of an accepted graph.                                   *)
BothFinish == part = "graph" => <>(topoPc = "rejected" \/ cascadePc = "done")

(* PassEnds, where the registry runs: install_all and every reload.        *)
PassesEnd == part = "registry" => PassEnds
=============================================================================
