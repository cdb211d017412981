-------------------------- MODULE SyndicatePatches --------------------------
(***************************************************************************)
(* The Syndicate hooks that rewrite code at every reload: CameraSmoothing  *)
(* one opcode, FPSUnlock three places of the frame limiter, each with a    *)
(* write that may fail.  A reload loads the configs of both, but calls     *)
(* on_reload only for the one that is installed and enabled.               *)
(***************************************************************************)
CONSTANT Limits   \* FPS/Target in the INI; "none" stands for what is below k_min_fps

ASSUME LimitsAssumption == "none" \in Limits /\ "own" \notin Limits

Limiter == {"gate", "branch", "frame_time"}
Place == {"smoothing"} \cup Limiter

VARIABLES
  code,       \* of each place: what is there; a frame time is the limit it is computed from
  g_original, \* what FPSUnlock has saved of gate and frame_time
  patchCfg,   \* the configs of the two hooks
  patchOn,    \* those of the two, "camera" and "limiter", that are enabled
  patched,    \* those that are installed
  reloading,  \* install_all is over
  patchAt,    \* "camera", "save", the place to write next, "rest"
  written     \* history: the places whose last write went through

patchVars == <<code, g_original, patchCfg, patchOn, patched, reloading, patchAt, written>>

(* The jnz is not there when somebody else has patched it already. *)
PatchInit ==
  /\ \E op \in {"jnz", "jmp"} :
       code = [smoothing |-> op, gate |-> "own", branch |-> "jnb", frame_time |-> "own"]
  /\ g_original = [gate |-> "none", frame_time |-> "default"]
  /\ patchCfg \in [disable : BOOLEAN, target : Limits]
  /\ patchOn \in SUBSET {"camera", "limiter"}
  /\ patched = {} /\ reloading = FALSE /\ patchAt = "camera" /\ written = {}

-----------------------------------------------------------------------------
PatchStep(from, to) == patchAt = from /\ patchAt' = to

(* install_all passes over a hook that is disabled or lacks its pattern;   *)
(* CameraSmoothing gives up where it finds no jnz.                         *)
SkipCamera ==
  /\ PatchStep("camera", "save")
  /\ UNCHANGED <<code, g_original, patchCfg, patchOn, patched, reloading, written>>

SkipLimiter ==
  /\ PatchStep("save", "rest")
  /\ UNCHANGED <<code, g_original, patchCfg, patchOn, patched, reloading, written>>

(* From here on nothing keeps the install from returning true. *)
FindsJnz ==
  /\ PatchStep("camera", "smoothing")
  /\ "camera" \in patchOn /\ code.smoothing = "jnz"
  /\ patched' = patched \cup {"camera"}
  /\ UNCHANGED <<code, g_original, patchCfg, patchOn, reloading, written>>

SaveOriginals ==
  /\ PatchStep("save", "gate")
  /\ "limiter" \in patchOn
  /\ patched' = patched \cup {"limiter"}
  /\ g_original' = [gate |-> code.gate, frame_time |-> code.frame_time]
  /\ UNCHANGED <<code, patchCfg, patchOn, reloading, written>>

Limited == patchCfg.target # "none"

(* A cap clears the gate and lets the branch sleep. *)
WantedCode(p) ==
  CASE p = "smoothing" -> IF patchCfg.disable THEN "jmp" ELSE "jnz"
    [] p = "gate" -> IF Limited THEN "nop" ELSE g_original.gate
    [] p = "branch" -> IF Limited THEN "jnb" ELSE "jmp"
    [] OTHER -> IF Limited THEN patchCfg.target ELSE g_original.frame_time

(* FPSUnlock comes after CameraSmoothing: its install if that is still to  *)
(* come, its on_reload if it is called.                                    *)
AfterWrite(p) ==
  CASE p = "smoothing" -> IF reloading
                          THEN IF "limiter" \in patched \cap patchOn THEN "gate" ELSE "rest"
                          ELSE "save"
    [] p = "gate" -> "branch"
    [] p = "branch" -> "frame_time"
    [] OTHER -> "rest"

BugCapKeepsBranch(p) ==
  /\ PatchStep(p, AfterWrite(p))
  /\ code' = IF p = "branch" /\ Limited THEN code ELSE [code EXCEPT ![p] = WantedCode(p)]
  /\ written' = written \cup {p}
  /\ UNCHANGED <<g_original, patchCfg, patchOn, patched, reloading>>

Write(p) ==
  /\ PatchStep(p, AfterWrite(p))
  /\ code' = [code EXCEPT ![p] = WantedCode(p)]
  /\ written' = written \cup {p}
  /\ UNCHANGED <<g_original, patchCfg, patchOn, patched, reloading>>

(* The limiter's other places are left alone then. *)
WriteFails(p) ==
  /\ PatchStep(p, IF p = "smoothing" THEN AfterWrite(p) ELSE "rest")
  /\ written' = IF p = "smoothing" THEN written \ {p} ELSE written \ Limiter
  /\ UNCHANGED <<code, g_original, patchCfg, patchOn, patched, reloading>>

(* reload stores configs and flags, then on_reload of the two, one after   *)
(* the other.                                                              *)
PatchReload ==
  /\ patchAt = "rest"
  /\ patchCfg' \in [disable : BOOLEAN, target : Limits]
  /\ patchOn' \in SUBSET {"camera", "limiter"}
  /\ patchAt' = IF "camera" \in patched \cap patchOn' THEN "smoothing"
                ELSE IF "limiter" \in patched \cap patchOn' THEN "gate" ELSE "rest"
  /\ reloading' = TRUE
  /\ UNCHANGED <<code, g_original, patched, written>>

PatchNext ==
  \/ SkipCamera \/ FindsJnz \/ SkipLimiter \/ SaveOriginals \/ PatchReload
  \/ \E p \in Place : Write(p) \/ WriteFails(p)

PatchSpec == PatchInit /\ [][PatchNext]_patchVars

-----------------------------------------------------------------------------
(* Whatever writes have failed before, and whatever INIs were loaded while *)
(* a hook was disabled, an apply of an enabled hook whose writes go        *)
(* through leaves the smoothing, or all three places of the limiter, as    *)
(* the last INI wants them, with the game's own bytes back when there is   *)
(* no limit, though the originals were read only once.                     *)
PatchesFollowIni ==
  patchAt = "rest" =>
    /\ "camera" \in patchOn /\ "smoothing" \in written =>
         code.smoothing = IF patchCfg.disable THEN "jmp" ELSE "jnz"
    /\ "limiter" \in patchOn /\ Limiter \subseteq written =>
         IF Limited
         THEN code.gate = "nop" /\ code.branch = "jnb" /\ code.frame_time = patchCfg.target
         ELSE code.gate = "own" /\ code.branch = "jmp" /\ code.frame_time = "own"

(* README.md:293: "Flag gate - a 6-byte instruction sequence that guards   *)
(* the frame limiter.  NOP'd to uncap, restored to re-enable."             *)
(* apply_fps_patch does the reverse.                                       *)
GateNoppedToUncap ==
  patchAt = "rest" /\ "limiter" \in patchOn /\ Limiter \subseteq written =>
    code.gate = IF Limited THEN "own" ELSE "nop"
=============================================================================
