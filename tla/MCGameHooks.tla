----------------------------- MODULE MCGameHooks -----------------------------
(***************************************************************************)
(* The hooks of the two games that share no state beyond is_in_game, each  *)
(* checked for itself: one part runs, the others keep one initial state.   *)
(***************************************************************************)
EXTENDS GameStateHook, RogueDisplay, ViewportScaling, DisplayModes, FrameTiming,
        SyndicatePatches, SyndicateHooks, LanguageUnlock

VARIABLE part

Part == {"state", "display", "scaling", "modes", "timing", "patches", "hooks", "language"}

MCModes ==
  {[width |-> 1920, height |-> 1080, numerator |-> 144, denominator |-> 1],
   [width |-> 1920, height |-> 1080, numerator |-> 60000, denominator |-> 1001],
   [width |-> 1280, height |-> 720, numerator |-> 60, denominator |-> 1],
   [width |-> 640, height |-> 480, numerator |-> 60, denominator |-> 0]}

(* 21:9 by its name, 7:3 in lowest terms, and one that is on no list.      *)
MCReported == {<<1680, 720>>, <<4096, 2160>>}

(* A worldwide, a Russian and an Asian copy over four languages.           *)
MCAllMenu == {"English", "Russian", "Korean", "ChineseTrad"}
MCIniLanguages == {"English", "Korean"}
MCCopies == {{"English"}, {"Russian"}, {"English", "Korean", "ChineseTrad"}}

MCInit ==
  /\ part \in Part
  /\ GameStateInit /\ (part # "state" => hasPause2)
  /\ DisplayInit
  /\ part # "display" => display = DefaultAspect - 1 /\ ini.aspect_ratio = None /\ notifies
  /\ ScalingInit
  /\ part # "scaling" =>
       screen = "wide" /\ scalingOn = {} /\ scalingCfg = [v |-> 0, h |-> 0, multi_monitor |-> "Auto"]
  /\ ModesInit /\ TimingInit
  /\ PatchInit
  /\ part # "patches" =>
       code.smoothing = "jnz" /\ patchCfg = [disable |-> TRUE, target |-> "none"] /\ patchOn = {}
  /\ SynInit /\ (part # "hooks" => unlock_all)
  /\ LanguageInit
  /\ part # "language" => copy = {"English"} /\ store = "uplay" /\ unlockAll /\ uiLanguage = NoLanguage

MCNext ==
  /\ UNCHANGED part
  /\ \/ part = "state" /\ GameStateNext
     \/ part = "display" /\ DisplayNext
     \/ part = "scaling" /\ ScalingNext
     \/ part = "modes" /\ ModesNext
     \/ part = "timing" /\ TimingNext
     \/ part = "patches" /\ PatchNext
     \/ part = "hooks" /\ SynNext
     \/ part = "language" /\ LanguageNext
  /\ part # "state" => UNCHANGED gameStateOwn
  /\ part # "display" => UNCHANGED displayOwn
  /\ part \notin {"state", "display"} => UNCHANGED is_in_game
  /\ part # "scaling" => UNCHANGED scalingVars
  /\ part # "modes" => UNCHANGED modeVars
  /\ part # "timing" => UNCHANGED timingVars
  /\ part # "patches" => UNCHANGED patchVars
  /\ part # "hooks" => UNCHANGED synVars
  /\ part # "language" => UNCHANGED languageVars

mcVars == <<part, gameStateVars, displayVars, scalingVars, modeVars, timingVars, patchVars, synVars,
            languageVars>>

(* Frames follow each other, and a reload that began goes on.              *)
MCSpec ==
  /\ MCInit /\ [][MCNext]_mcVars
  /\ WF_displayVars(part = "display" /\ Reload)
  /\ WF_displayVars(part = "display" /\ Load)
  /\ WF_displayVars(part = "display" /\ Fov)

(* FrameSettles, where the display's callbacks and a pausing game run.     *)
DisplaySettles == part = "display" => FrameSettles

(* The states of the parts stay in their types.                            *)
MCTypeOK == GameStateTypeOK /\ DisplayTypeOK /\ ModesTypeOK /\ LanguageTypeOK
=============================================================================
