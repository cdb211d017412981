---------------------------- MODULE RogueDisplay ----------------------------
(***************************************************************************)
(* The callbacks of Rogue's ViewportFitting and FOVCorrection, which share *)
(* is_in_game and current_aspect, against reloads on the watcher's thread, *)
(* pauses and changes of the display.  An aspect is a number that orders   *)
(* it; a factor or a correction is the aspect it is computed from.         *)
(***************************************************************************)
EXTENDS Naturals, InGame

CONSTANTS
  Aspects,       \* of displays, and aspect_ratio in the INI
  DefaultAspect, \* k_default_aspect
  MaxChanges     \* bound: reloads, pauses and display changes in all

ASSUME AspectAssumption ==
  /\ Aspects \subseteq Nat \ {0} /\ DefaultAspect \in Nat \ {0} /\ MaxChanges \in Nat

None == 0   \* no width or height; no aspect_ratio in the INI; nothing changed by a callback
FovMode == {"Auto", "VertPlus", "HorPlus"}
Ini == [aspect_ratio : Aspects \cup {None}, mode : FovMode,
        enabled : {{}, {"fitting"}, {"fitting", "fov"}}]   \* cascaded

VARIABLES
  display,       \* the aspect of the display
  ini,           \* the INI the current or last reload works from
  cfg, enabled,  \* what the hooks see
  notifies,      \* the install of ViewportFitting went through: on_reload is called
  pc,            \* the watcher's thread: "rest", "fov", "flags", "notify"
  current_aspect,
  storing,       \* what RatioLoad has used and not stored yet, or None
  fovAspect,     \* what FOVCorrection has compared and not used yet, or None
  load, mul, fov,   \* what the last callbacks gave the game
  changes,
  steady         \* history: nothing has changed since RatioLoad

settings == <<display, is_in_game, ini, cfg, enabled, notifies, pc, changes>>
frame == <<load, mul, fov>>
displayVars == <<settings, current_aspect, storing, fovAspect, frame, steady>>
displayOwn == <<display, ini, cfg, enabled, notifies, pc, changes,
                current_aspect, storing, fovAspect, frame, steady>>

DisplayInit ==
  /\ display \in Aspects /\ is_in_game = FALSE
  /\ ini \in Ini /\ ini.mode = "Auto" /\ ini.enabled = {"fitting", "fov"}
  /\ cfg = [aspect_ratio |-> ini.aspect_ratio, mode |-> ini.mode] /\ enabled = ini.enabled
  /\ notifies \in BOOLEAN /\ pc = "rest"
  /\ current_aspect = DefaultAspect /\ storing = None /\ fovAspect = None
  /\ load = DefaultAspect /\ mul = DefaultAspect /\ fov = None
  /\ changes = 0 /\ steady = FALSE

-----------------------------------------------------------------------------
(* What changes under the callbacks. *)

Change ==
  /\ changes < MaxChanges /\ changes' = changes + 1
  /\ steady' = FALSE
  /\ UNCHANGED <<current_aspect, storing, fovAspect, frame>>

DisplayChanges ==
  /\ Change
  /\ display' \in (Aspects \cup {None}) \ {display}
  /\ UNCHANGED <<is_in_game, ini, cfg, enabled, notifies, pc>>

PauseOrUnpause ==
  /\ Change
  /\ is_in_game' = ~is_in_game
  /\ UNCHANGED <<display, ini, cfg, enabled, notifies, pc>>

ReloadStep(from, to) ==
  /\ pc = from /\ pc' = to
  /\ steady' = FALSE
  /\ UNCHANGED <<display, is_in_game, notifies, storing, fovAspect, frame>>

(* A reload stores the configs hook by hook, then the flags, then tells    *)
(* the installed hooks.                                                    *)
LoadFitting ==
  /\ changes < MaxChanges /\ changes' = changes + 1
  /\ ReloadStep("rest", "fov")
  /\ ini' \in Ini
  /\ cfg' = [cfg EXCEPT !.aspect_ratio = ini'.aspect_ratio]
  /\ UNCHANGED <<enabled, current_aspect>>

LoadFov ==
  /\ ReloadStep("fov", "flags")
  /\ cfg' = [cfg EXCEPT !.mode = ini.mode]
  /\ UNCHANGED <<ini, enabled, changes, current_aspect>>

StoreFlags ==
  /\ ReloadStep("flags", "notify")
  /\ enabled' = ini.enabled
  /\ UNCHANGED <<ini, cfg, changes, current_aspect>>

(* on_reload of ViewportFitting.                                           *)
Notify ==
  /\ ReloadStep("notify", "rest")
  /\ current_aspect' = IF notifies /\ "fitting" \in enabled /\ cfg.aspect_ratio # None
                       THEN cfg.aspect_ratio ELSE current_aspect
  /\ UNCHANGED <<ini, cfg, enabled, changes>>

Reload == LoadFov \/ StoreFlags \/ Notify

-----------------------------------------------------------------------------
(* The callbacks, on the game's threads. *)

Fitted == "fitting" \in enabled /\ is_in_game

Wanted == IF cfg.aspect_ratio # None THEN cfg.aspect_ratio ELSE display

BugStoresOnlyAuto ==
  /\ storing = None
  /\ IF ~Fitted THEN load' = DefaultAspect /\ storing' = None
     ELSE load' = Wanted /\ storing' = IF cfg.aspect_ratio # None THEN None ELSE Wanted
  /\ steady' = TRUE /\ mul' = None
  /\ UNCHANGED <<settings, current_aspect, fovAspect, fov>>

(* ViewportRatioLoad; a display without a width leaves everything alone.   *)
RatioLoad ==
  /\ storing = None
  /\ IF ~Fitted THEN load' = DefaultAspect /\ storing' = None
     ELSE load' = Wanted /\ storing' = Wanted
  /\ steady' = TRUE /\ mul' = None
  /\ UNCHANGED <<settings, current_aspect, fovAspect, fov>>

StoreAspect ==
  /\ storing # None
  /\ current_aspect' = storing /\ storing' = None
  /\ UNCHANGED <<settings, fovAspect, frame, steady>>

BugMulInMenusToo ==
  /\ mul' = IF "fitting" \notin enabled THEN DefaultAspect ELSE Wanted
  /\ UNCHANGED <<settings, current_aspect, storing, fovAspect, load, fov, steady>>

RatioMul ==
  /\ mul' = IF ~Fitted THEN DefaultAspect ELSE Wanted
  /\ UNCHANGED <<settings, current_aspect, storing, fovAspect, load, fov, steady>>

(* FOVCorrectionFunctor reads current_aspect to decide, and                *)
(* compute_hor_plus_correction reads it again to compute.                  *)
FovDecides ==
  /\ fovAspect = None
  /\ IF "fov" \in enabled /\ (\/ cfg.mode = "HorPlus"
                              \/ cfg.mode = "Auto" /\ current_aspect < DefaultAspect)
     THEN fovAspect' = current_aspect /\ UNCHANGED fov
     ELSE fov' = None /\ UNCHANGED fovAspect
  /\ UNCHANGED <<settings, current_aspect, storing, load, mul, steady>>

FovComputes ==
  /\ fovAspect # None
  /\ fovAspect' = None
  /\ fov' = IF current_aspect = DefaultAspect THEN None ELSE current_aspect
  /\ UNCHANGED <<settings, current_aspect, storing, load, mul, steady>>

Load == RatioLoad \/ StoreAspect
Fov == FovDecides \/ FovComputes

DisplayNext ==
  \/ DisplayChanges \/ PauseOrUnpause \/ LoadFitting \/ Reload \/ Load \/ RatioMul \/ Fov

DisplaySpec == DisplayInit /\ [][DisplayNext]_displayVars

-----------------------------------------------------------------------------
DisplayTypeOK ==
  /\ display \in Aspects \cup {None} /\ ini \in Ini
  /\ pc \in {"rest", "fov", "flags", "notify"} /\ changes \in 0..MaxChanges
  /\ {storing, fovAspect, load, mul, fov} \subseteq Aspects \cup {None, DefaultAspect}
  /\ current_aspect \in Aspects \cup {DefaultAspect}

(* The two factors of a frame belong together, in the game and in its      *)
(* menus, unless a reload, a pause or a new display came between them.     *)
FactorsBelong == steady /\ mul # None => mul = load

CorrectFov ==
  IF "fov" \notin enabled \/ cfg.mode = "VertPlus" \/ Wanted = DefaultAspect THEN None
  ELSE IF cfg.mode = "Auto" /\ Wanted > DefaultAspect THEN None
  ELSE Wanted

(* When changes stop while the game is played, the frames come to agree on *)
(* the aspect asked for and the field of view that goes with it, though    *)
(* RatioLoad may overwrite what a reload stored with what it read before.  *)
FrameSettles ==
  <>[](Fitted /\ Wanted # None => current_aspect = Wanted /\ fov = CorrectFov)
=============================================================================
