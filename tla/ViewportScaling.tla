--------------------------- MODULE ViewportScaling ---------------------------
(***************************************************************************)
(* The Rogue callbacks that share nothing with the view: ViewportScaling,  *)
(* whose two callbacks of a frame hand on the stretch, CoordTransform of   *)
(* ViewportFitting, and DisplayDetection.  Lengths are abstracted to which *)
(* side of the screen is the longer one.                                   *)
(***************************************************************************)
EXTENDS Naturals

CONSTANT Stretches   \* what the INI may give for UIStretchV and UIStretchH

ASSUME StretchAssumption == 0 \in Stretches

Shape == {"narrow", "wide", "triple"}   \* against 16:9, and k_triple_screen_threshold
MultiMonitor == {"Auto", "ForceSingle", "ForceMulti"}
ScalingConfig == [v : Stretches, h : Stretches, multi_monitor : MultiMonitor]

VARIABLES
  screen,           \* the shape of the display
  scalingCfg, scalingOn,   \* configs and enabled flags: subset of {"scaling", "fitting", "detection"}
  g_active_stretch,
  extent,           \* the stretch ViewportScalingBranch has sized the UI with
  offset, placed,   \* the stretch ScalingOffsetsHook has placed it with, since then if placed
  coords,           \* who fits the coordinates to 16:9: "game", "hook"
  multi             \* the game's flag, "yes" or "no"

scalingVars == <<screen, scalingCfg, scalingOn, g_active_stretch, extent, offset, placed, coords, multi>>

ScalingInit ==
  /\ screen \in Shape /\ scalingCfg \in ScalingConfig
  /\ scalingOn \in SUBSET {"scaling", "fitting", "detection"}
  /\ g_active_stretch = 0 /\ extent = 0 /\ offset = 0 /\ placed = FALSE
  /\ coords = "game" /\ multi = "no"

(* A field or a flag at a time, at any moment of a frame.                  *)
ScalingReload ==
  /\ \/ \E f \in {"v", "h"}, x \in Stretches :
          scalingCfg' = [scalingCfg EXCEPT ![f] = x] /\ UNCHANGED scalingOn
     \/ \E x \in MultiMonitor :
          scalingCfg' = [scalingCfg EXCEPT !.multi_monitor = x] /\ UNCHANGED scalingOn
     \/ \E h \in {"scaling", "fitting", "detection"} :
          scalingOn' \in {scalingOn \cup {h}, scalingOn \ {h}} /\ UNCHANGED scalingCfg
  /\ UNCHANGED <<screen, g_active_stretch, extent, offset, placed, coords, multi>>

ScreenChanges ==
  /\ screen' \in Shape
  /\ UNCHANGED <<scalingCfg, scalingOn, g_active_stretch, extent, offset, placed, coords, multi>>

(* ViewportScalingBranch: a hook that is off fits as the game does.        *)
ViewportScalingBranch ==
  /\ extent' = IF "scaling" \notin scalingOn THEN 0
               ELSE IF screen = "narrow" THEN scalingCfg.v ELSE scalingCfg.h
  /\ g_active_stretch' = extent'
  /\ placed' = FALSE
  /\ UNCHANGED <<screen, scalingCfg, scalingOn, offset, coords, multi>>

BugReadsConfig ==
  /\ offset' = IF screen = "narrow" THEN scalingCfg.v ELSE scalingCfg.h
  /\ placed' = TRUE
  /\ UNCHANGED <<screen, scalingCfg, scalingOn, g_active_stretch, extent, coords, multi>>

ScalingOffsetsHook ==
  /\ offset' = g_active_stretch /\ placed' = TRUE
  /\ UNCHANGED <<screen, scalingCfg, scalingOn, g_active_stretch, extent, coords, multi>>

CoordTransformHook ==
  /\ coords' = IF "fitting" \in scalingOn THEN "game" ELSE "hook"
  /\ UNCHANGED <<screen, scalingCfg, scalingOn, g_active_stretch, extent, offset, placed, multi>>

(* Switched off, DisplayFlagHook does what the game did.                   *)
DisplayFlagHook ==
  /\ multi' \in IF "detection" \notin scalingOn THEN {"yes", "no"}
                ELSE CASE scalingCfg.multi_monitor = "ForceSingle" -> {"no"}
                       [] scalingCfg.multi_monitor = "ForceMulti" -> {"yes"}
                       [] OTHER -> {IF screen = "triple" THEN "yes" ELSE "no"}
  /\ UNCHANGED <<screen, scalingCfg, scalingOn, g_active_stretch, extent, offset, placed, coords>>

ScalingNext ==
  \/ ScalingReload \/ ScreenChanges
  \/ ViewportScalingBranch \/ ScalingOffsetsHook \/ CoordTransformHook \/ DisplayFlagHook

ScalingSpec == ScalingInit /\ [][ScalingNext]_scalingVars

(* The UI of a frame is placed with the stretch it was sized with, though  *)
(* a reload or a switch may fall between the two callbacks.                *)
PlacedAsSized == placed => offset = extent
=============================================================================
