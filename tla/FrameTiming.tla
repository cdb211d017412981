---------------------------- MODULE FrameTiming ----------------------------
(***************************************************************************)
(* Rogue's FPSUnlock: stores to the game's FrameTiming, one field after    *)
(* the other, from the init thread and at reloads from the watcher's,      *)
(* while the game's frames use it.  The frame is external: averaged mode   *)
(* measures from the timestamps and keeps them, fixed mode does neither.   *)
(***************************************************************************)
EXTENDS Naturals

CONSTANTS
  Targets,   \* FPS/Target in the INI; 0 stands for what is below k_min_fps
  StockRate  \* the game's own cap

ASSUME TargetsAssumption == Targets \subseteq Nat /\ 0 \in Targets /\ StockRate \in Nat \ {0}

Stamp == {"current_time", "previous_time", "target_time"}

VARIABLES
  timing_mode, fixed_rate,
  fresh,      \* timestamps stored since the last frame in fixed mode
  fpsTarget,  \* of the last apply_fps_patch
  fpsAt,      \* "before", "null", "rest", and in apply_fps_patch "rate" or the stamp to store
  oddFrame,   \* what the last frame found: "stale" timestamps, a "rate" not asked for, or "no"
  oddAt       \* fpsAt at that frame

timingVars == <<timing_mode, fixed_rate, fresh, fpsTarget, fpsAt, oddFrame, oddAt>>

TimingInit ==
  /\ timing_mode = "fixed" /\ fixed_rate = StockRate /\ fresh = {}
  /\ fpsTarget = StockRate /\ fpsAt = "before" /\ oddFrame = "no" /\ oddAt = "before"

-----------------------------------------------------------------------------
(* The game has no FrameTiming yet: install fails, for good. *)
TimingIsNull ==
  /\ fpsAt = "before" /\ fpsAt' = "null"
  /\ UNCHANGED <<timing_mode, fixed_rate, fresh, fpsTarget, oddFrame, oddAt>>

ApplyStep(from, to) ==
  /\ fpsAt \in from /\ fpsAt' = to
  /\ UNCHANGED <<oddFrame, oddAt>>

BugPrimesCapOnly(t) ==
  /\ ApplyStep({"before", "rest"}, IF t = 0 THEN "rest" ELSE "rate")
  /\ fpsTarget' = t
  /\ timing_mode' = IF t = 0 THEN "averaged" ELSE "fixed"
  /\ UNCHANGED <<fixed_rate, fresh>>

(* apply_fps_patch, from install or from on_reload, starts with the mode. *)
StoreMode(t) ==
  /\ ApplyStep({"before", "rest"}, IF t = 0 THEN "current_time" ELSE "rate")
  /\ fpsTarget' = t
  /\ timing_mode' = IF t = 0 THEN "averaged" ELSE "fixed"
  /\ UNCHANGED <<fixed_rate, fresh>>

StoreRate ==
  /\ ApplyStep({"rate"}, "current_time")
  /\ fixed_rate' = fpsTarget
  /\ UNCHANGED <<timing_mode, fresh, fpsTarget>>

(* prime_timestamps *)
StoreStamp ==
  /\ ApplyStep(Stamp, CASE fpsAt = "current_time" -> "previous_time"
                        [] fpsAt = "previous_time" -> "target_time"
                        [] OTHER -> "rest")
  /\ fresh' = fresh \cup {fpsAt}
  /\ UNCHANGED <<timing_mode, fixed_rate, fpsTarget>>

UpdateFrameTiming ==
  /\ oddAt' = fpsAt
  /\ oddFrame' = IF timing_mode = "averaged" /\ fresh # Stamp THEN "stale"
                 ELSE IF timing_mode = "fixed" /\ fixed_rate # fpsTarget THEN "rate"
                 ELSE "no"
  /\ fresh' = IF timing_mode = "averaged" THEN Stamp ELSE {}
  /\ UNCHANGED <<timing_mode, fixed_rate, fpsTarget, fpsAt>>

TimingNext ==
  \/ TimingIsNull \/ StoreRate \/ StoreStamp \/ UpdateFrameTiming
  \/ \E t \in Targets : StoreMode(t)

TimingSpec == TimingInit /\ [][TimingNext]_timingVars

-----------------------------------------------------------------------------
(* A frame measures from stale timestamps only between the store of the    *)
(* mode and the last stamp's, and runs at another rate than the INI's only *)
(* before the rate is stored, whatever reloads came before: what is odd is *)
(* over with apply_fps_patch.  FirstFrameIsPrimed says what it does not    *)
(* exclude.                                                                *)
OddFramesFallInApply ==
  /\ oddFrame = "stale" => oddAt \in Stamp
  /\ oddFrame = "rate" => oddAt = "rate"

(* README.md:236: "the patch switches to averaged mode (3) and primes the  *)
(* QPC timestamps so the first frame doesn't compute a nonsensical delta". *)
(* apply_fps_patch switches first, and the game's frames go on.            *)
FirstFrameIsPrimed == oddFrame # "stale"
=============================================================================
