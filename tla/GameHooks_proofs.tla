---------------------------- MODULE GameHooks_proofs ----------------------------
(***************************************************************************)
(* The safety of the game hooks that patch or draw, each for its own       *)
(* specification: any configurations, any number of reloads, frames and    *)
(* transitions of the game.                                                *)
(***************************************************************************)
EXTENDS MCGameHooks, FiniteSetTheorems, WellFoundedInduction, TLAPS

-----------------------------------------------------------------------------
(* ViewportScaling: what is handed on is what the UI was sized with.       *)
ScalingInv == g_active_stretch = extent /\ PlacedAsSized

(* The UI is placed with the stretch it was sized with.                    *)
THEOREM ScalingPlaces == ScalingSpec => []PlacedAsSized
<1>1. ScalingInit => ScalingInv
  BY DEF ScalingInit, ScalingInv, PlacedAsSized
<1>2. ScalingInv /\ [ScalingNext]_scalingVars => ScalingInv'
  BY DEF ScalingInv, PlacedAsSized, ScalingNext, scalingVars, ScalingReload, ScreenChanges,
         ViewportScalingBranch, ScalingOffsetsHook, CoordTransformHook, DisplayFlagHook
<1>3. ScalingInv => PlacedAsSized
  BY DEF ScalingInv
<1>. QED
  BY <1>1, <1>2, <1>3, PTL DEF ScalingSpec

-----------------------------------------------------------------------------
(* RogueDisplay: while nothing changes, the factor of RatioLoad is still   *)
(* the one RatioMul would compute.                                         *)
FactorInv ==
  /\ steady => load = IF ~Fitted THEN DefaultAspect ELSE Wanted
  /\ FactorsBelong

(* The two factors of a frame belong together unless something changed     *)
(* between the callbacks.                                                  *)
THEOREM FactorsStayTogether == DisplaySpec => []FactorsBelong
<1>1. DisplayInit => FactorInv
  BY DEF DisplayInit, FactorInv, FactorsBelong
<1>2. FactorInv /\ [DisplayNext]_displayVars => FactorInv'
  <2> SUFFICES ASSUME FactorInv, [DisplayNext]_displayVars PROVE FactorInv'
    OBVIOUS
  <2> USE DEF FactorInv, FactorsBelong
  <2>1. CASE DisplayChanges \/ PauseOrUnpause \/ LoadFitting \/ Reload
    BY <2>1 DEF DisplayChanges, PauseOrUnpause, Change, LoadFitting, Reload, LoadFov, StoreFlags,
                Notify, ReloadStep
  <2>2. CASE RatioLoad
    BY <2>2 DEF RatioLoad, settings, Fitted, Wanted
  <2>3. CASE RatioMul
    BY <2>3 DEF RatioMul, settings, Fitted, Wanted
  <2>4. CASE StoreAspect \/ Fov \/ UNCHANGED displayVars
    BY <2>4 DEF StoreAspect, Fov, FovDecides, FovComputes, settings, frame, displayVars, Fitted, Wanted
  <2>. QED
    BY <2>1, <2>2, <2>3, <2>4 DEF DisplayNext, Load
<1>3. FactorInv => FactorsBelong
  BY DEF FactorInv
<1>. QED
  BY <1>1, <1>2, <1>3, PTL DEF DisplaySpec

-----------------------------------------------------------------------------
(* FrameTiming: which of the timestamps are fresh at each step of an apply *)
(* in averaged mode, and where the rate is that of the INI in fixed mode.  *)
TimingInv ==
  /\ fresh \subseteq Stamp
  /\ timing_mode = "averaged" =>
       /\ fpsAt # "rate"
       /\ fpsAt = "previous_time" => "current_time" \in fresh
       /\ fpsAt = "target_time" => {"current_time", "previous_time"} \subseteq fresh
       /\ fpsAt \notin Stamp => fresh = Stamp
  /\ timing_mode = "fixed" /\ fpsAt # "rate" => fixed_rate = fpsTarget
  /\ OddFramesFallInApply

(* A frame finds stale timestamps, or another rate than the INI's, only    *)
(* while apply_fps_patch stores them.                                      *)
THEOREM OddFramesOnlyInApply == TimingSpec => []OddFramesFallInApply
<1>1. TimingInit => TimingInv
  BY DEF TimingInit, TimingInv, OddFramesFallInApply
<1>2. TimingInv /\ [TimingNext]_timingVars => TimingInv'
  <2> SUFFICES ASSUME TimingInv, [TimingNext]_timingVars PROVE TimingInv'
    OBVIOUS
  <2> USE DEF TimingInv, OddFramesFallInApply, Stamp
  <2>1. CASE TimingIsNull
    BY <2>1 DEF TimingIsNull
  <2>2. CASE \E t \in Targets : StoreMode(t)
    BY <2>2 DEF StoreMode, ApplyStep
  <2>3. CASE StoreRate
    BY <2>3 DEF StoreRate, ApplyStep
  <2>4. CASE StoreStamp
    BY <2>4 DEF StoreStamp, ApplyStep
  <2>5. CASE UpdateFrameTiming
    BY <2>5 DEF UpdateFrameTiming
  <2>6. CASE UNCHANGED timingVars
    BY <2>6 DEF timingVars
  <2>. QED
    BY <2>1, <2>2, <2>3, <2>4, <2>5, <2>6 DEF TimingNext
<1>3. TimingInv => OddFramesFallInApply
  BY DEF TimingInv
<1>. QED
  BY <1>1, <1>2, <1>3, PTL DEF TimingSpec

-----------------------------------------------------------------------------
(* SyndicatePatches: what an apply has brought about when it is at each of *)
(* its places, and that the originals are the game's own.                  *)
PatchInv ==
  /\ patchAt \in Place \cup {"camera", "save", "rest"}
  /\ code \in [Place -> {"jnz", "jmp", "jnb", "nop", "own"} \cup Limits]
  /\ patchCfg \in [disable : BOOLEAN, target : Limits]
  /\ patchAt \in {"camera", "save"} => ~reloading
  /\ patchAt \in {"camera", "save", "smoothing"} /\ ~reloading => "limiter" \notin patched
  /\ patchAt \in Limiter => "limiter" \in patched
  /\ "limiter" \in patched => g_original = [gate |-> "own", frame_time |-> "own"]
  /\ "limiter" \notin patched =>
       code["gate"] = "own" /\ code["frame_time"] = "own" /\ "gate" \notin written
  /\ patchAt = "smoothing" \/ "smoothing" \in written => "camera" \in patched
  /\ "smoothing" \in written /\ patchAt # "smoothing" /\ "camera" \in patchOn =>
       code["smoothing"] = WantedCode("smoothing")
  /\ patchAt \in {"branch", "frame_time"} => code["gate"] = WantedCode("gate")
  /\ patchAt = "frame_time" => code["branch"] = WantedCode("branch")
  /\ patchAt = "rest" /\ Limiter \subseteq written /\ "limiter" \in patchOn =>
       \A p \in Limiter : code[p] = WantedCode(p)

(* A write brings its place to what the configuration wants.               *)
LEMMA WriteKeeps ==
  ASSUME PatchInv, NEW p \in Place, Write(p)
  PROVE  PatchInv'
<1> USE DEF PatchInv, Write, PatchStep, AfterWrite, WantedCode, Limited, Place, Limiter
<1>1. CASE p = "smoothing"
  BY <1>1
<1>2. CASE p = "gate"
  BY <1>2
<1>3. CASE p = "branch"
  BY <1>3
<1>4. CASE p = "frame_time"
  BY <1>4
<1>. QED
  BY <1>1, <1>2, <1>3, <1>4

(* After an apply whose writes went through, the code is what the INI      *)
(* wants, whatever failed before.                                          *)
THEOREM PatchesAreThoseOfTheIni == PatchSpec => []PatchesFollowIni
<1>1. PatchInit => PatchInv
  BY DEF PatchInit, PatchInv, Place, Limiter
<1>2. PatchInv /\ [PatchNext]_patchVars => PatchInv'
  <2> SUFFICES ASSUME PatchInv, [PatchNext]_patchVars PROVE PatchInv'
    OBVIOUS
  <2>1. CASE \E p \in Place : Write(p)
    BY <2>1, WriteKeeps
  <2> USE DEF PatchInv, PatchStep, WantedCode, Limited, Place, Limiter
  <2>2. CASE \E p \in Place : WriteFails(p)
    <3>1. CASE WriteFails("smoothing")
      BY <3>1 DEF WriteFails, AfterWrite
    <3>2. CASE WriteFails("gate") \/ WriteFails("branch") \/ WriteFails("frame_time")
      BY <3>2 DEF WriteFails
    <3>. QED BY <2>2, <3>1, <3>2
  <2>3. CASE SkipCamera \/ FindsJnz \/ SkipLimiter
    BY <2>3 DEF SkipCamera, FindsJnz, SkipLimiter
  <2>4. CASE SaveOriginals
    BY <2>4 DEF SaveOriginals
  <2>5. CASE PatchReload
    BY <2>5 DEF PatchReload
  <2>6. CASE UNCHANGED patchVars
    BY <2>6 DEF patchVars
  <2>. QED
    BY <2>1, <2>2, <2>3, <2>4, <2>5, <2>6 DEF PatchNext
<1>3. PatchInv => PatchesFollowIni
  BY DEF PatchInv, PatchesFollowIni, WantedCode, Limited, Limiter
<1>. QED
  BY <1>1, <1>2, <1>3, PTL DEF PatchSpec

-----------------------------------------------------------------------------
(* GameStateHook: a transition counts only after the install, and by then  *)
(* every site whose pattern was found is hooked.                           *)
GameStateInv ==
  /\ object \in 0..MaxObjects /\ g_pGameState \in {0, object} /\ game_state_ptr \in 0..object
  /\ pause_flag \in [Object -> {0, 1}]
  /\ site \in Site /\ hooked \subseteq Site /\ cleared \subseteq Site
  /\ site = "pause" => "unpause" \in hooked
  /\ site = "pause2" => hasPause2 /\ {"unpause", "pause"} \subseteq hooked
  /\ "pause2" \in hooked \cup cleared => hasPause2
  /\ step = "installed" => {"unpause", "pause"} \subseteq hooked /\ (hasPause2 => "pause2" \in hooked)
  /\ moved # "none" => step = "installed" /\ object # 0
  /\ StateFollowsGame

(* A transition after the install leaves flag and is_in_game as the game   *)
(* wants them.                                                             *)
LEMMA TransitionKeeps ==
  ASSUME GameStateInv, NEW s \in Site, Transition(s)
  PROVE  GameStateInv'
<1> USE DEF GameStateInv, Transition, Callback, ResolveState, install
<1>1. object \in Object
  BY MaxObjectsAssumption DEF Object
<1>2. pause_flag' \in [Object -> {0, 1}]
  OBVIOUS
<1>3. game_state_ptr' \in 0..object
  BY MaxObjectsAssumption
<1>4. StateFollowsGame'
  <2> SUFFICES ASSUME step = "installed"
               PROVE  StateFollowsGame'
    BY DEF StateFollowsGame
  <2>1. CASE s \in hooked
    <3>1. playing' = (s = "unpause") /\ is_in_game' = (s = "unpause") /\ object' = object
      BY <2>1
    <3>2. moved' = "seen" => game_state_ptr' = ResolveState /\ game_state_ptr' # 0
      BY <2>1
    <3>3. ASSUME NEW o \in Object, o = ResolveState
          PROVE  pause_flag'[o] = IF s = "unpause" THEN 0 ELSE 1
      BY <2>1, <3>3
    <3>4. ResolveState \in 0..object /\ (ResolveState # 0 => ResolveState \in Object)
      BY MaxObjectsAssumption DEF Object
    <3>5. moved' = "seen" => pause_flag'[game_state_ptr'] = IF s = "unpause" THEN 0 ELSE 1
      BY <3>2, <3>3, <3>4
    <3>. QED
      BY <3>1, <3>2, <3>5 DEF StateFollowsGame
  <2>2. CASE s \notin hooked
    <3>1. s = "pause2" /\ ~hasPause2 /\ s \notin cleared
      BY <2>2 DEF Site
    <3>. QED
      BY <1>1, <2>2, <3>1 DEF StateFollowsGame
  <2>. QED
    BY <2>1, <2>2
<1>. QED
  BY <1>2, <1>3, <1>4

(* Once installed, is_in_game and the flag of the cached object follow the *)
(* game, but for a pause at a third site that was not found.               *)
THEOREM StateIsTheGames == GameStateSpec => []StateFollowsGame
<1>1. GameStateInit => GameStateInv
  BY MaxObjectsAssumption DEF GameStateInit, GameStateInv, StateFollowsGame, Site
<1>2. GameStateInv /\ [GameStateNext]_gameStateVars => GameStateInv'
  <2> SUFFICES ASSUME GameStateInv, [GameStateNext]_gameStateVars PROVE GameStateInv'
    OBVIOUS
  <2>1. CASE \E s \in Site : Transition(s)
    BY <2>1, TransitionKeeps
  <2> USE DEF GameStateInv, StateFollowsGame, game, install
  <2>2. CASE NewObject
    BY <2>2, MaxObjectsAssumption DEF NewObject
  <2>3. CASE PublishObject
    BY <2>3 DEF PublishObject
  <2>4. CASE CacheState \/ ClearSite
    BY <2>4 DEF CacheState, ClearSite, InstallStep
  <2>5. CASE HookSite
    BY <2>5 DEF HookSite, InstallStep, MoreSites, NextSite, Site
  <2>6. CASE InstallFails
    BY <2>6 DEF InstallFails, InstallStep
  <2>7. CASE UNCHANGED gameStateVars
    BY <2>7 DEF gameStateVars, gameStateOwn
  <2>. QED
    BY <2>1, <2>2, <2>3, <2>4, <2>5, <2>6, <2>7 DEF GameStateNext
<1>3. GameStateInv => StateFollowsGame
  BY DEF GameStateInv
<1>. QED
  BY <1>1, <1>2, <1>3, PTL DEF GameStateSpec

-----------------------------------------------------------------------------
(* SyndicateHooks, the language unlock: what is stored at each step of the *)
(* install, if the game's setup was not crossed.                           *)
UnlockInv ==
  /\ bits \in [Bitfield -> {"game", "all"}]
  /\ setup \in Bitfield \cup {"before", "after"}
  /\ bitsHooked => synAt = "end"
  /\ ~crossed /\ synAt \in {"subtitle", "audio", "bitsHook"} => setup \notin Bitfield
  /\ ~crossed /\ bitsHooked /\ setup \in Bitfield => setupForced
  /\ ~crossed /\ (synAt \in {"subtitle", "audio", "bitsHook"} \/ bitsHooked) => bits["menu"] = "all"
  /\ ~crossed /\ (synAt \in {"audio", "bitsHook"} \/ bitsHooked) => bits["subtitle"] = "all"
  /\ ~crossed /\ (synAt = "bitsHook" \/ bitsHooked) => bits["audio"] = "all"

(* SyndicateHooks, the pads: only the cleared site lets any pad through.   *)
PadInv ==
  /\ synAt \in {"specs", "resolution", "pid", "pidHook"} => ~pidHooked
  /\ synAt \in {"specs", "resolution", "pid"} => ~pidCleared
  /\ plugged = "other" /\ takenForDs4 =>
       pluggedAt = "pidHook" \/ (~pidHooked /\ synAt \notin {"specs", "resolution", "pid", "pidHook"})

(* The steps of SyndicateHooks that leave the languages alone.             *)
LEMMA UnlockKept ==
  ASSUME UnlockInv, UNCHANGED langVars,
         \/ synAt' = synAt
         \/ synAt' \notin {"subtitle", "audio", "bitsHook"} /\ ~bitsHooked
  PROVE  UnlockInv'
  BY DEF UnlockInv, langVars

(* All bitfields are unlocked once the hook is in place and the game's     *)
(* setup is over, unless setup and stores were crossed.                    *)
THEOREM UnlocksAll == SynSpec => []AllUnlocked
<1>1. SynInit => UnlockInv
  BY DEF SynInit, UnlockInv, Bitfield
<1>2. UnlockInv /\ [SynNext]_synVars => UnlockInv'
  <2> SUFFICES ASSUME UnlockInv, [SynNext]_synVars PROVE UnlockInv'
    OBVIOUS
  <2>1. CASE \/ SkipOrFail \/ StubSpecs \/ HookModeInsert \/ ClearPidCheck \/ HookPidCheck
             \/ HookActiveDevice \/ UnlockNothing
    <3>1. UNCHANGED langVars
      BY <2>1 DEF SkipOrFail, StubSpecs, HookModeInsert, ClearPidCheck, HookPidCheck,
                  HookActiveDevice, UnlockNothing
    <3>2. synAt' \notin {"subtitle", "audio", "bitsHook"} /\ ~bitsHooked
      BY <2>1 DEF UnlockInv, SynStep, SkipOrFail, NextInstall, StubSpecs, HookModeInsert, ClearPidCheck,
                  HookPidCheck, HookActiveDevice, UnlockNothing
    <3>. QED
      BY <3>1, <3>2, UnlockKept
  <2>2. CASE (\E m \in ReportedModes : InsertMode(m)) \/ (\E p \in Pad : ClassifyPad(p)) \/ GetActiveDeviceType
    <3>1. UNCHANGED langVars /\ synAt' = synAt
      BY <2>2 DEF InsertMode, ClassifyPad, GetActiveDeviceType
    <3>. QED
      BY <3>1, UnlockKept
  <2>3. CASE UNCHANGED synVars
    <3>1. UNCHANGED langVars /\ synAt' = synAt
      BY <2>3 DEF synVars
    <3>. QED
      BY <3>1, UnlockKept
  <2> USE DEF UnlockInv, SynStep, Bitfield
  <2>4. CASE PreWrites
    <3>1. CASE PreWrite("language", "menu", "subtitle")
      BY <3>1 DEF PreWrite
    <3>2. CASE PreWrite("subtitle", "subtitle", "audio")
      BY <3>2 DEF PreWrite
    <3>3. CASE PreWrite("audio", "audio", "bitsHook")
      BY <3>3 DEF PreWrite
    <3>. QED
      BY <2>4, <3>1, <3>2, <3>3 DEF PreWrites
  <2>5. CASE HookBitfieldWrite
    BY <2>5 DEF HookBitfieldWrite
  <2>6. CASE EntersSetup
    BY <2>6 DEF EntersSetup
  <2>7. CASE SetupWrites
    BY <2>7 DEF SetupWrites, Unlocks
  <2>. QED
    BY <2>1, <2>2, <2>3, <2>4, <2>5, <2>6, <2>7 DEF SynNext
<1>3. UnlockInv => AllUnlocked
  BY DEF UnlockInv, AllUnlocked, Bitfield
<1>. QED
  BY <1>1, <1>2, <1>3, PTL DEF SynSpec

(* A pad is taken for a DS4 exactly if it is one, once the hook is there.  *)
THEOREM PadsStayApart == SynSpec => []PadsToldApart
<1>1. SynInit => PadInv
  BY DEF SynInit, PadInv
<1>2. PadInv /\ [SynNext]_synVars => PadInv'
  <2> SUFFICES ASSUME PadInv, [SynNext]_synVars PROVE PadInv'
    OBVIOUS
  <2> USE DEF PadInv, SynStep, padVars, plugVars
  <2>1. CASE \/ SkipOrFail \/ StubSpecs \/ HookModeInsert \/ HookActiveDevice \/ UnlockNothing
    BY <2>1 DEF SkipOrFail, NextInstall, StubSpecs, HookModeInsert, HookActiveDevice, UnlockNothing
  <2>2. CASE ClearPidCheck \/ HookPidCheck
    BY <2>2 DEF ClearPidCheck, HookPidCheck
  <2>3. CASE PreWrites \/ HookBitfieldWrite
    BY <2>3 DEF PreWrites, PreWrite, HookBitfieldWrite
  <2>4. CASE \E p \in Pad : ClassifyPad(p)
    BY <2>4 DEF ClassifyPad, Ds4, CheckDS4PID
  <2>5. CASE \/ \E m \in ReportedModes : InsertMode(m)
             \/ GetActiveDeviceType \/ EntersSetup \/ SetupWrites
    BY <2>5 DEF InsertMode, GetActiveDeviceType, EntersSetup, SetupWrites
  <2>6. CASE UNCHANGED synVars
    BY <2>6 DEF synVars
  <2>. QED
    BY <2>1, <2>2, <2>3, <2>4, <2>5, <2>6 DEF SynNext
<1>3. PadInv => PadsToldApart
  BY DEF PadInv, PadsToldApart, Ds4, CheckDS4PID
<1>. QED
  BY <1>1, <1>2, <1>3, PTL DEF SynSpec

-----------------------------------------------------------------------------
(* DisplayModes.  Below count the list is what was published; the getter's *)
(* index is below a count that was, and no list is given up for a shorter. *)

Published == \A i \in 1..count : list[i] \in reported

ModesInv ==
  /\ list \in Seq(Modes \cup {Garbage}) /\ capacity = Len(list)
  /\ modes \in Seq(Modes) /\ count \in Nat /\ index \in Nat
  /\ count > 0 => rebuildAt = "rest"
  /\ ~reserveFailed =>
       /\ count <= Len(list)
       /\ rebuildAt = "copy" => list = <<>> \/ Len(modes) <= Len(list)
       /\ rebuildAt = "publish" =>
            Len(modes) <= Len(list) /\ \A i \in 1..Len(modes) : list[i] = modes[i]
       /\ Published
       /\ getter = "clamped" =>
            /\ index < Len(list)
            /\ ~torn => rebuildAt = "rest" /\ index < count

(* What sort leaves is a sequence of the modes kept.                       *)
LEMMA ArrangementsAreSeqs ==
  ASSUME NEW kept \in SUBSET Modes, NEW s \in SortedArrangements(kept)
  PROVE  /\ s \in Seq(Modes) /\ Len(s) = Cardinality(kept) /\ Cardinality(kept) \in Nat
         /\ \A m \in kept : \E i \in 1..Len(s) : s[i] = m
         /\ \A i \in 1..Len(s) : s[i] \in kept
         /\ \A i, j \in 1..Len(s) : i < j => ~Before(s[j], s[i])
<1>1. Cardinality(kept) \in Nat
  BY ModesAssumption, FS_Subset, FS_CardinalityType
<1>2. s \in [1..Cardinality(kept) -> kept]
  BY DEF SortedArrangements
<1>3. s \in Seq(Modes) /\ Len(s) = Cardinality(kept) /\ DOMAIN s = 1..Len(s)
  BY <1>1, <1>2
<1>. QED
  BY <1>1, <1>2, <1>3 DEF SortedArrangements, ToSet

(* What the fetch leaves: nothing, or some of the modes, sorted.           *)
LEMMA FetchLeaves ==
  ASSUME FetchModes
  PROVE  \/ rebuildAt' = "rest" /\ modes' = <<>>
         \/ /\ rebuildAt' = "reserve"
            /\ \E kept \in SUBSET Modes : modes' \in SortedArrangements(kept)
<1>1. PICK found \in SUBSET Modes :
        LET kept == {m \in found : AboveFloor(m)} IN
        \/ kept = {} /\ RebuildReturns("fetch")
        \/ kept # {} /\ RebuildStep("fetch", "reserve")
           /\ modes' \in SortedArrangements(kept) /\ UNCHANGED available
  BY Zenon DEF FetchModes
<1>2. {m \in found : AboveFloor(m)} \in SUBSET Modes
  OBVIOUS
<1>3. CASE RebuildReturns("fetch")
  BY <1>3 DEF RebuildReturns, RebuildStep
<1>4. CASE ~RebuildReturns("fetch")
  BY <1>1, <1>2, <1>4 DEF RebuildStep
<1>. QED
  BY <1>3, <1>4

LEMMA ModesStep ==
  ASSUME ModesInv, [ModesNext]_modeVars
  PROVE  ModesInv'
<1>0. Garbage \in Modes \cup {Garbage}
  OBVIOUS
<1> USE DEF ModesInv, Published, RebuildStep, getterVars
<1>1. CASE ClearCount
  <2>1. /\ UNCHANGED <<capacity, list, modes, reported, reserveFailed, getterVars>>
        /\ torn' = TRUE /\ rebuildAt' = "query" /\ count' = 0
    BY <1>1 DEF ClearCount
  <2>2. 1..count' = {} /\ ~(count' > 0)
    BY <2>1
  <2>3. reserveFailed' = reserveFailed
    BY <1>1 DEF ClearCount
  <2>. QED BY <2>1, <2>2, <2>3
<1>2. CASE NoModes
  <2>1. /\ UNCHANGED <<capacity, list, count, reported, reserveFailed, getterVars>>
        /\ torn' = TRUE /\ rebuildAt' = "rest" /\ modes' = <<>>
    BY <1>2 DEF NoModes, RebuildReturns
  <2>2. modes' \in Seq(Modes)
    BY <2>1
  <2>3. reserveFailed' = reserveFailed /\ index' = index
    BY <2>1
  <2>. QED BY <2>1, <2>2, <2>3
<1>3. CASE QueryModes
  BY <1>3 DEF QueryModes
<1>4. CASE FetchModes
  <2>1. /\ UNCHANGED <<capacity, list, count, reported, reserveFailed, getterVars>>
        /\ torn' = TRUE /\ rebuildAt = "fetch" /\ rebuildAt' \in {"rest", "reserve"}
    BY <1>4 DEF FetchModes, RebuildReturns
  <2>2. modes' \in Seq(Modes)
    <3>1. CASE modes' = <<>>
      BY <3>1
    <3>2. ASSUME NEW kept \in SUBSET Modes, modes' \in SortedArrangements(kept)
          PROVE  modes' \in Seq(Modes)
      BY <3>2, ArrangementsAreSeqs
    <3>. QED BY <1>4, <3>1, <3>2, FetchLeaves
  <2>. QED BY <2>1, <2>2
<1>5. CASE Reserve
  <2>1. /\ UNCHANGED <<count, modes, reported, getterVars>> /\ torn' = TRUE
        /\ rebuildAt = "reserve" /\ rebuildAt' = "copy" /\ count = 0
        /\ Len(modes) \in Nat /\ capacity \in Nat
    BY <1>5 DEF Reserve
  <2>2. CASE ReserveEnlarges /\ list' = [i \in 1..Len(modes) |-> Garbage] /\ capacity' = Len(modes)
             /\ UNCHANGED reserveFailed
    <3>1. list' \in Seq(Modes \cup {Garbage}) /\ Len(list') = Len(modes)
      BY <2>1, <2>2
    <3>2. Len(modes) > Len(list)
      BY <2>2 DEF ReserveEnlarges
    <3>. QED BY <2>1, <2>2, <3>1, <3>2
  <2>3. CASE reserveFailed' = (reserveFailed \/ list # <<>>) /\ UNCHANGED <<capacity, list>>
    BY <2>1, <2>3
  <2>4. CASE ~ReserveEnlarges /\ UNCHANGED <<capacity, list, reserveFailed>>
    <3>1. Len(modes) <= capacity
      <4>1. capacity % 16384 <= capacity
        BY <2>1
      <4>. QED BY <2>1, <2>4, <4>1 DEF ReserveEnlarges
    <3>. QED BY <2>1, <2>4, <3>1
  <2>. QED BY <1>5, <2>2, <2>3, <2>4 DEF Reserve
<1>6. CASE AllocationFailed
  BY <1>6 DEF AllocationFailed, RebuildReturns
<1>7. CASE CopyModes
  <2>1. list' \in Seq(Modes \cup {Garbage}) /\ Len(list') = Len(list)
    <3>1. \A i \in 1..Len(list) : (IF i <= Len(modes) THEN modes[i] ELSE list[i]) \in Modes \cup {Garbage}
      OBVIOUS
    <3>. QED BY <1>7, <3>1 DEF CopyModes
  <2>2. ASSUME ~reserveFailed, NEW i \in 1..Len(modes) PROVE list'[i] = modes[i] /\ Len(modes) <= Len(list)
    BY <1>7, <2>2 DEF CopyModes
  <2>. QED BY <1>7, <2>1, <2>2 DEF CopyModes
<1>8. CASE Publish
  <2>1. Len(modes) \in Nat /\ count' \in Nat /\ count' <= Len(modes)
    BY <1>8 DEF Publish
  <2>2. \A i \in 1..Len(modes) : modes[i] \in reported'
    BY <1>8 DEF Publish, ToSet
  <2>. QED BY <1>8, <2>1, <2>2 DEF Publish, RebuildReturns
<1>9. CASE CallGetter
  BY <1>9 DEF CallGetter, rebuildVars, Missing
<1>10. CASE ClampModeIndex
  BY <1>10 DEF ClampModeIndex, Getter, rebuildVars
<1>11. CASE ReturnZeros
  BY <1>11 DEF ReturnZeros, Getter, rebuildVars
<1>12. CASE ReadMode
  BY <1>12 DEF ReadMode, Getter, rebuildVars
<1>13. CASE UNCHANGED modeVars
  BY <1>13 DEF modeVars, rebuildVars
<1>. QED
  BY <1>1, <1>2, <1>3, <1>4, <1>5, <1>6, <1>7, <1>8, <1>9, <1>10, <1>11, <1>12, <1>13
     DEF ModesNext, Rebuild

LEMMA ModesInductive == ModesSpec => []ModesInv
<1>1. ModesInit => ModesInv
  BY DEF ModesInit, ModesInv, Published
<1>. QED
  BY <1>1, ModesStep, PTL DEF ModesSpec

(* The getter reads inside the list's allocation though a rebuild may      *)
(* empty, replace or fill the list between the clamp and the read: a list  *)
(* is only ever replaced by a longer one.  Without a rebuild it reads a    *)
(* published mode.                                                         *)
THEOREM GetterStaysInBounds == ModesSpec => []GetterInBounds
<1>1. ModesInv => GetterInBounds
  BY DEF ModesInv, GetterInBounds, Published
<1>. QED
  BY <1>1, ModesInductive, PTL

(* The keys are linearly ordered. *)
Keys == Int \X Int \X Int

LEMMA KeyOrder ==
  ASSUME NEW k \in Keys, NEW l \in Keys
  PROVE  Less(k, l) \/ k = l \/ Less(l, k)
  BY DEF Less, Keys

LEMMA KeyTypes ==
  ASSUME NEW m \in Modes \cup {Garbage}
  PROVE  Key(m) \in Keys
<1>1. m \in [width : Nat, height : Nat, numerator : Nat, denominator : Nat]
  BY ModesAssumption DEF Garbage
<1>2. RefreshHz(m) \in Int
  BY <1>1 DEF RefreshHz
<1>. QED
  BY <1>1, <1>2 DEF Key, Keys

(* The search's own equation has a solution: by the length of the range.   *)
Probe(f, p, k) ==
  LET mid == (p[1] + p[2]) \div 2
      at == Key(list[mid + 1]) IN
  IF p[1] >= p[2] THEN Missing
  ELSE IF at = k THEN mid
  ELSE IF Less(at, k) THEN f[<<mid + 1, p[2]>>] ELSE f[<<p[1], mid>>]

Search(k) == CHOOSE f : f = [p \in (0..count) \X (0..count) |-> Probe(f, p, k)]

LEMMA LookupIsSearch ==
  ASSUME NEW k PROVE Lookup(k) = Search(k)[<<0, count>>]
  BY DEF Lookup, Search, Probe

(* What holds of 0 and is handed on holds of every natural number.         *)
LEMMA SetInduction ==
  ASSUME NEW T \in SUBSET Nat, 0 \in T, \A w \in T : w + 1 \in T
  PROVE  T = Nat
<1> DEFINE R == {p \in Nat \X Nat : p[1] < p[2]}
           U == Nat \ T
<1>1. IsWellFoundedOn(R, Nat)
  BY NatLessThanWellFounded DEF OpToRel
<1>2. ASSUME U # {} PROVE FALSE
  <2>1. PICK x \in U : \A y \in U : ~(<<y, x>> \in R)
    <3>1. U \subseteq Nat
      OBVIOUS
    <3> HIDE DEF R, U
    <3>. QED BY <1>1, <1>2, <3>1, WFMin
  <2>2. x \in Nat /\ x # 0 /\ x \notin T
    BY <2>1
  <2>3. x - 1 \in Nat /\ <<x - 1, x>> \in R /\ (x - 1) + 1 = x
    BY <2>2
  <2>4. x - 1 \in T
    BY <2>1, <2>3
  <2>. QED BY <2>2, <2>3, <2>4
<1>. QED
  BY <1>2

(* The halves of a range are shorter. *)
Ranges(w) == {p \in (0..count) \X (0..count) : p[2] <= p[1] + w}

LEMMA Halves ==
  ASSUME count \in Nat, NEW w \in Nat, NEW p \in Ranges(w + 1), p[1] < p[2]
  PROVE  LET mid == (p[1] + p[2]) \div 2 IN
         /\ mid \in p[1]..(p[2] - 1)
         /\ <<mid + 1, p[2]>> \in Ranges(w) /\ <<p[1], mid>> \in Ranges(w)
<1>1. p[1] \in 0..count /\ p[2] \in 0..count /\ p[2] <= p[1] + (w + 1)
  BY DEF Ranges
<1> DEFINE mid == (p[1] + p[2]) \div 2
<1>2. mid \in Int /\ p[1] <= mid /\ mid < p[2]
  BY <1>1
<1> HIDE DEF mid
<1>3. mid + 1 \in 0..count /\ mid \in 0..count /\ p[2] <= (mid + 1) + w /\ mid <= p[1] + w
  BY <1>1, <1>2
<1>. QED
  BY <1>1, <1>2, <1>3 DEF mid, Ranges

(* So the engine's search is well defined: by the length of the range.     *)
LEMMA SearchIsDefined ==
  ASSUME count \in Nat, NEW k
  PROVE  \A p \in (0..count) \X (0..count) : Search(k)[p] = Probe(Search(k), p, k)
<1> DEFINE T == {w \in Nat : \E f : f = [p \in Ranges(w) |-> Probe(f, p, k)]}
<1>1. 0 \in T
  <2> DEFINE f == [p \in Ranges(0) |-> Missing]
  <2>1. \A p \in Ranges(0) : p[1] >= p[2]
    BY DEF Ranges
  <2>2. \A p \in Ranges(0) : Probe(f, p, k) = Missing
    BY <2>1 DEF Probe
  <2>3. f = [p \in Ranges(0) |-> Probe(f, p, k)]
    BY <2>2
  <2>. QED
    <3> HIDE DEF f
    <3>. QED BY <2>3
<1>2. ASSUME NEW w \in T PROVE w + 1 \in T
  <2>1. PICK f : f = [p \in Ranges(w) |-> Probe(f, p, k)]
    OBVIOUS
  <2> DEFINE g == [p \in Ranges(w + 1) |-> IF p \in Ranges(w) THEN f[p] ELSE Probe(f, p, k)]
  <2>2. \A p \in Ranges(w) : p \in Ranges(w + 1) /\ g[p] = f[p]
    BY DEF Ranges
  <2>3. ASSUME NEW p \in Ranges(w + 1) PROVE g[p] = Probe(f, p, k)
    BY <2>1
  <2> HIDE DEF g
  <2>4. ASSUME NEW p \in Ranges(w + 1) PROVE Probe(g, p, k) = Probe(f, p, k)
    <3>0. p[1] \in Nat /\ p[2] \in Nat
      BY DEF Ranges
    <3>1. CASE p[1] >= p[2]
      BY <3>1 DEF Probe
    <3>2. CASE p[1] < p[2]
      <4> DEFINE mid == (p[1] + p[2]) \div 2
      <4>1. <<mid + 1, p[2]>> \in Ranges(w) /\ <<p[1], mid>> \in Ranges(w)
        BY <3>2, Halves
      <4>2. g[<<mid + 1, p[2]>>] = f[<<mid + 1, p[2]>>] /\ g[<<p[1], mid>>] = f[<<p[1], mid>>]
        BY <2>2, <4>1
      <4>. QED BY <4>2 DEF Probe
    <3>. QED BY <3>0, <3>1, <3>2
  <2>5. g = [p \in Ranges(w + 1) |-> Probe(g, p, k)]
    <3>1. \A p \in Ranges(w + 1) : g[p] = Probe(g, p, k)
      BY <2>3, <2>4
    <3>2. g = [p \in Ranges(w + 1) |-> g[p]]
      BY DEF g
    <3>. QED BY <3>1, <3>2
  <2>. QED BY <2>5
<1> HIDE DEF T
<1>3. T = Nat
  <2>1. T \in SUBSET Nat
    BY DEF T
  <2>. QED BY <1>1, <1>2, <2>1, SetInduction
<1>4. Ranges(count) = (0..count) \X (0..count)
  BY DEF Ranges
<1>5. \E f : f = [p \in (0..count) \X (0..count) |-> Probe(f, p, k)]
  BY <1>3, <1>4 DEF T
<1>6. Search(k) = [p \in (0..count) \X (0..count) |-> Probe(Search(k), p, k)]
  BY <1>5 DEF Search
<1>. QED
  BY <1>6

SortedList == \A i, j \in 1..count : i < j => ~Less(Key(list[j]), Key(list[i]))

(* The engine's lookup finds every key of a sorted list: the half that is  *)
(* left always holds the key that is looked for.                           *)
THEOREM LookupFinds ==
  ASSUME count \in Nat, \A i \in 1..count : Key(list[i]) \in Keys, SortedList,
         NEW k \in Keys, \E i \in 1..count : Key(list[i]) = k
  PROVE  Lookup(k) \in 0..(count - 1) /\ Key(list[Lookup(k) + 1]) = k
<1> DEFINE s == Search(k)
           Holds(p) == \E i \in (p[1] + 1)..p[2] : Key(list[i]) = k
           Right(p) == s[p] \in p[1]..(p[2] - 1) /\ Key(list[s[p] + 1]) = k
           T == {w \in Nat : \A p \in Ranges(w) : Holds(p) => Right(p)}
<1>0. \A p \in (0..count) \X (0..count) : s[p] = Probe(s, p, k)
  BY SearchIsDefined
<1> HIDE DEF s
<1>1. 0 \in T
  <2>1. \A p \in Ranges(0) : (p[1] + 1)..p[2] = {}
    BY DEF Ranges
  <2>. QED BY <2>1
<1>2. ASSUME NEW w \in T PROVE w + 1 \in T
  <2>1. SUFFICES ASSUME NEW p \in Ranges(w + 1), Holds(p) PROVE Right(p)
    OBVIOUS
  <2>2. PICK i \in (p[1] + 1)..p[2] : Key(list[i]) = k
    BY <2>1
  <2>3. p[1] \in 0..count /\ p[2] \in 0..count /\ p \in (0..count) \X (0..count)
    BY DEF Ranges
  <2>4. p[1] < p[2] /\ i \in 1..count /\ i \in Nat
    BY <2>2, <2>3
  <2> DEFINE mid == (p[1] + p[2]) \div 2
             at == Key(list[mid + 1])
  <2>5. /\ mid \in p[1]..(p[2] - 1)
        /\ <<mid + 1, p[2]>> \in Ranges(w) /\ <<p[1], mid>> \in Ranges(w)
    BY <2>4, Halves
  <2>6. s[p] = IF at = k THEN mid
               ELSE IF Less(at, k) THEN s[<<mid + 1, p[2]>>] ELSE s[<<p[1], mid>>]
    BY <1>0, <2>3, <2>4 DEF Probe
  <2> HIDE DEF mid
  <2>7. mid \in Nat /\ p[1] <= mid /\ mid < p[2] /\ mid + 1 \in 1..count
    BY <2>3, <2>5
  <2>8. at \in Keys
    BY <2>7
  <2>9. CASE at = k
    BY <2>5, <2>6, <2>9
  <2>10. CASE at # k /\ Less(at, k)
    <3>1. ~(i <= mid + 1)
      BY <2>2, <2>4, <2>7, <2>10 DEF SortedList
    <3>2. i \in (mid + 1 + 1)..p[2]
      BY <2>2, <2>3, <2>4, <2>7, <3>1
    <3>3. Right(<<mid + 1, p[2]>>)
      BY <2>2, <2>5, <3>2
    <3>4. s[p] = s[<<mid + 1, p[2]>>]
      BY <2>6, <2>10
    <3>. QED BY <2>3, <2>7, <3>3, <3>4
  <2>11. CASE at # k /\ ~Less(at, k)
    <3>0. Less(k, at)
      BY <2>8, <2>11, KeyOrder
    <3>1. ~(mid + 1 <= i)
      BY <2>2, <2>4, <2>7, <2>11, <3>0 DEF SortedList
    <3>2. i \in (p[1] + 1)..mid
      BY <2>2, <2>3, <2>4, <2>7, <3>1
    <3>3. Right(<<p[1], mid>>)
      BY <2>2, <2>5, <3>2
    <3>4. s[p] = s[<<p[1], mid>>]
      BY <2>6, <2>11
    <3>. QED BY <2>3, <2>7, <3>3, <3>4
  <2>. QED BY <2>9, <2>10, <2>11
<1>3. T = Nat
  <2>1. T \in SUBSET Nat
    OBVIOUS
  <2> HIDE DEF T
  <2>. QED BY <1>1, <1>2, <2>1, SetInduction
<1>4. <<0, count>> \in Ranges(count) /\ Holds(<<0, count>>)
  BY DEF Ranges
<1>5. Right(<<0, count>>)
  BY <1>3, <1>4
<1>. QED
  BY <1>5, LookupIsSearch DEF s

(* From the sort to the publication the rebuild's modes are in the order   *)
(* of the lookup, and what is published is all of them.                    *)
LookupInv ==
  /\ rebuildAt \in {"reserve", "copy", "publish"} =>
       /\ Len(modes) < 65536
       /\ \A i, j \in 1..Len(modes) : i < j => ~Before(modes[j], modes[i])
  /\ count < 65536
  /\ ~reserveFailed => SortedList
  /\ ~reserveFailed /\ count > 0 => \A m \in reported : \E i \in 1..count : list[i] = m

LEMMA LookupStep ==
  ASSUME Cardinality(Modes) < 65536, ModesInv, LookupInv, [ModesNext]_modeVars
  PROVE  LookupInv'
<1> USE DEF LookupInv, SortedList, RebuildStep
<1>0. Len(modes) \in Nat /\ count \in Nat
  BY DEF ModesInv
<1>1. CASE ClearCount
  <2>1. modes' = modes /\ reserveFailed' = reserveFailed /\ rebuildAt' = "query" /\ count' = 0
    BY <1>1 DEF ClearCount
  <2>. QED BY <2>1
<1>2. CASE NoModes
  <2>1. UNCHANGED <<list, count, reported, reserveFailed>> /\ rebuildAt' = "rest"
    BY <1>2 DEF NoModes, RebuildReturns
  <2>. QED BY <2>1
<1>3. CASE QueryModes
  BY <1>3 DEF QueryModes
<1>4. CASE FetchModes
  <2>1. UNCHANGED <<list, count, reported, reserveFailed>> /\ rebuildAt' \in {"rest", "reserve"}
    BY <1>4 DEF FetchModes, RebuildReturns
  <2>2. ASSUME rebuildAt' = "reserve"
        PROVE  /\ Len(modes') < 65536
               /\ \A i, j \in 1..Len(modes') : i < j => ~Before(modes'[j], modes'[i])
    <3>1. PICK kept \in SUBSET Modes : modes' \in SortedArrangements(kept)
      BY <1>4, <2>2, FetchLeaves
    <3>2. /\ Len(modes') = Cardinality(kept) /\ Cardinality(kept) \in Nat
          /\ \A i, j \in 1..Len(modes') : i < j => ~Before(modes'[j], modes'[i])
      BY <3>1, ArrangementsAreSeqs
    <3>3. Cardinality(kept) <= Cardinality(Modes) /\ Cardinality(Modes) \in Nat
      BY ModesAssumption, FS_Subset, FS_CardinalityType
    <3>. QED BY <3>2, <3>3
  <2>. QED BY <2>1, <2>2
<1>5. CASE Reserve
  <2>1. /\ UNCHANGED <<count, modes, reported>>
        /\ rebuildAt = "reserve" /\ rebuildAt' = "copy" /\ count = 0
    BY <1>5 DEF Reserve, ModesInv
  <2>. QED BY <2>1
<1>6. CASE AllocationFailed
  <2>1. UNCHANGED <<list, count, reported, reserveFailed>> /\ rebuildAt' = "rest"
    BY <1>6 DEF AllocationFailed, RebuildReturns
  <2>. QED BY <2>1
<1>7. CASE CopyModes
  <2>1. /\ UNCHANGED <<count, modes, reported>>
        /\ rebuildAt = "copy" /\ rebuildAt' = "publish" /\ count = 0
    BY <1>7 DEF CopyModes, ModesInv
  <2>. QED BY <2>1
<1>8. CASE Publish
  <2>1. /\ UNCHANGED <<list, reserveFailed>> /\ rebuildAt = "publish" /\ rebuildAt' = "rest"
        /\ count' = Len(modes) % 65536 /\ reported' = ToSet(modes)
    BY <1>8 DEF Publish, RebuildReturns
  <2>2. count' = Len(modes) /\ count' < 65536
    BY <1>0, <2>1
  <2>3. ASSUME ~reserveFailed PROVE \A i \in 1..count' : list'[i] = modes[i]
    BY <2>1, <2>2, <2>3 DEF ModesInv
  <2>4. ASSUME ~reserveFailed PROVE SortedList'
    BY <2>1, <2>2, <2>3, <2>4 DEF Before
  <2>5. \A m \in reported' : \E i \in 1..Len(modes) : modes[i] = m
    BY <2>1 DEF ToSet, ModesInv
  <2>. QED BY <2>1, <2>2, <2>3, <2>4, <2>5
<1>9. CASE CallGetter \/ ClampModeIndex \/ ReturnZeros \/ ReadMode
  <2>1. UNCHANGED rebuildVars
    BY <1>9 DEF CallGetter, ClampModeIndex, ReturnZeros, ReadMode, Getter
  <2>. QED BY <2>1 DEF rebuildVars
<1>10. CASE UNCHANGED modeVars
  BY <1>10 DEF modeVars, rebuildVars
<1>. QED
  BY <1>1, <1>2, <1>3, <1>4, <1>5, <1>6, <1>7, <1>8, <1>9, <1>10 DEF ModesNext, Rebuild

(* A mode of the published list resolves to an index with its resolution   *)
(* and rounded rate, whatever modes the output reports and in whatever     *)
(* order the sort leaves those it cannot tell apart; the list's count has  *)
(* 16 bits, and is taken to hold the number of modes there can be.         *)
THEOREM SavedModesResolve ==
  ASSUME Cardinality(Modes) < 65536
  PROVE  ModesSpec => []SavedModeResolves
<1>1. ModesInit => LookupInv
  BY DEF ModesInit, LookupInv, SortedList
<1>2. ModesInv /\ LookupInv /\ [ModesNext]_modeVars => LookupInv'
  BY LookupStep
<1>3. ModesInv /\ LookupInv => SavedModeResolves
  <2>1. SUFFICES ASSUME ModesInv, LookupInv, rebuildAt = "rest", count > 0, ~reserveFailed,
                        NEW m \in reported
                 PROVE  Lookup(Key(m)) # Missing /\ Key(list[Lookup(Key(m)) + 1]) = Key(m)
    BY DEF SavedModeResolves
  <2>2. PICK i \in 1..count : list[i] = m
    BY <2>1 DEF LookupInv
  <2>3. count \in Nat /\ count <= Len(list) /\ \A j \in 1..count : list[j] \in Modes \cup {Garbage}
    BY <2>1 DEF ModesInv
  <2>4. \A j \in 1..count : Key(list[j]) \in Keys
    BY <2>3, KeyTypes
  <2>5. SortedList /\ Key(m) \in Keys /\ Key(list[i]) = Key(m)
    BY <2>1, <2>2, <2>4 DEF LookupInv
  <2>6. Lookup(Key(m)) \in 0..(count - 1) /\ Key(list[Lookup(Key(m)) + 1]) = Key(m)
    BY <2>2, <2>3, <2>4, <2>5, LookupFinds
  <2>7. Lookup(Key(m)) < 65536
    BY <2>1, <2>3, <2>6 DEF LookupInv
  <2>. QED BY <2>6, <2>7 DEF Missing
<1>. QED
  BY <1>1, <1>2, <1>3, ModesInductive, PTL DEF ModesSpec

-----------------------------------------------------------------------------
(* Types: by the site it is at, the install knows what is hooked; from the *)
(* fetch on, the rebuild's vector has each mode once.                      *)
GameStateTypeInv ==
  /\ GameStateTypeOK
  /\ site \in Site
  /\ site = "pause" => "unpause" \in hooked
  /\ site = "pause2" => {"unpause", "pause"} \subseteq hooked

DisplayTypeInv ==
  /\ DisplayTypeOK
  /\ cfg \in [aspect_ratio : Aspects \cup {None}, mode : FovMode]

ModesTypeInv ==
  /\ ModesTypeOK
  /\ rebuildAt \in {"reserve", "copy", "publish"} => Len(modes) = Cardinality(ToSet(modes))

LEMMA GameStateTypeStep ==
  ASSUME GameStateTypeInv, GameStateNext \/ UNCHANGED gameStateOwn
  PROVE  GameStateTypeInv'
<1> USE DEF GameStateTypeInv, GameStateTypeOK, game, install
<1>1. CASE NewObject
  BY <1>1, MaxObjectsAssumption DEF NewObject
<1>2. CASE PublishObject
  BY <1>2 DEF PublishObject
<1>3. ASSUME NEW s \in Site, Transition(s) PROVE GameStateTypeInv'
  <2>1. pause_flag' \in [Object -> {0, 1}]
    BY <1>3 DEF Transition
  <2>. QED BY <1>3, <2>1, MaxObjectsAssumption DEF Transition, Callback, ResolveState
<1>4. CASE CacheState
  BY <1>4, MaxObjectsAssumption DEF CacheState, InstallStep
<1>5. CASE ClearSite
  BY <1>5 DEF ClearSite, InstallStep
<1>6. CASE HookSite
  BY <1>6 DEF HookSite, InstallStep, MoreSites, NextSite, Site
<1>7. CASE InstallFails
  BY <1>7 DEF InstallFails, InstallStep
<1>8. CASE UNCHANGED gameStateOwn
  BY <1>8 DEF gameStateOwn
<1>. QED
  BY <1>1, <1>2, <1>3, <1>4, <1>5, <1>6, <1>7, <1>8 DEF GameStateNext

LEMMA DisplayTypeStep ==
  ASSUME DisplayTypeInv, DisplayNext \/ UNCHANGED displayOwn
  PROVE  DisplayTypeInv'
<1> USE AspectAssumption DEF DisplayTypeInv, DisplayTypeOK, settings, frame, None
<1>0. Wanted \in Aspects \cup {None}
  BY DEF Wanted
<1>1. CASE DisplayChanges \/ PauseOrUnpause
  BY <1>1 DEF DisplayChanges, PauseOrUnpause, Change
<1>2. CASE LoadFitting
  BY <1>2 DEF LoadFitting, ReloadStep, Ini
<1>3. CASE Reload
  BY <1>3 DEF Reload, LoadFov, StoreFlags, Notify, ReloadStep, Ini
<1>4. CASE Load \/ RatioMul
  BY <1>0, <1>4 DEF Load, RatioLoad, StoreAspect, RatioMul
<1>5. CASE Fov
  BY <1>5 DEF Fov, FovDecides, FovComputes
<1>6. CASE UNCHANGED displayOwn
  BY <1>6 DEF displayOwn
<1>. QED
  BY <1>1, <1>2, <1>3, <1>4, <1>5, <1>6 DEF DisplayNext

LEMMA ModesTypeStep ==
  ASSUME ModesInv, ModesInv', LookupInv, ModesTypeInv, [ModesNext]_modeVars
  PROVE  ModesTypeInv'
<1> USE DEF ModesTypeInv, ModesTypeOK, RebuildStep
<1>1. ToSet(list)' \subseteq Modes \cup {Garbage}
  BY DEF ModesInv, ToSet
<1>2. CASE ClearCount \/ QueryModes
  BY <1>1, <1>2 DEF ClearCount, QueryModes, getterVars
<1>3. CASE NoModes \/ AllocationFailed
  BY <1>1, <1>3 DEF NoModes, AllocationFailed, RebuildReturns, getterVars
<1>4. CASE FetchModes
  <2>1. UNCHANGED <<count, reported, getter>> /\ rebuildAt' \in {"rest", "reserve"}
    BY <1>4 DEF FetchModes, RebuildReturns, getterVars
  <2>2. ASSUME rebuildAt' = "reserve" PROVE Len(modes') = Cardinality(ToSet(modes'))
    <3>1. PICK kept \in SUBSET Modes : modes' \in SortedArrangements(kept)
      BY <1>4, <2>2, FetchLeaves
    <3>2. Len(modes') = Cardinality(kept)
      BY <3>1, ArrangementsAreSeqs
    <3>3. ToSet(modes') = kept
      BY <3>1 DEF SortedArrangements
    <3>. QED BY <3>2, <3>3
  <2>. QED BY <1>1, <2>1, <2>2
<1>5. CASE Reserve
  BY <1>1, <1>5 DEF Reserve, getterVars
<1>6. CASE CopyModes
  BY <1>1, <1>6 DEF CopyModes, getterVars
<1>7. CASE Publish
  <2>1. /\ rebuildAt = "publish" /\ rebuildAt' = "rest" /\ getter' = getter
        /\ count' = Len(modes) % 65536 /\ reported' = ToSet(modes)
    BY <1>7 DEF Publish, RebuildReturns, getterVars
  <2>2. count' = Len(modes)
    BY <2>1 DEF LookupInv, ModesInv
  <2>. QED BY <1>1, <2>1, <2>2
<1>8. CASE CallGetter \/ ClampModeIndex \/ ReturnZeros \/ ReadMode
  <2>1. UNCHANGED rebuildVars /\ getter' \in {"idle", "entered", "clamped"}
    BY <1>8 DEF CallGetter, ClampModeIndex, ReturnZeros, ReadMode, Getter
  <2>. QED BY <1>1, <2>1 DEF rebuildVars
<1>9. CASE UNCHANGED modeVars
  BY <1>1, <1>9 DEF modeVars, rebuildVars, getterVars
<1>. QED
  BY <1>2, <1>3, <1>4, <1>5, <1>6, <1>7, <1>8, <1>9 DEF ModesNext, Rebuild

(* A language is forced only when the INI names one.                       *)
LanguageTypeInv ==
  /\ LanguageTypeOK
  /\ langPc \in {"index", "language"} => s_ui_language # NoLanguage

(* Nothing is named at the start.                                          *)
LEMMA LanguageTypeInit == LanguageInit => LanguageTypeInv
<1> SUFFICES ASSUME LanguageInit PROVE LanguageTypeInv
  OBVIOUS
<1>1. /\ langIdx \in AllMenu /\ uiLanguage \in Lang /\ uiLang \in Lang /\ loading \in Lang /\ shown \in Lang
      /\ s_ui_language \in Lang /\ s_current_language \in Lang
  BY LanguageAssumption DEF LanguageInit, Lang
<1>2. langPc \in Installing /\ langPc \notin Switching /\ langPc \notin {"index", "language"}
  BY DEF LanguageInit, Installing, Switching
<1>3. s_real_game_id \in GameId /\ answer \in GameId \cup {NoId}
  BY DEF LanguageInit, GameId
<1>4. /\ gameInit \in BOOLEAN /\ langOn \in BOOLEAN /\ unlockAll \in BOOLEAN /\ setUpHooked \in BOOLEAN
      /\ idxGlobal \in BOOLEAN /\ uiGlobal \in BOOLEAN /\ canReload \in BOOLEAN
  BY DEF LanguageInit
<1>5. menu \in SUBSET AllMenu
  BY DEF LanguageInit
<1>. QED
  BY <1>1, <1>2, <1>3, <1>4, <1>5 DEF LanguageInit, LanguageTypeInv, LanguageTypeOK

(* What install, on_reload and the game store is of the variable's type.   *)
LEMMA LanguageTypeStep ==
  ASSUME LanguageTypeInv, LanguageNext \/ UNCHANGED languageVars
  PROVE  LanguageTypeInv'
<1> USE LanguageAssumption DEF LanguageTypeInv, LanguageTypeOK, fixed, gameVars, bitfields, language, strings,
        mainThread, id, resolved, config
<1>1. CASE ReadConfig
  BY <1>1 DEF ReadConfig, Installing, Switching, Lang
<1>2. CASE OverrideIndex \/ OverrideLanguage \/ ResolveLocalization
  <2> USE <1>2 DEF OverrideIndex, OverrideLanguage, ResolveLocalization, LangInstallStep, Goto
  <2>1. langPc \notin Switching /\ langPc' \in Installing \cup {"rest"} /\ langPc' \notin Switching
    BY DEF Installing, Switching
  <2>2. langIdx' \in AllMenu /\ uiLang' \in Lang /\ s_current_language' \in Lang
    BY DEF Lang
  <2>3. idxGlobal' \in BOOLEAN /\ uiGlobal' \in BOOLEAN /\ canReload' \in BOOLEAN
    OBVIOUS
  <2>4. UNCHANGED <<fixed, strings, mainThread, bitfields, id, config, setUpHooked, s_ui_language,
                    s_real_game_id>>
    OBVIOUS
  <2>5. langPc' \in {"index", "language"} => langPc = "index"
    OBVIOUS
  <2>. QED BY <2>1, <2>2, <2>3, <2>4, <2>5
<1>3. CASE UnlockFails \/ ResolveIsSteam \/ PrePatchMenu \/ PrePatchAudio \/ ClearSetup \/ HookSetup
  <2> USE <1>3 DEF UnlockFails, ResolveIsSteam, PrePatchMenu, PrePatchAudio, ClearSetup, HookSetup,
          UnlockStep, LangInstallStep, Goto
  <2>1. langPc \notin Switching /\ langPc' \in Installing \cup {"failed"} /\ langPc' \notin Switching
    BY DEF Installing, Switching
  <2>2. langPc' \notin {"index", "language"}
    OBVIOUS
  <2>3. menu' \in SUBSET AllMenu /\ audio' \in {"empty", "retail", "all"} /\ setUpHooked' \in BOOLEAN
    OBVIOUS
  <2>. QED BY <2>1, <2>2, <2>3
<1>4. CASE NopGameId \/ HookGameId \/ RetGameId
  BY <1>4 DEF NopGameId, HookGameId, RetGameId, UnlockStep, LangInstallStep, Goto, Installing, Switching
<1>5. CASE BeginReload
  BY <1>5 DEF BeginReload, LoadIni, OnReloadStep, Goto, Switching, Lang
<1>6. CASE SwitchLanguage \/ SwitchIndex \/ ReloadStrings
  BY <1>6 DEF SwitchLanguage, SwitchIndex, ReloadStrings, OnReloadStep, Goto, Switching, Lang
<1>7. CASE GameInit \/ LoadLanguages
  <2>1. loadedIn' \in {"never", "before", "between", "after"}
    BY <1>7 DEF GameInit, LoadLanguages, GameStep, Main, Stage
  <2>2. gameInit' \in BOOLEAN
    BY <1>7 DEF GameInit, LoadLanguages
  <2>3. menu' \in SUBSET AllMenu /\ audio' \in {"empty", "retail", "all"} /\ uiLang' \in Lang
    BY <1>7 DEF GameInit, LoadLanguages, Lang
  <2>4. main' \in {"none", "loaded", "setUp", "validated", "loading", "running"}
    BY <1>7 DEF GameInit, LoadLanguages, Main
  <2>5. UNCHANGED <<fixed, langIdx, strings, detected, id, resolved, config, langPc, setUpHooked,
                    s_current_language, s_real_game_id>>
    BY <1>7 DEF GameInit, LoadLanguages, GameStep, Main
  <2>. QED BY <2>1, <2>2, <2>3, <2>4, <2>5
<1>8. CASE SetUpLanguages
  <2>1. s_real_game_id' \in GameId
    BY <1>8 DEF SetUpLanguages, LangBitfieldPatch, Detected, Region, GameId
  <2>. QED BY <1>8, <2>1 DEF SetUpLanguages, LangBitfieldPatch, Forced, GameStep, Main, Lang
<1>9. CASE Validate \/ LocInit \/ LocLoaded
  BY <1>9 DEF Validate, LocInit, LocLoaded, GameStep, Main, Lang
<1>10. CASE GetGameId
  <2>1. answer' \in GameId
    BY <1>10 DEF GetGameId, Region, GameId
  <2>. QED BY <1>10, <2>1 DEF GetGameId, GameStep, Main
<1>11. CASE UNCHANGED languageVars
  BY <1>11 DEF languageVars
<1>. QED
  BY <1>1, <1>2, <1>3, <1>4, <1>5, <1>6, <1>7, <1>8, <1>9, <1>10, <1>11
     DEF LanguageNext, Install, OnReload, Game

(* The states of the four parts that are typed stay in their types,        *)
(* whichever part runs and though two of them share is_in_game; a list in  *)
(* place has as many modes as were published, if 16 bits can count them.   *)
THEOREM PartsStayTyped ==
  ASSUME Cardinality(Modes) < 65536
  PROVE  MCSpec => []MCTypeOK
<1> DEFINE PartsInv ==
      GameStateTypeInv /\ DisplayTypeInv /\ ModesInv /\ LookupInv /\ ModesTypeInv /\ LanguageTypeInv
<1>1. MCInit => PartsInv
  <2> SUFFICES ASSUME MCInit PROVE PartsInv
    OBVIOUS
  <2> USE DEF MCInit
  <2>1. GameStateTypeInv
    BY MaxObjectsAssumption DEF GameStateInit, GameStateTypeInv, GameStateTypeOK, Site
  <2>2. DisplayTypeInv
    BY AspectAssumption DEF DisplayInit, DisplayTypeInv, DisplayTypeOK, Ini, None, FovMode
  <2>3. ModesInv /\ LookupInv
    BY DEF ModesInit, ModesInv, LookupInv, Published, SortedList
  <2>4. ModesTypeInv
    BY DEF ModesInit, ModesTypeInv, ModesTypeOK, ToSet
  <2>5. LanguageTypeInv
    BY LanguageTypeInit
  <2>. QED BY <2>1, <2>2, <2>3, <2>4, <2>5
<1>2. PartsInv /\ [MCNext]_mcVars => PartsInv'
  <2> SUFFICES ASSUME PartsInv, [MCNext]_mcVars PROVE PartsInv'
    OBVIOUS
  <2>1. /\ GameStateNext \/ UNCHANGED gameStateOwn
        /\ DisplayNext \/ UNCHANGED displayOwn
        /\ [ModesNext]_modeVars
        /\ LanguageNext \/ UNCHANGED languageVars
    BY DEF MCNext, mcVars, gameStateVars, displayVars, displayOwn, settings
  <2>2. ModesInv' /\ LookupInv'
    BY <2>1, ModesStep, LookupStep
  <2>. QED BY <2>1, <2>2, GameStateTypeStep, DisplayTypeStep, ModesTypeStep,
              LanguageTypeStep
<1>3. PartsInv => MCTypeOK
  BY DEF GameStateTypeInv, DisplayTypeInv, ModesTypeInv, LanguageTypeInv, MCTypeOK
<1>. QED
  BY <1>1, <1>2, <1>3, PTL DEF MCSpec
=============================================================================
