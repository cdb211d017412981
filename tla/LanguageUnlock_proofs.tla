------------------------- MODULE LanguageUnlock_proofs ------------------------
(***************************************************************************)
(* The safety of the language unlock for any set of languages and copies:  *)
(* what stays unlocked, which region the stub answers with, and that       *)
(* switches in the running game are shown.                                 *)
(***************************************************************************)
EXTENDS LanguageUnlock, TLAPS

Before == {"start", "index", "language", "localization", "steam", "menu"}
Between == {"audio", "clear", "hook"}
Stubbing == {"nop", "stub", "ret"}
Mains == {"none", "loaded", "setUp", "validated", "loading", "running"}

(* How far install is, and where that leaves what it recorded.             *)
ProgressInv ==
  /\ langPc \in Before \cup Between \cup Stubbing \cup Switching \cup {"rest", "failed"}
  /\ main \in Mains
  /\ loadedIn \in {"never", "before", "between", "after"}
  /\ setUpHooked \in BOOLEAN /\ gameInit \in BOOLEAN
  /\ setUpHooked => langPc \notin Before \cup Between
  /\ langPc \in Stubbing => setUpHooked
  /\ main = "none" <=> loadedIn = "never"
  /\ loadedIn \in {"between", "after"} => langPc \notin Before
  /\ loadedIn = "after" => langPc \notin Between
  /\ main \in {"loading", "running"} => gameInit
  /\ lastSwitch = "late" => main = "running"
  /\ answeredBy # "none" => main = "running"
  /\ lastSwitch # "none" => langPc \in Switching \cup {"rest"}

(* The bitfields: unlocked by the stores unless the loader came after them,*)
(* and by the callback.                                                    *)
BitfieldInv ==
  /\ main \in {"none", "loaded"} => detected = "no"
  /\ detected # "no" => menu = AllMenu /\ audio = "all"
  /\ loadedIn \in {"never", "before"} /\ langPc = "audio" => menu = AllMenu
  /\ loadedIn \in {"never", "before"} /\ (langPc \in {"clear", "hook"} \/ setUpHooked) =>
        menu = AllMenu /\ audio = "all"
  /\ loadedIn = "after" /\ setUpHooked /\ main \notin {"none", "loaded"} => detected # "no"

(* The region: until the callback runs, a bitfield loaded after the store  *)
(* is the copy's.                                                          *)
RegionInv ==
  /\ loadedIn \in {"between", "after"} /\ main = "loaded" => menu = copy
  /\ loadedIn \in {"between", "after"} /\ detected # "no" => s_real_game_id = TrueId

(* A switch in the running game, step by step.                             *)
SwitchInv ==
  lastSwitch = "late" /\ uiGlobal /\ canReload =>
    /\ langPc \in {"idx", "strings"} => uiLang = uiLanguage
    /\ langPc = "rest" => /\ shown = s_current_language /\ uiLang = s_current_language
                          /\ langOn => uiLanguage \in {s_current_language, NoLanguage}

UnlockInv == ProgressInv /\ BitfieldInv /\ RegionInv /\ StubAnswersTrueId /\ SwitchInv

-----------------------------------------------------------------------------
(* Nothing has been done at the start.                                     *)
LEMMA UnlockInvInit == LanguageInit => UnlockInv
  BY DEF LanguageInit, UnlockInv, ProgressInv, BitfieldInv, RegionInv, StubAnswersTrueId, SwitchInv,
         Before, Between, Stubbing, Switching, Mains

(* Install's steps up to its stores to the bitfields, and its failures.    *)
LEMMA EarlyStep ==
  ASSUME UnlockInv,
         \/ ReadConfig \/ OverrideIndex \/ OverrideLanguage \/ ResolveLocalization
         \/ ResolveIsSteam \/ UnlockFails \/ HookGameId \/ NopGameId \/ RetGameId
  PROVE  UnlockInv'
<1> USE DEF fixed, bitfields, language, strings, mainThread, gameVars, id, resolved, config,
            LangInstallStep, UnlockStep, Goto
<1>1. ProgressInv'
  BY DEF UnlockInv, ProgressInv, ReadConfig, OverrideIndex, OverrideLanguage, ResolveLocalization,
         ResolveIsSteam, UnlockFails, HookGameId, NopGameId, RetGameId,
         Before, Between, Stubbing, Switching, Mains
<1>2. BitfieldInv'
  BY DEF UnlockInv, ProgressInv, BitfieldInv, ReadConfig, OverrideIndex, OverrideLanguage,
         ResolveLocalization, ResolveIsSteam, UnlockFails, HookGameId, NopGameId, RetGameId,
         Before, Between, Stubbing
<1>3. RegionInv' /\ StubAnswersTrueId'
  BY DEF UnlockInv, RegionInv, StubAnswersTrueId, TrueId, Region, ReadConfig, OverrideIndex, OverrideLanguage,
         ResolveLocalization, ResolveIsSteam, UnlockFails, HookGameId, NopGameId, RetGameId
<1>4. lastSwitch' # "late"
  BY DEF UnlockInv, ProgressInv, ReadConfig, OverrideIndex, OverrideLanguage, ResolveLocalization,
         ResolveIsSteam, UnlockFails, HookGameId, NopGameId, RetGameId, Switching
<1>. QED BY <1>1, <1>2, <1>3, <1>4 DEF UnlockInv, SwitchInv

(* The stores to the bitfields and the hook.                               *)
LEMMA UnlockingStep ==
  ASSUME UnlockInv, PrePatchMenu \/ PrePatchAudio \/ ClearSetup \/ HookSetup
  PROVE  UnlockInv'
<1> USE DEF fixed, bitfields, language, strings, mainThread, id, resolved, config,
            LangInstallStep, UnlockStep, Goto, PrePatchMenu, PrePatchAudio, ClearSetup, HookSetup
<1>1. ProgressInv' /\ lastSwitch' # "late"
  <2>1. lastSwitch' # "late"
    BY DEF UnlockInv, ProgressInv, Switching
  <2>2. CASE PrePatchMenu \/ PrePatchAudio \/ ClearSetup
    BY <2>2 DEF UnlockInv, ProgressInv, Before, Between, Stubbing, Switching, Mains
  <2>3. CASE HookSetup
    BY <2>3 DEF UnlockInv, ProgressInv, Before, Between, Stubbing, Switching, Mains
  <2>. QED BY <2>1, <2>2, <2>3
<1>2. BitfieldInv'
  BY DEF UnlockInv, ProgressInv, BitfieldInv, Before, Between, Stubbing
<1>3. RegionInv'
  BY DEF UnlockInv, ProgressInv, RegionInv, TrueId, Region, Before, Between
<1>4. StubAnswersTrueId'
  BY DEF UnlockInv, StubAnswersTrueId, TrueId, Region
<1>. QED BY <1>1, <1>2, <1>3, <1>4 DEF UnlockInv, SwitchInv

(* on_reload touches neither the bitfields nor the ID.                     *)
LEMMA SwitchStep ==
  ASSUME UnlockInv, OnReload
  PROVE  UnlockInv'
<1> USE DEF fixed, bitfields, language, strings, mainThread, id, resolved, config,
            OnReloadStep, Goto, OnReload, BeginReload, LoadIni, SwitchLanguage, SwitchIndex, ReloadStrings
<1>1. ProgressInv'
  BY DEF UnlockInv, ProgressInv, Before, Between, Stubbing, Switching, Mains
<1>2. BitfieldInv'
  BY DEF UnlockInv, ProgressInv, BitfieldInv
<1>3. RegionInv' /\ StubAnswersTrueId'
  BY DEF UnlockInv, RegionInv, StubAnswersTrueId, TrueId, Region
<1>4. SwitchInv'
  <2>1. CASE BeginReload
    BY <2>1 DEF UnlockInv, SwitchInv
  <2>2. CASE SwitchLanguage
    BY <2>2 DEF UnlockInv, SwitchInv
  <2>3. CASE SwitchIndex
    BY <2>3 DEF UnlockInv, SwitchInv
  <2>4. CASE ReloadStrings
    BY <2>4 DEF UnlockInv, ProgressInv, SwitchInv
  <2>. QED BY <2>1, <2>2, <2>3, <2>4 DEF OnReload
<1>. QED BY <1>1, <1>2, <1>3, <1>4 DEF UnlockInv

(* The game's steps, of which only the setup of the languages runs code of *)
(* the hook.                                                               *)
LEMMA GameSteps ==
  ASSUME UnlockInv, Game
  PROVE  UnlockInv'
<1> USE DEF fixed, bitfields, language, strings, mainThread, id, resolved, config,
            GameStep, Main, UnlockInv
<1>1. CASE GameInit
  BY <1>1 DEF GameInit, ProgressInv, BitfieldInv, RegionInv, StubAnswersTrueId, SwitchInv, TrueId, Region,
              Before, Between, Stubbing, Switching, Mains
<1>2. CASE LoadLanguages
  <2>1. ProgressInv'
    BY <1>2 DEF LoadLanguages, Stage, ProgressInv, Before, Between, Stubbing, Switching, Mains
  <2>2. BitfieldInv'
    BY <1>2 DEF LoadLanguages, Stage, ProgressInv, BitfieldInv, Before, Between, Stubbing
  <2>3. RegionInv' /\ StubAnswersTrueId' /\ SwitchInv'
    BY <1>2 DEF LoadLanguages, ProgressInv, BitfieldInv, RegionInv, StubAnswersTrueId, SwitchInv
  <2>. QED BY <2>1, <2>2, <2>3
<1>3. CASE SetUpLanguages
  <2> USE <1>3 DEF SetUpLanguages, LangBitfieldPatch, Detected
  <2>1. ProgressInv'
    BY DEF ProgressInv, Before, Between, Stubbing, Switching, Mains
  <2>2. BitfieldInv'
    BY DEF ProgressInv, BitfieldInv
  <2>3. RegionInv' /\ StubAnswersTrueId'
    BY DEF ProgressInv, BitfieldInv, RegionInv, StubAnswersTrueId, TrueId, Region
  <2>4. SwitchInv'
    BY DEF ProgressInv, SwitchInv
  <2>. QED BY <2>1, <2>2, <2>3, <2>4
<1>4. CASE Validate
  BY <1>4 DEF Validate, ProgressInv, BitfieldInv, RegionInv, StubAnswersTrueId, SwitchInv, TrueId,
     Region, Mains
<1>5. CASE LocInit \/ LocLoaded
  BY <1>5 DEF LocInit, LocLoaded, ProgressInv, BitfieldInv, RegionInv, StubAnswersTrueId, SwitchInv, TrueId,
     Region, Mains
<1>6. CASE GetGameId
  <2>1. ProgressInv' /\ BitfieldInv' /\ RegionInv' /\ SwitchInv'
    BY <1>6 DEF GetGameId, ProgressInv, BitfieldInv, RegionInv, SwitchInv, TrueId, Region, Mains
  <2>2. answeredBy' = "stub" => answer' = s_real_game_id
    BY <1>6 DEF GetGameId
  <2>3. StubAnswersTrueId'
    BY <1>6, <2>2 DEF GetGameId, ProgressInv, RegionInv, StubAnswersTrueId, TrueId, Region
  <2>. QED BY <2>1, <2>3
<1>. QED
  BY <1>1, <1>2, <1>3, <1>4, <1>5, <1>6 DEF Game

(* Every step preserves the invariant.                                     *)
LEMMA UnlockInvStep == UnlockInv /\ [LanguageNext]_languageVars => UnlockInv'
<1> SUFFICES ASSUME UnlockInv, [LanguageNext]_languageVars PROVE UnlockInv'
  OBVIOUS
<1>1. CASE Install
  BY <1>1, EarlyStep, UnlockingStep DEF Install
<1>2. CASE OnReload
  BY <1>2, SwitchStep
<1>3. CASE Game
  BY <1>3, GameSteps
<1>4. CASE UNCHANGED languageVars
  BY <1>4 DEF languageVars, fixed, gameVars, bitfields, language, strings, mainThread, id, resolved, config,
              UnlockInv,
              ProgressInv, BitfieldInv, RegionInv, StubAnswersTrueId, SwitchInv, TrueId, Region
<1>. QED
  BY <1>1, <1>2, <1>3, <1>4 DEF LanguageNext

-----------------------------------------------------------------------------
(* The inductive invariant holds.                                          *)
LEMMA UnlockInductive == LanguageSpec => []UnlockInv
  BY UnlockInvInit, UnlockInvStep, PTL DEF LanguageSpec

(* Once install and the game's setup of the languages are done, all        *)
(* languages stay unlocked, up to the gap the property names.              *)
THEOREM StaysUnlocked == LanguageSpec => []Unlocked
<1>1. UnlockInv => Unlocked
  BY DEF UnlockInv, ProgressInv, BitfieldInv, Unlocked, Installed, Before, Between, Stubbing, Switching
<1>. QED
  BY <1>1, UnlockInductive, PTL

(* When the loader came after the stores of install, the stub's answer is  *)
(* the copy's own ID.                                                      *)
THEOREM StubIsRight == LanguageSpec => []StubAnswersTrueId
  BY UnlockInductive, PTL DEF UnlockInv

(* A switch in the running game is shown after every later reload.         *)
THEOREM SwitchesAreShown == LanguageSpec => []LanguageFollowsIni
<1>1. UnlockInv => LanguageFollowsIni
  BY DEF UnlockInv, SwitchInv, LanguageFollowsIni
<1>. QED
  BY <1>1, UnlockInductive, PTL

-----------------------------------------------------------------------------
(* The forced language: from the callback on, whatever the game copies     *)
(* into its language is it, until a reload switches.                       *)
ForcedInv ==
  /\ uiLanguage \in IniLanguages \cup {NoLanguage} /\ s_ui_language \in IniLanguages \cup {NoLanguage}
  /\ langPc \in Switching => lastSwitch # "none"
  /\ detected # "no" => setUpHooked
  /\ detected = "late" => gameInit
  /\ detected # "no" /\ s_ui_language # NoLanguage /\ lastSwitch = "none" /\ uiGlobal =>
       /\ idxGlobal => langIdx = s_ui_language
       /\ idxGlobal \/ detected = "late" => uiLang = s_ui_language

(* Once the callback has run, install is past its stores to the globals.   *)
LEMMA ForcedInstallStep ==
  ASSUME UnlockInv, ForcedInv, Install
  PROVE  ForcedInv'
<1> USE DEF fixed, bitfields, language, strings, mainThread, gameVars, id, resolved, config,
            LangInstallStep, UnlockStep, Goto
<1>1. detected # "no" => langPc \notin Before \cup Between
  BY DEF UnlockInv, ProgressInv, ForcedInv
<1>2. CASE ReadConfig \/ OverrideIndex \/ OverrideLanguage \/ ResolveLocalization
  BY <1>1, <1>2 DEF ForcedInv, ReadConfig, OverrideIndex, OverrideLanguage, ResolveLocalization, Before,
     Switching
<1>3. CASE \/ ResolveIsSteam \/ PrePatchMenu \/ PrePatchAudio \/ ClearSetup \/ HookSetup
           \/ NopGameId \/ HookGameId \/ RetGameId \/ UnlockFails
  BY <1>3 DEF ForcedInv, ResolveIsSteam, PrePatchMenu, PrePatchAudio, ClearSetup, HookSetup, NopGameId,
     HookGameId, RetGameId, UnlockFails, Switching
<1>. QED
  BY <1>2, <1>3 DEF Install

(* A reload that changes the language is a switch.                         *)
LEMMA ForcedReloadStep ==
  ASSUME UnlockInv, ForcedInv, OnReload
  PROVE  ForcedInv'
<1> USE DEF fixed, bitfields, language, strings, mainThread, gameVars, id, resolved, config,
            OnReloadStep, Goto
<1>1. CASE BeginReload
  BY <1>1 DEF ForcedInv, BeginReload, LoadIni, Switching
<1>2. CASE SwitchLanguage \/ SwitchIndex
  BY <1>2 DEF ForcedInv, SwitchLanguage, SwitchIndex, Switching
<1>3. CASE ReloadStrings
  BY <1>3 DEF ForcedInv, ReloadStrings, Switching
<1>. QED
  BY <1>1, <1>2, <1>3 DEF OnReload

(* The callback forces it, GameInit copies the forced index, and the       *)
(* validation finds it unlocked.                                           *)
LEMMA ForcedGameStep ==
  ASSUME UnlockInv, ForcedInv, Game
  PROVE  ForcedInv'
<1> USE DEF fixed, bitfields, language, strings, mainThread, gameVars, id, resolved, config, GameStep, Main
<1>1. CASE GameInit
  BY <1>1 DEF ForcedInv, GameInit
<1>2. CASE LoadLanguages
  BY <1>2 DEF ForcedInv, LoadLanguages
<1>3. CASE SetUpLanguages
  BY <1>3 DEF ForcedInv, SetUpLanguages, LangBitfieldPatch, Forced, UnlockInv, BitfieldInv
<1>4. CASE Validate
  <2>1. detected # "no" => menu = AllMenu
    BY DEF UnlockInv, BitfieldInv
  <2>. QED BY <1>4, <2>1, LanguageAssumption DEF ForcedInv, Validate
<1>5. CASE LocInit \/ LocLoaded \/ GetGameId
  BY <1>5 DEF ForcedInv, LocInit, LocLoaded, GetGameId
<1>. QED
  BY <1>1, <1>2, <1>3, <1>4, <1>5 DEF Game

(* A forced language survives GameInit and the validation, also when only  *)
(* one of its two globals was found.                                       *)
THEOREM ForcedSurvives == LanguageSpec => []ForcedLanguageSurvives
<1>1. LanguageInit => ForcedInv
  BY DEF LanguageInit, ForcedInv, Switching
<1>2. UnlockInv /\ ForcedInv /\ [LanguageNext]_languageVars => ForcedInv'
  <2> SUFFICES ASSUME UnlockInv, ForcedInv, [LanguageNext]_languageVars PROVE ForcedInv'
    OBVIOUS
  <2>1. CASE UNCHANGED languageVars
    BY <2>1 DEF languageVars, fixed, gameVars, bitfields, language, strings, mainThread, id, resolved, config,
                ForcedInv
  <2>. QED
    BY <2>1, ForcedInstallStep, ForcedReloadStep, ForcedGameStep DEF LanguageNext
<1>3. ForcedInv => ForcedLanguageSurvives
  BY DEF ForcedInv, ForcedLanguageSurvives
<1>. QED
  BY <1>1, <1>2, <1>3, UnlockInductive, PTL DEF LanguageSpec
=============================================================================
