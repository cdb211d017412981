---------------------------- MODULE LanguageUnlock ----------------------------
(***************************************************************************)
(* Rogue's LanguageUnlock hook.  Its install, on the init thread, runs     *)
(* while the game starts: the game's loader reads the language file of     *)
(* the copy into two bitfields, sets up the languages (where the hook      *)
(* detects the copy's region and unlocks the rest), validates the chosen   *)
(* language, loads the UI strings and asks for the game ID.  Afterwards    *)
(* on_reload switches the language.  What the game does, and when, is      *)
(* external: only what the hook's code and comments rely on.               *)
(***************************************************************************)
EXTENDS FiniteSets

CONSTANTS
  Russian, Korean, ChineseTrad,
  AllMenu,   \* k_all_menu, a set of languages
  IniLanguages,   \* those the INI may name as UILanguage
  Copies,    \* the menu bitfields of retail copies
  NoLanguage \* Language::None

ASSUME LanguageAssumption ==
  /\ {Russian, Korean, ChineseTrad} \subseteq AllMenu /\ NoLanguage \notin AllMenu
  /\ IniLanguages \subseteq AllMenu
  /\ Copies \subseteq (SUBSET AllMenu) \ {{}}

Region(bitfield) ==
  IF Russian \in bitfield THEN "ru"
  ELSE IF {Korean, ChineseTrad} \subseteq bitfield THEN "asia"
  ELSE "ww"

GameId == {"uplay", "steam"} \X {"ww", "ru", "asia"}
NoId == <<"none", "none">>

VARIABLES
  copy, store,   \* the bitfield in this copy's language file; "uplay" or "steam"
  menu, audio,   \* the game's bitfields; the audio one is "empty", "retail" or "all"
  langIdx,       \* the game's language index, first the system's
  uiLang,        \* what GetLanguage returns
  main,          \* main thread: "none", "loaded", "setUp", "validated", "loading", "running"
  gameInit,      \* GameInit has copied the index
  loading,       \* the language whose strings the main thread is loading
  shown,         \* the language of the UI strings
  getGameId,     \* the code of GetGameId: "original", "half" or "stub"
  answer         \* the ID it returned last

VARIABLES
  langOn,        \* the flag of the hook in its registry; it is on when install runs
  unlockAll, uiLanguage,   \* the config; unlock_all matters to install only
  langPc,                  \* install; "failed"; "rest"; on_reload
  s_ui_language, s_current_language, s_real_game_id,
  idxGlobal, uiGlobal,     \* the pointers to the game's index and language are resolved
  canReload,               \* s_loc_mgr_ptr and s_reload_lang_fn are
  setUpHooked              \* the mid hook at the language setup is in place

VARIABLES   \* history
  loadedIn,     \* how far install was when the language file was loaded
  detected,     \* the callback ran: "no", or "early" or "late", before or after GameInit
  answeredBy,   \* the code of GetGameId that gave the answer
  lastSwitch    \* on_reload has switched: "none", "early", or "late" if the game was running

fixed == <<copy, store, unlockAll>>
bitfields == <<menu, audio>>
language == <<langIdx, uiLang>>
strings == <<loading, shown>>
mainThread == <<main, gameInit, loadedIn, detected>>
gameVars == <<bitfields, language, strings, mainThread>>
id == <<getGameId, answer, answeredBy>>
resolved == <<s_ui_language, idxGlobal, uiGlobal, canReload>>
config == <<langOn, uiLanguage, lastSwitch>>

languageVars ==
  <<fixed, gameVars, id, resolved, config, langPc, setUpHooked, s_current_language, s_real_game_id>>

LanguageInit ==
  /\ copy \in Copies /\ store \in {"uplay", "steam"}
  /\ menu = {} /\ audio = "empty"
  /\ langIdx \in copy /\ uiLang = NoLanguage
  /\ main = "none" /\ gameInit = FALSE /\ loadedIn = "never" /\ detected = "no"
  /\ loading = NoLanguage /\ shown = NoLanguage
  /\ getGameId = "original" /\ answer = NoId /\ answeredBy = "none"
  /\ unlockAll \in BOOLEAN /\ uiLanguage \in IniLanguages \cup {NoLanguage} /\ lastSwitch = "none"
  /\ langOn = TRUE /\ langPc = "start" /\ setUpHooked = FALSE
  /\ s_ui_language = NoLanguage /\ s_current_language = NoLanguage /\ s_real_game_id = <<"uplay", "ww">>
  /\ idxGlobal = FALSE /\ uiGlobal = FALSE /\ canReload = FALSE

-----------------------------------------------------------------------------
(* install *)

Goto(from, to) == langPc = from /\ langPc' = to

ReadConfig ==
  /\ langPc = "start"
  /\ s_ui_language' = uiLanguage
  /\ langPc' = IF uiLanguage # NoLanguage THEN "index" ELSE IF unlockAll THEN "steam" ELSE "rest"
  /\ UNCHANGED <<fixed, gameVars, id, idxGlobal, uiGlobal, canReload, config, setUpHooked,
                 s_current_language, s_real_game_id>>

LangInstallStep(from, to) ==
  /\ Goto(from, to)
  /\ UNCHANGED <<fixed, strings, mainThread, answer, answeredBy, s_ui_language, config, s_real_game_id>>

(* With or without the GET_LANGUAGE pattern. *)
OverrideIndex ==
  /\ LangInstallStep("index", "language")
  /\ \/ idxGlobal' = TRUE /\ langIdx' = s_ui_language
     \/ UNCHANGED <<idxGlobal, langIdx>>
  /\ UNCHANGED <<bitfields, uiLang, getGameId, uiGlobal, canReload, setUpHooked, s_current_language>>

(* Whether or not the call to GetLanguage can be followed. *)
OverrideLanguage ==
  /\ LangInstallStep("language", "localization")
  /\ \/ uiGlobal' = TRUE /\ uiLang' = s_ui_language
     \/ UNCHANGED <<uiGlobal, uiLang>>
  /\ UNCHANGED <<bitfields, langIdx, getGameId, idxGlobal, canReload, setUpHooked, s_current_language>>

ResolveLocalization ==
  /\ LangInstallStep("localization", IF unlockAll THEN "steam" ELSE "rest")
  /\ canReload' \in BOOLEAN
  /\ s_current_language' = s_ui_language
  /\ UNCHANGED <<bitfields, language, getGameId, idxGlobal, uiGlobal, setUpHooked>>

(* The rest of install, when all languages are to be unlocked. *)
UnlockStep(from, to) ==
  /\ LangInstallStep(from, to)
  /\ UNCHANGED <<language, idxGlobal, uiGlobal, canReload, s_current_language>>

(* All of it but the stores to the bitfields and the clearing of the site, *)
(* whose result make_hook ignores, may fail, which ends install and leaves *)
(* what was done.                                                          *)
UnlockFails ==
  /\ \E from \in {"steam", "hook", "nop", "stub", "ret"} : UnlockStep(from, "failed")
  /\ UNCHANGED <<bitfields, getGameId, setUpHooked>>

ResolveIsSteam == UnlockStep("steam", "menu") /\ UNCHANGED <<bitfields, getGameId, setUpHooked>>

PrePatchMenu == UnlockStep("menu", "audio") /\ menu' = AllMenu /\ UNCHANGED <<audio, getGameId, setUpHooked>>

PrePatchAudio == UnlockStep("audio", "clear") /\ audio' = "all" /\ UNCHANGED <<menu, getGameId, setUpHooked>>

(* The game's own stores at the site go before the hook is there.          *)
ClearSetup == UnlockStep("clear", "hook") /\ UNCHANGED <<bitfields, getGameId, setUpHooked>>

HookSetup == UnlockStep("hook", "nop") /\ setUpHooked' = TRUE /\ UNCHANGED <<bitfields, getGameId>>

(* The first instructions of GetGameId go; until the ret is written, what  *)
(* is left of the function runs on a stack it did not set up.              *)
NopGameId == UnlockStep("nop", "stub") /\ getGameId' = "half" /\ UNCHANGED <<bitfields, setUpHooked>>

HookGameId == UnlockStep("stub", "ret") /\ UNCHANGED <<bitfields, getGameId, setUpHooked>>

RetGameId == UnlockStep("ret", "rest") /\ getGameId' = "stub" /\ UNCHANGED <<bitfields, setUpHooked>>

Install ==
  \/ ReadConfig \/ OverrideIndex \/ OverrideLanguage \/ ResolveLocalization
  \/ ResolveIsSteam \/ PrePatchMenu \/ PrePatchAudio \/ ClearSetup \/ HookSetup
  \/ NopGameId \/ HookGameId \/ RetGameId \/ UnlockFails

-----------------------------------------------------------------------------
(* on_reload, on the watcher's thread, which is also the one that loads    *)
(* the config: new_lang is uiLanguage until on_reload returns.             *)

OnReloadStep(from, to) ==
  /\ Goto(from, to)
  /\ UNCHANGED <<fixed, bitfields, mainThread, id, resolved, setUpHooked, s_real_game_id>>

(* The INI changes and is loaded; on_reload runs if the hook is enabled,   *)
(* and langs are those it ignores.                                         *)
LoadIni(langs) ==
  /\ \E lang \in IniLanguages \cup {NoLanguage} :
       /\ uiLanguage' = lang /\ langOn' \in BOOLEAN
       /\ IF ~langOn' \/ lang \in langs
            THEN OnReloadStep("rest", "rest") /\ UNCHANGED lastSwitch
            ELSE /\ OnReloadStep("rest", "ui")
                 /\ lastSwitch' = IF main = "running" THEN "late" ELSE "early"
  /\ UNCHANGED <<language, strings, s_current_language>>

BugComparesInstalled == LoadIni({s_ui_language, NoLanguage})
BeginReload == LoadIni({s_current_language, NoLanguage})

SwitchLanguage ==
  /\ OnReloadStep("ui", "idx")
  /\ uiLang' = IF uiGlobal THEN uiLanguage ELSE uiLang
  /\ UNCHANGED <<langIdx, strings, config, s_current_language>>

SwitchIndex ==
  /\ OnReloadStep("idx", "strings")
  /\ langIdx' = IF idxGlobal THEN uiLanguage ELSE langIdx
  /\ UNCHANGED <<uiLang, strings, config, s_current_language>>

(* The localization manager exists from the start of LocInit on. *)
ReloadStrings ==
  /\ OnReloadStep("strings", "rest")
  /\ shown' = IF canReload /\ main \in {"loading", "running"} THEN uiLanguage ELSE shown
  /\ s_current_language' = uiLanguage
  /\ UNCHANGED <<language, loading, config>>

OnReload == BeginReload \/ SwitchLanguage \/ SwitchIndex \/ ReloadStrings

-----------------------------------------------------------------------------
(* The game *)

GameStep == UNCHANGED <<fixed, resolved, config, langPc, setUpHooked, s_current_language>>
Main(from, to) == GameStep /\ main = from /\ main' = to

(* "g_languageIndex is only copied into g_uiLanguage once during GameInit" *)
GameInit ==
  /\ GameStep /\ ~gameInit /\ gameInit' = TRUE
  /\ uiLang' = langIdx
  /\ UNCHANGED <<bitfields, langIdx, strings, main, loadedIn, detected, id, s_real_game_id>>

(* Before, between or after install's stores to the bitfields and its hook. *)
Stage == CASE langPc \in {"start", "index", "language", "localization", "steam", "menu"} -> "before"
           [] langPc \in {"audio", "clear", "hook"} -> "between"
           [] OTHER -> "after"

LoadLanguages ==
  /\ Main("none", "loaded")
  /\ menu' = copy /\ audio' = "retail"
  /\ loadedIn' = Stage
  /\ UNCHANGED <<language, strings, gameInit, detected, id, s_real_game_id>>

Detected(bitfield) == s_real_game_id' = <<store, Region(bitfield)>>

Forced(found, old) == IF found /\ s_ui_language # NoLanguage THEN s_ui_language ELSE old

BugDetectsUnlocked ==
  /\ menu' = AllMenu /\ audio' = "all"
  /\ Detected(menu')
  /\ langIdx' = Forced(idxGlobal, langIdx) /\ uiLang' = Forced(uiGlobal, uiLang)
BugIndexOnly ==
  /\ Detected(menu)
  /\ menu' = AllMenu /\ audio' = "all"
  /\ langIdx' = Forced(idxGlobal, langIdx)
  /\ UNCHANGED uiLang
BugMenuOnly ==
  /\ Detected(menu)
  /\ menu' = AllMenu
  /\ UNCHANGED <<audio, language>>

(* The callback: region first, then the bitfields, then the language of    *)
(* the install.                                                            *)
LangBitfieldPatch ==
  /\ Detected(menu)
  /\ menu' = AllMenu /\ audio' = "all"
  /\ langIdx' = Forced(idxGlobal, langIdx) /\ uiLang' = Forced(uiGlobal, uiLang)

SetUpLanguages ==
  /\ Main("loaded", "setUp")
  /\ IF setUpHooked
       THEN LangBitfieldPatch /\ detected' = IF gameInit THEN "late" ELSE "early"
       ELSE UNCHANGED <<s_real_game_id, bitfields, language, detected>>
  /\ UNCHANGED <<strings, gameInit, loadedIn, id>>

(* "InitLanguageFromFile's validation pass that reads GetLanguage()" *)
Validate ==
  /\ Main("setUp", "validated")
  /\ uiLang' \in IF uiLang \in menu THEN {uiLang} ELSE copy
  /\ UNCHANGED <<bitfields, langIdx, strings, gameInit, loadedIn, detected, id, s_real_game_id>>

(* LocInit publishes the manager, then loads the strings. *)
LocInit ==
  /\ gameInit /\ Main("validated", "loading")
  /\ loading' = uiLang
  /\ UNCHANGED <<bitfields, language, shown, gameInit, loadedIn, detected, id, s_real_game_id>>

LocLoaded ==
  /\ Main("loading", "running")
  /\ shown' = loading /\ loading' = NoLanguage
  /\ UNCHANGED <<bitfields, language, gameInit, loadedIn, detected, id, s_real_game_id>>

(* In the half patched function anything may happen; if it returns at all, *)
(* it returns anything.                                                    *)
GetGameId ==
  /\ Main("running", "running")
  /\ answer' \in CASE getGameId = "original" -> {<<store, Region(menu)>>}
                   [] getGameId = "stub" -> {s_real_game_id}
                   [] getGameId = "half" -> GameId
  /\ answeredBy' = getGameId
  /\ UNCHANGED <<bitfields, language, strings, gameInit, loadedIn, detected, getGameId, s_real_game_id>>

Game == \/ GameInit \/ LoadLanguages \/ SetUpLanguages \/ Validate
        \/ LocInit \/ LocLoaded \/ GetGameId

LanguageNext == Install \/ OnReload \/ Game

LanguageSpec == LanguageInit /\ [][LanguageNext]_languageVars

-----------------------------------------------------------------------------
Switching == {"ui", "idx", "strings"}
Installing == {"start", "index", "language", "localization", "steam", "menu", "audio",
               "clear", "hook", "nop", "stub", "ret"}
Lang == AllMenu \cup {NoLanguage}

LanguageTypeOK ==
  /\ copy \in Copies /\ store \in {"uplay", "steam"}
  /\ langOn \in BOOLEAN /\ unlockAll \in BOOLEAN
  /\ menu \in SUBSET AllMenu /\ audio \in {"empty", "retail", "all"}
  /\ langIdx \in AllMenu /\ uiLang \in Lang /\ loading \in Lang /\ shown \in Lang
  /\ main \in {"none", "loaded", "setUp", "validated", "loading", "running"} /\ gameInit \in BOOLEAN
  /\ loadedIn \in {"never", "before", "between", "after"} /\ detected \in {"no", "early", "late"}
  /\ getGameId \in {"original", "half", "stub"} /\ answer \in GameId \cup {NoId}
  /\ answeredBy \in {"none", "original", "half", "stub"}
  /\ langPc \in Installing \cup Switching \cup {"rest", "failed"} /\ setUpHooked \in BOOLEAN
  /\ uiLanguage \in IF langPc \in Switching THEN AllMenu ELSE Lang
  /\ lastSwitch \in {"none", "early", "late"}
  /\ s_ui_language \in Lang /\ s_current_language \in Lang /\ s_real_game_id \in GameId
  /\ idxGlobal \in BOOLEAN /\ uiGlobal \in BOOLEAN /\ canReload \in BOOLEAN

Installed == langPc \in Switching \cup {"rest"}

(* Once the game has set up its languages and install is done, both        *)
(* bitfields stay unlocked, whenever the loader ran.  The one gap in "The  *)
(* lang file loader may overwrite these later - the callback re-patches"   *)
(* is a loader and a setup that both fall between the first store and the  *)
(* hook.                                                                   *)
Unlocked ==
  Installed /\ setUpHooked /\ main \notin {"none", "loaded"} =>
    \/ menu = AllMenu /\ audio = "all"
    \/ loadedIn = "between" /\ detected = "no"

TrueId == <<store, Region(copy)>>

(* The stub answers with the copy's own ID when the game loaded its        *)
(* language file after the stores of install and the callback then ran:    *)
(* the callback finds the region before it unlocks (LangBitfieldPatch).    *)
StubAnswersTrueId ==
  answeredBy = "stub" /\ detected # "no" /\ loadedIn # "before" => answer = TrueId

(* A forced language survives the game's GameInit and its validation, also *)
(* when only one of its two globals was found (install and callback).      *)
ForcedLanguageSurvives ==
  /\ main \in {"validated", "loading", "running"} /\ detected # "no"
  /\ s_ui_language # NoLanguage /\ lastSwitch = "none"
  /\ uiGlobal /\ (idxGlobal \/ detected = "late")
  => uiLang = s_ui_language

(* When a switch began in the running game and the globals were found, the *)
(* strings and the game's language are those of the INI after every later  *)
(* reload that leaves the hook enabled, also after reloads it missed while *)
(* it was not (on_reload).                                                 *)
LanguageFollowsIni ==
  langPc = "rest" /\ langOn /\ lastSwitch = "late" /\ canReload /\ uiGlobal /\ uiLanguage # NoLanguage =>
    shown = uiLanguage /\ uiLang = uiLanguage

-----------------------------------------------------------------------------
(* README.md:216: "snapshotting the original bitfields before overwriting  *)
(* them, running the region detection on the unmodified values to          *)
(* determine the true SKU, and replacing GetGameId with a stub that always *)
(* returns the pre-computed correct ID".                                   *)
GameIdIsTrueSku == answeredBy = "stub" => answer = TrueId

=============================================================================
