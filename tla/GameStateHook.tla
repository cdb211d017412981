---------------------------- MODULE GameStateHook ----------------------------
(***************************************************************************)
(* Rogue's GameState hook: three code sites of the game that pause and     *)
(* unpause it are cleared and hooked one after the other, while the game   *)
(* passes through them.  The callbacks do what the cleared instruction     *)
(* did, on the object they find through a pointer cached once, and keep    *)
(* is_in_game for the hooks that draw.                                     *)
(***************************************************************************)
EXTENDS Naturals, InGame

CONSTANT MaxObjects   \* bound: how many GameState objects the game creates

ASSUME MaxObjectsAssumption == MaxObjects \in Nat \ {0}

Site == {"unpause", "pause", "pause2"}
Object == 1..MaxObjects

VARIABLES
  object,       \* the game's newest GameState, 0 for none
  g_pGameState, \* the game's global pointer: 0 or an object
  pause_flag,   \* of each object
  playing,      \* the last transition of the newest object was to unpause it
  hasPause2,    \* the optional pattern was found
  cleared,      \* sites whose instruction was overwritten with nops
  hooked,       \* sites whose callback runs
  site, step,   \* the install: the site it is at; "resolve", "nop", "hook", "installed", "failed"
  game_state_ptr,
  moved         \* history: the last transition of the object came after the install,
                \* "unseen" if its callback found no object, else "seen"; "none"

game == <<object, g_pGameState, playing>>
install == <<cleared, hooked, site, step>>
gameStateOwn == <<game, pause_flag, hasPause2, install, game_state_ptr, moved>>
gameStateVars == <<gameStateOwn, is_in_game>>

GameStateInit ==
  /\ object = 0 /\ g_pGameState = 0 /\ playing = FALSE
  /\ pause_flag = [o \in Object |-> 1]
  /\ hasPause2 \in BOOLEAN
  /\ cleared = {} /\ hooked = {} /\ site = "unpause" /\ step = "resolve"
  /\ is_in_game = FALSE /\ game_state_ptr = 0 /\ moved = "none"

-----------------------------------------------------------------------------
(* The game creates its object, and assigns the global pointer later.      *)
NewObject ==
  /\ object < MaxObjects
  /\ object' = object + 1 /\ g_pGameState' = 0 /\ playing' = FALSE /\ moved' = "none"
  /\ UNCHANGED <<pause_flag, hasPause2, install, is_in_game, game_state_ptr>>

PublishObject ==
  /\ g_pGameState # object
  /\ g_pGameState' = object
  /\ UNCHANGED <<object, playing, pause_flag, hasPause2, install, is_in_game, game_state_ptr, moved>>

-----------------------------------------------------------------------------
(* resolve_state: a pointer that was found once is never looked up again.  *)
ResolveState == IF game_state_ptr # 0 THEN game_state_ptr ELSE g_pGameState

BugPause2KeepsInGame(s) ==
  /\ is_in_game' = (s = "unpause" \/ (s = "pause2" /\ is_in_game))
  /\ game_state_ptr' = ResolveState

(* GameUnpause, GamePause, GamePause2. *)
Callback(s) ==
  /\ is_in_game' = (s = "unpause")
  /\ game_state_ptr' = ResolveState

(* The game passes a site: its own instruction writes the newest object's  *)
(* flag unless it was cleared, the callback the flag of the object it      *)
(* finds.                                                                  *)
Transition(s) ==
  /\ object # 0
  /\ playing' = (s = "unpause")
  /\ IF s \in hooked THEN Callback(s) ELSE UNCHANGED <<is_in_game, game_state_ptr>>
  /\ LET written == (IF s \in cleared THEN {} ELSE {object})
                    \cup (IF s \in hooked THEN {ResolveState} ELSE {}) IN
     pause_flag' = [o \in Object |-> IF o \notin written THEN pause_flag[o]
                                     ELSE IF s = "unpause" THEN 0 ELSE 1]
  /\ moved' = IF step # "installed" THEN "none"
              ELSE IF s \in hooked /\ ResolveState = 0 THEN "unseen" ELSE "seen"
  /\ UNCHANGED <<object, g_pGameState, hasPause2, install>>

-----------------------------------------------------------------------------
(* install *)

InstallStep(from, to) ==
  /\ step = from /\ step' = to
  /\ UNCHANGED <<game, pause_flag, hasPause2, is_in_game, moved>>

CacheState ==
  /\ InstallStep("resolve", "nop")
  /\ game_state_ptr' = g_pGameState
  /\ UNCHANGED <<cleared, hooked, site>>

(* make_hook first clears the instruction, whether that works or not.      *)
ClearSite ==
  /\ InstallStep("nop", "hook")
  /\ cleared' \in {cleared, cleared \cup {site}}
  /\ UNCHANGED <<hooked, site, game_state_ptr>>

MoreSites == site = "unpause" \/ (site = "pause" /\ hasPause2)
NextSite == IF site = "unpause" THEN "pause" ELSE "pause2"

BugHooksOneSite ==
  /\ InstallStep("hook", IF MoreSites THEN "nop" ELSE "installed")
  /\ hooked' = {site}
  /\ site' = IF MoreSites THEN NextSite ELSE site
  /\ UNCHANGED <<cleared, game_state_ptr>>

HookSite ==
  /\ InstallStep("hook", IF MoreSites THEN "nop" ELSE "installed")
  /\ hooked' = hooked \cup {site}
  /\ site' = IF MoreSites THEN NextSite ELSE site
  /\ UNCHANGED <<cleared, game_state_ptr>>

(* The sites that are hooked stay hooked, and this one cleared.            *)
InstallFails ==
  /\ InstallStep("hook", "failed")
  /\ UNCHANGED <<cleared, hooked, site, game_state_ptr>>

GameStateNext ==
  \/ NewObject \/ PublishObject
  \/ \E s \in Site : Transition(s)
  \/ CacheState \/ ClearSite \/ HookSite \/ InstallFails

GameStateSpec == GameStateInit /\ [][GameStateNext]_gameStateVars

-----------------------------------------------------------------------------
GameStateTypeOK ==
  /\ object \in 0..MaxObjects /\ g_pGameState \in {0, object}
  /\ game_state_ptr \in 0..object
  /\ pause_flag \in [Object -> {0, 1}]
  /\ hooked \subseteq Site /\ cleared \subseteq Site
  /\ step = "installed" => {"unpause", "pause"} \subseteq hooked

(* Once the install is over, a transition leaves is_in_game and the        *)
(* object's flag as the game wants them, whatever fell between the steps   *)
(* of the install.  Without the third site a pause there goes unnoticed,   *)
(* an unpause never.  Once the game has replaced the object, the callbacks *)
(* go on writing the flag of the one that was cached, and nothing is said  *)
(* of the new one's.                                                       *)
StateFollowsGame ==
  LET flag == IF playing THEN 0 ELSE 1 IN
  moved # "none" =>
    /\ playing => is_in_game
    /\ hasPause2 => is_in_game = playing
    /\ moved = "seen" /\ game_state_ptr \in {0, object} => pause_flag[object] = flag
    /\ moved = "seen" /\ hasPause2 => game_state_ptr # 0 /\ pause_flag[game_state_ptr] = flag
=============================================================================
