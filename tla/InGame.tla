------------------------------- MODULE InGame -------------------------------
(***************************************************************************)
(* The flag Rogue's hooks share: the callbacks of GameState store it, on   *)
(* the game's threads, and those that draw read it.                        *)
(***************************************************************************)
VARIABLE is_in_game
=============================================================================
