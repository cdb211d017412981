--------------------------- MODULE SyndicateHooks ---------------------------
(***************************************************************************)
(* The Syndicate hooks that patch once: PlatformSpecsFix, ResolutionFix,   *)
(* DS4v2Fix, PromptOverride and LanguageUnlock, installed in this order by *)
(* the init thread while the game reports display modes, classifies pads,  *)
(* asks for the active device and sets its languages up.                   *)
(***************************************************************************)
EXTENDS Naturals, FiniteSets

CONSTANT ReportedModes   \* <<width, height>> of modes a display reports

ASSUME ReportedAssumption == ReportedModes \subseteq Nat \X Nat

Pad == {"ds4v1", "ds4v2", "other"}
Bitfield == {"menu", "audio", "subtitle"}

VARIABLES
  synAt,       \* the install: its next step
  stubbed,     \* the specs enumeration returns at once
  filtering,   \* ModeList_InsertSorted is hooked
  lost,        \* the mode the filter has dropped last, or NoMode
  pidCleared, pidHooked,  \* the comparison of the PID
  plugged, takenForDs4,   \* the last pad, what it was classified as,
  pluggedAt,              \* and synAt at that time
  promptHooked, prompt,   \* the prompts last chosen by the override, "own" for none
  unlock_all,
  bits,        \* of each Bitfield: "game" or "all"
  bitsHooked,
  setup, setupForced, \* the game's setup: "before", the next bitfield it writes, "after"; through the callback
  crossed      \* history: setup passed the unhooked site and was not over at the first pre-write

modeListVars == <<filtering, lost>>
plugVars == <<plugged, takenForDs4, pluggedAt>>
padVars == <<pidCleared, pidHooked, plugVars>>
promptVars == <<promptHooked, prompt>>
langVars == <<unlock_all, bits, bitsHooked, setup, setupForced, crossed>>
synVars == <<synAt, stubbed, modeListVars, padVars, promptVars, langVars>>

NoMode == <<0, 0>>

SynInit ==
  /\ synAt = "specs" /\ stubbed = FALSE /\ filtering = FALSE /\ lost = NoMode
  /\ pidCleared = FALSE /\ pidHooked = FALSE /\ plugged = "ds4v1" /\ takenForDs4 = TRUE
  /\ pluggedAt = "specs"
  /\ promptHooked = FALSE /\ prompt = "own"
  /\ unlock_all \in BOOLEAN /\ bits = [b \in Bitfield |-> "game"] /\ bitsHooked = FALSE
  /\ setup = "before" /\ setupForced = FALSE /\ crossed = FALSE

-----------------------------------------------------------------------------
(* Installs.  A hook that is off, or whose pattern is missing, and one     *)
(* whose install fails leave the next one its turn.                        *)
NextInstall == [specs |-> "resolution", resolution |-> "pid", pid |-> "prompt", pidHook |-> "prompt",
                prompt |-> "language", language |-> "end", bitsHook |-> "end"]

SynStep(from, to) == synAt = from /\ synAt' = to

SkipOrFail ==
  /\ synAt \in DOMAIN NextInstall /\ synAt' = NextInstall[synAt]
  /\ UNCHANGED <<stubbed, modeListVars, padVars, promptVars, langVars>>

StubSpecs ==
  /\ SynStep("specs", "resolution")
  /\ stubbed' = TRUE
  /\ UNCHANGED <<modeListVars, padVars, promptVars, langVars>>

HookModeInsert ==
  /\ SynStep("resolution", "pid")
  /\ filtering' = TRUE
  /\ UNCHANGED <<stubbed, lost, padVars, promptVars, langVars>>

(* make_hook clears the comparison and its jump first, and goes on when    *)
(* that fails.                                                             *)
ClearPidCheck ==
  /\ SynStep("pid", "pidHook")
  /\ pidCleared' \in BOOLEAN
  /\ UNCHANGED <<stubbed, modeListVars, pidHooked, plugVars, promptVars, langVars>>

HookPidCheck ==
  /\ SynStep("pidHook", "prompt")
  /\ pidHooked' = TRUE
  /\ UNCHANGED <<stubbed, modeListVars, pidCleared, plugVars, promptVars, langVars>>

HookActiveDevice ==
  /\ SynStep("prompt", "language")
  /\ promptHooked' = TRUE
  /\ UNCHANGED <<stubbed, modeListVars, padVars, prompt, langVars>>

UnlockNothing ==
  /\ SynStep("language", "end")
  /\ ~unlock_all
  /\ UNCHANGED <<stubbed, modeListVars, padVars, promptVars, langVars>>

PreWrite(from, b, to) ==
  /\ SynStep(from, to)
  /\ unlock_all
  /\ bits' = [bits EXCEPT ![b] = "all"]
  /\ crossed' = (crossed \/ setup \in Bitfield)
  /\ UNCHANGED <<stubbed, modeListVars, padVars, promptVars, unlock_all, bitsHooked, setup, setupForced>>

PreWrites ==
  \/ PreWrite("language", "menu", "subtitle")
  \/ PreWrite("subtitle", "subtitle", "audio")
  \/ PreWrite("audio", "audio", "bitsHook")

HookBitfieldWrite ==
  /\ SynStep("bitsHook", "end")
  /\ bitsHooked' = TRUE
  /\ UNCHANGED <<stubbed, modeListVars, padVars, promptVars, unlock_all, bits, setup, setupForced, crossed>>

-----------------------------------------------------------------------------
(* Callbacks, and the game's own code at the sites. *)

gcd[a \in Nat, b \in Nat] == IF b = 0 THEN a ELSE gcd[b, a % b]

Standard == {<<16, 9>>, <<16, 10>>, <<8, 5>>, <<21, 9>>, <<64, 27>>, <<43, 18>>,
             <<32, 9>>, <<5, 4>>, <<4, 3>>, <<3, 2>>}

(* is_standard_aspect *)
IsStandardAspect(w, h) ==
  \/ w = 0 \/ h = 0
  \/ <<w \div gcd[w, h], h \div gcd[w, h]>> \in Standard

(* The game inserts a mode; FilterModeInsert returns to the caller at once *)
(* for another aspect.                                                     *)
InsertMode(m) ==
  /\ lost' = IF filtering /\ ~IsStandardAspect(m[1], m[2]) THEN m ELSE NoMode
  /\ UNCHANGED <<synAt, stubbed, filtering, padVars, promptVars, langVars>>

BugOnlyV2(p) == p = "ds4v2"

(* CheckDS4PID goes on at the site, or skips it. *)
CheckDS4PID(p) == p \in {"ds4v1", "ds4v2"}

(* What the site makes of a pad: cleared, it lets everything through.      *)
Ds4(p) ==
  /\ pidHooked => CheckDS4PID(p)
  /\ ~pidCleared => p = "ds4v1"

ClassifyPad(p) ==
  /\ plugged' = p /\ takenForDs4' = Ds4(p) /\ pluggedAt' = synAt
  /\ UNCHANGED <<synAt, stubbed, modeListVars, pidCleared, pidHooked, promptVars, langVars>>

(* OverrideDeviceType: a keyboard, or a hook that is off, is left to the   *)
(* game.                                                                   *)
GetActiveDeviceType ==
  /\ prompt' \in IF promptHooked THEN {"own", "Xbox", "PlayStation"} ELSE {"own"}
  /\ UNCHANGED <<synAt, stubbed, modeListVars, padVars, promptHooked, langVars>>

BugSkipsRbx == {"menu", "subtitle"}

(* The bitfields whose registers the callback sets. *)
Unlocks == {"menu", "subtitle", "audio"}

(* The game is about to write the bitfields, where the callback is. *)
EntersSetup ==
  /\ setup = "before" /\ setup' = "menu"
  /\ setupForced' = bitsHooked
  /\ crossed' = (crossed \/ (~bitsHooked /\ synAt \in {"subtitle", "audio", "bitsHook"}))
  /\ UNCHANGED <<synAt, stubbed, modeListVars, padVars, promptVars, unlock_all, bits, bitsHooked>>

SetupWrites ==
  /\ setup \in Bitfield
  /\ setup' = CASE setup = "menu" -> "audio" [] setup = "audio" -> "subtitle" [] OTHER -> "after"
  /\ bits' = [bits EXCEPT ![setup] = IF setupForced /\ setup \in Unlocks THEN "all" ELSE "game"]
  /\ UNCHANGED <<synAt, stubbed, modeListVars, padVars, promptVars, unlock_all, bitsHooked, setupForced, crossed>>

SynNext ==
  \/ SkipOrFail \/ StubSpecs \/ HookModeInsert \/ ClearPidCheck \/ HookPidCheck
  \/ HookActiveDevice \/ UnlockNothing \/ PreWrites \/ HookBitfieldWrite
  \/ \E m \in ReportedModes : InsertMode(m)
  \/ \E p \in Pad : ClassifyPad(p)
  \/ GetActiveDeviceType \/ EntersSetup \/ SetupWrites

SynSpec == SynInit /\ [][SynNext]_synVars

-----------------------------------------------------------------------------
(* Once the hook is in place a DS4 of either revision is one, unless the   *)
(* comparison behind it could not be cleared, and no other pad is, but one *)
(* that was plugged in while the site was cleared and not hooked yet.      *)
PadsToldApart ==
  pidHooked =>
    /\ Ds4("ds4v1") /\ (pidCleared => Ds4("ds4v2")) /\ ~Ds4("other")
    /\ plugged = "other" /\ takenForDs4 => pluggedAt = "pidHook"

(* Once the hook is in place and the game's setup is over, or not begun,   *)
(* all three bitfields are unlocked, unless the game had passed the site   *)
(* before the hook and wrote after the install's first store.              *)
AllUnlocked ==
  bitsHooked /\ setup \notin Bitfield /\ ~crossed => \A b \in Bitfield : bits[b] = "all"

(* A mode whose aspect is one of those README.md:287 lists is kept.        *)
ListedAspectKept == \A s \in Standard : lost # NoMode => lost[1] * s[2] # lost[2] * s[1]
=============================================================================
