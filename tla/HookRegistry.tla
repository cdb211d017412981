----------------------------- MODULE HookRegistry -----------------------------
(***************************************************************************)
(* hooks::Registry: the per-hook state (config, enabled, installed) and    *)
(* the two operations on it.  install_all runs once, on the init thread;   *)
(* reload runs on the file watcher's thread, which exists only after       *)
(* install_all returned, so one program counter serves both.  The enabled  *)
(* flags and the config fields are relaxed atomics that the hooks'         *)
(* callbacks read on the game's threads at any moment: every store to them *)
(* is a step of its own here.                                              *)
(***************************************************************************)
EXTENDS HookGraph, Sequences

CONSTANTS
  N,             \* hooks in the list: the hooks are 1..N, in list order
  Hard, Soft,    \* their dependencies
  InstallOrder,  \* install_order, computed at build time (TopoSort)
  HasOnReload,   \* the hooks whose HookTraits have an on_reload
  Value,         \* values a hook's config can take
  Default,       \* the value its ini_fields start with
  Absent,        \* "the INI has no such key"
  IniFiles       \* contents the INI file may have whenever it is read

Hook == 1..N

(* An mINI::INIStructure, as far as the registry looks at it: the hook's   *)
(* key in [Hooks], parsed, and its own keys.                               *)
Ini == [flag : [Hook -> {"on", "off", Absent}], cfg : [Hook -> Value \cup {Absent}]]

(* What a failed read leaves in the structure: no section at all. *)
EmptyIni == [flag |-> [h \in Hook |-> Absent], cfg |-> [h \in Hook |-> Absent]]

ASSUME GraphAssumption ==
  /\ N \in Nat
  /\ Hard \in DepTables(N)
  /\ Soft \in DepTables(N)

ASSUME OrderAssumption ==
  /\ InstallOrder \in [Hook -> Hook]
  /\ \A i, j \in Hook : InstallOrder[i] = InstallOrder[j] => i = j
  /\ \A i \in Hook : \A d \in Hard[InstallOrder[i]] \cup Soft[InstallOrder[i]] :
       \E j \in Hook : j < i /\ InstallOrder[j] = d

ASSUME IniAssumption ==
  /\ HasOnReload \subseteq Hook
  /\ Default \in Value
  /\ Absent \notin Value \cup {"on", "off"}
  /\ IniFiles \subseteq Ini

VARIABLES
  config,     \* HookState::config
  enabled,    \* HookState::enabled: the hooks whose flag is true
  installed,  \* HookState::installed: the hooks whose flag is true
  live,       \* hooks with a callback or patch in the game, installed or not
  applied,    \* the config a hook's install or on_reload last acted on
  journal,    \* hook_installed lines of this session's journal
  found,      \* hooks whose required patterns were found; fixed by the scan
  ini,        \* the INI this pass works from
  flags,      \* enabled_flags, the local array of apply_enabled_flags
  before,     \* history: `enabled` when this pass began
  mode,       \* "install" for install_all's pass, "reload" for reload's
  pc, pos     \* the loop the pass is in, and its index

store == <<config, enabled>>
setup == <<installed, live, applied, journal>>
pass  == <<ini, before, mode>>
vars  == <<store, setup, found, pass, flags, pc, pos>>

None == Absent   \* `applied` of a hook that has acted on no config yet

Init ==
  /\ config = [h \in Hook |-> Default]
  /\ enabled = Hook
  /\ installed = {}
  /\ live = {}
  /\ applied = [h \in Hook |-> None]
  /\ journal = <<>>
  /\ found \in SUBSET Hook
  /\ ini \in IniFiles \cup {EmptyIni}
  /\ flags = {}
  /\ before = enabled
  /\ mode = "install"
  /\ pc = "configs"
  /\ pos = 1

(* Every loop walks pos through 1..N, then hands over to the next one. *)
Step == pos' = pos + 1 /\ UNCHANGED pc

GoTo(label) == pos' = 1 /\ pc' = label

-----------------------------------------------------------------------------
(* The first loops of install_all and of reload: load the configs, then    *)
(* apply_enabled_flags.                                                    *)

(* config_base::load_all: a key the INI lacks keeps its current value. *)
LoadConfig ==
  /\ pc = "configs"
  /\ pos <= N
  /\ config' = [config EXCEPT ![pos] = IF ini.cfg[pos] = Absent THEN @ ELSE ini.cfg[pos]]
  /\ Step
  /\ UNCHANGED <<enabled, setup, found, pass, flags>>

ConfigsLoaded ==
  /\ pc = "configs"
  /\ pos = N + 1
  /\ GoTo("enabled")
  /\ UNCHANGED <<store, setup, found, pass, flags>>

(* Plausible mistakes stand above the definition they are mistakes in.     *)

BugLoadResetsFlag ==
  /\ pc = "enabled"
  /\ pos <= N
  /\ enabled' = IF ini.flag[pos] = "off" THEN enabled \ {pos} ELSE enabled \cup {pos}
  /\ Step
  /\ UNCHANGED <<config, setup, found, pass, flags>>

BugLoadOnlyDisables ==
  /\ pc = "enabled"
  /\ pos <= N
  /\ enabled' = IF ini.flag[pos] = "off" THEN enabled \ {pos} ELSE enabled
  /\ Step
  /\ UNCHANGED <<config, setup, found, pass, flags>>

(* load_enabled stores what the INI says of one hook, whatever its         *)
(* dependencies: the game sees it before the cascade has run.              *)
RawFlag(h, current) == ini.flag[h] = "on" \/ (ini.flag[h] = Absent /\ current)

SetEnabled(h, val) == enabled' = IF val THEN enabled \cup {h} ELSE enabled \ {h}

LoadEnabled ==
  /\ pc = "enabled"
  /\ pos <= N
  /\ SetEnabled(pos, RawFlag(pos, pos \in enabled))
  /\ Step
  /\ UNCHANGED <<config, setup, found, pass, flags>>

(* The flags are copied, cascade_disable works on the copy: local, so one  *)
(* step.  CascadeDisable proves what it computes.                          *)
BugCascadeNothing(S) == S

Cascade(S) == LargestClosed(Hard, S)

CascadeFlags ==
  /\ pc = "enabled"
  /\ pos = N + 1
  /\ flags' = Cascade(enabled)
  /\ GoTo("store")
  /\ UNCHANGED <<store, setup, found, pass>>

StoreFlag ==
  /\ pc = "store"
  /\ pos <= N
  /\ SetEnabled(pos, pos \in flags)
  /\ Step
  /\ UNCHANGED <<config, setup, found, pass, flags>>

FlagsStored ==
  /\ pc = "store"
  /\ pos = N + 1
  /\ GoTo(mode)
  /\ flags' = {}
  /\ UNCHANGED <<store, setup, found, pass>>

-----------------------------------------------------------------------------
(* install_all's last loop, over install_order. *)

Candidate == InstallOrder[pos]

(* Disabled, or a required pattern was not found. *)
SkipInstall ==
  /\ pc = "install"
  /\ pos <= N
  /\ Candidate \notin enabled \cap found
  /\ Step
  /\ UNCHANGED <<store, setup, found, pass, flags>>

(* HookTraits::install returned true: from here on the hook is live, and   *)
(* set_installed has run; the journal line is still to be written.         *)
InstallSucceeds ==
  /\ pc = "install"
  /\ pos <= N
  /\ Candidate \in enabled \cap found
  /\ live' = live \cup {Candidate}
  /\ applied' = [applied EXCEPT ![Candidate] = config[Candidate]]
  /\ installed' = installed \cup {Candidate}
  /\ pc' = "journal"
  /\ UNCHANGED <<pos, store, journal, found, pass, flags>>

JournalInstall ==
  /\ pc = "journal"
  /\ journal' = Append(journal, Candidate)
  /\ pos' = pos + 1
  /\ pc' = "install"
  /\ UNCHANGED <<store, installed, live, applied, found, pass, flags>>

BugFailedIsInstalled ==
  /\ pc = "install"
  /\ pos <= N
  /\ Candidate \in enabled \cap found
  /\ live' = live \cup {Candidate}
  /\ installed' = installed \cup {Candidate}
  /\ Step
  /\ UNCHANGED <<store, applied, journal, found, pass, flags>>

(* install returned false, or faulted and guarded_install returned false;  *)
(* what it had hooked by then stays hooked.                                *)
InstallFails ==
  /\ pc = "install"
  /\ pos <= N
  /\ Candidate \in enabled \cap found
  /\ live' \in {live, live \cup {Candidate}}
  /\ Step
  /\ UNCHANGED <<store, installed, applied, journal, found, pass, flags>>

(* A C++ exception goes through guarded_install and leaves install_all;    *)
(* init_game logs it and returns before it creates the watcher.            *)
InstallThrows ==
  /\ pc = "install"
  /\ pos <= N
  /\ Candidate \in enabled \cap found
  /\ live' \in {live, live \cup {Candidate}}
  /\ pc' = "aborted"
  /\ UNCHANGED <<pos, store, installed, applied, journal, found, pass, flags>>

InstallAllReturns ==
  /\ pc = "install"
  /\ pos = N + 1
  /\ GoTo("rest")
  /\ UNCHANGED <<store, setup, found, pass, flags>>

-----------------------------------------------------------------------------
(* The watcher read the INI anew; when the read fails it does not call     *)
(* reload and nothing happens.                                             *)
BeginReload ==
  /\ pc = "rest"
  /\ ini' \in IniFiles
  /\ before' = enabled
  /\ mode' = "reload"
  /\ GoTo("configs")
  /\ UNCHANGED <<store, setup, found, flags>>

BugNotifyOnlyKept(h) == h \in installed \cap enabled \cap before

(* reload's last loop, in list order. *)
Notifies(h) == h \in installed \cap enabled

Notify ==
  /\ pc = "reload"
  /\ pos <= N
  /\ applied' = [applied EXCEPT ![pos] =
                   IF pos \in HasOnReload /\ Notifies(pos) THEN config[pos] ELSE @]
  /\ Step
  /\ UNCHANGED <<store, installed, live, journal, found, pass, flags>>

BugReloadAgain ==
  /\ pc = "reload"
  /\ pos = N + 1
  /\ GoTo("configs")
  /\ UNCHANGED <<store, setup, found, pass, flags>>

ReloadReturns ==
  /\ pc = "reload"
  /\ pos = N + 1
  /\ GoTo("rest")
  /\ UNCHANGED <<store, setup, found, pass, flags>>

-----------------------------------------------------------------------------
Work ==
  \/ LoadConfig \/ ConfigsLoaded \/ LoadEnabled \/ CascadeFlags
  \/ StoreFlag \/ FlagsStored
  \/ SkipInstall \/ InstallSucceeds \/ JournalInstall \/ InstallFails
  \/ InstallThrows \/ InstallAllReturns
  \/ Notify \/ ReloadReturns

Next == Work \/ BeginReload

(* The init thread and the watcher thread keep running a pass they began;  *)
(* nothing makes the user edit the INI again.                              *)
Spec == Init /\ [][Next]_vars /\ WF_vars(Work)

-----------------------------------------------------------------------------
TypeOK ==
  /\ config \in [Hook -> Value]
  /\ enabled \in SUBSET Hook
  /\ installed \in SUBSET live
  /\ live \in SUBSET found
  /\ applied \in [Hook -> Value \cup {None}]
  /\ journal \in Seq(Hook)
  /\ found \in SUBSET Hook
  /\ ini \in Ini
  /\ flags \in SUBSET Hook
  /\ before \in SUBSET Hook
  /\ mode \in {"install", "reload"}
  /\ pc \in {"configs", "enabled", "store", "install", "journal", "reload", "rest", "aborted"}
  /\ pos \in 1..(N + 1)
  /\ pc = "journal" => pos <= N

FlagsSettled == pc \in {"install", "journal", "reload", "rest", "aborted"}

(* Between passes, and whenever hooks are installed or told of a reload,   *)
(* no enabled hook has a disabled hard dependency; only the window in      *)
(* which apply_enabled_flags stores the flags may show otherwise.          *)
HardDepsSettled == FlagsSettled => HardClosed(Hard, enabled)

(* What the last pass came to: every flag the INI names is what it says,   *)
(* every other is what it was, less the cascade; every config key the INI  *)
(* names has its value.                                                    *)
Wanted == {h \in Hook : RawFlag(h, h \in before)}
PassHonoursIni ==
  /\ FlagsSettled => enabled = Cascade(Wanted)
  /\ FlagsSettled => \A h \in Hook : ini.cfg[h] # Absent => config[h] = ini.cfg[h]

(* A game thread that reads a flag in the middle of a pass: a hook enabled *)
(* both before the pass and after it never looks disabled meanwhile.  One  *)
(* that is disabled before and after may look enabled, but only if the INI *)
(* switches it on over a hard dependency that ends up disabled, and only   *)
(* from its load_enabled to its set_enabled after the cascade.             *)
FlickersOnlyInCascade ==
  /\ before \cap Cascade(Wanted) \subseteq enabled
  /\ \A h \in enabled \ (before \cup Cascade(Wanted)) :
       /\ ini.flag[h] = "on"
       /\ ~(Hard[h] \subseteq Cascade(Wanted))
       /\ (pc = "enabled" /\ h < pos) \/ (pc = "store" /\ pos <= h)

(* At rest every hook that can be told of a reload acts on its current     *)
(* config, also one that was disabled during earlier reloads.              *)
AppliedIsCurrent ==
  pc = "rest" =>
    \A h \in installed \cap enabled \cap HasOnReload : applied[h] = config[h]

(* The journal of the session lists exactly the installed hooks, the one   *)
(* whose line is about to be written apart, each after the hooks it        *)
(* depends on.                                                             *)
Journaled == {journal[i] : i \in 1..Len(journal)}
JournalListsInstalled ==
  installed = Journaled \cup (IF pc = "journal" THEN {Candidate} ELSE {})
JournalInDepOrder ==
  \A i, j \in 1..Len(journal) :
    i <= j => journal[j] \notin Hard[journal[i]] \cup Soft[journal[i]]

(* The inductive strengthening the proofs use: what each loop has done at  *)
(* its index, and what that means for the copies and the journal.          *)
Progress(p, new, old) == {h \in Hook : (h < p /\ h \in new) \/ (~(h < p) /\ h \in old)}
  (* a loop over the flags stands at p: those before it are replaced *)

PassInv ==
  /\ pc = "configs" => enabled = before
  /\ \A h \in Hook :
       ini.cfg[h] # Absent /\ (pc = "configs" => h < pos) => config[h] = ini.cfg[h]
  /\ pc = "enabled" => enabled = Progress(pos, Wanted, before)
  /\ pc = "store" =>
       /\ flags = Cascade(Wanted)
       /\ enabled = Progress(pos, flags, Wanted)
  /\ FlagsSettled => enabled = Cascade(Wanted)

SetupInv ==
  /\ ~FlagsSettled /\ mode = "install" => installed = {}
  /\ pc \in {"install", "journal"} => \A h \in installed : applied[h] = config[h]
  /\ pc = "reload" =>
       \A h \in installed \cap enabled \cap HasOnReload : h < pos => applied[h] = config[h]
  /\ AppliedIsCurrent

JournalInv ==
  /\ pc \in {"install", "journal"} =>
       \A h \in Journaled : \E i \in Hook : i < pos /\ h = InstallOrder[i]
  /\ JournalListsInstalled
  /\ JournalInDepOrder

IInv == TypeOK /\ PassInv /\ SetupInv /\ JournalInv

(* "Enable or disable individual fixes at runtime": a hook that a reload   *)
(* switches on, its patterns found, is at work after it.                   *)
SwitchedOnWorks ==
  pc = "rest" /\ mode = "reload" => (enabled \ before) \cap found \subseteq live

(* Every pass ends: install_all returns or throws, reload returns. *)
PassEnds == pc # "rest" ~> pc \in {"rest", "aborted"}
=============================================================================
