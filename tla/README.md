# A verification of AC.Rogue.PatchFix in TLA+

AC.Rogue.PatchFix is a plugin (an `.asi` DLL) that a loader puts into the
process of Assassin's Creed Rogue or Syndicate. It hooks and patches the
game's code, reads an INI file, reloads it when it changes, and keeps a
journal, a log and crash reports. These modules model its own logic: the life of
the plugin from attach to detach with the VMProtect bypass, the hook registry, the
file watcher, the crash journal, the patch registry with the exception handling
around it, and the hooks of both games. Paths below are relative to the repository.

## Inventory

| Component | State | Operations | Interacts with | Hard part |
|---|---|---|---|---|
| Hook graph (`registry_impl.hpp`) | none at run time | `topo_sort`, evaluated by the compiler; `cascade_disable` | registry | any graph, any list order |
| Hook registry (`registry.hpp`, `registry_impl.hpp`) | per hook: config fields (relaxed atomics), `enabled` (relaxed atomic), `installed` | `install_all` once on the init thread, `reload` on the watcher's thread | every hook callback reads flags and configs on the game's threads; journal; SEH guard | flags change one by one under the callbacks; partial installs; reloads missed while disabled |
| INI fields, parsers | one atomic value each | `load_from`, `get`, `store` | registry | keys that vanish between reloads |
| Crash journal (`crash_journal.cpp`) | a file handle and path; the file | `open`, `read_previous`, `write_*`, `close` | `init_game`, `install_all`, `DllMain`; earlier and concurrent processes through the file | crash at any step, exit from another thread, two processes |
| File watcher (`file_watcher.cpp`) | thread, stop token, directory request | constructor, `watch_loop`, destructor | Windows' change record, the user's editor, `reload`, `DllMain` | lost and merged notifications, edits during a reload, stop at any point |
| Lifecycle (`dllmain.cpp`, `game_init.hpp`) | init thread, watcher pointer, logger | attach, init, detach | everything | detach against a running init, joins under the loader lock, locks of ended threads |
| VMProtect bypass (`vmp/integrity_bypass.cpp`) | hook, `g_active`, `g_blocked_count` | `install`, two polling waits, `uninstall` | init thread, threads the game creates | when the hook is in place |
| Patch registry, crash handler, SEH guard (`diagnostics/`) | sorted vector of patches, VEH handle, a `faulted` flag per callback | `register_patch`, `find_patch`, `find_nearby`, `veh_handler`, `guarded_callback` | `mem::write`, `make_hook`; faulting threads | overlapping patches, pointers that outlive the lock |
| Memory patching (`mem/`) | protect method | `write`, `nop`, `ret`, `make_hook` | patch registry | a write that fails half way |
| Rogue: pause state (`game_state.cpp`) | `is_in_game`, the cached object pointer | three callbacks, `install` | the drawing hooks read `is_in_game` | the sites are cleared and hooked under the running game |
| Rogue: view (`viewport_fitting.cpp`, `fov_correction.cpp`, `viewport_scaling.cpp`, `display_detection.cpp`) | `current_aspect`, `g_active_stretch` | several callbacks per frame, `on_reload` | registry, each other through the atomics | a reload, a pause or a new display between two callbacks of a frame |
| Rogue: display modes (`full_mode_list.cpp`, `mode_index_guard.cpp`) | the renderer's list, count and capacity | `rebuild`, `ClampModeIndex` | the engine's lookup and getter | the list is emptied and replaced in place |
| Frame limiters (`fps_unlock.cpp`, twice) | fields of `FrameTiming`; three places of code | `install`, `on_reload` | the game's frame thread | several stores, writes that fail |
| Language unlock (`language_unlock.cpp`, twice) | bitfields, the game's language, `GetGameId` | `install`, callbacks, `on_reload` | the game's start | the order of install and start is open |
| Other Syndicate hooks | skip target, patched bytes | `install`, callbacks | game code | cleared sites, reduced aspects |
| Pattern scan, logger, crash reports, minidumps | little | input and output | | not concurrent logic |

What makes each component correct, in words:

* *graph*: the build accepts exactly the acyclic graphs; a hook comes after all
  its dependencies; the cascade disables exactly what it must.
* *registry*: after every pass the flags are the INI's less the cascade and the
  configs the INI's; a hook that stays enabled never looks disabled to a callback, and one
  that stays disabled looks enabled only while the cascade has yet to take it back; every
  installed and enabled hook acts on its current config.
* *journal*: what is reported of an earlier session is true; no crash is lost
  before it is reported, none is reported over and over.
* *watcher*: a save that was noticed is reloaded in the end, and nothing is
  forgotten when the watcher waits; a stop always ends the thread.
* *patch registry and handlers*: a fault at a byte the plugin has changed is
  attributed to a hook, and to the right one; a callback that crashed stays off.
* *lifecycle and bypass*: only a call of `CreateThread` that meets the hook half
  made or being removed may fail; init and detach come to their end; a completed
  unload leaves nothing of the plugin running.
* *pause state, view, modes*: the state follows the game; what belongs to one frame
  is computed from one aspect or stretch; an index that was clamped can be read.
* *limiters, patches*: after an apply that succeeds the code and the fields are those
  of the last INI, and what is odd in between is over when the apply is.
* *language unlock*: the languages stay unlocked whenever the game loads its file,
  the game ID stays the copy's own, and the language asked for is the one shown.

The hazards, each at its line with the properties that would catch it, are
listed in `PROJECT.json`.

## Modules

| Module | Models |
|---|---|
| `HookGraph` | the vocabulary of dependency graphs; the graph of the nine Rogue hooks |
| `AnyHookGraph` | a graph as rigid variables, so that one run covers every graph |
| `TopoSort` | `RegistryOps::topo_sort`, one action per loop step |
| `CascadeDisable` | `RegistryOps::cascade_disable`, one action per hook examined |
| `HookGraph_proofs` | the correctness of both for every graph |
| `HookRegistry` | `install_all` and `reload` with the state they change |
| `HookRegistry_proofs` | its invariants for every number of hooks, graph and INI |
| `MCHookRegistry` | the two algorithms, one after the other, over every small graph; the registry with three hooks and an INI, for TLC |
| `SessionRecord` | what the journal promises: one indivisible record |
| `CrashJournal` | the journal file over several sessions of the game |
| `CrashJournal_proofs` | its properties for any sessions and hooks, and the refinement of `SessionRecord` |
| `MCCrashJournal` | two hooks and bounds for TLC |
| `FileWatcher` | `watch_loop`, with the directory's record, the editor, the callback |
| `FileWatcher_proofs` | its invariants for any number of saves and any size of the record |
| `MCFileWatcher` | its bounds for TLC |
| `PatchRegistry` | the sorted vector of patches and its searches, as operators |
| `FaultHandling` | install operations against threads that run callbacks and fault |
| `FaultHandling_proofs` | what the searches find and an insertion keeps; its invariants for every script, thread and address |
| `MCFaultHandling` | two install scripts of the games' shapes, two threads, for TLC |
| `LanguageUnlock` | Rogue's language unlock, its install, callbacks and reload, against the game's start |
| `LanguageUnlock_proofs` | its invariants for any languages and copies |
| `Lifecycle` | attach, init with the VMProtect bypass, detach, and the game's calls of `CreateThread` |
| `Lifecycle_proofs` | its invariants for any callers, start addresses and waits |
| `MCLifecycle` | two callers and two addresses for TLC |
| `InGame` | `is_in_game`, which the next two share |
| `GameStateHook` | Rogue's pause and unpause sites, their install and callbacks |
| `RogueDisplay` | ViewportFitting and FOVCorrection: the callbacks of a frame against reloads |
| `ViewportScaling` | the two scaling callbacks, CoordTransform and DisplayDetection |
| `DisplayModes` | FullModeList and ModeIndexGuard with the engine's list, lookup and getter |
| `FrameTiming` | Rogue's FPSUnlock against the game's frames |
| `SyndicatePatches` | Syndicate's CameraSmoothing and FPSUnlock: code rewritten at the reloads |
| `SyndicateHooks` | the Syndicate hooks that patch once, in the order of their install |
| `MCGameHooks` | `LanguageUnlock` and the seven above in one run, one part at a time |
| `GameHooks_proofs` | the safety of these hooks, each for its own specification |

### How state and actions correspond to the code

**TopoSort, CascadeDisable.** Hooks are 1..n where the code has 0..N-1. `queue`
is `queue[0..back)`, `order` is `order[0..count)`, and `front` equals `count`, so
it is not kept. The queue is seeded one hook per step (`Seed`), as in the code's loop over
the in-degrees. Where the code would index past an array (`.at()` in a constant
expression) or `static_assert` fails, the sort ends in "rejected": the build stops.

**HookRegistry.** `enabled` and `installed` are the sets of hooks whose flag is
set. Every store a callback could observe is a step: `LoadConfig`, `LoadEnabled`
and `StoreFlag` are one iteration of their loops each. The array `enabled_flags`
is local to the thread, so copying it and cascading it is one step
(`CascadeFlags`), whose result is what `CascadeCorrect` proves of the loop.
`install_all` ends before the watcher exists and reloads run on the watcher's
one thread, so one program counter serves both. An `install` succeeds
(`InstallSucceeds`, then `JournalInstall` writes the line), returns false or
faults, possibly with some of its hooks already placed (`InstallFails`), or
throws a C++ exception, which leaves `install_all` (`InstallThrows`). `live`
and `applied` say what the game runs; the code has no variable for them.
A hook's config is one value: the fields of one hook are loaded without a
step in between. `pc = "rest"` is the time between passes.

**CrashJournal.** `lines` and `torn` are the file, `handle` the file pointer of
each process. `write_line` is `Put` and `EndLine`, its two `WriteFile` calls. The
init thread runs `Open`, `ReadPrevious`, `Truncate`, `WriteStart`, then installs
and notes hooks. `Exit` is `ExitProcess`: Windows has ended the init thread
when `DllMain` runs, so the clean mark is written from whatever point init had
reached; before `Truncate` the file pointer is still at the start and the mark
replaces the first line. `Crash` ends the process without `DllMain`. `ReadLine` is an
iteration of the loop of `parse_journal`, `States` the loop. Time stamps only tell sessions
apart, so they are session numbers.

**FileWatcher.** `queue`, `overflow` and `request` are Windows' record of the
directory and the overlapped request; recording starts with the first request
(`armed`). A save is two steps, with the file incomplete in between. The
debounce `Sleep` is not a step of its own: anything may happen before `ReadIni`
anyway. `lost` is a history variable that says why the last change will go
unnoticed.

**PatchRegistry, FaultHandling.** `patches` is `g_patches`; a pointer a search
returns is an index, 0 for null, and `lower_bound` and `upper_bound` are defined
by what the standard says they return. What hooks install is data: `Script[h]`
lists hook h's memory operations, each a `nop`, a `write` (also `ret`, which
differs in the bytes only) or a mid hook, and `onFail` says what install does when it
fails: it gives up ("giveUp"), goes on with the next one ("goOn"), or leaves out the rest
and returns true all the same ("leave"), as Syndicate's FPSUnlock does
(syndicate fps_unlock.cpp:36-46 and 84-87). A byte write is `RegisterBytes` then
`WriteBytes`, a mid hook is `CreateHook` then `RegisterHook`: the order of the code, the
other way round in each. `Rewrite` is `on_reload`: the operations marked `again`, writes
and nops, up to the one that fails; it registers nothing, because the name of the current
hook is only set during an install. A fault of a
game thread goes through `SearchExact`, `SearchNear`, `AttributeExact`, `AttributeNear`
and `UseEntry`, the places between which the registry's lock is free; `raced` says
that the pointer may have moved. `report` stands for the lines in the log. `changed`,
`missed`, `ours` and `crashes` are history variables.

**LanguageUnlock.** A bitfield is the set of its languages. Every store of `install`
that the game could see is a step (`PrePatchMenu` and `PrePatchAudio` are
language_unlock.cpp:220 and 221), and so is each of the three patches of `GetGameId`,
between which its code is `"half"` there; `ClearSetup` and `HookSetup` are one `make_hook`.
`LangBitfieldPatch` is the callback,
`GetGameIdGuard` the `"stub"` case of `GetGameId`. `LoadIni` loads the config always, and goes on to `on_reload` when the hook is enabled
(`langOn`); `new_lang` is `uiLanguage`, since the same thread does both. The game's part is
external: `GameInit`, the loader (`LoadLanguages`), the setup with the hook in it
(`SetUpLanguages`), `Validate`, `LocInit` and `GetGameId` do what the hook's comments and
addresses say of them. Only the order those fix is fixed: `GameInit` comes at any time
before `LocInit`, and install at any time.

**Lifecycle.** `pc` has the step of each thread of the plugin: "init", "watch" and
"dll", the thread that is in `DllMain`. A thread that `ExitProcess` ended is
"killed", one that returned needs the loader lock to get to "ended", and in an
unload `DllMain` holds that lock until it is "done". `hook` is "empty" between
`InlineHook::create`, which puts the jump in place, and the move into
`g_create_thread_hook` (integrity_bypass.cpp:88). A call of the game goes through
`CreateThread`, `HkCreateThread`, `CallOriginal` (under safetyhook's lock, which
`reset` takes too) and `OriginalReturns`; `cut` marks the calls the two windows
concern. `logLockLost` is the lock of the logger that an ended thread has kept:
`LogRemoved` and `Shutdown` log, so they wait for it. `Deactivate`, the store of
`g_active` before the log call (integrity_bypass.cpp:152), does not. `MaxPolls` stands for the
3000 and 300 rounds of the two waits.

**GameStateHook, RogueDisplay, ViewportScaling.** A callback is one step, which reads
flags, configs and state at one moment, but where it stores what others read later
(`RatioLoad` and `StoreAspect`) or reads a shared value twice (`FovDecides` and
`FovComputes`). A reload is a step for each config, one for the flags and one for
`on_reload`. An aspect is a number, and a ratio, an offset or a
correction is the aspect or stretch it is computed from: the properties compare
those, not floats. `make_hook` is `ClearSite` and `HookSite`: it clears the
instructions and hooks, whether the first worked or not (mem/hook.hpp:64).

**DisplayModes.** `list` is the allocation, `count` and `capacity` the engine's
fields beside it, `modes` the local vector. Every access to the engine's memory is
a step of `rebuild`, since nothing orders the getter against it. `std::ranges::sort` is
not stable, so it may leave any of the `SortedArrangements`; `reserve` enlarges the
list or leaves it, never shrinks it. `Lookup` is the engine's binary search, over the
key the hook's comment states.

**FrameTiming, SyndicatePatches, SyndicateHooks.** A store to the game's memory is
a step; the game's frame, its HID classification and its language setup are
external and use what is there. In `SyndicatePatches` a frame time is the limit it
is computed from, and a write may fail, which ends the apply of the limiter but not its
install; a reload loads both configs and applies those that are installed and enabled. In
`SyndicateHooks` the installs follow each other in the order of `AllHooks`, each of
which may be skipped or fail.

`MCGameHooks` composes these seven and `LanguageUnlock`: they share nothing but
`is_in_game`, so one `part` runs in a behaviour and the others keep one initial state.
`MCHookRegistry` does the same with the graph's algorithms and the registry.

## Runs

| Run | Question | Bounds | Result |
|---|---|---|---|
| `registry` | Do the sort and the cascade do their work? Do flags, configs, installs and journal agree at every step? | every graph of 3 hooks (4096 pairs of tables) and Rogue's 9 hooks with every set of wanted hooks; 3 hooks with a hard and a soft dependency against the list order, any set of found patterns, 54 INI contents, any number of reloads | passes |
| `switched_on` | Does a hook switched on at runtime work? | as `registry` | violated: finding |
| `journal` | Is what a session learns of the one before it true and complete? | 3 sessions, 2 at a time, 2 hooks, 2 installs in all | passes |
| `watcher` | Is every noticed save reloaded, and does a stop end the loop? | 3 saves, 3 other changes, a record of 2 entries | passes |
| `every_edit` | Is every edit reloaded? | 1 save | violated: finding |
| `faults` | Is every fault at a changed byte attributed, and a crashed callback off? | 2 hooks, the first with a mid hook inside the bytes it cleared, the second with writes that a failure leaves out and a reload makes; 2 threads, 3 addresses, threshold 4, 1 logged foreign fault | passes |
| `game_id` | Is the ID always the copy's own? | as `game_hooks` | violated: finding |
| `lifecycle` | Which calls of `CreateThread` fail, what does an unload leave, do init and detach end? | 2 callers, a stub and a data address, 1 round of each wait | passes |
| `game_hooks` | Does each hook leave the game as its configuration says, with the game running through it? | 2 GameState objects; 2 aspects around the default and 2 changes; 2 stretches; 4 modes, two of one resolution, one below the floor; 3 targets; 3 limits; 2 reported modes; 4 languages, a worldwide, a Russian and an Asian copy, 2 languages in the INI, any number of reloads | passes |
| `first_frame` | Does the first frame after the switch find its timestamps primed? | as `game_hooks` | violated: finding |
| `flag_gate` | Is the flag gate cleared to uncap? | as `game_hooks` | violated: finding |
| `wide_mode` | Is a mode of a listed aspect kept? | as `game_hooks` | violated: finding |

Why the bounds are enough. Three hooks already give every chain, fork, cycle and
diamond-free pattern in which list order and dependency order disagree; Rogue's
own graph has chains of two. The registry's reloads are not bounded: its state
space is finite. With three sessions a record can be written, left behind
by a session that cannot open the file, and read again; two hooks
distinguish "the last one is missing" from "some are missing". A record of two
entries overflows, and holds the INI behind another file. The addresses of
`faults` are one that nested ranges hide from `find_patch`, a byte that the install may
leave out and a reload then writes, and one far from all; two threads can be in one
callback when it crashes, and one can search while the other's report is written. Two languages in the INI are enough to switch away from the installed
one and back. In `lifecycle` two callers suffice for one to hold the hook's lock
while the other is classified, and one round for a wait to be ended by its
condition, its stop token or its timeout. Two objects are a game that was left
and entered again; two changes put a reload and a pause, or two reloads, into one
frame, and the aspects lie on both sides of the default. Of the modes two share a
resolution with different rates and one has no denominator.

The six violations are what the findings in `PROJECT.json` describe:

* a hook disabled when the game starts is never installed afterwards;
* an edit between the first reading of the INI and the watcher's first request
  goes unnoticed;
* the stub of `GetGameId` answers with a Russian ID when the game loads its language
  file before the install's stores, and with the worldwide uPlay ID when it sets its
  languages up before the hook is in place;
* a frame between the store of Rogue's timing mode and the priming of the timestamps
  computes its delta from those of the old mode;
* Syndicate's flag gate is filled with NOPs to cap and restored to uncap, which the
  repository's README says the other way round;
* a mode of exactly 21:9, such as 1680x720, is dropped by ResolutionFix: 21:9 in
  lowest terms is 7:3, which is not on its list.

What the models show besides, without a run of its own: a key removed from the INI
keeps its earlier value until the game is restarted (`PassHonoursIni` says so); a
second game reports the first, which is running, as having crashed (`ReportIsTrue`
allows it); a `UILanguage` first set at run time is logged as switched to and changes
nothing (`LanguageFollowsIni` leaves it out); a `reserve` that fails to enlarge an
older mode list is overrun (`GetterInBounds` leaves it out); an unload while a thread
of the plugin runs does not complete, because that thread needs the loader lock to end,
and an exit that finds the bypass active and a lock lost with its thread hangs in `reset`
or in the log call (`DetachEnds` leaves both out); a byte that FPSUnlock's install left
out after a failed write and a reload wrote is attributed to nobody
(`ChangedBytesAttributed` names it, `missed`); a hook that is off before and after a
reload is enabled for a while when the INI asks for it and the cascade takes it back
(`FlickersOnlyInCascade` says which and how long); of a GameState object that has
replaced the cached one nobody sets the flag (`StateFollowsGame` speaks of the cached).

### Fairness

* `MCHookRegistry`: weak fairness of the graph's algorithms, which run at build time or
  without blocking, and of `Work`: a thread in `install_all` or `reload`
  continues; it takes no lock and waits for nothing. A reload need not begin.
* `FileWatcher`: weak fairness of the watcher's thread, of `SetStopEvent` (the
  thread that requests the stop is in the destructor and runs on), and of `EndSave`
  (an editor that has truncated a file completes it). Saves, other changes and
  stops need not happen.
* `Lifecycle`: strong fairness of the init thread's and of `DllMain`'s work, which
  both run on but may find the hook's lock taken again and again by callers, each
  for one call, and weak fairness of a call of the original (the game's
  `CreateThread` returns) and of the watcher's thread once it is told to stop, which
  `StopEndsTheLoop` shows of its loop. No fault, exit or unload need happen, and the
  game need not call, nor VMProtect unpack: the waits end by their own count.
* `MCGameHooks`: weak fairness of the display's callbacks, which the game runs
  every frame, and of a reload that has begun. Other parts state no liveness.
* `CrashJournal` and `FaultHandling` state no liveness: a session or a thread can
  end at any step.

## Proofs

Every safety invariant and action property of the runs that pass is a theorem, for every
value of the constants that the assumptions of its module allow; the liveness properties
are not.

`HookGraph_proofs`, for every number of hooks and every dependency table. Of the sort:
`DepsComeFirst`, `BuildAcceptsAcyclic`, and `SortGivesInstallOrder`, which says that an
accepted order is what `HookRegistry` assumes of its `InstallOrder`. The code only
decrements counters, so `TopoInv` says what they count: `Open(v)` is the set of edges
into v that no processed hook has relaxed, the in-degree of v is its cardinality
(`DegreesOK`), and the queue holds exactly the hooks that have none (`ReadyOK`); the rows
of the adjacency table hold each edge once (`EdgesOK`, `RowsOK`). A hook that is placed
has no open edge, hence all its dependencies before it. When the queue runs dry early,
the hooks left over each have an open edge from another that is left over: a set without
a first one, which is a cycle. When it does not, n different hooks are all of them, and
the earliest placed of any set depends on none of the set. Of the cascade:
`CascadeCorrect`. That the result is closed
needs more than the loop's exit condition, that it is largest needs
a statement about all the hooks not cleared: `CascadeInv` says that every closed
subset of the wanted hooks is still enabled (`KeepsClosedSubsets`: a hook is
cleared only for a dependency that is gone, so no closed set loses its first
member), and that a pass that has cleared nothing has checked every hook before its
index (`CheckedSoFar`). At the end the second makes the result closed and the
first makes it the largest.

`HookRegistry_proofs` proves, from the assumptions `GraphAssumption`,
`OrderAssumption` (the install order is a permutation that respects the
dependencies: what `SortGivesInstallOrder` proves of `TopoSort`) and `IniAssumption`, that
the inductive invariant `IInv` holds, and from it `HardDepsSettled`,
`PassHonoursIni`, `FlickersOnlyInCascade`, `AppliedIsCurrent`, `JournalListsInstalled` and
`JournalInDepOrder`. `IInv` is needed because each of these speaks of a moment
after a loop: its parts say what the loop has done so far. `PassInv` keeps, with
`Progress`, the flags as a mixture of old and new ones at the loop's index;
`SetupInv` says which hooks have been told of the config; `JournalInv` ties the
journal to the prefix of the install order.

`FileWatcher_proofs` proves `TypeOK` and `QuietMeansCurrent` from `WatcherBounds`
alone. The latter speaks only of a waiting watcher, so it needs what every other
step leaves behind: as long as no change was lost, a change of the INI is pending
(recorded, handed out, or on its way into the callback), or a save is going on, or
the hooks, or the read a reload is about to work from, have the current version
(`CurrentInv`). `RequestInv` says of which steps the thread holds a request or a
batch; appending to the record and scanning its head keep what it mentions.

`CrashJournal_proofs`, for any number of sessions, however many run at a time, and any
hooks: `ReportsAreTrue`, `CrashesNotForgotten`, `CrashesReportedOnce` and
`JournalImplementsRecord`. First what the parser makes of a file that a write has
changed: a line at its end is one more iteration (`ParseAppend`), a line glued to an
unfinished one is not read (`ParseGlued`), and a clean mark written over the first line
makes the file a clean one, because a session_start is the first line or there is none
(`ParseReplaced`). Then `JournalInv`: one session at most has the handle (`OneOwner`);
at each step of its owner the file is empty or tells of the owner, and is torn only
while a line is being ended or the exit has cut one (`OwnerInv`); whatever session the
file tells of, it tells the truth of it, up to the hook that is being noted
(`TraceInv`); what a session is about to truncate is still what it has read
(`ReadInv`); and the session a report is of has ended and is told of by no later file
(`ClaimInv`), which is why it is reported once. For the refinement, `Truncate` and the
clean mark are `Clear`, `WriteStart` is `Begin`, `NoteHook` is `Note`, `ReadPrevious` is
`Read`, and every other step, or one without a handle, is a stutter.

`FaultHandling_proofs` proves that `register_patch` keeps the vector sorted
(`InsertedIsSorted`) and that every address of a registered range is found
(`CoveredIsAttributed`). The latter is not obvious: `find_patch` looks only at the
last range that starts at or before the address, so a range nested in another hides
the rest of it. That the rest is still attributed rests on `find_nearby`, and
on no patch being longer than its threshold: the assumption is in `Entry`, and the
longest patch of either game has 38 bytes. It carries this to
`ChangedBytesAttributed` for every script: `RegistryInv` says that every changed byte
is in a registered range (up to the two exceptions the property names), because a
write registers before it changes, a hook after it, and a reload writes only what
the hook's install registered, could not unprotect or left out after such a failure
(`RangesRegistered`). From `CrashInv`
(a thread in a callback has not crashed in it, and one crash disables it) follows
`OneCrashPerThread`. `NamesThePatcher` needs to know, of each pointer a search has
returned, that it still points at the entry that was found unless the vector has changed
since (`NamingInv`).

`LanguageUnlock_proofs` proves `Unlocked`, `StubAnswersTrueId`, `LanguageFollowsIni` and
`ForcedLanguageSurvives`.
Its invariant relates how far install is to where the loader found it: a loader
that came after the stores leaves the copy's bitfield for the callback
(`RegionInv`), one that came before them is overwritten (`BitfieldInv`), and a switch
in the running game has done its stores up to its step (`SwitchInv`). `ForcedInv` adds
the language the game copies for itself: from the callback on it is the forced one,
until a reload switches it.

`Lifecycle_proofs` proves `LostOnlyInWindows` and `NothingLeft`. For the first,
`CallInv` says that a call inside a hook without an original has been cut: the hook
is "empty" only while init is about to publish it, when new calls are marked, and
`ResetHook` marks the calls inside. For the second, `ControlInv` follows `DllMain`: a
watcher that init creates after `DllMain` has reset the pointer keeps init from
having ended, so the join behind it does not return; and once init has ended, a
bypass that is not active is not hooked either.

`GameHooks_proofs` proves `PlacedAsSized`, `FactorsBelong`, `OddFramesFallInApply`,
`PatchesFollowIni`, `StateFollowsGame`, `AllUnlocked`, `PadsToldApart`,
`GetterInBounds` and `SavedModeResolves`, each of the specification its module states,
and `MCTypeOK` of their composition. The strengthenings say what an apply or an
install has brought about at each of its steps: in `PatchInv` the places written so
far are as the configuration wants them and the saved originals are the game's; in
`TimingInv` the timestamps behind the current one are fresh whenever averaged mode
is on; in `UnlockInv` a setup that was not crossed is outside while the bitfields
are stored.

In `ModesInv` the list is only ever replaced by a longer one, so an index that was
clamped before a rebuild is inside what the getter reads after it (`GetterStaysInBounds`).
That a saved mode resolves has a second half: the engine's binary search, a recursive
function over the list, is well defined and finds every key of a sorted list
(`LookupFinds`, by induction on the length of the range that is left), and the list stays
sorted and complete from the sort to the next rebuild (`LookupInv`). It and `MCTypeOK`
assume fewer than 2^16 modes, because the list's count has 16 bits.

Induction over data needs a detour. The library's induction theorems take an operator as
a parameter, which the provers cannot instantiate; `SetInduction` states induction for a
set of numbers instead, from the well-foundedness of < on the naturals. With it the
equations of the two recursive functions, `States` of the journal and the search of
`Lookup`, are shown to have a solution, after which what they compute is proved.

Only model-checked: the liveness properties `BothFinish`, `PassesEnd`,
`SavesAreReloaded`, `StopEndsTheLoop`, `InitEnds`, `DetachEnds` and `DisplaySettles`,
which TLAPS cannot prove.

## Plan

What is left, in this order:

1. The parsers of `parsers.hpp` as operators against a reference definition.
2. `DisplayModes` with two rebuilds at a time, should the engine allow them.
3. The journal lines of `HookRegistry` as those `CrashJournal` notes: one specification
   of the init thread that implements both.

## Not modelled, and why

* Crash reports, minidumps and stack walks only format and write.
* The pattern search, the inline and mid hooks themselves, mINI and spdlog are
  libraries; their results are inputs.
* The text formats of INI values: the parsers have unit tests over them.
* The layout of the game's structures.
* Stack overflows (the handlers pass them on), the end of the process after a
  fault nobody takes, a fault while a dangling pointer is read, and the wrap of
  the foreign fault counter after 2^32 faults.
* Saves that replace the INI by renaming another file over it: whether Windows
  then records a last-write change for the INI's name is not settled by the code.
