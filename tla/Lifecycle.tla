------------------------------- MODULE Lifecycle -------------------------------
(***************************************************************************)
(* The plugin from DLL_PROCESS_ATTACH to DLL_PROCESS_DETACH: the init      *)
(* thread with the VMProtect bypass around it, the watcher's thread and    *)
(* DllMain's detach, against game threads that create threads through the  *)
(* hooked CreateThread.  A process ends by exit, which ends every other    *)
(* thread wherever it is, or the DLL is unloaded: then DllMain runs under  *)
(* the loader lock, which a thread needs to end.                           *)
(* What the journal records on the way is in CrashJournal, install_all in  *)
(* HookRegistry, the watcher's loop in FileWatcher.                        *)
(***************************************************************************)
EXTENDS Naturals

CONSTANTS
  Callers,      \* game threads that create threads
  Starts,       \* the start addresses they ask for
  EmptyThread,  \* the address of empty_thread
  MaxPolls      \* bound: rounds of a polling wait; the code has 3000 and 300

ASSUME LifecycleAssumption ==
  /\ Starts \subseteq [inVmp : BOOLEAN, executable : BOOLEAN, branchesToVmp : BOOLEAN]
  /\ EmptyThread \notin Starts
  /\ MaxPolls \in Nat

VARIABLES   \* the process
  vmprotectGame,   \* the plugin is the one for Syndicate
  rightExe,        \* the process is the plugin's game
  g_sections,      \* the executable has sections of VMProtect's, and .text
  unpacked,        \* the first byte of .text is no longer 0
  how,             \* "none", or how the process detaches: "exit", "unload"
  logLockLost      \* a thread that the exit ended held a lock of the logger

VARIABLES   \* the plugin
  pc,         \* of "init", "watch" and "dll", the thread in DllMain
  polls,      \* rounds of the current wait
  stop,       \* the threads whose stop token is set
  logger,     \* log::g_instance exists
  hook,       \* CreateThread is "off", hooked through an "empty" object, hooked ("full")
  g_active,
  blocked,    \* g_blocked_count > 0
  watcher,    \* watcher() is not null
  clean       \* the journal has its clean mark

VARIABLES   \* calls of CreateThread by the game
  call,       \* "idle", "entered", "classified", "original"
  start,      \* the address it hands on, EmptyThread between calls
  result,     \* of the last call: "handle" or "null"
  cut         \* history: the call met the hook unfinished or was in it when it was reset

process == <<vmprotectGame, rightExe, g_sections>>
bypass == <<hook, g_active, blocked>>
calls == <<call, start, result, cut>>
vars == <<process, unpacked, how, logLockLost, pc, polls, stop, logger, bypass, watcher, clean, calls>>

Init ==
  /\ vmprotectGame \in BOOLEAN /\ rightExe \in BOOLEAN
  /\ g_sections \in [vmp : BOOLEAN, text : BOOLEAN]
  /\ rightExe => g_sections.text /\ (g_sections.vmp => vmprotectGame)
  /\ unpacked \in BOOLEAN /\ how = "none" /\ logLockLost = FALSE
  /\ pc = [init |-> "none", watch |-> "none", dll |-> "load"]
  /\ polls = 0 /\ stop = {} /\ logger = FALSE
  /\ hook = "off" /\ g_active = FALSE /\ blocked = FALSE
  /\ watcher = FALSE /\ clean = FALSE
  /\ call = [c \in Callers |-> "idle"] /\ start = [c \in Callers |-> EmptyThread]
  /\ result = [c \in Callers |-> "handle"] /\ cut = [c \in Callers |-> FALSE]

Goto(p, to) == pc' = [pc EXCEPT ![p] = to]

Gone(p) == pc[p] \in {"none", "ended", "killed"}

LoaderLockFree == how # "unload" \/ pc["dll"] = "done"

-----------------------------------------------------------------------------
(* The game, and VMProtect: external but for hk_create_thread.             *)

Unpack ==
  /\ ~unpacked /\ how # "exit"
  /\ unpacked' = TRUE
  /\ UNCHANGED <<process, how, logLockLost, pc, polls, stop, logger, bypass, watcher, clean, calls>>

CallerStep(c) ==
  /\ how # "exit"
  /\ UNCHANGED <<process, unpacked, how, logLockLost, pc, polls, stop, logger, hook, g_active,
                 watcher, clean>>

(* CreateThread: through the hook if the jump is in place.                 *)
CreateThread(c) ==
  /\ CallerStep(c)
  /\ call[c] = "idle"
  /\ IF hook = "off"
     THEN UNCHANGED <<call, start, cut>>
     ELSE /\ call' = [call EXCEPT ![c] = "entered"]
          /\ \E s \in Starts : start' = [start EXCEPT ![c] = s]
          /\ cut' = [cut EXCEPT ![c] = pc["init"] = "publish"]
  /\ result' = [result EXCEPT ![c] = "handle"]
  /\ UNCHANGED blocked

IsVmpThread(s) == s.inVmp \/ (s.executable /\ s.branchesToVmp)

HkCreateThread(c) ==
  /\ CallerStep(c)
  /\ call[c] = "entered"
  /\ call' = [call EXCEPT ![c] = "classified"]
  /\ IF IsVmpThread(start[c])
     THEN start' = [start EXCEPT ![c] = EmptyThread] /\ blocked' = TRUE
     ELSE UNCHANGED <<start, blocked>>
  /\ UNCHANGED <<result, cut>>

HookLockFree == \A c \in Callers : call[c] # "original"

(* InlineHook::call, under the object's lock: without a trampoline it      *)
(* returns 0 instead of calling.                                           *)
CallOriginal(c) ==
  /\ CallerStep(c)
  /\ call[c] = "classified" /\ HookLockFree
  /\ IF hook = "full"
     THEN call' = [call EXCEPT ![c] = "original"] /\ UNCHANGED <<start, result>>
     ELSE /\ call' = [call EXCEPT ![c] = "idle"]
          /\ start' = [start EXCEPT ![c] = EmptyThread]
          /\ result' = [result EXCEPT ![c] = "null"]
  /\ UNCHANGED <<cut, blocked>>

OriginalReturns(c) ==
  /\ CallerStep(c)
  /\ call[c] = "original"
  /\ call' = [call EXCEPT ![c] = "idle"]
  /\ start' = [start EXCEPT ![c] = EmptyThread]
  /\ UNCHANGED <<result, cut, blocked>>

Caller(c) == CreateThread(c) \/ HkCreateThread(c) \/ CallOriginal(c) \/ OriginalReturns(c)

-----------------------------------------------------------------------------
(* vmp::uninstall, by the init thread or by DllMain.                       *)

BugKeepsJump(p, from) ==
  /\ pc[p] = from /\ g_active /\ HookLockFree
  /\ hook' = "empty"
  /\ cut' = [c \in Callers |-> cut[c] \/ call[c] \in {"entered", "classified"}]
  /\ Goto(p, "deactivate")
  /\ UNCHANGED <<process, unpacked, how, logLockLost, polls, stop, logger, g_active, blocked,
                 watcher, clean, call, start, result>>

ResetHook(p, from) ==
  /\ pc[p] = from /\ g_active /\ HookLockFree
  /\ hook' = "off"
  /\ cut' = [c \in Callers |-> cut[c] \/ call[c] \in {"entered", "classified"}]
  /\ Goto(p, "deactivate")
  /\ UNCHANGED <<process, unpacked, how, logLockLost, polls, stop, logger, g_active, blocked,
                 watcher, clean, call, start, result>>

Deactivate(p) ==
  /\ pc[p] = "deactivate"
  /\ g_active' = FALSE
  /\ Goto(p, "removed")
  /\ UNCHANGED <<process, unpacked, how, logLockLost, polls, stop, logger, hook, blocked,
                 watcher, clean, calls>>

(* "[VMP] Hooks removed" takes the logger's lock. *)
LogRemoved(p, to) ==
  /\ pc[p] = "removed" /\ ~logLockLost
  /\ Goto(p, to)
  /\ UNCHANGED <<process, unpacked, how, logLockLost, polls, stop, logger, bypass, watcher,
                 clean, calls>>

BugAlwaysLogs(p, from, to) ==
  /\ pc[p] = from /\ ~g_active /\ ~logLockLost
  /\ Goto(p, to)
  /\ UNCHANGED <<process, unpacked, how, logLockLost, polls, stop, logger, bypass, watcher,
                 clean, calls>>

NotActive(p, from, to) ==
  /\ pc[p] = from /\ ~g_active
  /\ Goto(p, to)
  /\ UNCHANGED <<process, unpacked, how, logLockLost, polls, stop, logger, bypass, watcher,
                 clean, calls>>

-----------------------------------------------------------------------------
(* The init thread. *)

InitStep(from) ==
  /\ pc["init"] = from
  /\ UNCHANGED <<process, unpacked, how, logLockLost, stop, clean, calls>>

FindSections ==
  /\ InitStep("sections")
  /\ Goto("init", IF g_sections.vmp THEN "arm" ELSE "gameInit")
  /\ UNCHANGED <<polls, logger, bypass, watcher>>

(* InlineHook::create, if CreateThread is found and can be hooked.         *)
Arm ==
  /\ InitStep("arm")
  /\ \/ hook' = "empty" /\ Goto("init", "publish")
     \/ Goto("init", "gameInit") /\ UNCHANGED hook
  /\ UNCHANGED <<polls, logger, g_active, blocked, watcher>>

Publish ==
  /\ InitStep("publish")
  /\ hook' = "full"
  /\ Goto("init", "activate")
  /\ UNCHANGED <<polls, logger, g_active, blocked, watcher>>

Activate ==
  /\ InitStep("activate")
  /\ g_active' = TRUE
  /\ Goto("init", "gameInit")
  /\ UNCHANGED <<polls, logger, hook, blocked, watcher>>

(* game_init_impl: nothing more happens in another process.                *)
GameInit ==
  /\ InitStep("gameInit")
  /\ logger' = rightExe
  /\ Goto("init", IF ~rightExe THEN "return" ELSE IF vmprotectGame THEN "unpack" ELSE "prepare")
  /\ UNCHANGED <<polls, bypass, watcher>>

BugPollsForever(from, met, to) ==
  /\ InitStep(from)
  /\ IF ~g_active \/ met \/ "init" \in stop THEN Goto("init", to) ELSE UNCHANGED pc
  /\ UNCHANGED <<polls, logger, bypass, watcher>>

(* One round of a polling wait, or its end.                                *)
Poll(from, met, to) ==
  /\ InitStep(from)
  /\ IF ~g_active \/ met \/ "init" \in stop \/ polls = MaxPolls
     THEN Goto("init", to) /\ polls' = 0
     ELSE polls' = polls + 1 /\ UNCHANGED pc
  /\ UNCHANGED <<logger, bypass, watcher>>

WaitForUnpack == Poll("unpack", ~g_sections.text \/ unpacked, "blocked")

WaitForIntegrityBlocked == Poll("blocked", blocked, "prepare")

(* The journal, the INI and the scan.                                      *)
Prepare ==
  /\ InitStep("prepare")
  /\ Goto("init", "install")
  /\ UNCHANGED <<polls, logger, bypass, watcher>>

InstallAll ==
  /\ InitStep("install")
  /\ Goto("init", "complete")
  /\ UNCHANGED <<polls, logger, bypass, watcher>>

(* install_all throws, or game_init catches a fault: nothing is undone.    *)
InitFails ==
  /\ \/ InitStep("prepare") \/ InitStep("install")
  /\ Goto("init", "return")
  /\ UNCHANGED <<polls, logger, bypass, watcher>>

InitComplete ==
  /\ InitStep("complete")
  /\ Goto("init", IF vmprotectGame THEN "uninstall" ELSE "watch")
  /\ UNCHANGED <<polls, logger, bypass, watcher>>

InitUninstall ==
  \/ ResetHook("init", "uninstall")
  \/ Deactivate("init") \/ LogRemoved("init", "watch")
  \/ NotActive("init", "uninstall", "watch")

CreateWatcher ==
  /\ InitStep("watch")
  /\ watcher' = TRUE
  /\ pc' = [pc EXCEPT !["init"] = "return", !["watch"] = "loop"]
  /\ UNCHANGED <<polls, logger, bypass>>

(* A thread of the plugin that has returned ends under the loader lock.    *)
ThreadEnds(p) ==
  /\ pc[p] = "return" /\ LoaderLockFree
  /\ Goto(p, "ended")
  /\ UNCHANGED <<process, unpacked, how, logLockLost, polls, stop, logger, bypass, watcher,
                 clean, calls>>

InitWork ==
  \/ FindSections \/ Arm \/ Publish \/ Activate \/ GameInit
  \/ WaitForUnpack \/ WaitForIntegrityBlocked \/ Prepare \/ InstallAll
  \/ InitComplete \/ InitUninstall \/ CreateWatcher \/ ThreadEnds("init")

(* The watcher's loop ends when it is told to, or when a call fails.       *)
WatchReturns ==
  /\ pc["watch"] = "loop"
  /\ Goto("watch", "return")
  /\ UNCHANGED <<process, unpacked, how, logLockLost, polls, stop, logger, bypass, watcher,
                 clean, calls>>

Fault == InitFails \/ ("watch" \notin stop /\ WatchReturns)

-----------------------------------------------------------------------------
(* DllMain. *)

DllStep(from) ==
  /\ pc["dll"] = from
  /\ UNCHANGED <<process, unpacked, polls, logger, bypass, calls>>

(* The init thread cannot start before DllMain has returned.               *)
Attach ==
  /\ DllStep("load")
  /\ pc' = [pc EXCEPT !["dll"] = "attached", !["init"] = "sections"]
  /\ UNCHANGED <<how, logLockLost, stop, watcher, clean>>

(* ExitProcess has ended every other thread when DllMain runs; what they   *)
(* had locked stays locked.                                                *)
Exit ==
  /\ DllStep("attached")
  /\ how' = "exit"
  /\ pc' = [p \in DOMAIN pc |-> IF p = "dll" THEN "watcher" ELSE IF Gone(p) THEN pc[p] ELSE "killed"]
  /\ logLockLost' \in BOOLEAN
  /\ logLockLost' => logger /\ (~Gone("init") \/ ~Gone("watch") \/ \E c \in Callers : call[c] = "entered")
  /\ UNCHANGED <<stop, watcher, clean>>

(* FreeLibrary: the other threads run on. *)
Unload ==
  /\ DllStep("attached")
  /\ how' = "unload"
  /\ Goto("dll", "watcher")
  /\ UNCHANGED <<logLockLost, stop, watcher, clean>>

(* watcher().reset(): the pointer is cleared before the object is destroyed. *)
ResetWatcher ==
  /\ DllStep("watcher")
  /\ watcher' = FALSE
  /\ IF watcher THEN stop' = stop \cup {"watch"} /\ Goto("dll", "joinWatch")
     ELSE UNCHANGED stop /\ Goto("dll", "initThread")
  /\ UNCHANGED <<how, logLockLost, clean>>

JoinWatch ==
  /\ DllStep("joinWatch")
  /\ Gone("watch")
  /\ Goto("dll", "initThread")
  /\ UNCHANGED <<how, logLockLost, stop, watcher, clean>>

BugDetachesInit ==
  /\ DllStep("initThread")
  /\ stop' = stop \cup {"init"}
  /\ Goto("dll", "bypass")
  /\ UNCHANGED <<how, logLockLost, watcher, clean>>

(* g_init_thread.reset() *)
ResetInitThread ==
  /\ DllStep("initThread")
  /\ stop' = stop \cup {"init"}
  /\ Goto("dll", "joinInit")
  /\ UNCHANGED <<how, logLockLost, watcher, clean>>

JoinInit ==
  /\ DllStep("joinInit")
  /\ Gone("init")
  /\ Goto("dll", "bypass")
  /\ UNCHANGED <<how, logLockLost, stop, watcher, clean>>

DllUninstall ==
  \/ ResetHook("dll", "bypass")
  \/ Deactivate("dll") \/ LogRemoved("dll", "clean")
  \/ NotActive("dll", "bypass", "clean")

WriteClean ==
  /\ DllStep("clean")
  /\ clean' = TRUE
  /\ Goto("dll", "shutdown")
  /\ UNCHANGED <<how, logLockLost, stop, watcher>>

(* The journal is closed, the exception handler and the logger go.         *)
Shutdown ==
  /\ pc["dll"] = "shutdown" /\ ~logLockLost
  /\ logger' = FALSE
  /\ Goto("dll", "done")
  /\ UNCHANGED <<process, unpacked, how, logLockLost, polls, stop, bypass, watcher, clean, calls>>

Detach ==
  \/ ResetWatcher \/ JoinWatch \/ ResetInitThread \/ JoinInit \/ DllUninstall
  \/ WriteClean \/ Shutdown

Next ==
  \/ Attach \/ Exit \/ Unload \/ Detach
  \/ InitWork \/ Fault \/ WatchReturns \/ ThreadEnds("watch")
  \/ Unpack \/ \E c \in Callers : Caller(c)

(* The plugin's threads run on; strong fairness where they wait for the    *)
(* hook's lock, which callers hold for one call at a time.  FileWatcher's  *)
(* loop ends once told to.                                                 *)
Spec ==
  /\ Init /\ [][Next]_vars
  /\ SF_vars(InitWork) /\ SF_vars(Detach)
  /\ WF_vars("watch" \in stop /\ WatchReturns) /\ WF_vars(ThreadEnds("watch"))
  /\ \A c \in Callers : WF_vars(OriginalReturns(c))

-----------------------------------------------------------------------------
InitPc == {"none", "sections", "arm", "publish", "activate", "gameInit", "unpack", "blocked",
           "prepare", "install", "complete", "uninstall", "deactivate", "removed", "watch",
           "return", "ended", "killed"}
WatchPc == {"none", "loop", "return", "ended", "killed"}
DllPc == {"load", "attached", "watcher", "joinWatch", "initThread", "joinInit", "bypass",
          "deactivate", "removed", "clean", "shutdown", "done"}

TypeOK ==
  /\ pc \in [{"init", "watch", "dll"} -> InitPc \cup WatchPc \cup DllPc]
  /\ pc["init"] \in InitPc /\ pc["watch"] \in WatchPc /\ pc["dll"] \in DllPc
  /\ how \in {"none", "exit", "unload"} /\ stop \subseteq {"init", "watch"}
  /\ polls \in 0..MaxPolls
  /\ hook \in {"off", "empty", "full"}
  /\ call \in [Callers -> {"idle", "entered", "classified", "original"}]
  /\ start \in [Callers -> Starts \cup {EmptyThread}]
  /\ result \in [Callers -> {"handle", "null"}]
  /\ cut \in [Callers -> BOOLEAN]

(* A CreateThread of the game fails on the plugin's account only if it     *)
(* entered the hook between InlineHook::create and the move to             *)
(* g_create_thread_hook, or was in it when uninstall reset it.             *)
LostOnlyInWindows == \A c \in Callers : result[c] = "null" => cut[c]

(* What remains after an unload: no thread of the plugin runs and nothing  *)
(* leads into its code, though init may go on, and create the watcher,     *)
(* while DllMain is in between.                                            *)
NothingLeft ==
  how = "unload" /\ pc["dll"] = "done" =>
    Gone("init") /\ Gone("watch") /\ ~watcher /\ hook = "off"

(* Whatever VMProtect and the game do, the init thread comes to its end,   *)
(* or the process does; only an unload can keep it waiting, for the loader *)
(* lock that DllMain holds.                                                *)
InitEnds == pc["dll"] = "attached" ~> Gone("init") \/ how = "unload"

(* An exit that finds the bypass removed reaches the clean mark, whatever  *)
(* locks the ended threads held; one that finds it active does if none of  *)
(* them held the logger's lock or that of the hook (otherwise uninstall    *)
(* waits for ever, and the next start reports a crash).  An unload with no *)
(* thread of the plugin left completes.                                    *)
DetachEnds ==
  /\ (how = "exit" /\ pc["dll"] = "watcher" /\ (g_active => ~logLockLost /\ HookLockFree)) ~> clean
  /\ (how = "unload" /\ pc["dll"] = "watcher" /\ Gone("init") /\ Gone("watch")) ~> pc["dll"] = "done"
=============================================================================
