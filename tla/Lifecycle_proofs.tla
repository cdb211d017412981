--------------------------- MODULE Lifecycle_proofs ---------------------------
(***************************************************************************)
(* Which calls of CreateThread may fail on the plugin's account, and what  *)
(* an unload leaves behind, for any number of game threads, any start      *)
(* addresses and waits of any length.                                      *)
(***************************************************************************)
EXTENDS Lifecycle, TLAPS

AfterInit == {"bypass", "deactivate", "removed", "clean", "shutdown", "done"}
AfterWatch == {"initThread", "joinInit"} \cup AfterInit

(* How far DllMain is, against the plugin's threads and its hook.          *)
ControlInv ==
  /\ how = "none" <=> pc["dll"] \in {"load", "attached"}
  /\ pc["dll"] = "load" => pc["init"] = "none"
  /\ how = "exit" => Gone("init") /\ Gone("watch")
  /\ pc["dll"] \in AfterInit => Gone("init")
  /\ pc["dll"] \in {"load", "attached", "watcher"} /\ ~watcher => pc["watch"] = "none"
  /\ pc["dll"] \in {"joinWatch"} \cup AfterWatch /\ Gone("init") => ~watcher
  /\ pc["dll"] \in AfterWatch /\ Gone("init") => Gone("watch")
  /\ hook = "empty" => pc["init"] = "publish" \/ how = "exit"
  /\ pc["init"] \in {"none", "sections", "arm", "deactivate"} => hook = "off"
  /\ how # "exit" /\ hook # "off" => g_active \/ pc["init"] \in {"publish", "activate"}
  /\ how # "exit" /\ pc["dll"] \in AfterInit \ {"bypass"} => hook = "off"

(* A call that is inside the hook while there is no original to call has   *)
(* been cut.                                                               *)
CallInv ==
  /\ \A c \in Callers : call[c] \in {"entered", "classified"} /\ hook # "full" => cut[c]
  /\ LostOnlyInWindows

IInv == TypeOK /\ ControlInv /\ CallInv

-----------------------------------------------------------------------------
(* Nothing has happened before DllMain's first call.                       *)
LEMMA IInvInit == Init => IInv
<1> SUFFICES ASSUME Init PROVE IInv
  OBVIOUS
<1>1. TypeOK
  BY LifecycleAssumption DEF Init, TypeOK, InitPc, WatchPc, DllPc
<1>2. ControlInv
  BY DEF Init, ControlInv, Gone, AfterInit, AfterWatch
<1>3. CallInv
  BY DEF Init, CallInv, LostOnlyInWindows
<1>. QED
  BY <1>1, <1>2, <1>3 DEF IInv

(* A step of a game thread moves only its own call, and the block count.   *)
LEMMA CallerKeeps ==
  ASSUME IInv, NEW c \in Callers, Caller(c)
  PROVE  IInv'
<1> USE DEF Caller, CallerStep, CreateThread, HkCreateThread, CallOriginal, OriginalReturns
<1>1. pc' = pc /\ how' = how /\ hook' = hook /\ g_active' = g_active /\ watcher' = watcher /\ how # "exit"
  OBVIOUS
<1>2. polls' = polls /\ stop' = stop
  OBVIOUS
<1>3. ControlInv'
  BY <1>1 DEF IInv, ControlInv, Gone
<1>4. call' \in [Callers -> {"idle", "entered", "classified", "original"}]
  BY DEF IInv, TypeOK
<1>5. start' \in [Callers -> Starts \cup {EmptyThread}]
  BY DEF IInv, TypeOK
<1>6. result' \in [Callers -> {"handle", "null"}]
  BY DEF IInv, TypeOK
<1>7. cut' \in [Callers -> BOOLEAN]
  BY Zenon DEF IInv, TypeOK
<1>8. TypeOK'
  BY <1>1, <1>2, <1>4, <1>5, <1>6, <1>7 DEF IInv, TypeOK
<1>9. CallInv'
  <2>1. hook = "empty" => pc["init"] = "publish"
    BY <1>1 DEF IInv, ControlInv
  <2>2. hook \in {"off", "empty", "full"}
    BY DEF IInv, TypeOK
  <2> SUFFICES ASSUME NEW d \in Callers
               PROVE  /\ call'[d] \in {"entered", "classified"} /\ hook' # "full" => cut'[d]
                      /\ result'[d] = "null" => cut'[d]
    BY DEF CallInv, LostOnlyInWindows
  <2>3. CASE CreateThread(c)
    BY <1>1, <2>1, <2>2, <2>3 DEF IInv, TypeOK, CallInv, LostOnlyInWindows
  <2>4. CASE HkCreateThread(c)
    BY <1>1, <2>4 DEF IInv, TypeOK, CallInv, LostOnlyInWindows
  <2>5. CASE CallOriginal(c)
    BY <1>1, <2>5 DEF IInv, TypeOK, CallInv, LostOnlyInWindows
  <2>6. CASE OriginalReturns(c)
    BY <1>1, <2>6 DEF IInv, TypeOK, CallInv, LostOnlyInWindows
  <2>. QED
    BY <2>3, <2>4, <2>5, <2>6
<1>. QED
  BY <1>3, <1>8, <1>9 DEF IInv

(* CallInv is kept by a step that leaves the calls alone, and the hook, or *)
(* arms it, or makes it whole.                                             *)
LEMMA CallsKept ==
  ASSUME CallInv, UNCHANGED calls, hook' \in {hook, "full"} \/ hook = "off"
  PROVE  CallInv'
  BY DEF CallInv, LostOnlyInWindows, calls

(* uninstall, by the init thread that still runs or by DllMain after it.   *)
LEMMA UninstallKeeps ==
  ASSUME IInv, InitUninstall \/ DllUninstall
  PROVE  IInv'
<1> USE DEF InitUninstall, DllUninstall, ResetHook, Deactivate, LogRemoved, NotActive, Goto
<1>1. TypeOK'
  <2>1. cut' \in [Callers -> BOOLEAN]
    BY Zenon DEF IInv, TypeOK, calls
  <2>2. call' = call /\ start' = start /\ result' = result /\ stop' = stop /\ how' = how /\ polls' = polls
    BY DEF calls
  <2>3. hook' \in {"off", "empty", "full"}
    BY DEF IInv, TypeOK, bypass
  <2>4. /\ pc' \in [{"init", "watch", "dll"} -> InitPc \cup WatchPc \cup DllPc]
        /\ pc'["init"] \in InitPc /\ pc'["watch"] \in WatchPc /\ pc'["dll"] \in DllPc
    BY DEF IInv, TypeOK, InitPc, WatchPc, DllPc
  <2>. QED
    BY <2>1, <2>2, <2>3, <2>4 DEF IInv, TypeOK
<1>2. ControlInv'
  BY DEF IInv, TypeOK, ControlInv, Gone, AfterInit, AfterWatch, bypass, InitPc, DllPc
<1>3. CallInv'
  <2>1. CASE UNCHANGED calls /\ hook' = hook
    BY <2>1, CallsKept DEF IInv
  <2>2. CASE /\ cut' = [c \in Callers |-> cut[c] \/ call[c] \in {"entered", "classified"}]
             /\ UNCHANGED <<call, result>>
    BY <2>2 DEF IInv, CallInv, LostOnlyInWindows
  <2>. QED
    BY <2>1, <2>2 DEF bypass, calls
<1>. QED
  BY <1>1, <1>2, <1>3 DEF IInv

(* The init thread's other steps.                                          *)
LEMMA InitKeeps ==
  ASSUME IInv,
         \/ FindSections \/ Arm \/ Publish \/ Activate \/ GameInit
         \/ WaitForUnpack \/ WaitForIntegrityBlocked \/ Prepare \/ InstallAll
         \/ InitComplete \/ CreateWatcher \/ InitFails
  PROVE  IInv'
<1> USE DEF InitStep, FindSections, Arm, Publish, Activate, GameInit, WaitForUnpack,
            WaitForIntegrityBlocked, Poll, Prepare, InstallAll, InitComplete, CreateWatcher,
            InitFails, Goto, bypass, calls
<1>1. UNCHANGED calls /\ how' = how /\ stop' = stop
  OBVIOUS
<1>2. /\ pc' \in [{"init", "watch", "dll"} -> InitPc \cup WatchPc \cup DllPc]
      /\ pc'["init"] \in InitPc /\ pc'["watch"] \in WatchPc /\ pc'["dll"] \in DllPc
  BY DEF IInv, TypeOK, InitPc, WatchPc, DllPc
<1>3. polls' \in 0..MaxPolls
  <2>1. polls \in 0..MaxPolls /\ MaxPolls \in Nat
    BY LifecycleAssumption DEF IInv, TypeOK
  <2>2. \/ polls' = polls \/ polls' = 0
        \/ polls # MaxPolls /\ polls' = polls + 1
    OBVIOUS
  <2>. QED
    BY <2>1, <2>2
<1>4. hook' \in {"off", "empty", "full"}
  BY DEF IInv, TypeOK
<1>5. TypeOK'
  BY <1>1, <1>2, <1>3, <1>4 DEF IInv, TypeOK
<1>6. ControlInv'
  BY DEF IInv, TypeOK, ControlInv, Gone, AfterInit, AfterWatch, InitPc, DllPc
<1>7. CallInv'
  <2>1. hook' \in {hook, "full"} \/ hook = "off"
    BY DEF IInv, TypeOK, ControlInv
  <2>. QED
    BY <1>1, <2>1, CallsKept DEF IInv
<1>. QED
  BY <1>5, <1>6, <1>7 DEF IInv

(* A thread of the plugin ends, or the watcher's leaves its loop.          *)
LEMMA ThreadsKeep ==
  ASSUME IInv, ThreadEnds("init") \/ ThreadEnds("watch") \/ WatchReturns
  PROVE  IInv'
<1> USE DEF ThreadEnds, WatchReturns, LoaderLockFree, Goto
<1>1. UNCHANGED <<calls, hook, how, stop, polls>>
  BY DEF bypass
<1>2. TypeOK'
  BY <1>1 DEF IInv, TypeOK, InitPc, WatchPc, DllPc, calls
<1>3. ControlInv'
  BY DEF IInv, TypeOK, ControlInv, Gone, AfterInit, AfterWatch, bypass, InitPc, WatchPc, DllPc
<1>4. CallInv'
  BY <1>1, CallsKept DEF IInv
<1>. QED
  BY <1>2, <1>3, <1>4 DEF IInv

(* DllMain's steps but for uninstall.                                      *)
LEMMA DllKeeps ==
  ASSUME IInv,
         \/ Attach \/ Exit \/ Unload \/ ResetWatcher \/ JoinWatch \/ ResetInitThread
         \/ JoinInit \/ WriteClean \/ Shutdown
  PROVE  IInv'
<1> USE DEF DllStep, Attach, Exit, Unload, ResetWatcher, JoinWatch, ResetInitThread, JoinInit,
            WriteClean, Shutdown, Goto
<1>1. UNCHANGED <<calls, hook, polls, g_active>>
  BY DEF bypass
<1>2. TypeOK'
  <2>1. /\ pc' \in [{"init", "watch", "dll"} -> InitPc \cup WatchPc \cup DllPc]
        /\ pc'["init"] \in InitPc /\ pc'["watch"] \in WatchPc /\ pc'["dll"] \in DllPc
    BY DEF IInv, TypeOK, InitPc, WatchPc, DllPc, Gone
  <2>2. how' \in {"none", "exit", "unload"} /\ stop' \subseteq {"init", "watch"}
    BY DEF IInv, TypeOK
  <2>. QED
    BY <1>1, <2>1, <2>2 DEF IInv, TypeOK, calls
<1>3. ControlInv'
  <2> USE DEF IInv, TypeOK, ControlInv, Gone, AfterInit, AfterWatch
  <2>1. CASE Attach \/ Unload
    BY <1>1, <2>1
  <2>2. CASE Exit
    <3>1. /\ pc'["dll"] = "watcher" /\ pc'["init"] = IF Gone("init") THEN pc["init"] ELSE "killed"
          /\ pc'["watch"] = IF Gone("watch") THEN pc["watch"] ELSE "killed"
      BY <2>2
    <3>. QED
      BY <1>1, <2>2, <3>1
  <2>3. CASE ResetWatcher \/ JoinWatch
    BY <1>1, <2>3
  <2>4. CASE ResetInitThread \/ JoinInit
    BY <1>1, <2>4
  <2>5. CASE WriteClean \/ Shutdown
    BY <1>1, <2>5
  <2>. QED
    BY <2>1, <2>2, <2>3, <2>4, <2>5
<1>4. CallInv'
  BY <1>1, CallsKept DEF IInv
<1>. QED
  BY <1>2, <1>3, <1>4 DEF IInv

(* Every step keeps the invariant.                                         *)
LEMMA IInvStep == IInv /\ [Next]_vars => IInv'
<1> SUFFICES ASSUME IInv, [Next]_vars PROVE IInv'
  OBVIOUS
<1>1. CASE Attach \/ Exit \/ Unload \/ Detach
  BY <1>1, DllKeeps, UninstallKeeps DEF Detach
<1>2. CASE InitWork
  BY <1>2, InitKeeps, UninstallKeeps, ThreadsKeep DEF InitWork
<1>3. CASE Fault \/ WatchReturns \/ ThreadEnds("watch")
  BY <1>3, InitKeeps, ThreadsKeep DEF Fault
<1>4. CASE \E c \in Callers : Caller(c)
  BY <1>4, CallerKeeps
<1>5. CASE Unpack \/ UNCHANGED vars
  <2>1. UNCHANGED <<how, pc, polls, stop, bypass, watcher, calls>>
    BY <1>5 DEF Unpack, vars
  <2>2. CallInv'
    BY <2>1, CallsKept DEF IInv, bypass
  <2>. QED
    BY <2>1, <2>2 DEF IInv, TypeOK, ControlInv, Gone, bypass, calls
<1>. QED
  BY <1>1, <1>2, <1>3, <1>4, <1>5 DEF Next

(* The invariant holds in every reachable state.                           *)
LEMMA Inductive == Spec => []IInv
<1>. QED
  BY IInvInit, IInvStep, PTL DEF Spec

-----------------------------------------------------------------------------
(* Threads, hook and calls stay in their types.                            *)
THEOREM LifecycleTypes == Spec => []TypeOK
<1>1. IInv => TypeOK
  BY DEF IInv
<1>. QED
  BY <1>1, Inductive, PTL

(* A call of CreateThread fails on the plugin's account only if it came    *)
(* between InlineHook::create and the move, or was inside at the reset.    *)
THEOREM OnlyCutCallsFail == Spec => []LostOnlyInWindows
<1>1. IInv => LostOnlyInWindows
  BY DEF IInv, CallInv
<1>. QED
  BY <1>1, Inductive, PTL

(* An unload that completes leaves no thread, no watcher and no hook.      *)
THEOREM UnloadLeavesNothing == Spec => []NothingLeft
<1>1. IInv => NothingLeft
  BY DEF IInv, ControlInv, NothingLeft, AfterInit, AfterWatch
<1>. QED
  BY <1>1, Inductive, PTL
=============================================================================
