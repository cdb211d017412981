---------------------------- MODULE FaultHandling -----------------------------
(***************************************************************************)
(* The init thread installs the hooks, changing the game's code and        *)
(* registering what it changes, while game threads run that code, run the  *)
(* callbacks of hooks already in place, and fault.  A fault goes through   *)
(* veh_handler, which searches the patch registry without holding its lock *)
(* from one search to the next or while it uses what a search returned;    *)
(* then, when it happened in a callback, guarded_callback catches it and   *)
(* disables the callback, and otherwise the game's own handlers take over. *)
(***************************************************************************)
EXTENDS PatchRegistry, FiniteSets

CONSTANTS
  Script,        \* Script[h]: the memory operations of hook h's install, in order
  Thread,        \* game threads
  FaultSites,    \* the addresses outside this DLL at which they may fault
  ForeignLimit   \* k_max_foreign_faults

Kinds == {"bytes", "hook"}   \* write, nop and ret; make_hook

(* What install does when an operation fails: return false, go on with the *)
(* next one, or leave out the rest of its script and yet return true.      *)
Reactions == {"giveUp", "goOn", "leave"}

Operation ==
  {o \in [kind : Kinds, base : Nat, size : 1..Threshold,
          again : BOOLEAN,        \* on_reload does it again
          onFail : Reactions] :
     o.again => o.kind = "bytes"}

ASSUME ScriptAssumption ==
  /\ Script \in Seq(Seq(Operation))
  /\ FaultSites \subseteq Nat
  /\ ForeignLimit \in Nat

Hook == 1..Len(Script)   \* in install order

(* The functors of the mid hooks, each with its own s_faulted: operation i *)
(* of hook h.                                                              *)
Callback == UNION {{<<h, i>> : i \in {j \in DOMAIN Script[h] : Script[h][j].kind = "hook"}} : h \in Hook}
NoCallback == <<0, 0>>

Bytes(op) == op.base..(op.base + op.size - 1)

VARIABLES
  hook,       \* the hook install_all is at; past the last when it is done
  step,       \* the operation of its script that is next
  opPc,       \* "start", "registered" (before the bytes are written) or
              \* "created" (a mid hook in place, not registered yet)
  installed,  \* hooks whose install returned true
  changed,    \* history: addresses this DLL has written
  missed,     \* history: addresses a failed write, or one left out after it, was for
  hooked      \* callbacks whose mid hook is in place

installVars == <<hook, step, opPc, installed, changed, missed, hooked>>

VARIABLES
  pc,         \* per thread: "game", "body" (in a callback), the handler's
              \* "exact", "near", "attrib", "attribNear", "use", "useNear", "handled"
  in,         \* per thread: the callback it runs
  rip,        \* per thread: where it faulted
  ptr,        \* per thread: the entry its last search returned
  raced,      \* per thread: an insertion came after that search
  ours,       \* history: the address was in a registered range when it faulted
  report,     \* per thread: what was logged for its fault
  faulted,    \* s_faulted of each callback
  crashes,    \* history: how often (at most twice) a thread crashed in a callback
  foreign     \* foreign_faults, counted up to its limit

threadVars == <<pc, in, rip, ptr, raced, ours, report, faulted, crashes, foreign>>
vars == <<patches, installVars, threadVars>>

Quiet == [kind |-> "quiet", hook |-> 0]

Init ==
  /\ patches = <<>>
  /\ hook = 1 /\ step = 1 /\ opPc = "start"
  /\ installed = {} /\ changed = {} /\ missed = {} /\ hooked = {}
  /\ pc = [t \in Thread |-> "game"]
  /\ in = [t \in Thread |-> NoCallback]
  /\ rip = [t \in Thread |-> 0]
  /\ ptr = [t \in Thread |-> 0]
  /\ raced = [t \in Thread |-> FALSE]
  /\ ours = [t \in Thread |-> FALSE]
  /\ report = [t \in Thread |-> Quiet]
  /\ faulted = [f \in Callback |-> FALSE]
  /\ crashes = [t \in Thread |-> [f \in Callback |-> 0]]
  /\ foreign = 0

-----------------------------------------------------------------------------
(* The init thread: the operations of the hooks, one after the other.      *)

Installing == hook \in Hook
Op == Script[hook][step]
AtOp(kinds) == Installing /\ step \in DOMAIN Script[hook] /\ opPc = "start" /\ Op.kind \in kinds

NextStep == step' = step + 1 /\ opPc' = "start" /\ UNCHANGED hook
NextHook == hook' = hook + 1 /\ step' = 1 /\ opPc' = "start"

(* register_patch; pointers that searches returned before it may dangle. *)
Register ==
  /\ patches' = Inserted(patches, [base |-> Op.base, size |-> Op.size, hook |-> hook])
  /\ raced' = [t \in Thread |-> raced[t] \/ pc[t] \in {"use", "useNear"}]
  /\ UNCHANGED <<pc, in, rip, ptr, ours, report, faulted, crashes, foreign>>

(* The hook is disabled or lacks a pattern: install_all passes over it. *)
SkipHook ==
  /\ Installing /\ step = 1 /\ opPc = "start"
  /\ NextHook
  /\ UNCHANGED <<patches, installed, changed, missed, hooked, threadVars>>

(* protect fails, or safetyhook does. *)
Rest == {i \in DOMAIN Script[hook] : i >= step}
NotDone == IF Op.onFail = "leave" THEN Rest ELSE {step}

OperationFails ==
  /\ AtOp(Kinds)
  /\ missed' = missed \cup UNION {Bytes(Script[hook][i]) :
                                   i \in {j \in NotDone : Script[hook][j].kind = "bytes"}}
  /\ \/ Op.onFail = "giveUp" /\ NextHook
     \/ Op.onFail = "goOn" /\ NextStep
     \/ Op.onFail = "leave" /\ step' = Len(Script[hook]) + 1 /\ UNCHANGED <<hook, opPc>>
  /\ UNCHANGED <<patches, installed, changed, hooked, threadVars>>

BugForgetsToRegister ==
  /\ AtOp({"bytes"})
  /\ opPc' = "registered"
  /\ UNCHANGED <<patches, hook, step, installed, changed, missed, hooked, threadVars>>

(* write, nop, ret: the page is writable; the bytes that are there are     *)
(* registered ...                                                          *)
RegisterBytes ==
  /\ AtOp({"bytes"})
  /\ Register
  /\ opPc' = "registered"
  /\ UNCHANGED <<hook, step, installed, changed, missed, hooked>>

(* ... and overwritten. *)
WriteBytes ==
  /\ opPc = "registered"
  /\ changed' = changed \cup Bytes(Op)
  /\ NextStep
  /\ UNCHANGED <<patches, installed, missed, hooked, threadVars>>

(* make_hook: MidHook::create puts the jump in place, and callbacks run    *)
(* from here on; the site is registered after that.                        *)
CreateHook ==
  /\ AtOp({"hook"})
  /\ changed' = changed \cup Bytes(Op)
  /\ hooked' = hooked \cup {<<hook, step>>}
  /\ opPc' = "created"
  /\ UNCHANGED <<patches, hook, step, installed, missed, threadVars>>

RegisterHook ==
  /\ opPc = "created"
  /\ Register
  /\ NextStep
  /\ UNCHANGED <<installed, changed, missed, hooked>>

InstallReturns ==
  /\ Installing /\ opPc = "start" /\ step = Len(Script[hook]) + 1
  /\ installed' = installed \cup {hook}
  /\ NextHook
  /\ UNCHANGED <<patches, changed, missed, hooked, threadVars>>

(* guarded_install catches a fault between two operations; what they did   *)
(* stays done.                                                             *)
InstallFaults ==
  /\ Installing /\ opPc = "start" /\ step > 1
  /\ NextHook
  /\ UNCHANGED <<patches, installed, changed, missed, hooked, threadVars>>

(* on_reload of an installed hook makes its writes again, up to the one    *)
(* that fails.  The thread has no current hook name then, so nothing is    *)
(* registered.                                                             *)
Again(h, k) == {i \in DOMAIN Script[h] : i <= k /\ Script[h][i].again}

Rewrite ==
  /\ ~Installing
  /\ \E h \in installed : \E k \in DOMAIN Script[h] :
       changed' = changed \cup UNION {Bytes(Script[h][i]) : i \in Again(h, k)}
  /\ UNCHANGED <<patches, hook, step, opPc, installed, missed, hooked, threadVars>>

InstallerNext ==
  \/ SkipHook \/ OperationFails \/ RegisterBytes \/ WriteBytes
  \/ CreateHook \/ RegisterHook \/ InstallReturns \/ InstallFaults \/ Rewrite

-----------------------------------------------------------------------------
(* Game threads. *)

Goto(t, label) == pc' = [pc EXCEPT ![t] = label]

(* A game thread runs into a mid hook whose callback is not disabled. *)
EnterCallback(t) ==
  /\ pc[t] = "game"
  /\ \E f \in hooked : ~faulted[f] /\ in' = [in EXCEPT ![t] = f]
  /\ Goto(t, "body")
  /\ UNCHANGED <<patches, installVars, rip, ptr, raced, ours, report, faulted, crashes, foreign>>

LeaveCallback(t) ==
  /\ pc[t] = "body"
  /\ in' = [in EXCEPT ![t] = NoCallback]
  /\ Goto(t, "game")
  /\ UNCHANGED <<patches, installVars, rip, ptr, raced, ours, report, faulted, crashes, foreign>>

(* A fault in this DLL's own code is logged before any search. *)
FaultInPlugin(t) ==
  /\ pc[t] = "body"
  /\ report' = [report EXCEPT ![t] = [Quiet EXCEPT !.kind = "plugin"]]
  /\ Goto(t, "handled")
  /\ UNCHANGED <<patches, installVars, in, rip, ptr, raced, ours, faulted, crashes, foreign>>

(* A fault anywhere else, of the game or of what a callback calls. *)
Fault(t) ==
  /\ pc[t] \in {"game", "body"}
  /\ \E a \in FaultSites : /\ rip' = [rip EXCEPT ![t] = a]
                           /\ ours' = [ours EXCEPT ![t] = Covered(patches, a)]
  /\ Goto(t, "exact")
  /\ UNCHANGED <<patches, installVars, in, ptr, raced, report, faulted, crashes, foreign>>

(* veh_handler: find_patch, else find_nearby, else one of the game's own   *)
(* faults, of which the first few are logged.  The real counter wraps      *)
(* after 2^32 of them.                                                     *)
SearchExact(t) ==
  /\ pc[t] = "exact"
  /\ Goto(t, IF FindPatch(patches, rip[t]) # 0 THEN "attrib" ELSE "near")
  /\ UNCHANGED <<patches, installVars, in, rip, ptr, raced, ours, report, faulted, crashes, foreign>>

SearchNear(t) ==
  /\ pc[t] = "near"
  /\ IF FindNearby(patches, rip[t]) # 0
       THEN /\ Goto(t, "attrib")
            /\ UNCHANGED <<report, foreign>>
       ELSE /\ Goto(t, "handled")
            /\ report' = [report EXCEPT ![t] = [Quiet EXCEPT !.kind = IF foreign < ForeignLimit THEN "foreign" ELSE "unlogged"]]
            /\ foreign' = IF foreign < ForeignLimit THEN foreign + 1 ELSE foreign
  /\ UNCHANGED <<patches, installVars, in, rip, ptr, raced, ours, faulted, crashes>>

(* log_patch_attribution searches again. *)
AttributeExact(t) ==
  LET k == FindPatch(patches, rip[t]) IN
  /\ pc[t] = "attrib"
  /\ ptr' = [ptr EXCEPT ![t] = k]
  /\ Goto(t, IF k # 0 THEN "use" ELSE "attribNear")
  /\ UNCHANGED <<patches, installVars, in, rip, raced, ours, report, faulted, crashes, foreign>>

AttributeNear(t) ==
  LET k == FindNearby(patches, rip[t]) IN
  /\ pc[t] = "attribNear"
  /\ ptr' = [ptr EXCEPT ![t] = k]
  /\ IF k # 0
       THEN Goto(t, "useNear") /\ UNCHANGED report
       ELSE Goto(t, "handled") /\ report' = [report EXCEPT ![t] = [Quiet EXCEPT !.kind = "nameless"]]
  /\ UNCHANGED <<patches, installVars, in, rip, raced, ours, faulted, crashes, foreign>>

(* The entry is read without the lock: after an insertion the pointer is   *)
(* to a shifted entry or to freed memory.                                  *)
UseEntry(t) ==
  /\ pc[t] \in {"use", "useNear"}
  /\ \E h \in Hook :
       /\ raced[t] \/ h = patches[ptr[t]].hook
       /\ report' = [report EXCEPT ![t] = [kind |-> IF pc[t] = "use" THEN "patched" ELSE "nearby", hook |-> h]]
  /\ Goto(t, "handled")
  /\ UNCHANGED <<patches, installVars, in, rip, ptr, raced, ours, faulted, crashes, foreign>>

Forget(t) ==
  /\ rip' = [rip EXCEPT ![t] = 0]
  /\ ptr' = [ptr EXCEPT ![t] = 0]
  /\ raced' = [raced EXCEPT ![t] = FALSE]
  /\ ours' = [ours EXCEPT ![t] = FALSE]
  /\ report' = [report EXCEPT ![t] = Quiet]
  /\ Goto(t, "game")

BugNotDisabled(t) ==
  /\ pc[t] = "handled" /\ in[t] # NoCallback
  /\ crashes' = [crashes EXCEPT ![t][in[t]] = IF @ < 2 THEN @ + 1 ELSE @]
  /\ in' = [in EXCEPT ![t] = NoCallback]
  /\ Forget(t)
  /\ UNCHANGED <<patches, installVars, faulted, foreign>>

(* guarded_callback's filter takes the exception: the callback is disabled *)
(* and the game goes on after the hook.                                    *)
CatchCrash(t) ==
  /\ pc[t] = "handled" /\ in[t] # NoCallback
  /\ faulted' = [faulted EXCEPT ![in[t]] = TRUE]
  /\ crashes' = [crashes EXCEPT ![t][in[t]] = IF @ < 2 THEN @ + 1 ELSE @]
  /\ in' = [in EXCEPT ![t] = NoCallback]
  /\ Forget(t)
  /\ UNCHANGED <<patches, installVars, foreign>>

(* The game's own handlers recover; when they do not, the process is gone. *)
GameRecovers(t) ==
  /\ pc[t] = "handled" /\ in[t] = NoCallback
  /\ Forget(t)
  /\ UNCHANGED <<patches, installVars, in, faulted, crashes, foreign>>

ThreadNext(t) ==
  \/ EnterCallback(t) \/ LeaveCallback(t) \/ FaultInPlugin(t) \/ Fault(t)
  \/ SearchExact(t) \/ SearchNear(t) \/ AttributeExact(t) \/ AttributeNear(t)
  \/ UseEntry(t) \/ CatchCrash(t) \/ GameRecovers(t)

Next == InstallerNext \/ \E t \in Thread : ThreadNext(t)

Spec == Init /\ [][Next]_vars

-----------------------------------------------------------------------------
InstallerTypeOK ==
  /\ patches \in Seq(Entry)
  /\ hook \in 1..(Len(Script) + 1) /\ step \in Nat \ {0}
  /\ opPc \in {"start", "registered", "created"}
  /\ opPc # "start" => Installing /\ step \in DOMAIN Script[hook]
  /\ installed \subseteq Hook /\ hooked \subseteq Callback
  /\ changed \subseteq Nat /\ missed \subseteq Nat

Labels == {"game", "body", "exact", "near", "attrib", "attribNear", "use", "useNear", "handled"}
Reports == {"quiet", "plugin", "foreign", "unlogged", "nameless", "patched", "nearby"}

ThreadTypeOK ==
  /\ pc \in [Thread -> Labels]
  /\ in \in [Thread -> Callback \cup {NoCallback}]
  /\ rip \in [Thread -> Nat] /\ ptr \in [Thread -> Nat]
  /\ raced \in [Thread -> BOOLEAN] /\ ours \in [Thread -> BOOLEAN]
  /\ report \in [Thread -> [kind : Reports, hook : Nat]]
  /\ faulted \in [Callback -> BOOLEAN]
  /\ crashes \in [Thread -> [Callback -> 0..2]]
  /\ foreign \in 0..ForeignLimit

TypeOK == InstallerTypeOK /\ ThreadTypeOK

InFlight(a) == opPc = "created" /\ a \in Bytes(Op)

(* A fault at any byte this DLL has changed can be attributed, at every    *)
(* moment: while a byte is being written, after an install failed half     *)
(* way, after a reload wrote it again.  The exceptions are the site of a   *)
(* mid hook between create and register_patch, and the bytes whose write   *)
(* failed at install, or came after one that did, and which a reload could *)
(* write (mem::write, make_hook).                                          *)
ChangedBytesAttributed ==
  \A a \in changed : InFlight(a) \/ a \in missed \/ Attributed(patches, a)

(* Unless an insertion came between search and use, "Address patched by    *)
(* hook X" is true: X registered a range with the address in it            *)
(* (log_patch_attribution).                                                *)
NamesThePatcher ==
  \A t \in Thread : report[t].kind = "patched" /\ ~raced[t] =>
    \E i \in 1..Len(patches) : patches[i].hook = report[t].hook /\ InRange(patches[i], rip[t])

(* "Hook callback crashed - permanently disabled": threads that were in it *)
(* already may still crash, but none does so twice (guarded_callback).     *)
OneCrashPerThread == \A t \in Thread, f \in Callback : crashes[t][f] <= 1
=============================================================================
