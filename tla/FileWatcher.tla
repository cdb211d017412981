----------------------------- MODULE FileWatcher -----------------------------
(***************************************************************************)
(* FileWatcher::watch_loop, with the user's editor on one side and the     *)
(* reload callback of init_game on the other.  The INI is read once at     *)
(* init; Windows records changes of the directory only from the first      *)
(* ReadDirectoryChangesW on, in a buffer of limited size.  The directory   *)
(* is the game's, so other files change in it too (the log for one).       *)
(***************************************************************************)
EXTENDS Naturals, Sequences

CONSTANTS
  MaxSaves,   \* bound: how often the user saves the INI
  MaxOthers,  \* bound: how often other files of the directory change
  Cap         \* entries the kernel's and the caller's buffer hold

ASSUME WatcherBounds == MaxSaves \in Nat /\ MaxOthers \in Nat /\ Cap \in Nat \ {0}

VARIABLES
  version,    \* the INI's complete content, counted by saves
  saving,     \* the editor has truncated the file and not finished it
  others,     \* changes of other files so far
  armed,      \* the directory's changes are being recorded
  queue,      \* changes recorded and not handed out yet
  overflow,   \* the record overflowed and was thrown away
  request,    \* ReadDirectoryChangesW: "none", "outstanding", "done", "void"
              \* (done, but failed or with 0 bytes)
  batch,      \* entries handed out and not yet scanned
  stop,       \* the jthread's stop token: stop_requested
  stopEvent,  \* stop_event is set
  data,       \* what the callback has read: a version, or Torn
  seen,       \* the version init or the last reload worked from
  lost,       \* history: why the last change of the INI will not be noticed
  pc          \* where watch_loop is

editor == <<version, saving, others>>
kernel == <<armed, queue, overflow, request, batch>>
vars   == <<editor, kernel, stop, stopEvent, data, seen, lost, pc>>

Torn == MaxSaves + 1

Init ==
  /\ version = 0
  /\ saving = FALSE
  /\ others = 0
  /\ armed = FALSE
  /\ queue = <<>>
  /\ overflow = FALSE
  /\ request = "none"
  /\ batch = <<>>
  /\ stop = FALSE
  /\ stopEvent = FALSE
  /\ data = 0
  /\ seen = 0
  /\ lost = "no"
  /\ pc = "open"

Mentions(seq) == \E i \in 1..Len(seq) : seq[i] = "ini"

-----------------------------------------------------------------------------
(* The directory: external.  A change goes to the outstanding request, or  *)
(* is recorded for the next one, or overflows the record.                  *)
Notify(entry) ==
  LET full == overflow \/ Len(queue) = Cap
      gone == entry = "ini" \/ Mentions(queue) IN
  \/ /\ ~armed
     /\ lost' = IF entry = "ini" THEN "unarmed" ELSE lost
     /\ UNCHANGED kernel
  \/ /\ armed
     /\ request = "outstanding"
     /\ batch' = <<entry>>
     /\ request' = "done"
     /\ UNCHANGED <<armed, queue, overflow, lost>>
  \/ /\ armed
     /\ request # "outstanding"
     /\ overflow' = full
     /\ queue' = IF full THEN <<>> ELSE Append(queue, entry)
     /\ lost' = IF full /\ gone THEN "overflow" ELSE lost
     /\ UNCHANGED <<armed, request, batch>>

(* The editor truncates the file, then writes and closes it. *)
BeginSave ==
  /\ ~saving
  /\ version < MaxSaves
  /\ saving' = TRUE
  /\ Notify("ini")
  /\ UNCHANGED <<version, others, stop, stopEvent, data, seen, pc>>

EndSave ==
  /\ saving
  /\ saving' = FALSE
  /\ version' = version + 1
  /\ Notify("ini")
  /\ UNCHANGED <<others, stop, stopEvent, data, seen, pc>>

OtherFile ==
  /\ others < MaxOthers
  /\ others' = others + 1
  /\ Notify("other")
  /\ UNCHANGED <<version, saving, stop, stopEvent, data, seen, pc>>

-----------------------------------------------------------------------------
(* The watcher's thread. *)

Goto(label) == pc' = label

(* The stop callback is registered before the loop; a stop that came       *)
(* before makes it run at once.                                            *)
OpenDirectory ==
  /\ pc = "open"
  /\ \/ Goto("loop") /\ stopEvent' = stop
     \/ Goto("done") /\ UNCHANGED stopEvent
  /\ UNCHANGED <<editor, kernel, stop, data, seen, lost>>

(* ReadDirectoryChangesW: what was recorded comes back at once.            *)
Request ==
  /\ pc = "loop"
  /\ ~stop
  /\ \/ /\ Goto("wait")
        /\ armed' = TRUE
        /\ request' = IF overflow THEN "void" ELSE IF queue # <<>> THEN "done"
                      ELSE "outstanding"
        /\ batch' = queue
        /\ queue' = <<>>
        /\ overflow' = FALSE
     \/ Goto("done") /\ UNCHANGED kernel
  /\ UNCHANGED <<editor, stop, stopEvent, data, seen, lost>>

LoopEnds ==
  /\ pc = "loop"
  /\ stop
  /\ Goto("done")
  /\ UNCHANGED <<editor, kernel, stop, stopEvent, data, seen, lost>>

(* Plausible mistakes stand above the definition they are mistakes in.     *)

BugWaitsForChangeOnly ==
  /\ pc = "wait"
  /\ request # "outstanding"
  /\ Goto("result")
  /\ UNCHANGED <<editor, kernel, stop, stopEvent, data, seen, lost>>

(* WaitForMultipleObjects: the change wins over the stop. *)
Wait ==
  /\ pc = "wait"
  /\ \/ request # "outstanding" /\ Goto("result")
     \/ request = "outstanding" /\ stopEvent /\ Goto("done")
  /\ UNCHANGED <<editor, kernel, stop, stopEvent, data, seen, lost>>

BugScansZeroBytes ==
  /\ pc = "result"
  /\ Goto("scan")
  /\ request' = "none"
  /\ UNCHANGED <<editor, armed, queue, overflow, batch, stop, stopEvent, data, seen, lost>>

(* GetOverlappedResult: failed or 0 bytes goes around the loop.            *)
Result ==
  /\ pc = "result"
  /\ \/ /\ request = "done"
        /\ Goto("scan")
        /\ UNCHANGED <<batch, lost>>
     \/ /\ Goto("loop")
        /\ batch' = <<>>
        /\ lost' = IF Mentions(batch) THEN "failed" ELSE lost
  /\ request' = "none"
  /\ UNCHANGED <<editor, armed, queue, overflow, stop, stopEvent, data, seen>>

BugFirstEntryOnly ==
  /\ pc = "scan"
  /\ Goto(IF Head(batch) = "ini" THEN "call" ELSE "loop")
  /\ batch' = <<>>
  /\ UNCHANGED <<editor, armed, queue, overflow, request, stop, stopEvent, data, seen, lost>>

(* The entries in turn, up to the first that is the INI; then the 100 ms   *)
(* of debouncing.                                                          *)
Scan ==
  /\ pc = "scan"
  /\ IF Head(batch) = "ini" THEN Goto("call") /\ batch' = <<>>
     ELSE /\ batch' = Tail(batch)
          /\ Goto(IF Tail(batch) = <<>> THEN "loop" ELSE "scan")
  /\ UNCHANGED <<editor, armed, queue, overflow, request, stop, stopEvent, data, seen, lost>>

(* The callback reads the INI, as far as it is written; it may find the    *)
(* editor's handle in the way, and then does not reload.                   *)
ReadIni ==
  /\ pc = "call"
  /\ \/ /\ Goto("reload")
        /\ data' = IF saving THEN Torn ELSE version
        /\ lost' = "no"
     \/ /\ Goto("loop")
        /\ lost' = "unread"
        /\ UNCHANGED data
  /\ UNCHANGED <<editor, kernel, stop, stopEvent, seen>>

BugDrainAfterReload ==
  /\ pc = "reload"
  /\ seen' = IF data = Torn THEN seen ELSE data
  /\ queue' = <<>>
  /\ Goto("loop")
  /\ UNCHANGED <<editor, armed, overflow, request, batch, stop, stopEvent, data, lost>>

(* registry.reload runs on this thread and works from what was read.       *)
Reload ==
  /\ pc = "reload"
  /\ seen' = IF data = Torn THEN seen ELSE data
  /\ Goto("loop")
  /\ UNCHANGED <<editor, kernel, stop, stopEvent, data, lost>>

Watch ==
  \/ OpenDirectory \/ Request \/ LoopEnds \/ Wait \/ Result \/ Scan
  \/ ReadIni \/ Reload

-----------------------------------------------------------------------------
(* watcher().reset(): the jthread's destructor requests the stop, which    *)
(* runs the callback that sets the event, then joins.                      *)
RequestStop ==
  /\ ~stop
  /\ stop' = TRUE
  /\ UNCHANGED <<editor, kernel, stopEvent, data, seen, lost, pc>>

SetStopEvent ==
  /\ stop
  /\ ~stopEvent
  /\ pc \notin {"open", "done"}
  /\ stopEvent' = TRUE
  /\ UNCHANGED <<editor, kernel, stop, data, seen, lost, pc>>

Next == Watch \/ RequestStop \/ SetStopEvent \/ BeginSave \/ EndSave \/ OtherFile

(* The threads run on, the thread that requests the stop included, and a   *)
(* save that was begun is finished; nothing else has to happen.            *)
Spec ==
  /\ Init /\ [][Next]_vars
  /\ WF_vars(Watch) /\ WF_vars(SetStopEvent) /\ WF_vars(EndSave)

-----------------------------------------------------------------------------
TypeOK ==
  /\ version \in 0..MaxSaves /\ seen \in 0..MaxSaves /\ data \in 0..Torn
  /\ saving \in BOOLEAN /\ armed \in BOOLEAN /\ overflow \in BOOLEAN
  /\ Len(queue) <= Cap /\ Len(batch) <= Cap
  /\ request = "outstanding" => pc \in {"wait", "done"} /\ queue = <<>> /\ batch = <<>>
  /\ pc = "scan" => batch # <<>>
  /\ stopEvent => stop
  /\ pc \in {"open", "loop", "wait", "result", "scan", "call", "reload", "done"}

(* While the watcher waits and no change of the INI was lost, the hooks    *)
(* work from the INI as it is on disk: a save during the debounce, the     *)
(* read or the reload is noticed afterwards.                               *)
QuietMeansCurrent ==
  pc = "wait" /\ request = "outstanding" /\ ~saving /\ lost = "no" => seen = version

(* A save is reloaded, or a later one is, unless its change was lost or    *)
(* the watcher has ended.                                                  *)
Over == stop \/ pc = "done"
SavesAreReloaded ==
  \A v \in 1..MaxSaves :
    version = v /\ lost = "no" ~> seen >= v \/ lost # "no" \/ Over

(* A stop ends the thread from wherever it is, so the join returns. *)
StopEndsTheLoop == stop ~> pc = "done"

(* "Changes are picked up automatically while the game is running": a save *)
(* is reloaded if nothing fails and the record never overflows.            *)
EveryEditIsReloaded ==
  \A v \in 1..MaxSaves :
    version = v ~> seen >= v \/ lost \in {"overflow", "failed", "unread"} \/ Over
=============================================================================
