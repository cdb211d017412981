-------------------------- MODULE FileWatcher_proofs --------------------------
(***************************************************************************)
(* A watcher that waits has reloaded every save whose change was not lost, *)
(* for any number of saves, of other changes, and any size of the record.  *)
(***************************************************************************)
EXTENDS FileWatcher, TLAPS

Entry == {"ini", "other"}

(* What the thread holds of the directory's changes at each step.          *)
RequestInv ==
  /\ queue \in Seq(Entry) /\ batch \in Seq(Entry)
  /\ request \in {"none", "outstanding", "done", "void"}
  /\ pc \in {"open", "loop", "scan", "call", "reload"} => request = "none"
  /\ pc \in {"open", "loop", "call", "reload"} => batch = <<>>
  /\ request = "done" => batch # <<>>

(* A change of the INI is on its way to the callback.                      *)
Pending == Mentions(queue) \/ Mentions(batch) \/ pc = "call"

(* If no change was lost, one is on its way, or one will come from the     *)
(* save that is going on, or the hooks work from the current INI, or are   *)
(* about to.                                                               *)
CurrentInv ==
  lost = "no" => Pending \/ saving \/ (IF pc = "reload" THEN data = version ELSE seen = version)

(* A save that was begun is within the bound.                              *)
SavingInv == saving => version < MaxSaves

WatcherInv == TypeOK /\ RequestInv /\ CurrentInv /\ SavingInv

-----------------------------------------------------------------------------
(* Appending to a sequence keeps what it mentions, and adds the entry.     *)
LEMMA AppendMentions ==
  ASSUME NEW q \in Seq(Entry), NEW e \in Entry
  PROVE  /\ Append(q, e) \in Seq(Entry)
         /\ Len(Append(q, e)) = Len(q) + 1
         /\ Mentions(q) => Mentions(Append(q, e))
         /\ e = "ini" => Mentions(Append(q, e))
<1>1. /\ Append(q, e) \in Seq(Entry) /\ Len(Append(q, e)) = Len(q) + 1
      /\ \A i \in 1..Len(q) : Append(q, e)[i] = q[i]
      /\ Append(q, e)[Len(q) + 1] = e
  OBVIOUS
<1>2. Len(q) \in Nat
  OBVIOUS
<1>. QED
  BY <1>1, <1>2 DEF Mentions

(* An entry that is not the INI takes none with it when it is scanned.     *)
LEMMA TailMentions ==
  ASSUME NEW b \in Seq(Entry), b # <<>>, Head(b) # "ini"
  PROVE  /\ Tail(b) \in Seq(Entry) /\ Len(Tail(b)) = Len(b) - 1
         /\ Mentions(b) => Mentions(Tail(b))
<1>1. /\ Tail(b) \in Seq(Entry) /\ Len(Tail(b)) = Len(b) - 1 /\ Len(b) \in Nat
      /\ \A i \in 1..Len(Tail(b)) : Tail(b)[i] = b[i + 1]
      /\ b[1] # "ini"
  OBVIOUS
<1>2. ASSUME Mentions(b) PROVE Mentions(Tail(b))
  <2>1. PICK i \in 1..Len(b) : b[i] = "ini"
    BY <1>2 DEF Mentions
  <2>2. i - 1 \in 1..Len(Tail(b)) /\ Tail(b)[i - 1] = b[i]
    BY <1>1, <2>1
  <2>. QED
    BY <2>1, <2>2 DEF Mentions
<1>. QED
  BY <1>1, <1>2

(* An empty sequence mentions nothing, one entry itself.                   *)
LEMMA ShortMentions ==
  /\ ~Mentions(<<>>) /\ <<>> \in Seq(Entry) /\ Len(<<>>) = 0
  /\ \A e \in Entry : <<e>> \in Seq(Entry) /\ <<e>> # <<>> /\ Len(<<e>>) = 1
  /\ Mentions(<<"ini">>)
  BY DEF Mentions, Entry

-----------------------------------------------------------------------------
(* Nothing is pending at the start, and the INI was just read.             *)
LEMMA WatcherInvInit == Init => WatcherInv
<1> SUFFICES ASSUME Init PROVE WatcherInv
  OBVIOUS
<1>1. /\ version = 0 /\ seen = 0 /\ data = 0 /\ saving = FALSE /\ armed = FALSE /\ overflow = FALSE
      /\ queue = <<>> /\ batch = <<>> /\ request = "none" /\ stopEvent = FALSE /\ pc = "open"
  BY DEF Init
<1>2. Len(queue) <= Cap /\ Len(batch) <= Cap /\ 0 \in 0..MaxSaves /\ 0 \in 0..Torn
  <2>1. Len(queue) = 0 /\ Len(batch) = 0
    BY <1>1, ShortMentions
  <2>. QED
    BY <2>1, WatcherBounds DEF Torn
<1>3. TypeOK
  BY <1>1, <1>2 DEF TypeOK
<1>4. RequestInv
  BY <1>1, ShortMentions DEF RequestInv
<1>5. CurrentInv
  BY <1>1 DEF CurrentInv
<1>. QED
  BY <1>1, <1>3, <1>4, <1>5 DEF WatcherInv, SavingInv

(* A change of the directory loses none before it without saying so, and   *)
(* one of the INI is pending or lost.                                      *)
LEMMA NotifyKeeps ==
  ASSUME WatcherInv, NEW e \in Entry, Notify(e), UNCHANGED pc
  PROVE  /\ RequestInv'
         /\ Len(queue') <= Cap /\ Len(batch') <= Cap /\ overflow' \in BOOLEAN /\ armed' \in BOOLEAN
         /\ request' = "outstanding" => pc' \in {"wait", "done"} /\ queue' = <<>> /\ batch' = <<>>
         /\ pc' = "scan" => batch' # <<>>
         /\ lost' = "no" => lost = "no" /\ (Pending => Pending') /\ (e = "ini" => Pending')
<1> USE DEF WatcherInv
<1>1. CASE ~armed /\ UNCHANGED kernel /\ lost' = IF e = "ini" THEN "unarmed" ELSE lost
  BY <1>1 DEF kernel, TypeOK, RequestInv, Pending
<1>2. CASE /\ armed /\ request = "outstanding"
           /\ batch' = <<e>> /\ request' = "done"
           /\ UNCHANGED <<armed, queue, overflow, lost>>
  <2>1. queue = <<>> /\ batch = <<>> /\ pc \in {"wait", "done"}
    BY <1>2 DEF TypeOK
  <2>2. RequestInv'
    BY <1>2, <2>1, ShortMentions DEF RequestInv
  <2>3. (Pending => Pending') /\ (e = "ini" => Pending')
    BY <1>2, <2>1, ShortMentions DEF Pending
  <2>. QED
    BY <1>2, <2>1, <2>2, <2>3, ShortMentions, WatcherBounds DEF TypeOK
<1>3. ASSUME NEW full \in BOOLEAN, full = (overflow \/ Len(queue) = Cap),
             armed, request # "outstanding", overflow' = full,
             queue' = IF full THEN <<>> ELSE Append(queue, e),
             lost' = IF full /\ (e = "ini" \/ Mentions(queue)) THEN "overflow" ELSE lost,
             UNCHANGED <<armed, request, batch>>
      PROVE  /\ RequestInv'
             /\ Len(queue') <= Cap /\ Len(batch') <= Cap /\ overflow' \in BOOLEAN /\ armed' \in BOOLEAN
             /\ request' = "outstanding" => pc' \in {"wait", "done"} /\ queue' = <<>> /\ batch' = <<>>
             /\ pc' = "scan" => batch' # <<>>
             /\ lost' = "no" => lost = "no" /\ (Pending => Pending') /\ (e = "ini" => Pending')
  <2>1. queue \in Seq(Entry) /\ Len(queue) \in Nat /\ Len(queue) <= Cap /\ Cap \in Nat
    BY WatcherBounds DEF RequestInv, TypeOK
  <2>2. queue' \in Seq(Entry) /\ Len(queue') <= Cap
    <3>1. CASE full
      BY <1>3, <2>1, <3>1, ShortMentions
    <3>2. CASE ~full
      <4>1. queue' = Append(queue, e) /\ Len(queue) # Cap
        BY <1>3, <3>2
      <4>2. Append(queue, e) \in Seq(Entry) /\ Len(Append(queue, e)) = Len(queue) + 1
        BY <2>1, AppendMentions
      <4>. QED
        BY <2>1, <4>1, <4>2
    <3>. QED
      BY <3>1, <3>2
  <2>3. RequestInv'
    BY <1>3, <2>2 DEF RequestInv
  <2>4. lost' = "no" => lost = "no" /\ (Pending => Pending') /\ (e = "ini" => Pending')
    BY <1>3, <2>1, AppendMentions DEF Pending
  <2>. QED
    BY <1>3, <2>2, <2>3, <2>4 DEF TypeOK
<1>4. (overflow \/ Len(queue) = Cap) \in BOOLEAN
  OBVIOUS
<1>. QED
  BY <1>1, <1>2, <1>3, <1>4 DEF Notify

(* Saves and other changes.                                                *)
LEMMA EditorKeeps ==
  ASSUME WatcherInv, BeginSave \/ EndSave \/ OtherFile
  PROVE  WatcherInv'
<1> USE DEF BeginSave, EndSave, OtherFile
<1>1. PICK e \in Entry : Notify(e) /\ (BeginSave \/ EndSave => e = "ini")
  BY DEF Entry
<1>2. UNCHANGED <<stop, stopEvent, data, seen, pc>>
  OBVIOUS
<1>3. /\ RequestInv'
      /\ Len(queue') <= Cap /\ Len(batch') <= Cap /\ overflow' \in BOOLEAN /\ armed' \in BOOLEAN
      /\ request' = "outstanding" => pc' \in {"wait", "done"} /\ queue' = <<>> /\ batch' = <<>>
      /\ pc' = "scan" => batch' # <<>>
      /\ lost' = "no" => lost = "no" /\ (Pending => Pending') /\ (e = "ini" => Pending')
  BY <1>1, <1>2, NotifyKeeps
<1> HIDE DEF BeginSave, EndSave, OtherFile
<1>4. version' \in 0..MaxSaves /\ saving' \in BOOLEAN
  <2>1. version \in 0..MaxSaves /\ saving \in BOOLEAN
    BY DEF WatcherInv, TypeOK
  <2>2. CASE BeginSave
    BY <2>1, <2>2 DEF BeginSave
  <2>3. CASE EndSave
    <3>1. version' = version + 1 /\ saving' = FALSE /\ saving
      BY <2>3 DEF EndSave
    <3>2. version < MaxSaves
      BY <3>1 DEF WatcherInv, SavingInv
    <3>3. version' \in 0..MaxSaves
      <4>1. version' = version + 1 /\ version \in 0..MaxSaves /\ MaxSaves \in Nat
        BY <2>1, <3>1, WatcherBounds
      <4>. QED
        BY <3>2, <4>1
    <3>4. saving' \in BOOLEAN
      BY <3>1
    <3>. QED
      BY <3>3, <3>4
  <2>4. CASE OtherFile
    BY <2>1, <2>4 DEF OtherFile
  <2>. QED
    BY <2>2, <2>3, <2>4
<1>5. TypeOK'
  BY <1>2, <1>3, <1>4 DEF WatcherInv, TypeOK, Torn
<1>6. CurrentInv'
  <2>1. CASE BeginSave \/ EndSave
    BY <1>1, <1>3, <2>1 DEF CurrentInv
  <2>2. CASE OtherFile
    BY <1>2, <1>3, <2>2 DEF OtherFile, WatcherInv, CurrentInv
  <2>. QED
    BY <2>1, <2>2
<1>7. SavingInv'
  <2>1. CASE BeginSave
    BY <2>1 DEF BeginSave, SavingInv
  <2>2. CASE EndSave
    BY <2>2 DEF EndSave, SavingInv
  <2>3. CASE OtherFile
    BY <2>3 DEF OtherFile, WatcherInv, SavingInv
  <2>. QED
    BY <2>1, <2>2, <2>3
<1>. QED
  BY <1>3, <1>5, <1>6, <1>7 DEF WatcherInv

(* The watcher's own steps.                                                *)
LEMMA WatchKeeps ==
  ASSUME WatcherInv, Watch
  PROVE  WatcherInv'
<1> USE DEF WatcherInv, TypeOK, RequestInv, CurrentInv, SavingInv, Pending, Goto, editor,
           kernel
<1>1. CASE OpenDirectory
  BY <1>1 DEF OpenDirectory
<1>2. CASE Request
  <2>1. /\ UNCHANGED <<version, saving, others, stop, stopEvent, data, seen, lost>>
        /\ pc = "loop" /\ request = "none" /\ batch = <<>> /\ ~Mentions(batch)
    BY <1>2, ShortMentions DEF Request
  <2>2. CASE pc' = "done" /\ UNCHANGED kernel
    BY <2>1, <2>2
  <2>3. CASE /\ pc' = "wait" /\ armed' = TRUE /\ batch' = queue /\ queue' = <<>>
             /\ overflow' = FALSE
             /\ request' = IF overflow THEN "void" ELSE IF queue # <<>> THEN "done"
                           ELSE "outstanding"
    <3>1. /\ request' \in {"void", "done", "outstanding"}
          /\ request' = "done" => queue # <<>>
          /\ request' = "outstanding" => queue = <<>>
      BY <2>3
    <3>2. Len(queue') <= Cap /\ Len(batch') <= Cap
      <4>1. Len(queue') = 0 /\ 0 <= Cap
        BY <2>3, ShortMentions, WatcherBounds
      <4>2. batch' = queue /\ Len(queue) <= Cap
        BY <2>3
      <4>. QED
        BY <4>1, <4>2
    <3>3. TypeOK'
      BY <2>1, <2>3, <3>1, <3>2
    <3>4. RequestInv'
      BY <2>1, <2>3, <3>1, ShortMentions
    <3>5. CurrentInv' /\ SavingInv'
      BY <2>1, <2>3
    <3>. QED
      BY <3>3, <3>4, <3>5
  <2>. QED
    BY <1>2, <2>2, <2>3 DEF Request
<1>3. CASE LoopEnds
  BY <1>3 DEF LoopEnds
<1>4. CASE Wait
  BY <1>4 DEF Wait
<1>5. CASE Result
  <2>1. /\ UNCHANGED <<editor, armed, queue, overflow, stop, stopEvent, data, seen>>
        /\ pc = "result" /\ request' = "none"
    BY <1>5 DEF Result
  <2>2. CASE request = "done" /\ pc' = "scan" /\ UNCHANGED <<batch, lost>>
    BY <2>1, <2>2
  <2>3. CASE /\ pc' = "loop" /\ batch' = <<>>
             /\ lost' = IF Mentions(batch) THEN "failed" ELSE lost
    <3>1. Len(batch') <= Cap
      <4>1. Len(batch') = 0
        BY <2>3, ShortMentions
      <4>. QED
        BY <4>1, WatcherBounds
    <3>2. TypeOK'
      BY <2>1, <2>3, <3>1
    <3>3. RequestInv'
      BY <2>1, <2>3, ShortMentions
    <3>4. CurrentInv' /\ SavingInv'
      BY <2>1, <2>3
    <3>. QED
      BY <3>2, <3>3, <3>4
  <2>. QED
    BY <1>5, <2>2, <2>3 DEF Result
<1>6. CASE Scan
  <2>1. batch # <<>> /\ request = "none" /\ pc = "scan"
    BY <1>6 DEF Scan
  <2>2. CASE Head(batch) = "ini"
    <3>1. /\ pc' = "call" /\ batch' = <<>>
          /\ UNCHANGED <<editor, armed, queue, overflow, request, stop, stopEvent, data, seen, lost>>
      BY <1>6, <2>2 DEF Scan
    <3>2. Len(batch') <= Cap
      <4>1. Len(batch') = 0
        BY <3>1, ShortMentions
      <4>. QED
        BY <4>1, WatcherBounds
    <3>3. TypeOK'
      BY <2>1, <3>1, <3>2
    <3>4. RequestInv'
      BY <2>1, <3>1, ShortMentions
    <3>5. CurrentInv' /\ SavingInv'
      BY <3>1
    <3>. QED
      BY <3>3, <3>4, <3>5
  <2>3. CASE Head(batch) # "ini"
    <3>1. /\ Tail(batch) \in Seq(Entry) /\ Len(Tail(batch)) = Len(batch) - 1 /\ Len(batch) \in Nat
          /\ Mentions(batch) => Mentions(Tail(batch))
      BY <2>1, <2>3, TailMentions
    <3>2. /\ batch' = Tail(batch) /\ pc' \in {"loop", "scan"}
          /\ pc' = IF Tail(batch) = <<>> THEN "loop" ELSE "scan"
          /\ UNCHANGED <<editor, armed, queue, overflow, request, stop, stopEvent, data, seen, lost>>
      BY <1>6, <2>3 DEF Scan
    <3>3. Len(batch') <= Cap
      <4>1. Len(batch') = Len(batch) - 1 /\ Len(batch) \in Nat /\ Len(batch) <= Cap /\ Cap \in Nat
        BY <3>1, <3>2, WatcherBounds
      <4>. QED
        BY <4>1
    <3>4. TypeOK'
      BY <2>1, <3>2, <3>3
    <3>5. RequestInv'
      BY <2>1, <3>1, <3>2
    <3>6. CurrentInv' /\ SavingInv'
      BY <2>1, <3>1, <3>2
    <3>. QED
      BY <3>4, <3>5, <3>6
  <2>. QED
    BY <2>2, <2>3
<1>7. CASE ReadIni
  BY <1>7, WatcherBounds DEF ReadIni, Torn
<1>8. CASE Reload
  BY <1>8, WatcherBounds DEF Reload, Torn
<1>. QED
  BY <1>1, <1>2, <1>3, <1>4, <1>5, <1>6, <1>7, <1>8 DEF Watch

(* Every step keeps the invariant.                                         *)
LEMMA WatcherInvStep == WatcherInv /\ [Next]_vars => WatcherInv'
<1> SUFFICES ASSUME WatcherInv, [Next]_vars PROVE WatcherInv'
  OBVIOUS
<1>1. CASE RequestStop \/ SetStopEvent \/ UNCHANGED vars
  BY <1>1 DEF RequestStop, SetStopEvent, vars, editor, kernel, WatcherInv, TypeOK, RequestInv,
              CurrentInv, SavingInv, Pending
<1>. QED
  BY <1>1, WatchKeeps, EditorKeeps DEF Next

(* The invariant holds in every reachable state.                           *)
LEMMA WatcherInductive == Spec => []WatcherInv
<1>. QED
  BY WatcherInvInit, WatcherInvStep, PTL DEF Spec

-----------------------------------------------------------------------------
(* The watcher's state stays in its types.                                 *)
THEOREM WatcherTypes == Spec => []TypeOK
<1>1. WatcherInv => TypeOK
  BY DEF WatcherInv
<1>. QED
  BY <1>1, WatcherInductive, PTL

(* While the watcher waits and no change was lost, the hooks work from the *)
(* INI as it is on disk.                                                   *)
THEOREM QuietIsCurrent == Spec => []QuietMeansCurrent
<1>1. WatcherInv => QuietMeansCurrent
  BY ShortMentions DEF WatcherInv, TypeOK, CurrentInv, Pending, QuietMeansCurrent
<1>. QED
  BY <1>1, WatcherInductive, PTL
=============================================================================
