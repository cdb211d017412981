----------------------------- MODULE CrashJournal -----------------------------
(***************************************************************************)
(* The journal file next to the INI, over several sessions of the game:    *)
(* what init_game and DllMain write to it, and what read_previous makes of *)
(* it when the next session starts.  A session can be killed at any step   *)
(* (the crash the journal is there for); it can also exit in order at any  *)
(* step, and Windows then ends the init thread wherever it is before       *)
(* DllMain writes the clean mark.  write_line writes its text and its      *)
(* newline separately.  Sessions may overlap: a second game can be started *)
(* while the first runs.                                                   *)
(***************************************************************************)
EXTENDS Naturals, Sequences, SequencesExt

CONSTANTS
  Hooks,        \* the hooks in install order
  MaxSessions,  \* bound: sessions of the game, 1, 2, ..., in starting order
  MaxRunning    \* bound: how many of them may run at a time

ASSUME BoundsAssumption == MaxSessions \in Nat /\ MaxRunning \in Nat \ {0}
ASSUME HooksAssumption == Hooks \in Seq(Range(Hooks))

Session == 1..MaxSessions
Nobody == 0   \* no session: what the parser starts from
Clean == [of |-> Nobody, hooks |-> <<>>]

VARIABLES
  lines,      \* the file: records [kind, arg, glued], kind the word a line starts with
  torn,       \* the last line has no newline yet
  pc,         \* where the init thread of each session is
  handle,     \* g_file of each session: "none", or its file pointer "start" / "end"
  ending,     \* sessions between the two WriteFiles of write_line
  next,       \* index into Hooks of the hook the init thread installs next
  report,     \* what init_game warned of at the start of a session
  installed,  \* history: the hooks whose install returned true, in order
  fate,       \* history: "unknown", "crashed", "clean", or "cut" for an exit
              \* that ended the init thread between text and newline
  began       \* history: sessions that wrote their session_start

disk  == <<lines, torn>>
local == <<handle, ending, next>>
hist  == <<report, installed, fate, began>>
vars  == <<disk, pc, local, hist>>

Init ==
  /\ lines = <<>>
  /\ torn = FALSE
  /\ pc = [s \in Session |-> "off"]
  /\ handle = [s \in Session |-> "none"]
  /\ ending = {}
  /\ next = [s \in Session |-> 1]
  /\ report = [s \in Session |-> Clean]
  /\ installed = [s \in Session |-> <<>>]
  /\ fate = [s \in Session |-> "unknown"]
  /\ began = {}

Running == {s \in Session : pc[s] \notin {"off", "gone"}}

Goto(s, label) == pc' = [pc EXCEPT ![s] = label]

-----------------------------------------------------------------------------
(* parse_journal, line by line: a session_start forgets what came before   *)
(* it, a line that has another glued to it counts as its first word says.  *)
ReadLine(state, line) ==
  CASE line.kind = "session_start" -> [of |-> line.arg, hooks |-> <<>>, clean |-> FALSE]
    [] line.kind = "hook_installed" -> [state EXCEPT !.hooks = Append(@, line.arg)]
    [] line.kind = "session_clean" -> [state EXCEPT !.clean = TRUE]
    [] OTHER -> state

(* The state after each line of the file. *)
States(file) ==
  LET state[i \in 0..Len(file)] ==
        IF i = 0 THEN [of |-> Nobody, hooks |-> <<>>, clean |-> FALSE]
        ELSE ReadLine(state[i - 1], file[i])
  IN state

Parse(file) == States(file)[Len(file)]

(* What a reader of the file learns: an empty one is a clean one. *)
Outcome(file) ==
  LET p == Parse(file) IN
  IF file = <<>> \/ p.clean THEN Clean ELSE [of |-> p.of, hooks |-> p.hooks]

Line(kind, arg) == [kind |-> kind, arg |-> arg, glued |-> FALSE]

(* The first WriteFile of write_line: at the end of the file it starts a   *)
(* line, or goes on with an unfinished one.  At its start, where only the  *)
(* clean mark of a session that had not yet truncated the file is written, *)
(* it replaces the first line: session_start and session_clean lines are   *)
(* equally long.                                                           *)
Put(s, line) ==
  /\ lines' = IF handle[s] = "none" THEN lines
              ELSE IF handle[s] = "start" /\ lines # <<>> THEN [lines EXCEPT ![1] = line]
              ELSE IF torn THEN [lines EXCEPT ![Len(lines)].glued = TRUE]
              ELSE Append(lines, line)
  /\ torn' = IF handle[s] = "none" \/ (handle[s] = "start" /\ Len(lines) > 1)
             THEN torn ELSE TRUE
  /\ ending' = IF handle[s] = "none" THEN ending ELSE ending \cup {s}

(* The second one. *)
EndLine(s) ==
  /\ s \in ending
  /\ ending' = ending \ {s}
  /\ torn' = IF handle[s] = "start" /\ Len(lines) > 1 THEN torn ELSE FALSE
  /\ UNCHANGED <<lines, pc, handle, next, hist>>

-----------------------------------------------------------------------------
(* The init thread. *)

Start(s) ==
  /\ pc[s] = "off"
  /\ \A t \in 1..(s - 1) : pc[t] # "off"
  /\ Len(SelectSeq([t \in Session |-> t], LAMBDA t : t \in Running)) < MaxRunning
  /\ Goto(s, "open")
  /\ UNCHANGED <<disk, local, hist>>

(* Plausible mistakes stand above the definition they are mistakes in.     *)

BugShareWrite(s) ==
  /\ pc[s] = "open"
  /\ Goto(s, "read")
  /\ handle' = [handle EXCEPT ![s] = "start"]
  /\ UNCHANGED <<disk, ending, next, hist>>

(* open: the handle is shared for reading only, so a second session cannot *)
(* open the file for writing; other programs may be in the way as well.    *)
Open(s) ==
  /\ pc[s] = "open"
  /\ Goto(s, "read")
  /\ \/ /\ \A t \in Session : handle[t] = "none"
        /\ handle' = [handle EXCEPT ![s] = "start"]
     \/ UNCHANGED handle
  /\ UNCHANGED <<disk, ending, next, hist>>

(* read_previous, which needs no handle, and the warning of init_game. *)
ReadPrevious(s) ==
  LET found == Outcome(lines) IN
  /\ pc[s] = "read"
  /\ Goto(s, "truncate")
  /\ report' = [report EXCEPT ![s] =
                  IF found.hooks # <<>> THEN found ELSE Clean]
  /\ UNCHANGED <<disk, local, installed, fate, began>>

BugAppend(s) ==
  /\ pc[s] = "truncate"
  /\ Goto(s, "start")
  /\ handle' = [handle EXCEPT ![s] = IF @ = "none" THEN @ ELSE "end"]
  /\ UNCHANGED <<disk, ending, next, hist>>

(* write_session_start: back to the start, cut the file off there ...      *)
Truncate(s) ==
  /\ pc[s] = "truncate"
  /\ Goto(s, "start")
  /\ IF handle[s] = "none"
     THEN UNCHANGED <<disk, handle>>
     ELSE /\ lines' = <<>>
          /\ torn' = FALSE
          /\ handle' = [handle EXCEPT ![s] = "end"]
  /\ UNCHANGED <<ending, next, hist>>

(* ... and write the line with the time, which tells sessions apart.       *)
WriteStart(s) ==
  /\ pc[s] = "start"
  /\ Goto(s, "install")
  /\ Put(s, Line("session_start", s))
  /\ began' = IF handle[s] = "none" THEN began ELSE began \cup {s}
  /\ UNCHANGED <<handle, next, report, installed, fate>>

BugNoteFailedToo(s) ==
  /\ pc[s] = "install"
  /\ s \notin ending
  /\ next[s] <= Len(Hooks)
  /\ \/ installed' = [installed EXCEPT ![s] = Append(@, Hooks[next[s]])]
     \/ UNCHANGED installed
  /\ Goto(s, "note")
  /\ UNCHANGED <<disk, local, report, fate, began>>

(* install_all: the next hook is installed, or skipped, or fails.          *)
InstallHook(s) ==
  /\ pc[s] = "install"
  /\ s \notin ending
  /\ next[s] <= Len(Hooks)
  /\ \/ /\ installed' = [installed EXCEPT ![s] = Append(@, Hooks[next[s]])]
        /\ Goto(s, "note")
        /\ UNCHANGED next
     \/ /\ next' = [next EXCEPT ![s] = @ + 1]
        /\ UNCHANGED <<installed, pc>>
  /\ UNCHANGED <<disk, handle, ending, report, fate, began>>

NoteHook(s) ==
  /\ pc[s] = "note"
  /\ Put(s, Line("hook_installed", Hooks[next[s]]))
  /\ next' = [next EXCEPT ![s] = @ + 1]
  /\ Goto(s, "install")
  /\ UNCHANGED <<handle, hist>>

InitComplete(s) ==
  /\ pc[s] = "install"
  /\ s \notin ending
  /\ next[s] = Len(Hooks) + 1
  /\ Put(s, Line("init_complete", 0))
  /\ Goto(s, "running")
  /\ UNCHANGED <<handle, next, hist>>

(* install_all threw: init_game returns without a line. *)
InitAborts(s) ==
  /\ pc[s] = "install"
  /\ s \notin ending
  /\ next[s] <= Len(Hooks)
  /\ Goto(s, "running")
  /\ UNCHANGED <<disk, local, hist>>

-----------------------------------------------------------------------------
(* How a session ends. *)

(* ExitProcess ends the init thread, then calls DllMain. *)
Exit(s) ==
  /\ s \in Running
  /\ pc[s] \notin {"exit", "close"}
  /\ fate' = [fate EXCEPT ![s] = IF s \in ending THEN "cut" ELSE "clean"]
  /\ ending' = ending \ {s}
  /\ next' = [next EXCEPT ![s] = 1]
  /\ Goto(s, "exit")
  /\ UNCHANGED <<disk, handle, report, installed, began>>

WriteClean(s) ==
  /\ pc[s] = "exit"
  /\ Put(s, Line("session_clean", s))
  /\ Goto(s, "close")
  /\ UNCHANGED <<handle, next, hist>>

Close(s) ==
  /\ pc[s] = "close"
  /\ s \notin ending
  /\ handle' = [handle EXCEPT ![s] = "none"]
  /\ Goto(s, "gone")
  /\ UNCHANGED <<disk, ending, next, hist>>

(* The process is gone from one step to the next. *)
Crash(s) ==
  /\ s \in Running
  /\ fate' = [fate EXCEPT ![s] = IF pc[s] = "close" THEN @ ELSE "crashed"]
  /\ handle' = [handle EXCEPT ![s] = "none"]
  /\ ending' = ending \ {s}
  /\ next' = [next EXCEPT ![s] = 1]
  /\ Goto(s, "gone")
  /\ UNCHANGED <<disk, report, installed, began>>

Next ==
  \E s \in Session :
    \/ Start(s) \/ Open(s) \/ ReadPrevious(s) \/ Truncate(s) \/ WriteStart(s)
    \/ EndLine(s) \/ InstallHook(s) \/ NoteHook(s) \/ InitComplete(s) \/ InitAborts(s)
    \/ Exit(s) \/ WriteClean(s) \/ Close(s) \/ Crash(s)

Spec == Init /\ [][Next]_vars

-----------------------------------------------------------------------------
Reporting(s) == pc[s] = "read" /\ pc'[s] = "truncate" /\ report'[s] # Clean

(* What the warning says of the session it names is so: every hook listed  *)
(* was installed in it, at most the one being noted when it died is        *)
(* missing, and it did not end in order, unless the exit cut a line of the *)
(* journal in two or the session is still running.                         *)
ReportIsTrue ==
  [][\A s \in Session : Reporting(s) =>
       LET r == report'[s] IN
       /\ r.of \in Session \ {s}
       /\ IsPrefix(r.hooks, installed[r.of])
       /\ Len(installed[r.of]) <= Len(r.hooks) + 1
       /\ r.of \in Running \/ fate[r.of] \in {"crashed", "cut"}]_vars

(* No session destroys the trace of a crash it has not reported: what it   *)
(* truncates is what it read, because nobody else can write in between.    *)
(* The one exception is a session that exits before it has read at all.    *)
NothingForgotten ==
  [][LET trace == Outcome(lines) IN
       /\ trace.hooks # <<>>
       /\ fate[trace.of] = "crashed"
       /\ Outcome(lines') # trace
       => \E s \in Session : \/ pc[s] = "truncate" /\ report[s] = trace
                             \/ pc[s] = "exit" /\ (report[s] = trace \/ s \notin began)]_vars

(* A crash is reported again only when the sessions that reported it       *)
(* before never wrote a journal of their own.                              *)
ReportedOnce ==
  \A s, t \in began :
    s # t /\ report[s] # Clean /\ report[t] # Clean => report[s].of # report[t].of

(* The file is as good as one indivisible cell. *)
Cell == INSTANCE SessionRecord
          WITH record <- Outcome(lines), Hook <- Range(Hooks)
KeepsSessionRecord == Cell!Spec

=============================================================================
