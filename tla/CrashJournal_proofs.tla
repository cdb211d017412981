-------------------------- MODULE CrashJournal_proofs --------------------------
(***************************************************************************)
(* What the crash journal promises, for any number of sessions, however    *)
(* many run at a time, and any list of hooks: its reports are true, none   *)
(* is lost or repeated, and it implements SessionRecord.                   *)
(***************************************************************************)
EXTENDS CrashJournal, WellFoundedInduction, TLAPS

-----------------------------------------------------------------------------
(* The parser. *)

Kinds == {"session_start", "hook_installed", "init_complete", "session_clean"}
Args == Session \cup {0} \cup Range(Hooks)
JournalLine == [kind : Kinds, arg : Args, glued : BOOLEAN]
JournalState == [of : Args, hooks : Seq(Args), clean : BOOLEAN]

(* What holds of 0 and is handed on holds of every natural number.         *)
LEMMA SetInduction ==
  ASSUME NEW T \in SUBSET Nat, 0 \in T, \A n \in T : n + 1 \in T
  PROVE  T = Nat
<1> DEFINE R == {p \in Nat \X Nat : p[1] < p[2]}
           U == Nat \ T
<1>1. IsWellFoundedOn(R, Nat)
  BY NatLessThanWellFounded DEF OpToRel
<1>2. ASSUME U # {} PROVE FALSE
  <2>1. PICK x \in U : \A y \in U : ~(<<y, x>> \in R)
    <3>1. U \subseteq Nat
      OBVIOUS
    <3> HIDE DEF R, U
    <3>. QED BY <1>1, <1>2, <3>1, WFMin
  <2>2. x \in Nat /\ x # 0 /\ x \notin T
    BY <2>1
  <2>3. x - 1 \in Nat /\ <<x - 1, x>> \in R /\ (x - 1) + 1 = x
    BY <2>2
  <2>4. x - 1 \in T
    BY <2>1, <2>3
  <2>. QED BY <2>2, <2>3, <2>4
<1>. QED
  BY <1>2

Fresh == [of |-> Nobody, hooks |-> <<>>, clean |-> FALSE]
Step(state, file, i) == IF i = 0 THEN Fresh ELSE ReadLine(state[i - 1], file[i])
Solution(file) == CHOOSE state : state = [i \in 0..Len(file) |-> Step(state, file, i)]

LEMMA StatesAreSolution ==
  ASSUME NEW file PROVE States(file) = Solution(file)
  BY DEF States, Solution, Step, Fresh

(* The parser's equation has a solution: one line after the other.         *)
LEMMA ParserIsDefined ==
  ASSUME NEW file, Len(file) \in Nat
  PROVE  /\ States(file)[0] = Fresh
         /\ \A i \in 1..Len(file) : States(file)[i] = ReadLine(States(file)[i - 1], file[i])
<1> DEFINE T == {n \in Nat : \E state : state = [i \in 0..n |-> Step(state, file, i)]}
<1>1. 0 \in T
  <2> DEFINE g == [i \in 0..0 |-> Fresh]
  <2>1. \A i \in 0..0 : Step(g, file, i) = Fresh
    BY DEF Step
  <2>2. g = [i \in 0..0 |-> Step(g, file, i)]
    BY <2>1
  <2> HIDE DEF g
  <2>. QED BY <2>2
<1>2. ASSUME NEW n \in T PROVE n + 1 \in T
  <2>1. PICK f : f = [i \in 0..n |-> Step(f, file, i)]
    OBVIOUS
  <2> DEFINE g == [i \in 0..(n + 1) |-> IF i \in 0..n THEN f[i] ELSE ReadLine(f[n], file[n + 1])]
  <2>2. n \in Nat
    OBVIOUS
  <2>3. ASSUME NEW i \in 0..(n + 1) PROVE g[i] = Step(g, file, i)
    <3>1. CASE i = 0
      <4>1. 0 \in 0..n /\ 0 \in 0..(n + 1)
        BY <2>2
      <4>2. g[0] = f[0]
        BY <4>1
      <4>3. f[0] = Step(f, file, 0)
        BY <2>1, <4>1
      <4>. QED
        <5> HIDE DEF g
        <5>. QED BY <3>1, <4>2, <4>3 DEF Step
    <3>2. CASE i \in 1..n
      <4>1. i - 1 \in 0..n /\ i \in 0..n /\ i # 0
        BY <2>2, <3>2
      <4>2. g[i] = f[i] /\ g[i - 1] = f[i - 1]
        BY <2>2, <4>1
      <4>3. f[i] = Step(f, file, i)
        BY <2>1, <4>1
      <4>. QED
        <5> HIDE DEF g
        <5>. QED BY <4>1, <4>2, <4>3 DEF Step
    <3>3. CASE i = n + 1
      <4>1. i # 0 /\ i - 1 = n /\ n \in 0..n /\ i \notin 0..n /\ n \in 0..(n + 1)
        BY <2>2, <3>3
      <4>2. g[i] = ReadLine(f[n], file[i]) /\ g[n] = f[n]
        BY <3>3, <4>1
      <4>. QED
        <5> HIDE DEF g
        <5>. QED BY <4>1, <4>2 DEF Step
    <3>. QED BY <2>2, <3>1, <3>2, <3>3
  <2>4. g = [i \in 0..(n + 1) |-> Step(g, file, i)]
    <3>1. g = [i \in 0..(n + 1) |-> g[i]]
      OBVIOUS
    <3> HIDE DEF g
    <3>. QED BY <2>3, <3>1
  <2> HIDE DEF g
  <2>. QED BY <2>2, <2>4
<1> HIDE DEF T
<1>3. T = Nat
  <2>1. T \in SUBSET Nat
    BY DEF T
  <2>. QED BY <1>1, <1>2, <2>1, SetInduction
<1>4. \E state : state = [i \in 0..Len(file) |-> Step(state, file, i)]
  BY <1>3 DEF T
<1> DEFINE found == Solution(file)
<1>5. found = [i \in 0..Len(file) |-> Step(found, file, i)]
  BY <1>4 DEF Solution
<1> HIDE DEF found
<1>6. \A i \in 0..Len(file) : found[i] = Step(found, file, i)
  BY <1>5
<1>7. found[0] = Fresh /\ \A i \in 1..Len(file) : found[i] = ReadLine(found[i - 1], file[i])
  BY <1>6 DEF Step
<1>. QED BY <1>7, StatesAreSolution DEF found

(* Files that agree, line by line, on what a line does to the state leave  *)
(* the same state.                                                         *)
LEMMA SameLines ==
  ASSUME NEW f, NEW g, NEW n \in Nat,
         Len(f) \in Nat, Len(g) \in Nat, n <= Len(f), n <= Len(g),
         \A i \in 1..n : \A state : ReadLine(state, f[i]) = ReadLine(state, g[i])
  PROVE  States(f)[n] = States(g)[n]
<1> DEFINE T == {k \in Nat : k <= n => States(f)[k] = States(g)[k]}
<1>1. 0 \in T
  BY ParserIsDefined
<1>2. ASSUME NEW k \in T PROVE k + 1 \in T
  <2>1. CASE k + 1 <= n
    <3>1. k \in Nat /\ k + 1 \in 1..n /\ k + 1 \in 1..Len(f) /\ k + 1 \in 1..Len(g)
          /\ (k + 1) - 1 = k /\ k <= n
      BY <2>1
    <3>2. States(f)[k] = States(g)[k]
      BY <3>1
    <3>3. States(f)[k + 1] = ReadLine(States(f)[k], f[k + 1])
          /\ States(g)[k + 1] = ReadLine(States(g)[k], g[k + 1])
      BY <3>1, ParserIsDefined
    <3>4. States(f)[k + 1] = States(g)[k + 1]
      BY <3>1, <3>2, <3>3
    <3>. QED BY <3>1, <3>4
  <2>. QED BY <2>1
<1> HIDE DEF T
<1>3. T = Nat
  <2>1. T \in SUBSET Nat
    BY DEF T
  <2>. QED BY <1>1, <1>2, <2>1, SetInduction
<1>. QED BY <1>3 DEF T

(* What the writes to the end of a file do to what is read of it.          *)
LEMMA ParseAppend ==
  ASSUME NEW f \in Seq(JournalLine), NEW l \in JournalLine
  PROVE  Parse(Append(f, l)) = ReadLine(Parse(f), l)
<1> DEFINE g == Append(f, l)
<1>1. /\ Len(f) \in Nat /\ Len(g) = Len(f) + 1 /\ g[Len(f) + 1] = l
      /\ \A i \in 1..Len(f) : g[i] = f[i]
  OBVIOUS
<1> HIDE DEF g
<1>2. States(f)[Len(f)] = States(g)[Len(f)]
  <2> DEFINE n == Len(f)
  <2>1. \A i \in 1..n : \A state : ReadLine(state, f[i]) = ReadLine(state, g[i])
    BY <1>1
  <2>2. n \in Nat /\ Len(g) \in Nat /\ n <= Len(f) /\ n <= Len(g)
    BY <1>1
  <2> HIDE DEF n
  <2>3. Len(f) \in Nat
    BY <1>1
  <2>4. States(f)[n] = States(g)[n]
    BY <2>1, <2>2, <2>3, SameLines
  <2>. QED BY <2>4 DEF n
<1>3. States(g)[Len(f) + 1] = ReadLine(States(g)[Len(f)], l)
  <2>1. Len(f) + 1 \in 1..Len(g) /\ (Len(f) + 1) - 1 = Len(f) /\ Len(g) \in Nat
    BY <1>1
  <2>. QED BY <1>1, <2>1, ParserIsDefined
<1>4. Parse(g) = ReadLine(Parse(f), l)
  BY <1>1, <1>2, <1>3 DEF Parse
<1>. QED BY <1>4 DEF g

LEMMA ParseGlued ==
  ASSUME NEW f \in Seq(JournalLine), f # <<>>
  PROVE  Parse([f EXCEPT ![Len(f)].glued = TRUE]) = Parse(f)
<1> DEFINE g == [f EXCEPT ![Len(f)].glued = TRUE]
<1>1. /\ Len(f) \in Nat /\ Len(g) = Len(f)
      /\ \A i \in 1..Len(f) : g[i].kind = f[i].kind /\ g[i].arg = f[i].arg
  BY DEF JournalLine
<1> HIDE DEF g
<1>2. \A i \in 1..Len(f) : \A state : ReadLine(state, f[i]) = ReadLine(state, g[i])
  BY <1>1 DEF ReadLine
<1>3. States(f)[Len(f)] = States(g)[Len(f)]
  <2> DEFINE n == Len(f)
  <2>1. n \in Nat /\ Len(g) \in Nat /\ n <= Len(f) /\ n <= Len(g)
    BY <1>1
  <2>2. \A i \in 1..n : \A state : ReadLine(state, f[i]) = ReadLine(state, g[i])
    BY <1>2
  <2> HIDE DEF n
  <2>3. Len(f) \in Nat
    BY <1>1
  <2>4. States(f)[n] = States(g)[n]
    BY <2>1, <2>2, <2>3, SameLines
  <2>. QED BY <2>4 DEF n
<1>. QED BY <1>1, <1>3 DEF Parse, g

LEMMA ReadLineTypes ==
  ASSUME NEW state \in JournalState, NEW l \in JournalLine
  PROVE  ReadLine(state, l) \in JournalState
<1>1. l.kind \in Kinds /\ l.arg \in Args
  BY DEF JournalLine
<1>2. state.of \in Args /\ state.hooks \in Seq(Args) /\ state.clean \in BOOLEAN
  BY DEF JournalState
<1>3. Append(state.hooks, l.arg) \in Seq(Args) /\ <<>> \in Seq(Args)
  BY <1>1, <1>2
<1>4. CASE l.kind = "session_start"
  BY <1>1, <1>3, <1>4 DEF ReadLine, JournalState
<1>5. CASE l.kind = "hook_installed"
  BY <1>1, <1>3, <1>5 DEF ReadLine, JournalState
<1>6. CASE l.kind = "session_clean"
  BY <1>6 DEF ReadLine, JournalState
<1>7. CASE l.kind = "init_complete"
  BY <1>7 DEF ReadLine
<1>. QED BY <1>1, <1>4, <1>5, <1>6, <1>7 DEF Kinds

LEMMA FreshTypes == Fresh \in JournalState
<1>1. <<>> \in Seq(Args) /\ 0 \in Args
  BY DEF Args
<1>. QED BY <1>1 DEF Fresh, JournalState, Nobody

LEMMA ParseTypes ==
  ASSUME NEW f \in Seq(JournalLine)
  PROVE  Parse(f) \in JournalState
<1> DEFINE T == {k \in Nat : k <= Len(f) => States(f)[k] \in JournalState}
<1>1. 0 \in T
  BY ParserIsDefined, FreshTypes
<1>2. ASSUME NEW k \in T PROVE k + 1 \in T
  <2>1. CASE k + 1 <= Len(f)
    <3>1. k \in Nat /\ k + 1 \in 1..Len(f) /\ (k + 1) - 1 = k /\ k <= Len(f)
      BY <2>1
    <3>2. States(f)[k] \in JournalState /\ f[k + 1] \in JournalLine
      BY <3>1
    <3>3. States(f)[k + 1] = ReadLine(States(f)[k], f[k + 1])
      BY <3>1, ParserIsDefined
    <3>4. States(f)[k + 1] \in JournalState
      BY <3>2, <3>3, ReadLineTypes
    <3>. QED BY <3>1, <3>4
  <2>. QED BY <2>1
<1> HIDE DEF T
<1>3. T = Nat
  <2>1. T \in SUBSET Nat
    BY DEF T
  <2>. QED BY <1>1, <1>2, <2>1, SetInduction
<1>. QED BY <1>3 DEF T, Parse

(* A clean mark in place of the first line makes the file a clean one, as  *)
(* no session_start follows it.                                            *)
LEMMA ParseReplaced ==
  ASSUME NEW f \in Seq(JournalLine), f # <<>>, NEW l \in JournalLine, l.kind = "session_clean",
         \A i \in 2..Len(f) : f[i].kind # "session_start"
  PROVE  Parse([f EXCEPT ![1] = l]).clean
<1> DEFINE g == [f EXCEPT ![1] = l]
<1>1. /\ Len(f) \in Nat \ {0} /\ Len(g) = Len(f) /\ g[1] = l
      /\ g \in Seq(JournalLine)
      /\ \A i \in 2..Len(f) : g[i].kind # "session_start"
  OBVIOUS
<1> HIDE DEF g
<1> DEFINE Good(k) == States(g)[k] \in JournalState /\ (k # 0 => States(g)[k].clean)
           T == {k \in Nat : k <= Len(f) => Good(k)}
<1>2. 0 \in T
  BY <1>1, ParserIsDefined, FreshTypes
<1>3. ASSUME NEW k \in T PROVE k + 1 \in T
  <2>1. CASE k + 1 <= Len(f)
    <3>1. k \in Nat /\ k + 1 \in 1..Len(g) /\ (k + 1) - 1 = k /\ k <= Len(f) /\ k + 1 # 0
      BY <1>1, <2>1
    <3>2. States(g)[k] \in JournalState /\ g[k + 1] \in JournalLine /\ (k # 0 => States(g)[k].clean)
      BY <1>1, <3>1
    <3>3. States(g)[k + 1] = ReadLine(States(g)[k], g[k + 1])
      BY <1>1, <3>1, ParserIsDefined
    <3>4. States(g)[k + 1] \in JournalState
      BY <3>2, <3>3, ReadLineTypes
    <3>5. IF k = 0 THEN g[k + 1].kind = "session_clean"
                   ELSE g[k + 1].kind # "session_start" /\ States(g)[k].clean
      BY <1>1, <3>1, <3>2
    <3>6. States(g)[k + 1].clean
      BY <3>2, <3>3, <3>5 DEF ReadLine, JournalState, JournalLine
    <3>. QED BY <3>1, <3>4, <3>6
  <2>. QED BY <2>1
<1> HIDE DEF T
<1>4. T = Nat
  <2>1. T \in SUBSET Nat
    BY DEF T
  <2>. QED BY <1>2, <1>3, <2>1, SetInduction
<1>5. Good(Len(f))
  BY <1>1, <1>4 DEF T
<1>. QED BY <1>1, <1>5 DEF Parse, g

(* The file. A session_start is its first line or there is none. *)
FileOK ==
  /\ lines \in Seq(JournalLine)
  /\ torn \in BOOLEAN
  /\ lines = <<>> => ~torn
  /\ \A i \in 2..Len(lines) : lines[i].kind # "session_start"

(* What each session has left behind at the places it can be in. *)
Early == {"off", "open", "read", "truncate", "start"}

ControlTypeOK ==
  /\ pc \in [Session -> Early \cup {"install", "note", "running", "exit", "close", "gone"}]
  /\ handle \in [Session -> {"none", "start", "end"}]
  /\ ending \subseteq Session
  /\ next \in [Session -> 1..(Len(Hooks) + 1)]
  /\ report \in [Session -> [of : Args, hooks : Seq(Args)]]
  /\ installed \in [Session -> Seq(Args)]
  /\ fate \in [Session -> {"unknown", "crashed", "clean", "cut"}]
  /\ began \subseteq Session

ControlInv(s) ==
  /\ pc[s] \in {"off", "open", "gone"} => handle[s] = "none"
  /\ pc[s] \in {"read", "truncate"} => handle[s] # "end"
  /\ pc[s] \in {"start", "install", "note", "running"} => handle[s] # "start"
  /\ handle[s] = "end" /\ pc[s] \in {"install", "note", "running"} => s \in began
  /\ s \in began => pc[s] \notin Early
  /\ s \in began /\ pc[s] # "gone" => handle[s] = "end"
  /\ pc[s] \in {"off", "open", "read"} => report[s] = Clean
  /\ pc[s] \in Early => installed[s] = <<>>
  /\ pc[s] = "note" => next[s] <= Len(Hooks) /\ s \notin ending
  /\ s \in ending => handle[s] # "none"
  /\ fate[s] = "crashed" => pc[s] = "gone"

OneOwner == \A s, t \in Session : handle[s] # "none" /\ handle[t] # "none" => s = t

(* The file in the hands of a session that has truncated it. *)
Silent == lines = <<>> \/ Parse(lines).clean
Tells(s) == ~Silent /\ Parse(lines).of = s

OwnerInv(s) ==
  handle[s] = "end" =>
    /\ pc[s] = "start" => lines = <<>>
    /\ pc[s] \in {"install", "note", "running"} => Tells(s) /\ (torn => s \in ending)
    /\ pc[s] = "exit" =>
         (lines = <<>> \/ Tells(s)) /\ (torn => fate[s] = "cut") /\ s \notin ending
    /\ pc[s] = "close" => Silent \/ (Tells(s) /\ fate[s] = "cut")

(* A file that tells of a session tells the truth. *)
Truth(t, hooks) ==
  /\ t \in began
  /\ pc[t] = "install" => hooks = installed[t]
  /\ pc[t] = "note" => installed[t] = Append(hooks, Hooks[next[t]])
  /\ hooks = installed[t] \/ \E h \in Args : installed[t] = Append(hooks, h)
  /\ pc[t] = "gone" => fate[t] \in {"crashed", "cut"}

TraceInv == ~Silent => Truth(Parse(lines).of, Parse(lines).hooks)

Found == IF Outcome(lines).hooks # <<>> THEN Outcome(lines) ELSE Clean

(* What a session is about to truncate is what it has read. *)
ReadInv ==
  \A s \in Session : pc[s] = "truncate" /\ handle[s] = "start" => report[s] = Found

(* A report whose file has been truncated is of a session that is over and *)
(* that no other such report and no later file tells of.                   *)
Claims(s) == (s \in began \/ handle[s] = "end") /\ report[s] # Clean

ClaimInv ==
  \A s \in Session : Claims(s) =>
    /\ report[s].of \in began
    /\ pc[report[s].of] = "gone"
    /\ ~Tells(report[s].of)
    /\ \A t \in Session : Claims(t) /\ t # s => report[t].of # report[s].of

JournalInv ==
  /\ FileOK
  /\ ControlTypeOK
  /\ \A s \in Session : ControlInv(s)
  /\ OneOwner
  /\ \A s \in Session : OwnerInv(s)
  /\ TraceInv
  /\ ReadInv
  /\ ClaimInv

-----------------------------------------------------------------------------
(* Control. *)

Controls ==
  /\ ControlTypeOK
  /\ \A s \in Session : ControlInv(s)
  /\ OneOwner

LEMMA HookTypes == Len(Hooks) \in Nat /\ \A i \in 1..Len(Hooks) : Hooks[i] \in Args
<1>1. Hooks \in Seq(Range(Hooks))
  BY HooksAssumption
<1>2. Len(Hooks) \in Nat /\ \A i \in 1..Len(Hooks) : Hooks[i] \in Range(Hooks)
  BY <1>1
<1>. QED BY <1>2 DEF Args

LEMMA FoundTypes ==
  ASSUME FileOK
  PROVE  Outcome(lines) \in [of : Args, hooks : Seq(Args)] /\ Clean \in [of : Args, hooks : Seq(Args)]
<1>1. <<>> \in Seq(Args) /\ 0 \in Args
  BY DEF Args
<1>2. Clean \in [of : Args, hooks : Seq(Args)]
  BY <1>1 DEF Clean, Nobody
<1>3. Parse(lines) \in JournalState
  BY ParseTypes DEF FileOK
<1>. QED BY <1>2, <1>3 DEF Outcome, JournalState

LEMMA StartControls ==
  ASSUME Controls, NEW s \in Session, Start(s)
  PROVE  Controls'
  BY DEF Controls, ControlTypeOK, ControlInv, OneOwner, Early, Start, Goto, disk, local, hist

LEMMA OpenControls ==
  ASSUME Controls, NEW s \in Session, Open(s)
  PROVE  Controls'
  BY DEF Controls, ControlTypeOK, ControlInv, OneOwner, Early, Open, Goto, disk, local, hist

LEMMA ReadControls ==
  ASSUME Controls, FileOK, NEW s \in Session, ReadPrevious(s)
  PROVE  Controls'
<1>1. report' \in [Session -> [of : Args, hooks : Seq(Args)]]
  BY FoundTypes DEF Controls, ControlTypeOK, ReadPrevious
<1>2. \A t \in Session : t # s => report'[t] = report[t]
  BY DEF Controls, ControlTypeOK, ReadPrevious
<1>. QED
  BY <1>1, <1>2 DEF Controls, ControlTypeOK, ControlInv, OneOwner, Early, ReadPrevious, Goto,
     disk, local, hist

LEMMA TruncateControls ==
  ASSUME Controls, NEW s \in Session, Truncate(s)
  PROVE  Controls'
<1>1. UNCHANGED <<ending, next, report, installed, fate, began>>
  BY DEF Truncate, hist
<1>2. pc[s] = "truncate" /\ Goto(s, "start")
  BY DEF Truncate
<1>3. handle' = IF handle[s] = "none" THEN handle ELSE [handle EXCEPT ![s] = "end"]
  BY DEF Truncate
<1>. QED
  BY <1>1, <1>2, <1>3 DEF Controls, ControlTypeOK, ControlInv, OneOwner, Early, Goto

LEMMA WriteControls ==
  ASSUME Controls, NEW s \in Session,
         WriteStart(s) \/ NoteHook(s) \/ InitComplete(s) \/ WriteClean(s)
  PROVE  Controls'
<1>1. handle' = handle /\ ending' = IF handle[s] = "none" THEN ending ELSE ending \cup {s}
  BY DEF WriteStart, NoteHook, InitComplete, WriteClean, Put
<1>2. UNCHANGED <<report, installed, fate>>
  BY DEF WriteStart, NoteHook, InitComplete, WriteClean, hist
<1>3. CASE WriteStart(s)
  BY <1>1, <1>2, <1>3 DEF Controls, ControlTypeOK, ControlInv, OneOwner, Early, WriteStart, Goto
<1>4. CASE NoteHook(s)
  <2>1. next' \in [Session -> 1..(Len(Hooks) + 1)] /\ \A t \in Session : t # s => next'[t] = next[t]
    BY <1>4, HookTypes DEF Controls, ControlTypeOK, ControlInv, NoteHook
  <2>2. pc[s] = "note" /\ Goto(s, "install") /\ began' = began
    BY <1>4 DEF NoteHook, hist
  <2>. QED
    BY <1>1, <1>2, <2>1, <2>2 DEF Controls, ControlTypeOK, ControlInv, OneOwner, Early, Goto
<1>5. CASE InitComplete(s)
  BY <1>1, <1>2, <1>5 DEF Controls, ControlTypeOK, ControlInv, OneOwner, Early, InitComplete,
     Goto, hist
<1>6. CASE WriteClean(s)
  BY <1>1, <1>2, <1>6 DEF Controls, ControlTypeOK, ControlInv, OneOwner, Early, WriteClean, Goto,
     hist
<1>. QED BY <1>3, <1>4, <1>5, <1>6

LEMMA EndLineControls ==
  ASSUME Controls, NEW s \in Session, EndLine(s)
  PROVE  Controls'
  BY DEF Controls, ControlTypeOK, ControlInv, OneOwner, Early, EndLine, hist

LEMMA InstallControls ==
  ASSUME Controls, NEW s \in Session, InstallHook(s)
  PROVE  Controls'
<1>1. Hooks[next[s]] \in Args /\ next[s] + 1 \in 1..(Len(Hooks) + 1)
  BY HookTypes DEF Controls, ControlTypeOK, InstallHook
<1>2. installed' \in [Session -> Seq(Args)] /\ \A t \in Session : t # s => installed'[t] = installed[t]
  <2>1. Append(installed[s], Hooks[next[s]]) \in Seq(Args)
    BY <1>1 DEF Controls, ControlTypeOK
  <2>2. installed' = installed \/ installed' = [installed EXCEPT ![s] = Append(@, Hooks[next[s]])]
    BY DEF InstallHook
  <2>. QED BY <2>1, <2>2 DEF Controls, ControlTypeOK
<1>3. next' \in [Session -> 1..(Len(Hooks) + 1)] /\ \A t \in Session : t # s => next'[t] = next[t]
  BY <1>1 DEF Controls, ControlTypeOK, InstallHook
<1>4. pc[s] = "install" /\ s \notin ending /\ UNCHANGED <<handle, ending, report, fate, began>>
  BY DEF InstallHook
<1>5. pc' = pc \/ (Goto(s, "note") /\ next' = next /\ next[s] <= Len(Hooks))
  BY DEF InstallHook
<1>6. ControlTypeOK' /\ OneOwner'
  BY <1>2, <1>3, <1>4, <1>5 DEF Controls, ControlTypeOK, OneOwner, Early, Goto
<1>7. ASSUME NEW t \in Session PROVE ControlInv(t)'
  <2>1. CASE pc' = pc
    BY <1>2, <1>3, <1>4, <2>1 DEF Controls, ControlTypeOK, ControlInv, Early
  <2>2. CASE Goto(s, "note") /\ next' = next /\ next[s] <= Len(Hooks)
    BY <1>2, <1>4, <2>2 DEF Controls, ControlTypeOK, ControlInv, Early, Goto
  <2>. QED BY <1>5, <2>1, <2>2
<1>. QED
  BY <1>6, <1>7 DEF Controls

LEMMA AbortControls ==
  ASSUME Controls, NEW s \in Session, InitAborts(s)
  PROVE  Controls'
  BY DEF Controls, ControlTypeOK, ControlInv, OneOwner, Early, InitAborts, Goto, local, hist

LEMMA EndControls ==
  ASSUME Controls, NEW s \in Session, Exit(s) \/ Crash(s)
  PROVE  Controls'
<1>1. next' \in [Session -> 1..(Len(Hooks) + 1)] /\ \A t \in Session : t # s => next'[t] = next[t]
  <2>1. 1 \in 1..(Len(Hooks) + 1) /\ next' = [next EXCEPT ![s] = 1]
    BY HookTypes DEF Exit, Crash
  <2>. QED BY <2>1 DEF Controls, ControlTypeOK
<1>2. CASE Exit(s)
  BY <1>1, <1>2 DEF Controls, ControlTypeOK, ControlInv, OneOwner, Early, Exit, Goto, Running
<1>3. CASE Crash(s)
  BY <1>1, <1>3 DEF Controls, ControlTypeOK, ControlInv, OneOwner, Early, Crash, Goto, Running
<1>. QED BY <1>2, <1>3

LEMMA CloseControls ==
  ASSUME Controls, NEW s \in Session, Close(s)
  PROVE  Controls'
  BY DEF Controls, ControlTypeOK, ControlInv, OneOwner, Early, Close, Goto, hist

-----------------------------------------------------------------------------
(* The file. *)

LEMMA EndWrite ==
  ASSUME FileOK, ~torn, NEW l \in JournalLine, l.kind = "session_start" => lines = <<>>,
         lines' = Append(lines, l), torn' = TRUE
  PROVE  FileOK' /\ lines' # <<>> /\ Parse(lines') = ReadLine(Parse(lines), l)
<1>1. lines \in Seq(JournalLine) /\ \A i \in 2..Len(lines) : lines[i].kind # "session_start"
  BY DEF FileOK
<1>2. /\ lines' \in Seq(JournalLine) /\ lines' # <<>>
      /\ Len(lines') = Len(lines) + 1 /\ lines'[Len(lines) + 1] = l
      /\ \A i \in 1..Len(lines) : lines'[i] = lines[i]
  BY <1>1
<1>3. lines # <<>> <=> Len(lines) # 0
  BY <1>1
<1>4. ASSUME NEW i \in 2..Len(lines') PROVE lines'[i].kind # "session_start"
  <2>1. CASE i = Len(lines) + 1
    BY <1>1, <1>2, <1>3, <2>1
  <2>2. CASE i \in 2..Len(lines)
    BY <1>1, <1>2, <2>2
  <2>. QED BY <1>1, <1>2, <2>1, <2>2
<1>. QED
  BY <1>1, <1>2, <1>4, ParseAppend DEF FileOK

LEMMA GlueWrite ==
  ASSUME FileOK, torn, lines' = [lines EXCEPT ![Len(lines)].glued = TRUE], torn' = TRUE
  PROVE  FileOK' /\ lines' # <<>> /\ Parse(lines') = Parse(lines)
<1>1. /\ lines \in Seq(JournalLine) /\ lines # <<>>
      /\ \A i \in 2..Len(lines) : lines[i].kind # "session_start"
  BY DEF FileOK
<1>2. Len(lines) \in 1..Len(lines) /\ lines[Len(lines)] \in JournalLine
  BY <1>1
<1>3. [lines[Len(lines)] EXCEPT !.glued = TRUE] \in JournalLine
  BY <1>2 DEF JournalLine
<1>4. /\ lines' \in Seq(JournalLine) /\ Len(lines') = Len(lines) /\ lines' # <<>>
      /\ \A i \in 1..Len(lines) : lines'[i].kind = lines[i].kind
  BY <1>1, <1>2, <1>3 DEF JournalLine
<1>5. \A i \in 2..Len(lines') : lines'[i].kind # "session_start"
  BY <1>1, <1>4
<1>. QED
  BY <1>1, <1>4, <1>5, ParseGlued DEF FileOK

LEMMA FirstWrite ==
  ASSUME FileOK, lines # <<>>, NEW l \in JournalLine, l.kind = "session_clean",
         lines' = [lines EXCEPT ![1] = l], torn' \in BOOLEAN
  PROVE  FileOK' /\ lines' # <<>> /\ Parse(lines').clean
<1>1. lines \in Seq(JournalLine) /\ \A i \in 2..Len(lines) : lines[i].kind # "session_start"
  BY DEF FileOK
<1>2. /\ lines' \in Seq(JournalLine) /\ Len(lines') = Len(lines) /\ lines' # <<>>
      /\ \A i \in 2..Len(lines) : lines'[i] = lines[i]
  BY <1>1
<1>3. Parse(lines').clean
  BY <1>1, ParseReplaced
<1>. QED
  BY <1>1, <1>2, <1>3 DEF FileOK

LEMMA LineTypes ==
  ASSUME NEW kind \in Kinds, NEW arg \in Args
  PROVE  Line(kind, arg) \in JournalLine /\ Line(kind, arg).kind = kind /\ Line(kind, arg).arg = arg
  BY DEF Line, JournalLine

(* What each step does to the file and to what is read of it.              *)
Owns(s) == handle[s] # "none"

LEMMA StartWrites ==
  ASSUME Controls, FileOK, NEW s \in Session, OwnerInv(s), WriteStart(s)
  PROVE  /\ FileOK'
         /\ ~Owns(s) => lines' = lines
         /\ Owns(s) => lines' # <<>> /\ Parse(lines') = [of |-> s, hooks |-> <<>>, clean |-> FALSE]
<1> DEFINE l == Line("session_start", s)
<1>1. l \in JournalLine /\ l.kind = "session_start" /\ l.arg = s
  BY LineTypes DEF Kinds, Args
<1>2. CASE Owns(s)
  <2>1. handle[s] = "end" /\ lines = <<>> /\ ~torn
    BY <1>2 DEF Controls, ControlTypeOK, ControlInv, WriteStart, OwnerInv, FileOK, Owns
  <2>2. lines' = Append(lines, l) /\ torn' = TRUE
    BY <2>1 DEF WriteStart, Put
  <2> HIDE DEF l
  <2>3. FileOK' /\ lines' # <<>> /\ Parse(lines') = ReadLine(Parse(lines), l)
    BY <1>1, <2>1, <2>2, EndWrite
  <2>. QED BY <1>1, <1>2, <2>3 DEF ReadLine
<1>3. CASE ~Owns(s)
  BY <1>3 DEF WriteStart, Put, Owns, FileOK
<1>. QED BY <1>2, <1>3

LEMMA NoteWrites ==
  ASSUME Controls, FileOK, NEW s \in Session, OwnerInv(s), NoteHook(s)
  PROVE  /\ FileOK' /\ Hooks[next[s]] \in Args /\ next[s] \in 1..Len(Hooks)
         /\ ~Owns(s) => lines' = lines
         /\ Owns(s) => /\ lines' # <<>>
                       /\ Parse(lines') = [Parse(lines) EXCEPT !.hooks = Append(@, Hooks[next[s]])]
<1> DEFINE l == Line("hook_installed", Hooks[next[s]])
<1>1. next[s] \in 1..Len(Hooks) /\ Hooks[next[s]] \in Args
  BY HookTypes DEF Controls, ControlTypeOK, ControlInv, NoteHook
<1>2. l \in JournalLine /\ l.kind = "hook_installed" /\ l.arg = Hooks[next[s]]
  BY <1>1, LineTypes DEF Kinds
<1>3. CASE Owns(s)
  <2>1. handle[s] = "end" /\ ~torn
    BY <1>3 DEF Controls, ControlTypeOK, ControlInv, NoteHook, OwnerInv, FileOK, Owns
  <2>2. lines' = Append(lines, l) /\ torn' = TRUE
    BY <2>1 DEF NoteHook, Put
  <2> HIDE DEF l
  <2>3. FileOK' /\ lines' # <<>> /\ Parse(lines') = ReadLine(Parse(lines), l)
    BY <1>2, <2>1, <2>2, EndWrite
  <2>. QED BY <1>1, <1>2, <1>3, <2>3 DEF ReadLine
<1>4. CASE ~Owns(s)
  BY <1>1, <1>4 DEF NoteHook, Put, Owns, FileOK
<1>. QED BY <1>3, <1>4

LEMMA CompleteWrites ==
  ASSUME Controls, FileOK, NEW s \in Session, OwnerInv(s), InitComplete(s)
  PROVE  /\ FileOK'
         /\ ~Owns(s) => lines' = lines
         /\ Owns(s) => lines' # <<>> /\ Parse(lines') = Parse(lines)
<1> DEFINE l == Line("init_complete", 0)
<1>1. l \in JournalLine /\ l.kind = "init_complete"
  BY LineTypes DEF Kinds, Args
<1>2. CASE Owns(s)
  <2>1. handle[s] = "end" /\ ~torn
    BY <1>2 DEF Controls, ControlTypeOK, ControlInv, InitComplete, OwnerInv, FileOK, Owns
  <2>2. lines' = Append(lines, l) /\ torn' = TRUE
    BY <2>1 DEF InitComplete, Put
  <2> HIDE DEF l
  <2>3. FileOK' /\ lines' # <<>> /\ Parse(lines') = ReadLine(Parse(lines), l)
    BY <1>1, <2>1, <2>2, EndWrite
  <2>. QED BY <1>1, <1>2, <2>3 DEF ReadLine
<1>3. CASE ~Owns(s)
  BY <1>3 DEF InitComplete, Put, Owns, FileOK
<1>. QED BY <1>2, <1>3

LEMMA CleanWrites ==
  ASSUME Controls, FileOK, NEW s \in Session, WriteClean(s)
  PROVE  /\ FileOK'
         /\ ~Owns(s) => lines' = lines
         /\ Owns(s) => /\ lines' # <<>>
                       /\ \/ Parse(lines').clean
                          \/ handle[s] = "end" /\ torn /\ Parse(lines') = Parse(lines)
<1> DEFINE l == Line("session_clean", s)
<1>1. l \in JournalLine /\ l.kind = "session_clean"
  BY LineTypes DEF Kinds, Args
<1>2. CASE Owns(s) /\ handle[s] = "start" /\ lines # <<>>
  <2>1. lines' = [lines EXCEPT ![1] = l] /\ torn' \in BOOLEAN
    BY <1>2 DEF WriteClean, Put, FileOK, Owns
  <2> HIDE DEF l
  <2>. QED BY <1>1, <1>2, <2>1, FirstWrite
<1>3. CASE Owns(s) /\ (handle[s] = "end" \/ lines = <<>>) /\ torn
  <2>1. handle[s] = "end"
    BY <1>3 DEF FileOK
  <2>2. lines' = [lines EXCEPT ![Len(lines)].glued = TRUE] /\ torn' = TRUE
    BY <1>3, <2>1 DEF WriteClean, Put
  <2>. QED BY <1>3, <2>1, <2>2, GlueWrite
<1>4. CASE Owns(s) /\ (handle[s] = "end" \/ lines = <<>>) /\ ~torn
  <2>1. lines' = Append(lines, l) /\ torn' = TRUE
    <3>1. Len(<<>>) = 0
      OBVIOUS
    <3>. QED BY <1>4, <3>1 DEF WriteClean, Put, Owns
  <2> HIDE DEF l
  <2>2. FileOK' /\ lines' # <<>> /\ Parse(lines') = ReadLine(Parse(lines), l)
    BY <1>1, <1>4, <2>1, EndWrite
  <2>3. Parse(lines) \in JournalState
    BY ParseTypes DEF FileOK
  <2>. QED BY <1>1, <1>4, <2>2, <2>3 DEF ReadLine, JournalState
<1>5. CASE ~Owns(s)
  BY <1>5 DEF WriteClean, Put, Owns, FileOK
<1>. QED
  BY <1>2, <1>3, <1>4, <1>5 DEF Controls, ControlTypeOK, Owns

-----------------------------------------------------------------------------
(* Each step keeps the invariant. *)

LEMMA Unwritten ==
  ASSUME lines' = lines
  PROVE  (Silent' <=> Silent) /\ Found' = Found /\ Parse(lines)' = Parse(lines)
  BY DEF Silent, Found

(* A step of one session that leaves the file and its owner as they are    *)
(* keeps the invariant if it does so where that session is concerned.      *)
Elsewhere(s) ==
  /\ began' = began
  /\ \A t \in Session \ {s} :
       /\ pc'[t] = pc[t] /\ handle'[t] = handle[t] /\ next'[t] = next[t]
       /\ report'[t] = report[t] /\ installed'[t] = installed[t] /\ fate'[t] = fate[t]
       /\ t \in ending' <=> t \in ending

LEMMA QuietKeeps ==
  ASSUME JournalInv, Controls', FileOK', NEW s \in Session, Elsewhere(s),
         lines' = lines, torn' => torn, pc[s] # "gone",
         OwnerInv(s)',
         \A hooks : Tells(s) /\ Truth(s, hooks) => Truth(s, hooks)',
         pc'[s] = "truncate" /\ handle'[s] = "start" => report'[s] = Found,
         Claims(s)' => Claims(s) /\ report'[s] = report[s]
  PROVE  JournalInv'
<1>1. Controls /\ (Silent' <=> Silent) /\ Found' = Found /\ Parse(lines)' = Parse(lines)
  BY Unwritten DEF JournalInv, Controls
<1>2. ASSUME NEW t \in Session PROVE OwnerInv(t)'
  <2>1. ASSUME t # s PROVE OwnerInv(t)'
    BY <1>1, <2>1 DEF JournalInv, OwnerInv, Tells, Elsewhere
  <2>. QED BY <2>1
<1>3. TraceInv'
  <2> SUFFICES ASSUME ~Silent PROVE TraceInv'
    BY <1>1 DEF TraceInv
  <2>1. PICK t, hooks : t = Parse(lines).of /\ hooks = Parse(lines).hooks
    OBVIOUS
  <2>2. Truth(t, hooks) /\ t \in Session
    BY <1>1, <2>1 DEF JournalInv, TraceInv, Truth, Controls, ControlTypeOK
  <2>3. Truth(t, hooks)'
    <3>1. CASE t = s
      BY <2>1, <2>2, <3>1 DEF Tells
    <3>2. CASE t # s
      BY <2>2, <3>2 DEF Truth, Elsewhere
    <3>. QED BY <3>1, <3>2
  <2>. QED BY <1>1, <2>1, <2>3 DEF TraceInv
<1>4. ReadInv'
  BY <1>1 DEF JournalInv, ReadInv, Elsewhere
<1>5. ASSUME NEW t \in Session, Claims(t)' PROVE Claims(t) /\ report'[t] = report[t]
  BY <1>5 DEF Claims, Elsewhere
<1>6. ASSUME NEW t \in Session, t \in began, pc[t] = "gone" PROVE t \in began' /\ pc'[t] = "gone"
  BY <1>6 DEF Elsewhere
<1>7. ClaimInv'
  BY <1>1, <1>5, <1>6 DEF JournalInv, ClaimInv, Tells, Controls, ControlTypeOK
<1>. QED
  BY <1>1, <1>2, <1>3, <1>4, <1>7 DEF JournalInv, Controls

LEMMA StartKeeps ==
  ASSUME JournalInv, NEW s \in Session, Start(s)
  PROVE  JournalInv'
<1>1. Controls /\ Controls'
  BY StartControls DEF JournalInv, Controls
<1>2. Elsewhere(s) /\ lines' = lines /\ (torn' => torn) /\ FileOK'
  BY <1>1 DEF JournalInv, Elsewhere, FileOK, Controls, ControlTypeOK, Start, Goto, disk, local, hist
<1>3. OwnerInv(s)'
  BY <1>1, <1>2 DEF JournalInv, OwnerInv, Tells, Silent, FileOK, Controls, ControlTypeOK,
     ControlInv, Early, Start, Goto, disk, local, hist
<1>4. ASSUME NEW hooks, Tells(s), Truth(s, hooks) PROVE Truth(s, hooks)'
  BY <1>1, <1>4 DEF Truth, Controls, ControlTypeOK, ControlInv, Early, Start, Goto, disk, local,
     hist
<1>5. /\ pc'[s] = "truncate" /\ handle'[s] = "start" => report'[s] = Found
      /\ Claims(s)' => Claims(s) /\ report'[s] = report[s]
      /\ pc[s] # "gone"
  BY <1>1 DEF Claims, Controls, ControlTypeOK, ControlInv, Early, Start, Goto, disk, local, hist
<1>. QED
  BY <1>1, <1>2, <1>3, <1>4, <1>5, QuietKeeps

LEMMA OpenKeeps ==
  ASSUME JournalInv, NEW s \in Session, Open(s)
  PROVE  JournalInv'
<1>1. Controls /\ Controls'
  BY OpenControls DEF JournalInv, Controls
<1>2. Elsewhere(s) /\ lines' = lines /\ (torn' => torn) /\ FileOK'
  BY <1>1 DEF JournalInv, Elsewhere, FileOK, Controls, ControlTypeOK, Open, Goto, disk, local, hist
<1>3. OwnerInv(s)'
  BY <1>1, <1>2 DEF JournalInv, OwnerInv, Tells, Silent, FileOK, Controls, ControlTypeOK,
     ControlInv, Early, Open, Goto, disk, local, hist
<1>4. ASSUME NEW hooks, Tells(s), Truth(s, hooks) PROVE Truth(s, hooks)'
  BY <1>1, <1>4 DEF Truth, Controls, ControlTypeOK, ControlInv, Early, Open, Goto, disk, local, hist
<1>5. /\ pc'[s] = "truncate" /\ handle'[s] = "start" => report'[s] = Found
      /\ Claims(s)' => Claims(s) /\ report'[s] = report[s]
      /\ pc[s] # "gone"
  BY <1>1 DEF Claims, Controls, ControlTypeOK, ControlInv, Early, Open, Goto, disk, local, hist
<1>. QED
  BY <1>1, <1>2, <1>3, <1>4, <1>5, QuietKeeps

LEMMA ReadKeeps ==
  ASSUME JournalInv, NEW s \in Session, ReadPrevious(s)
  PROVE  JournalInv'
<1>1. Controls /\ Controls'
  BY ReadControls DEF JournalInv, Controls
<1>2. Elsewhere(s) /\ lines' = lines /\ (torn' => torn) /\ FileOK'
  BY <1>1 DEF JournalInv, Elsewhere, FileOK, Controls, ControlTypeOK, ReadPrevious, Goto, disk,
     local, hist
<1>3. OwnerInv(s)'
  BY <1>1, <1>2 DEF JournalInv, OwnerInv, Tells, Silent, FileOK, Controls, ControlTypeOK,
     ControlInv, Early, ReadPrevious, Goto, disk, local, hist
<1>4. ASSUME NEW hooks, Tells(s), Truth(s, hooks) PROVE Truth(s, hooks)'
  BY <1>1, <1>4 DEF Truth, Controls, ControlTypeOK, ControlInv, Early, ReadPrevious, Goto, disk,
     local, hist
<1>5. /\ report'[s] = Found
      /\ pc[s] # "gone"
      /\ ~(Claims(s)')
  BY <1>1 DEF Claims, Found, Controls, ControlTypeOK, ControlInv, Early, ReadPrevious, Goto,
     disk, local, hist
<1>. QED
  BY <1>1, <1>2, <1>3, <1>4, <1>5, QuietKeeps

LEMMA EndLineKeeps ==
  ASSUME JournalInv, NEW s \in Session, EndLine(s)
  PROVE  JournalInv'
<1>1. Controls /\ Controls'
  BY EndLineControls DEF JournalInv, Controls
<1>2. Elsewhere(s) /\ lines' = lines /\ (torn' => torn) /\ FileOK'
  BY <1>1 DEF JournalInv, Elsewhere, FileOK, Controls, ControlTypeOK, EndLine, disk, local, hist
<1>3. OwnerInv(s)'
  BY <1>1, <1>2 DEF JournalInv, OwnerInv, Tells, Silent, FileOK, Controls, ControlTypeOK,
     ControlInv, Early, EndLine, disk, local, hist
<1>4. ASSUME NEW hooks, Tells(s), Truth(s, hooks) PROVE Truth(s, hooks)'
  BY <1>1, <1>4 DEF Truth, Controls, ControlTypeOK, ControlInv, Early, EndLine, disk, local, hist
<1>5. /\ pc'[s] = "truncate" /\ handle'[s] = "start" => report'[s] = Found
      /\ Claims(s)' => Claims(s) /\ report'[s] = report[s]
      /\ pc[s] # "gone"
  BY <1>1, Unwritten DEF JournalInv, ReadInv, Claims, Controls, ControlTypeOK, ControlInv, Early,
     EndLine, disk, local, hist
<1>. QED
  BY <1>1, <1>2, <1>3, <1>4, <1>5, QuietKeeps

LEMMA InstallKeeps ==
  ASSUME JournalInv, NEW s \in Session, InstallHook(s)
  PROVE  JournalInv'
<1>1. Controls /\ Controls'
  BY InstallControls DEF JournalInv, Controls
<1>2. Elsewhere(s) /\ lines' = lines /\ (torn' => torn) /\ FileOK'
  BY <1>1 DEF JournalInv, Elsewhere, FileOK, Controls, ControlTypeOK, InstallHook, Goto, disk,
     local, hist
<1>6. /\ pc[s] = "install" /\ pc'[s] \in {"install", "note"}
      /\ UNCHANGED <<torn, handle, ending, report, fate, began>>
      /\ \/ installed'[s] = Append(installed[s], Hooks[next[s]]) /\ pc'[s] = "note" /\ next'[s] = next[s]
         \/ installed'[s] = installed[s] /\ pc'[s] = "install"
      /\ Hooks[next[s]] \in Args
  BY <1>1, HookTypes DEF Controls, ControlTypeOK, InstallHook, Goto, disk
<1>3. OwnerInv(s)'
  BY <1>2, <1>6, Unwritten DEF JournalInv, OwnerInv, Tells
<1>4. ASSUME NEW hooks, Tells(s), Truth(s, hooks) PROVE Truth(s, hooks)'
  BY <1>4, <1>6 DEF Truth
<1>5. /\ pc'[s] # "truncate" /\ pc[s] # "gone"
      /\ Claims(s)' => Claims(s) /\ report'[s] = report[s]
  BY <1>6 DEF Claims
<1>. QED
  BY <1>1, <1>2, <1>3, <1>4, <1>5, QuietKeeps

LEMMA AbortKeeps ==
  ASSUME JournalInv, NEW s \in Session, InitAborts(s)
  PROVE  JournalInv'
<1>1. Controls /\ Controls'
  BY AbortControls DEF JournalInv, Controls
<1>2. Elsewhere(s) /\ lines' = lines /\ (torn' => torn) /\ FileOK'
  BY <1>1 DEF JournalInv, Elsewhere, FileOK, Controls, ControlTypeOK, InitAborts, Goto, disk,
     local, hist
<1>3. OwnerInv(s)'
  BY <1>1, <1>2 DEF JournalInv, OwnerInv, Tells, Silent, FileOK, Controls, ControlTypeOK,
     ControlInv, Early, InitAborts, Goto, disk, local, hist
<1>4. ASSUME NEW hooks, Tells(s), Truth(s, hooks) PROVE Truth(s, hooks)'
  BY <1>1, <1>4 DEF Truth, Controls, ControlTypeOK, ControlInv, Early, InitAborts, Goto, disk,
     local, hist
<1>5. /\ pc'[s] = "truncate" /\ handle'[s] = "start" => report'[s] = Found
      /\ Claims(s)' => Claims(s) /\ report'[s] = report[s]
      /\ pc[s] # "gone"
  BY <1>1 DEF Claims, Controls, ControlTypeOK, ControlInv, Early, InitAborts, Goto, disk, local,
     hist
<1>. QED
  BY <1>1, <1>2, <1>3, <1>4, <1>5, QuietKeeps

LEMMA ExitKeeps ==
  ASSUME JournalInv, NEW s \in Session, Exit(s)
  PROVE  JournalInv'
<1>1. Controls /\ Controls'
  BY EndControls DEF JournalInv, Controls
<1>2. Elsewhere(s) /\ lines' = lines /\ (torn' => torn) /\ FileOK'
  BY <1>1 DEF JournalInv, Elsewhere, FileOK, Controls, ControlTypeOK, Exit, Running, Goto, disk,
     local, hist
<1>6. /\ pc[s] \in {"open", "read", "truncate", "start", "install", "note", "running"}
      /\ UNCHANGED <<torn, handle, report, installed>> /\ pc'[s] = "exit" /\ s \notin ending'
      /\ fate'[s] = IF s \in ending THEN "cut" ELSE "clean"
  BY <1>1 DEF Controls, ControlTypeOK, Early, Exit, Running, Goto, disk
<1>3. OwnerInv(s)'
  <2>1. ASSUME handle[s] = "end" PROVE (lines = <<>> \/ Tells(s)) /\ (torn => s \in ending)
    <3>1. pc[s] \in {"start", "install", "note", "running"}
      BY <1>1, <1>6, <2>1 DEF Controls, ControlInv
    <3>. QED BY <2>1, <3>1 DEF JournalInv, OwnerInv, FileOK
  <2>. QED BY <1>2, <1>6, <2>1, Unwritten DEF OwnerInv, Tells
<1>4. ASSUME NEW hooks, Tells(s), Truth(s, hooks) PROVE Truth(s, hooks)'
  BY <1>2, <1>4, <1>6 DEF Truth, Elsewhere
<1>5. /\ pc'[s] # "truncate" /\ pc[s] # "gone"
      /\ Claims(s)' => Claims(s) /\ report'[s] = report[s]
  BY <1>2, <1>6 DEF Claims, Elsewhere
<1>. QED
  BY <1>1, <1>2, <1>3, <1>4, <1>5, QuietKeeps

LEMMA CrashKeeps ==
  ASSUME JournalInv, NEW s \in Session, Crash(s)
  PROVE  JournalInv'
<1>1. Controls /\ Controls'
  BY EndControls DEF JournalInv, Controls
<1>2. Elsewhere(s) /\ lines' = lines /\ (torn' => torn) /\ FileOK'
  BY <1>1 DEF JournalInv, Elsewhere, FileOK, Controls, ControlTypeOK, Crash, Running, Goto, disk,
     local, hist
<1>6. pc[s] # "gone" /\ pc'[s] = "gone" /\ handle'[s] = "none" /\ UNCHANGED <<report, installed>>
      /\ fate'[s] = IF pc[s] = "close" THEN fate[s] ELSE "crashed"
  BY <1>1 DEF Controls, ControlTypeOK, Crash, Running, Goto, disk, local, hist
<1>3. OwnerInv(s)'
  BY <1>6 DEF OwnerInv
<1>4. ASSUME NEW hooks, Tells(s), Truth(s, hooks) PROVE Truth(s, hooks)'
  <2>1. handle[s] = "end"
    BY <1>1, <1>4, <1>6 DEF Truth, Controls, ControlInv
  <2>2. fate'[s] \in {"crashed", "cut"}
    BY <1>4, <1>6, <2>1 DEF JournalInv, OwnerInv, Tells
  <2>. QED BY <1>2, <1>4, <1>6, <2>2 DEF Truth, Elsewhere
<1>5. /\ pc'[s] # "truncate" /\ pc[s] # "gone"
      /\ Claims(s)' => Claims(s) /\ report'[s] = report[s]
  BY <1>2, <1>6 DEF Claims, Elsewhere
<1>. QED
  BY <1>1, <1>2, <1>3, <1>4, <1>5, QuietKeeps

LEMMA CloseKeeps ==
  ASSUME JournalInv, NEW s \in Session, Close(s)
  PROVE  JournalInv'
<1>1. Controls /\ Controls'
  BY CloseControls DEF JournalInv, Controls
<1>2. Elsewhere(s) /\ lines' = lines /\ (torn' => torn) /\ FileOK'
  BY <1>1 DEF JournalInv, Elsewhere, FileOK, Controls, ControlTypeOK, Close, Goto, disk, local, hist
<1>6. pc[s] # "gone" /\ pc'[s] = "gone" /\ handle'[s] = "none" /\ UNCHANGED <<report, installed>>
      /\ fate'[s] = fate[s]
  BY <1>1 DEF Controls, ControlTypeOK, Close, Goto, disk, local, hist
<1>3. OwnerInv(s)'
  BY <1>6 DEF OwnerInv
<1>4. ASSUME NEW hooks, Tells(s), Truth(s, hooks) PROVE Truth(s, hooks)'
  <2>1. handle[s] = "end"
    BY <1>1, <1>4, <1>6 DEF Truth, Controls, ControlInv
  <2>2. fate'[s] \in {"crashed", "cut"}
    BY <1>4, <1>6, <2>1 DEF JournalInv, OwnerInv, Tells, Close
  <2>. QED BY <1>2, <1>4, <1>6, <2>2 DEF Truth, Elsewhere
<1>5. /\ pc'[s] # "truncate" /\ pc[s] # "gone"
      /\ Claims(s)' => Claims(s) /\ report'[s] = report[s]
  BY <1>2, <1>6 DEF Claims, Elsewhere
<1>. QED
  BY <1>1, <1>2, <1>3, <1>4, <1>5, QuietKeeps

Writes(s) == WriteStart(s) \/ NoteHook(s) \/ InitComplete(s) \/ WriteClean(s)

(* A session without a handle leaves the file alone. *)
LEMMA UnownedKeeps ==
  ASSUME JournalInv, NEW s \in Session, Truncate(s) \/ Writes(s), ~Owns(s)
  PROVE  JournalInv'
<1> USE DEF Owns
<1>1. Controls /\ Controls'
  BY TruncateControls, WriteControls DEF JournalInv, Controls, Writes
<1>2. UNCHANGED <<lines, torn, handle, ending, report, installed, fate, began>>
  BY DEF Truncate, Writes, WriteStart, NoteHook, InitComplete, WriteClean, Put, disk, local, hist
<1>3. pc[s] # "gone" /\ pc'[s] \notin {"gone", "truncate"} /\ s \notin began
      /\ \A t \in Session : t # s => pc'[t] = pc[t] /\ next'[t] = next[t]
  BY <1>1 DEF Controls, ControlTypeOK, ControlInv, Truncate, Writes, WriteStart, NoteHook,
     InitComplete,
     WriteClean, Goto, local
<1>4. (Silent' <=> Silent) /\ Found' = Found /\ Parse(lines)' = Parse(lines) /\ FileOK'
  BY <1>2, Unwritten DEF JournalInv, FileOK
<1>5. ASSUME NEW t \in Session PROVE OwnerInv(t)'
  BY <1>2, <1>3, <1>4 DEF JournalInv, OwnerInv, Tells
<1>6. TraceInv'
  <2> SUFFICES ASSUME ~Silent PROVE TraceInv'
    BY <1>4 DEF TraceInv
  <2>1. PICK t, hooks : t = Parse(lines).of /\ hooks = Parse(lines).hooks
    OBVIOUS
  <2>2. Truth(t, hooks) /\ t \in Session
    BY <1>1, <2>1 DEF JournalInv, TraceInv, Truth, Controls, ControlTypeOK
  <2>3. Truth(t, hooks)'
    BY <1>2, <1>3, <2>2 DEF Truth
  <2>. QED BY <1>4, <2>1, <2>3 DEF TraceInv
<1>7. ReadInv'
  BY <1>2, <1>3, <1>4 DEF JournalInv, ReadInv
<1>8. ClaimInv'
  BY <1>1, <1>2, <1>3, <1>4 DEF JournalInv, ClaimInv, Claims, Tells, Controls, ControlTypeOK
<1>. QED
  BY <1>1, <1>4, <1>5, <1>6, <1>7, <1>8 DEF JournalInv, Controls

LEMMA OthersHaveNone ==
  ASSUME Controls, NEW s \in Session, Owns(s), NEW t \in Session, t # s
  PROVE  handle[t] = "none" /\ (t \in began => pc[t] = "gone")
<1>1. handle[t] = "none"
  BY DEF Controls, OneOwner, Owns
<1>. QED
  BY <1>1 DEF Controls, ControlInv

(* Only what was read is truncated, and the report of it is the only one.  *)
LEMMA TruncateKeeps ==
  ASSUME JournalInv, NEW s \in Session, Truncate(s), Owns(s)
  PROVE  JournalInv'
<1>1. Controls /\ Controls'
  BY TruncateControls DEF JournalInv, Controls
<1>2. lines' = <<>> /\ torn' = FALSE /\ pc' = [pc EXCEPT ![s] = "start"]
      /\ handle' = [handle EXCEPT ![s] = "end"]
      /\ UNCHANGED <<ending, next, report, installed, fate, began>>
  BY DEF Truncate, Owns, Goto, hist
<1>3. FileOK'
  <2>1. <<>> \in Seq(JournalLine) /\ 2..Len(<<>>) = {}
    OBVIOUS
  <2>. QED BY <1>2, <2>1 DEF FileOK
<1>4. handle[s] = "start" /\ pc[s] = "truncate" /\ s \notin began
      /\ pc'[s] = "start" /\ handle'[s] = "end"
      /\ \A t \in Session : t # s => pc'[t] = pc[t] /\ handle'[t] = handle[t] /\ handle[t] = "none"
  BY <1>1, <1>2, OthersHaveNone DEF Controls, ControlTypeOK, ControlInv, Early, Owns, Truncate
<1>5. ASSUME NEW t \in Session PROVE OwnerInv(t)'
  BY <1>2, <1>4 DEF OwnerInv
<1>6. Silent' /\ TraceInv'
  BY <1>2 DEF Silent, TraceInv
<1>7. ReadInv'
  BY <1>4 DEF ReadInv
<1>8. ASSUME report[s] # Clean
      PROVE  Tells(report[s].of) /\ report[s].of \in began /\ pc[report[s].of] = "gone"
  <2>1. report[s] = Found
    BY <1>4 DEF JournalInv, ReadInv
  <2>2. ~Silent /\ report[s].of = Parse(lines).of
    BY <1>8, <2>1 DEF Found, Outcome, Silent, Clean
  <2>3. report[s].of \in began
    BY <2>2 DEF JournalInv, TraceInv, Truth
  <2>4. pc[report[s].of] = "gone"
    BY <1>1, <1>4, <2>3, OthersHaveNone DEF Controls, ControlTypeOK
  <2>. QED BY <2>2, <2>3, <2>4 DEF Tells
<1>9. ASSUME NEW t \in Session, Claims(t)', t # s
      PROVE  /\ report[t].of \in began /\ pc[report[t].of] = "gone" /\ ~Tells(report[t].of)
             /\ \A u \in Session : Claims(u) /\ u # t => report[u].of # report[t].of
             /\ Claims(t)
  BY <1>2, <1>4, <1>9 DEF JournalInv, ClaimInv, Claims
<1>10. ClaimInv'
  <2> SUFFICES ASSUME NEW t \in Session, Claims(t)'
               PROVE  /\ report[t].of \in began
                      /\ pc'[report[t].of] = "gone"
                      /\ \A u \in Session : Claims(u)' /\ u # t => report[u].of # report[t].of
    BY <1>2, <1>6 DEF ClaimInv, Tells
  <2>1. report[t] # Clean
    BY <1>2 DEF Claims
  <2>2. report[t].of \in began /\ pc[report[t].of] = "gone"
    BY <1>8, <1>9, <2>1
  <2>3. pc'[report[t].of] = "gone"
    BY <1>1, <1>4, <2>2 DEF Controls, ControlTypeOK
  <2>4. ASSUME NEW u \in Session, Claims(u)', u # t PROVE report[u].of # report[t].of
    <3>1. report[u] # Clean
      BY <1>2, <2>4 DEF Claims
    <3>2. CASE t = s
      BY <1>8, <1>9, <2>1, <2>4, <3>2
    <3>3. CASE u = s
      BY <1>8, <1>9, <2>4, <3>1, <3>3
    <3>4. CASE t # s /\ u # s
      BY <1>9, <2>4, <3>4
    <3>. QED BY <3>2, <3>3, <3>4
  <2>. QED BY <2>2, <2>3, <2>4
<1>. QED
  BY <1>1, <1>3, <1>5, <1>6, <1>7, <1>10 DEF JournalInv, Controls

(* What a session with a handle writes concerns itself only. *)
LEMMA WriteFrame ==
  ASSUME JournalInv, NEW s \in Session, Writes(s), Owns(s)
  PROVE  /\ Controls /\ Controls'
         /\ UNCHANGED <<handle, report, installed, fate>>
         /\ began' \in {began, began \cup {s}}
         /\ ending' = ending \cup {s} /\ handle[s] # "none"
         /\ pc[s] # "gone" /\ pc'[s] \notin {"gone", "truncate"}
         /\ \A t \in Session : t # s => pc'[t] = pc[t] /\ next'[t] = next[t] /\ handle[t] = "none"
<1>1. Controls /\ Controls'
  BY WriteControls DEF JournalInv, Controls, Writes
<1>2. /\ UNCHANGED <<handle, report, installed, fate>>
      /\ began' \in {began, began \cup {s}}
      /\ ending' = ending \cup {s}
  BY DEF Writes, WriteStart, NoteHook, InitComplete, WriteClean, Put, local, hist, Owns
<1>3. pc[s] # "gone" /\ pc'[s] \notin {"gone", "truncate"}
      /\ \A t \in Session : t # s => pc'[t] = pc[t] /\ next'[t] = next[t]
  BY <1>1 DEF Controls, ControlTypeOK, Writes, WriteStart, NoteHook, InitComplete, WriteClean, Goto
<1>. QED
  BY <1>1, <1>2, <1>3, OthersHaveNone DEF Owns

(* Hence the invariant is kept when the file still says nothing or tells   *)
(* of the writer, and the writer is where it should be.                    *)
LEMMA WriteKeeps ==
  ASSUME JournalInv, NEW s \in Session, Writes(s), Owns(s), FileOK', OwnerInv(s)',
         Silent' \/ (Parse(lines').of = s /\ Truth(s, Parse(lines).hooks)')
  PROVE  JournalInv'
<1>1. /\ Controls /\ Controls'
      /\ UNCHANGED <<handle, report, installed, fate>>
      /\ began' \in {began, began \cup {s}}
      /\ handle[s] # "none"
      /\ pc[s] # "gone" /\ pc'[s] \notin {"gone", "truncate"}
      /\ \A t \in Session : t # s => pc'[t] = pc[t] /\ next'[t] = next[t] /\ handle[t] = "none"
  BY WriteFrame
<1>2. ASSUME NEW t \in Session PROVE OwnerInv(t)'
  BY <1>1 DEF OwnerInv
<1>3. TraceInv'
  BY SMT DEF TraceInv, Truth
<1>4. ReadInv'
  BY <1>1 DEF ReadInv
<1>5. ASSUME NEW t \in Session, Claims(t)' PROVE Claims(t)
  <2>1. t \in began' => t \in began \/ handle[t] = "end"
    BY <1>1 DEF Controls, ControlTypeOK, ControlInv
  <2>. QED BY <1>1, <1>5, <2>1 DEF Claims
<1>6. ClaimInv'
  <2> SUFFICES ASSUME NEW t \in Session, Claims(t)'
               PROVE  /\ report[t].of \in began'
                      /\ pc'[report[t].of] = "gone"
                      /\ Silent' \/ Parse(lines').of # report[t].of
                      /\ \A u \in Session : Claims(u)' /\ u # t => report[u].of # report[t].of
    BY <1>1 DEF ClaimInv, Tells
  <2>1. /\ report[t].of \in began /\ pc[report[t].of] = "gone"
        /\ \A u \in Session : Claims(u) /\ u # t => report[u].of # report[t].of
    BY <1>5 DEF JournalInv, ClaimInv
  <2>2. report[t].of \in Session /\ report[t].of # s
    BY <1>1, <2>1 DEF Controls, ControlTypeOK
  <2>. QED BY <1>1, <1>5, <2>1, <2>2
<1>. QED
  BY <1>1, <1>2, <1>3, <1>4, <1>6 DEF JournalInv, Controls

LEMMA WriteStartKeeps ==
  ASSUME JournalInv, NEW s \in Session, WriteStart(s), Owns(s)
  PROVE  JournalInv'
<1>1. Controls /\ OwnerInv(s) /\ FileOK /\ Writes(s)
  BY DEF JournalInv, Controls, Writes
<1>2. FileOK' /\ lines' # <<>> /\ Parse(lines') = [of |-> s, hooks |-> <<>>, clean |-> FALSE]
  BY <1>1, StartWrites
<1>3. ending' = ending \cup {s} /\ UNCHANGED installed
  BY <1>1, WriteFrame
<1>4. pc'[s] = "install" /\ s \in began' /\ installed[s] = <<>>
  BY <1>1 DEF Controls, ControlTypeOK, ControlInv, Early, WriteStart, Goto, Owns
<1>5. OwnerInv(s)'
  BY <1>2, <1>3, <1>4 DEF OwnerInv, Tells, Silent
<1>6. Truth(s, Parse(lines).hooks)'
  BY <1>2, <1>3, <1>4 DEF Truth
<1>. QED
  BY <1>1, <1>2, <1>5, <1>6, WriteKeeps

LEMMA NoteKeeps ==
  ASSUME JournalInv, NEW s \in Session, NoteHook(s), Owns(s)
  PROVE  JournalInv'
<1>1. Controls /\ OwnerInv(s) /\ FileOK /\ Writes(s)
  BY DEF JournalInv, Controls, Writes
<1>2. /\ FileOK' /\ lines' # <<>>
      /\ Parse(lines') = [Parse(lines) EXCEPT !.hooks = Append(@, Hooks[next[s]])]
  BY <1>1, NoteWrites
<1>3. ending' = ending \cup {s} /\ UNCHANGED <<installed, began>>
  BY <1>1, WriteFrame DEF NoteHook, hist
<1>4. pc[s] = "note" /\ pc'[s] = "install" /\ handle[s] = "end"
  BY <1>1 DEF Controls, ControlTypeOK, ControlInv, NoteHook, Goto, Owns
<1>5. Tells(s)
  BY <1>1, <1>4 DEF OwnerInv
<1>6. Parse(lines) \in JournalState
  BY <1>1, ParseTypes DEF FileOK
<1>7. Parse(lines').of = s /\ Parse(lines').hooks = installed[s] /\ ~Parse(lines').clean /\ s \in began
  <2>1. s \in began /\ installed[s] = Append(Parse(lines).hooks, Hooks[next[s]])
    BY <1>4, <1>5 DEF JournalInv, TraceInv, Truth, Tells
  <2>. QED BY <1>2, <1>5, <1>6, <2>1 DEF Tells, Silent, JournalState
<1>8. OwnerInv(s)'
  BY <1>2, <1>3, <1>4, <1>7 DEF OwnerInv, Tells, Silent
<1>9. Truth(s, Parse(lines).hooks)'
  BY <1>3, <1>4, <1>7 DEF Truth
<1>. QED
  BY <1>1, <1>2, <1>7, <1>8, <1>9, WriteKeeps

LEMMA CompleteKeeps ==
  ASSUME JournalInv, NEW s \in Session, InitComplete(s), Owns(s)
  PROVE  JournalInv'
<1>1. Controls /\ OwnerInv(s) /\ FileOK /\ Writes(s)
  BY DEF JournalInv, Controls, Writes
<1>2. FileOK' /\ lines' # <<>> /\ Parse(lines') = Parse(lines)
  BY <1>1, CompleteWrites
<1>3. ending' = ending \cup {s} /\ UNCHANGED <<installed, began>>
  BY <1>1, WriteFrame DEF InitComplete, hist
<1>4. pc[s] = "install" /\ pc'[s] = "running" /\ handle[s] = "end"
  BY <1>1 DEF Controls, ControlTypeOK, ControlInv, InitComplete, Goto, Owns
<1>5. Tells(s)
  BY <1>1, <1>4 DEF OwnerInv
<1>6. Truth(s, Parse(lines).hooks)
  BY <1>5 DEF JournalInv, TraceInv, Tells
<1>7. Truth(s, Parse(lines).hooks)'
  BY <1>2, <1>3, <1>4, <1>6 DEF Truth
<1>8. OwnerInv(s)'
  BY <1>2, <1>3, <1>4, <1>5 DEF OwnerInv, Tells, Silent
<1>. QED
  BY <1>1, <1>2, <1>5, <1>7, <1>8, WriteKeeps DEF Tells

LEMMA CleanKeeps ==
  ASSUME JournalInv, NEW s \in Session, WriteClean(s), Owns(s)
  PROVE  JournalInv'
<1>1. Controls /\ OwnerInv(s) /\ FileOK /\ Writes(s)
  BY DEF JournalInv, Controls, Writes
<1>2. /\ FileOK' /\ lines' # <<>>
      /\ \/ Parse(lines').clean
         \/ handle[s] = "end" /\ torn /\ Parse(lines') = Parse(lines)
  BY <1>1, CleanWrites
<1>3. UNCHANGED <<installed, began, handle, fate>>
  BY <1>1, WriteFrame DEF WriteClean, hist
<1>4. pc[s] = "exit" /\ pc'[s] = "close"
  BY <1>1 DEF Controls, ControlTypeOK, WriteClean, Goto
<1>5. CASE Parse(lines').clean
  <2>1. Silent'
    BY <1>5 DEF Silent
  <2>2. OwnerInv(s)'
    BY <1>4, <2>1 DEF OwnerInv
  <2>. QED BY <1>1, <1>2, <2>1, <2>2, WriteKeeps
<1>6. CASE handle[s] = "end" /\ torn /\ Parse(lines') = Parse(lines)
  <2>1. Tells(s) /\ fate[s] = "cut"
    BY <1>1, <1>4, <1>6 DEF OwnerInv, FileOK
  <2>2. Truth(s, Parse(lines).hooks)
    BY <2>1 DEF JournalInv, TraceInv, Tells
  <2>3. Truth(s, Parse(lines).hooks)'
    BY <1>3, <1>4, <1>6, <2>2 DEF Truth
  <2>4. OwnerInv(s)'
    BY <1>2, <1>3, <1>4, <1>6, <2>1 DEF OwnerInv, Tells, Silent
  <2>. QED BY <1>1, <1>2, <1>6, <2>1, <2>3, <2>4, WriteKeeps DEF Tells
<1>. QED BY <1>2, <1>5, <1>6

(* The invariant is inductive. *)
THEOREM JournalInductive == Spec => []JournalInv
<1>1. Init => JournalInv
  <2> SUFFICES ASSUME Init PROVE JournalInv
    OBVIOUS
  <2>1. /\ <<>> \in Seq(JournalLine) /\ <<>> \in Seq(Args) /\ 2..Len(<<>>) = {} /\ 0 \in Args
        /\ 1 \in 1..(Len(Hooks) + 1)
    BY HookTypes DEF Args
  <2>2. FileOK
    BY <2>1 DEF Init, FileOK
  <2>3. ControlTypeOK
    BY <2>1 DEF Init, ControlTypeOK, Early, Clean, Nobody
  <2>4. \A s \in Session : ControlInv(s)
    BY DEF Init, ControlInv, Early
  <2>5. OneOwner /\ (\A s \in Session : OwnerInv(s)) /\ TraceInv /\ ReadInv /\ ClaimInv
    BY DEF Init, OneOwner, OwnerInv, TraceInv, Silent, ReadInv, ClaimInv, Claims
  <2>. QED BY <2>2, <2>3, <2>4, <2>5 DEF JournalInv
<1>2. JournalInv /\ [Next]_vars => JournalInv'
  <2> SUFFICES ASSUME JournalInv, [Next]_vars PROVE JournalInv'
    OBVIOUS
  <2>1. CASE UNCHANGED vars
    BY <2>1 DEF JournalInv, FileOK, ControlTypeOK, ControlInv, OneOwner, OwnerInv, Tells, Silent,
       TraceInv,
       Truth, ReadInv, Found, ClaimInv, Claims, vars, disk, local, hist
  <2>2. ASSUME NEW s \in Session, Truncate(s) \/ Writes(s) PROVE JournalInv'
    BY <2>2, UnownedKeeps, TruncateKeeps, WriteStartKeeps, NoteKeeps, CompleteKeeps,
       CleanKeeps DEF Writes
  <2>3. ASSUME NEW s \in Session, Start(s) \/ Open(s) \/ ReadPrevious(s) \/ EndLine(s) PROVE JournalInv'
    BY <2>3, StartKeeps, OpenKeeps, ReadKeeps, EndLineKeeps
  <2>4. ASSUME NEW s \in Session, InstallHook(s) \/ InitAborts(s) \/ Exit(s) \/ Close(s) \/ Crash(s)
        PROVE  JournalInv'
    BY <2>4, InstallKeeps, AbortKeeps, ExitKeeps, CloseKeeps, CrashKeeps
  <2>. QED BY <2>1, <2>2, <2>3, <2>4 DEF Next, Writes
<1>. QED
  BY <1>1, <1>2, PTL DEF Spec

-----------------------------------------------------------------------------
(* What follows from it. *)

(* A crash is reported again only when the sessions that reported it       *)
(* before never wrote a journal of their own.                              *)
THEOREM CrashesReportedOnce == Spec => []ReportedOnce
<1>1. JournalInv => ReportedOnce
  BY DEF JournalInv, ClaimInv, Claims, ReportedOnce, ControlTypeOK
<1>. QED
  BY <1>1, JournalInductive, PTL

(* What the warning at a start says of the session it names is so.         *)
THEOREM ReportsAreTrue == Spec => ReportIsTrue
<1> DEFINE Claimed(s) ==
      Reporting(s) =>
        LET r == report'[s] IN
        /\ r.of \in Session \ {s}
        /\ IsPrefix(r.hooks, installed[r.of])
        /\ Len(installed[r.of]) <= Len(r.hooks) + 1
        /\ r.of \in Running \/ fate[r.of] \in {"crashed", "cut"}
<1>1. ASSUME JournalInv, [Next]_vars, NEW s \in Session, Reporting(s)
      PROVE  Claimed(s)
  <2>1. Controls
    BY <1>1 DEF JournalInv, Controls
  <2>2. ReadPrevious(s)
    BY <1>1, <2>1 DEF Reporting, Next, vars, Controls, ControlTypeOK, Start, Open, ReadPrevious,
       Truncate,
       WriteStart, EndLine, InstallHook, NoteHook, InitComplete, InitAborts, Exit, WriteClean, Close, Crash,
       Goto
  <2>3. report'[s] = Found /\ Found # Clean
    BY <1>1, <2>1, <2>2 DEF Reporting, ReadPrevious, Found, Controls, ControlTypeOK
  <2>4. PICK t, hooks : t = Parse(lines).of /\ hooks = Parse(lines).hooks
    OBVIOUS
  <2>5. ~Silent /\ report'[s].of = t /\ report'[s].hooks = hooks
    BY <2>3, <2>4 DEF Found, Outcome, Silent, Clean
  <2>6. Truth(t, hooks) /\ hooks \in Seq(Args)
    BY <1>1, <2>4, <2>5, ParseTypes DEF JournalInv, TraceInv, FileOK, JournalState
  <2>7. t \in Session /\ t # s /\ pc[t] \notin Early
    BY <1>1, <2>1, <2>6 DEF Truth, Reporting, Controls, ControlTypeOK, ControlInv, Early
  <2>8. installed[t] \in Seq(Args)
    BY <2>1, <2>7 DEF Controls, ControlTypeOK
  <2>9. IsPrefix(hooks, installed[t]) /\ Len(installed[t]) <= Len(hooks) + 1
    <3>1. CASE hooks = installed[t]
      BY <2>8, <3>1 DEF IsPrefix
    <3>2. ASSUME NEW h \in Args, installed[t] = Append(hooks, h)
          PROVE  IsPrefix(hooks, installed[t]) /\ Len(installed[t]) <= Len(hooks) + 1
      <4>1. Len(Append(hooks, h)) = Len(hooks) + 1 /\ Len(hooks) \in Nat
        BY <2>6
      <4>2. SubSeq(hooks, 1, Len(hooks)) = SubSeq(Append(hooks, h), 1, Len(hooks))
        BY <2>6
      <4>. QED BY <3>2, <4>1, <4>2 DEF IsPrefix
    <3>. QED BY <2>6, <3>1, <3>2 DEF Truth
  <2>10. t \in Running \/ fate[t] \in {"crashed", "cut"}
    BY <2>6, <2>7 DEF Truth, Running, Early
  <2>. QED BY <2>5, <2>7, <2>9, <2>10
<1>2. JournalInv /\ [Next]_vars => [\A s \in Session : Claimed(s)]_vars
  BY <1>1
<1>. QED
  BY <1>2, JournalInductive, PTL DEF Spec, ReportIsTrue

(* The file is written by the session that owns it, in its own steps.      *)
LEMMA WritersOwn ==
  ASSUME [Next]_vars, lines' # lines
  PROVE  \E s \in Session : Owns(s) /\ (Truncate(s) \/ Writes(s))
<1>1. ASSUME NEW s \in Session, Truncate(s) \/ Writes(s), ~Owns(s) PROVE lines' = lines
  BY <1>1 DEF Truncate, Writes, WriteStart, NoteHook, InitComplete, WriteClean, Put, Owns, disk
<1>2. ASSUME NEW s \in Session,
             \/ Start(s) \/ Open(s) \/ ReadPrevious(s) \/ EndLine(s) \/ InstallHook(s)
             \/ InitAborts(s) \/ Exit(s) \/ Close(s) \/ Crash(s)
      PROVE  lines' = lines
  BY <1>2 DEF Start, Open, ReadPrevious, EndLine, InstallHook, InitAborts, Exit, Close, Crash, disk
<1>3. UNCHANGED vars => lines' = lines
  BY DEF vars, disk
<1>4. PICK s \in Session : Truncate(s) \/ Writes(s)
  BY <1>2, <1>3 DEF Next, Writes
<1>. QED
  BY <1>1, <1>4

(* No session destroys the trace of a crash that it has not reported,      *)
(* unless it exits before it has read at all.                              *)
THEOREM CrashesNotForgotten == Spec => NothingForgotten
<1> DEFINE trace == Outcome(lines)
           Excused(s) == \/ pc[s] = "truncate" /\ report[s] = trace
                         \/ pc[s] = "exit" /\ (report[s] = trace \/ s \notin began)
<1>1. ASSUME JournalInv, [Next]_vars, trace.hooks # <<>>, fate[trace.of] = "crashed", lines' # lines
      PROVE  \E s \in Session : Excused(s)
  <2>1. Controls
    BY <1>1 DEF JournalInv, Controls
  <2>2. PICK t : t = Parse(lines).of
    OBVIOUS
  <2>3. ~Silent /\ trace.of = t
    BY <1>1, <2>2 DEF Outcome, Silent, Clean
  <2>4. t \in began /\ pc[t] = "gone"
    BY <1>1, <2>1, <2>2, <2>3 DEF JournalInv, TraceInv, Truth, Controls, ControlTypeOK, ControlInv
  <2>5. PICK s \in Session : Owns(s) /\ (Truncate(s) \/ Writes(s))
    BY <1>1, WritersOwn
  <2>6. CASE Truncate(s)
    <3>1. pc[s] = "truncate" /\ handle[s] = "start"
      BY <2>1, <2>5, <2>6 DEF Controls, ControlTypeOK, ControlInv, Truncate, Owns
    <3>2. report[s] = Found
      BY <1>1, <3>1 DEF JournalInv, ReadInv
    <3>3. Found = trace
      BY <1>1 DEF Found
    <3>. QED BY <3>1, <3>2, <3>3
  <2>7. CASE Writes(s)
    <3>1. ~Tells(s)
      <4>1. pc[s] # "gone"
        BY <2>7 DEF Writes, WriteStart, NoteHook, InitComplete, WriteClean
      <4>. QED BY <2>2, <2>4, <4>1 DEF Tells
    <3>2. lines # <<>> /\ OwnerInv(s)
      BY <1>1, <2>3 DEF Silent, JournalInv
    <3>3. handle[s] # "end"
      BY <2>7, <3>1, <3>2 DEF Writes, WriteStart, NoteHook, InitComplete, WriteClean, OwnerInv
    <3>4. handle[s] = "start"
      BY <2>1, <2>5, <3>3 DEF Controls, ControlTypeOK, Owns
    <3>5. pc[s] = "exit" /\ s \notin began
      BY <2>1, <2>7, <3>4 DEF Controls, ControlInv, Writes, WriteStart, NoteHook, InitComplete,
         WriteClean
    <3>. QED BY <3>5
  <2>. QED BY <2>5, <2>6, <2>7
<1>2. JournalInv /\ [Next]_vars =>
        [/\ trace.hooks # <<>>
         /\ fate[trace.of] = "crashed"
         /\ Outcome(lines') # trace
         => \E s \in Session : Excused(s)]_vars
  <2>1. Outcome(lines') # trace => lines' # lines
    OBVIOUS
  <2>. QED
    <3> HIDE DEF Excused, trace
    <3>. QED BY <1>1, <2>1
<1>. QED
  BY <1>2, JournalInductive, PTL DEF Spec, NothingForgotten

-----------------------------------------------------------------------------
(* The journal implements SessionRecord: each step is one of its steps or  *)
(* none.                                                                   *)

CellStep == Cell!Next \/ (Outcome(lines') = Outcome(lines) /\ report' = report)

LEMMA ReadIsRead ==
  ASSUME JournalInv, NEW s \in Session, ReadPrevious(s)
  PROVE  CellStep
<1>1. Controls
  BY DEF JournalInv, Controls
<1>2. report' = [report EXCEPT ![s] = Found] /\ lines' = lines /\ report[s] = Clean /\ s \notin began
  BY <1>1 DEF ReadPrevious, Found, disk, Controls, ControlInv, Early
<1>3. CASE Outcome(lines).hooks = <<>>
  BY <1>1, <1>2, <1>3 DEF Found, CellStep, Controls, ControlTypeOK
<1>4. CASE Outcome(lines).hooks # <<>>
  <2>1. ~Silent /\ Outcome(lines).of = Parse(lines).of
    BY <1>4 DEF Outcome, Silent, Clean
  <2>2. Outcome(lines).of # s
    BY <1>2, <2>1 DEF JournalInv, TraceInv, Truth
  <2>3. Cell!Read(s)
    BY <1>2, <1>4, <2>2 DEF Found, Cell!Read, Cell!Reportable, Cell!Clean, Clean
  <2>. QED BY <2>3 DEF CellStep, Cell!Next
<1>. QED BY <1>3, <1>4

LEMMA ClearIsClear ==
  ASSUME Outcome(lines') = Clean, report' = report
  PROVE  CellStep
  BY DEF CellStep, Cell!Next, Cell!Clear, Cell!Clean, Clean

LEMMA WriteStartIsBegin ==
  ASSUME JournalInv, NEW s \in Session, WriteStart(s), Owns(s)
  PROVE  CellStep
<1>1. Controls /\ OwnerInv(s) /\ FileOK
  BY DEF JournalInv, Controls
<1>2. lines' # <<>> /\ Parse(lines') = [of |-> s, hooks |-> <<>>, clean |-> FALSE]
  BY <1>1, StartWrites
<1>3. lines = <<>> /\ report' = report
  BY <1>1 DEF Controls, ControlTypeOK, ControlInv, OwnerInv, Owns, WriteStart
<1>4. Outcome(lines') = [of |-> s, hooks |-> <<>>] /\ Outcome(lines) = Clean
  BY <1>2, <1>3 DEF Outcome
<1>5. Cell!Begin(s)
  BY <1>3, <1>4 DEF Cell!Begin, Cell!Clean, Clean
<1>. QED
  BY <1>5 DEF CellStep, Cell!Next

LEMMA NoteIsNote ==
  ASSUME JournalInv, NEW s \in Session, NoteHook(s), Owns(s)
  PROVE  CellStep
<1>1. Controls /\ OwnerInv(s) /\ FileOK
  BY DEF JournalInv, Controls
<1>2. /\ lines' # <<>> /\ next[s] \in 1..Len(Hooks)
      /\ Parse(lines') = [Parse(lines) EXCEPT !.hooks = Append(@, Hooks[next[s]])]
  BY <1>1, NoteWrites
<1>3. Tells(s) /\ report' = report
  BY <1>1 DEF Controls, ControlTypeOK, ControlInv, OwnerInv, Owns, NoteHook, hist
<1>4. Parse(lines) \in JournalState
  BY <1>1, ParseTypes DEF FileOK
<1>5. Outcome(lines') = [Outcome(lines) EXCEPT !.hooks = Append(@, Hooks[next[s]])]
      /\ Outcome(lines).of = s
  <2>1. PICK p \in JournalState : p = Parse(lines)
    BY <1>4
  <2>2. lines # <<>> /\ ~p.clean /\ p.of = s
    BY <1>3, <2>1 DEF Tells, Silent
  <2>3. Outcome(lines) = [of |-> s, hooks |-> p.hooks]
    BY <2>1, <2>2 DEF Outcome
  <2>4. Parse(lines').of = s /\ Parse(lines').hooks = Append(p.hooks, Hooks[next[s]])
        /\ ~Parse(lines').clean
    BY <1>2, <2>1, <2>2 DEF JournalState
  <2>5. Outcome(lines') = [of |-> s, hooks |-> Append(p.hooks, Hooks[next[s]])]
    BY <1>2, <2>4 DEF Outcome
  <2>6. ASSUME NEW r, NEW h, r = [of |-> s, hooks |-> p.hooks]
        PROVE  [r EXCEPT !.hooks = Append(@, h)] = [of |-> s, hooks |-> Append(p.hooks, h)]
    BY <2>6
  <2>. QED BY <2>3, <2>5, <2>6
<1>6. Hooks[next[s]] \in Range(Hooks)
  BY <1>2, HooksAssumption
<1>7. Cell!Note(s, Hooks[next[s]])
  BY <1>3, <1>5 DEF Cell!Note
<1>. QED
  BY <1>6, <1>7 DEF CellStep, Cell!Next

LEMMA WriteIsStep ==
  ASSUME JournalInv, NEW s \in Session, Truncate(s) \/ Writes(s), Owns(s)
  PROVE  CellStep
<1>1. Controls /\ OwnerInv(s) /\ FileOK
  BY DEF JournalInv, Controls
<1>2. CASE Truncate(s)
  BY <1>2, ClearIsClear DEF Truncate, Owns, Outcome, hist
<1>3. CASE InitComplete(s)
  <2>1. lines' # <<>> /\ Parse(lines') = Parse(lines) /\ report' = report
    BY <1>1, <1>3, CompleteWrites DEF InitComplete, hist
  <2>2. lines # <<>>
    BY <1>1, <1>3 DEF InitComplete, OwnerInv, Tells, Silent, Controls, ControlTypeOK, ControlInv,
       Owns
  <2>. QED BY <2>1, <2>2 DEF Outcome, CellStep
<1>4. CASE WriteClean(s)
  <2>1. report' = report
    BY <1>4 DEF WriteClean, hist
  <2>2. /\ lines' # <<>>
        /\ Parse(lines').clean \/ (torn /\ Parse(lines') = Parse(lines))
    BY <1>1, <1>4, CleanWrites
  <2>3. CASE Parse(lines').clean
    BY <2>1, <2>3, ClearIsClear DEF Outcome
  <2>4. CASE torn /\ Parse(lines') = Parse(lines)
    BY <1>1, <2>1, <2>2, <2>4 DEF Outcome, CellStep, FileOK
  <2>. QED BY <2>2, <2>3, <2>4
<1>. QED
  BY <1>2, <1>3, <1>4, WriteStartIsBegin, NoteIsNote DEF Writes

(* The journal file, written in pieces by sessions that can end anywhere   *)
(* and overlap, is as good as the one indivisible cell of SessionRecord.   *)
THEOREM JournalImplementsRecord == Spec => KeepsSessionRecord
<1>1. Init => Cell!Init
  BY DEF Init, Cell!Init, Cell!Clean, Clean, Outcome
<1>2. JournalInv /\ [Next]_vars => [Cell!Next]_<<Outcome(lines), report>>
  <2> SUFFICES ASSUME JournalInv, [Next]_vars PROVE CellStep
    BY DEF CellStep
  <2>1. CASE lines' # lines
    BY <2>1, WritersOwn, WriteIsStep
  <2>2. CASE lines' = lines /\ report' = report
    BY <2>2 DEF CellStep
  <2>3. CASE report' # report
    <3>1. PICK s \in Session : ReadPrevious(s)
      BY <2>3 DEF Next, vars, hist, Start, Open, ReadPrevious, Truncate, WriteStart, EndLine,
         InstallHook,
         NoteHook, InitComplete, InitAborts, Exit, WriteClean, Close, Crash
    <3>. QED BY <3>1, ReadIsRead
  <2>. QED BY <2>1, <2>2, <2>3
<1>. QED
  BY <1>1, <1>2, JournalInductive, PTL DEF Spec, KeepsSessionRecord, Cell!Spec
=============================================================================
