---------------------------- MODULE MCCrashJournal ----------------------------
(***************************************************************************)
(* Two hooks, three sessions of which two may overlap.  MaxInstalls bounds *)
(* the installs over all sessions: two in the first, or one each in the    *)
(* first two; the third is there to read what they left.                   *)
(***************************************************************************)
EXTENDS CrashJournal

CONSTANT MaxInstalls

MCHooks == <<"h1", "h2">>

FewInstalls ==
  /\ FoldFunction(LAMBDA seq, sum : Len(seq) + sum, 0, installed) <= MaxInstalls
  /\ Len(installed[2]) <= 1
  /\ \A s \in Session : s > 2 => installed[s] = <<>>
=============================================================================
