---------------------------- MODULE SessionRecord ----------------------------
(***************************************************************************)
(* What the crash journal promises, as if it were kept in one indivisible  *)
(* cell: the cell holds the session that last began and the hooks it has   *)
(* noted, or says "clean".  A session that starts reads the cell before it *)
(* puts itself there, and reports what it finds when hooks are noted.      *)
(***************************************************************************)
EXTENDS Sequences

CONSTANTS Session, Hook, Nobody   \* Nobody is no session

VARIABLES
  record,   \* the cell: Clean, or [of, hooks]
  report    \* what each session reported at its start: Clean is nothing

Clean == [of |-> Nobody, hooks |-> <<>>]

Reportable(r) == r.hooks # <<>>

Init ==
  /\ record = Clean
  /\ report = [s \in Session |-> Clean]

(* A session reports an earlier or other one, never itself. *)
Read(s) ==
  /\ report[s] = Clean
  /\ Reportable(record)
  /\ record.of # s
  /\ report' = [report EXCEPT ![s] = record]
  /\ UNCHANGED record

Begin(s) ==
  /\ record = Clean
  /\ record' = [of |-> s, hooks |-> <<>>]
  /\ UNCHANGED report

Note(s, h) ==
  /\ record.of = s
  /\ record' = [record EXCEPT !.hooks = Append(@, h)]
  /\ UNCHANGED report

(* The session ends in order, or makes room for its own record: the cell   *)
(* of another session is given up only so.                                 *)
Clear ==
  /\ record # Clean
  /\ record' = Clean
  /\ UNCHANGED report

Next ==
  \/ \E s \in Session : Read(s) \/ Begin(s) \/ \E h \in Hook : Note(s, h)
  \/ Clear

Spec == Init /\ [][Next]_<<record, report>>
=============================================================================
