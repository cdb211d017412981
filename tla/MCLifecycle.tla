----------------------------- MODULE MCLifecycle -----------------------------
(* A stub that branches into VMProtect's sections, and an address of which  *)
(* the first bytes are not code, but would read as such a branch.           *)
EXTENDS Lifecycle

MCStarts ==
  { [inVmp |-> FALSE, executable |-> TRUE,  branchesToVmp |-> TRUE],
    [inVmp |-> FALSE, executable |-> FALSE, branchesToVmp |-> TRUE] }
=============================================================================
