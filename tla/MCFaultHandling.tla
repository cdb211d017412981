--------------------------- MODULE MCFaultHandling ----------------------------
(* Two hooks with the shapes the games' hooks have.  The first is          *)
(* LanguageUnlock with its two sites made one: a nop whose failure         *)
(* make_hook ignores, a mid hook on the first of the cleared bytes, a      *)
(* one-byte ret behind the jump, nested in one another.  The second is     *)
(* Syndicate's FPSUnlock: the gate, and far from it one of the two writes  *)
(* that a failure at the gate leaves out, both made again at every reload. *)
(* Faults: in the range that nests, at that last write and far from all.   *)
EXTENDS FaultHandling, TLC

o(kind, base, size, again, onFail) ==
  [kind |-> kind, base |-> base, size |-> size, again |-> again, onFail |-> onFail]

MCScript ==
  << << o("bytes", 10, 4, FALSE, "goOn"), o("hook", 10, 2, FALSE, "giveUp"),
        o("bytes", 12, 1, FALSE, "giveUp") >>,
     << o("bytes", 2, 2, TRUE, "leave"), o("bytes", 20, 1, TRUE, "leave") >> >>

MCFaultSites == {13, 20, 40}

Threads == Permutations(Thread)
=============================================================================
