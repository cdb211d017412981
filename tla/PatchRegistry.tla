---------------------------- MODULE PatchRegistry -----------------------------
(***************************************************************************)
(* The patch registry: the code ranges this DLL has changed, in a vector   *)
(* kept sorted by base address, which the exception handler searches.      *)
(* Entries are added while hooks are installed and never removed; ranges   *)
(* may nest (a site is first cleared with nop, then hooked).  The two      *)
(* searches return a pointer into the vector, here an index, 0 for null.   *)
(***************************************************************************)
EXTENDS Integers, Sequences, SequencesExt

CONSTANT Threshold   \* how far from a range find_nearby still looks (64 bytes)

ASSUME ThresholdAssumption == Threshold \in Nat

VARIABLE patches   \* g_patches: records with base, size and hook_name

-----------------------------------------------------------------------------
(* No patch of either game is longer than 38 bytes. *)
Entry == [base : Nat, size : 1..Threshold, hook : Nat]

IsSortedByBase(s) == \A i, j \in 1..Len(s) : i <= j => s[i].base <= s[j].base

PastEnd(e) == e.base + e.size

InRange(e, a) == e.base <= a /\ a < PastEnd(e)

(* Some registered range contains address a. *)
Covered(s, a) == \E i \in 1..Len(s) : InRange(s[i], a)

(* std::ranges::lower_bound and upper_bound on the bases: the first entry  *)
(* at or past a, the first entry past a, one past the last if none is.     *)
LowerBound(s, a) ==
  CHOOSE k \in 1..(Len(s) + 1) :
    /\ \A i \in 1..(k - 1) : s[i].base < a
    /\ \A i \in k..Len(s) : s[i].base >= a

UpperBound(s, a) ==
  CHOOSE k \in 1..(Len(s) + 1) :
    /\ \A i \in 1..(k - 1) : s[i].base <= a
    /\ \A i \in k..Len(s) : s[i].base > a

-----------------------------------------------------------------------------
(* Mistakes, each above what it is a mistake in. *)

(* register_patch, under the unique lock. *)
Inserted(s, e) ==
  LET k == LowerBound(s, e.base) IN SubSeq(s, 1, k - 1) \o <<e>> \o SubSeq(s, k, Len(s))

BugEndIncluded(s, a) ==
  LET k == UpperBound(s, a) - 1 IN
  IF k > 0 /\ a <= PastEnd(s[k]) THEN k ELSE 0

(* find_patch, under the shared lock: only the last entry that starts at   *)
(* or before a is looked at.                                               *)
FindPatch(s, a) ==
  LET k == UpperBound(s, a) - 1 IN
  IF k > 0 /\ InRange(s[k], a) THEN k ELSE 0

(* The two neighbours find_nearby weighs: the last range that starts       *)
(* before a, if it ends close before a, and the first that starts after a. *)
NearBefore(s, a, limit) ==
  LET k == LowerBound(s, a) - 1 IN
  k > 0 /\ a >= PastEnd(s[k]) /\ a - PastEnd(s[k]) <= limit

NearAfter(s, a, limit) ==
  LET k == LowerBound(s, a) IN
  k <= Len(s) /\ s[k].base > a /\ s[k].base - a <= limit

(* find_nearby, under the shared lock: the closer of the two, the earlier  *)
(* when they are equally close.                                            *)
FindNearby(s, a) ==
  LET k == LowerBound(s, a) IN
  IF ~NearBefore(s, a, Threshold)
    THEN IF NearAfter(s, a, Threshold) THEN k ELSE 0
    ELSE IF NearAfter(s, a, a - PastEnd(s[k - 1]) - 1) THEN k ELSE k - 1

(* What the exception handler asks: is a fault at a one of ours?           *)
Attributed(s, a) == FindPatch(s, a) # 0 \/ FindNearby(s, a) # 0

-----------------------------------------------------------------------------
(* lower_bound and upper_bound are defined on sorted vectors only, so      *)
(* every search and every insertion relies on the vector being sorted.     *)
PatchesSorted == IsSortedByBase(patches)
=============================================================================
