---------------------------- MODULE DisplayModes ----------------------------
(***************************************************************************)
(* FullModeList and ModeIndexGuard of Rogue: the renderer's list of        *)
(* display modes, rebuilt from what the output reports, the engine's       *)
(* binary search in it and its getter by index with the guard in front.    *)
(* The list's fields belong to the engine, and so does reserve.            *)
(***************************************************************************)
EXTENDS Integers, Sequences, SequencesExt

CONSTANT Modes   \* modes an output may report

ASSUME ModesAssumption ==
  /\ Modes \subseteq [width : Nat, height : Nat, numerator : Nat, denominator : Nat]
  /\ IsFiniteSet(Modes)

VARIABLES
  capacity,  \* the list's entries by its capacity field
  list,      \* the entries of its allocation, <<>> for a null pointer
  count,     \* its count field
  rebuildAt, \* "rest", "query", "fetch", "reserve", "copy", "publish"
  modes,     \* the rebuild's own vector
  available, \* the number of modes GetDisplayModeList announced
  reported,  \* the modes of the last rebuild that came to its end
  getter, index, \* "idle", "entered", "clamped"; the mode index it was called with
  reserveFailed, \* history: reserve failed with an older list in place
  torn       \* history: a rebuild ran while the getter did

rebuildVars == <<capacity, list, count, rebuildAt, modes, available, reported, reserveFailed>>
getterVars == <<getter, index>>
modeVars == <<rebuildVars, getterVars, torn>>

Garbage == [width |-> 0, height |-> 0, numerator |-> 0, denominator |-> 1]
Missing == 65536   \* stands for 2^32 - 1, the index -1 of a saved mode that is not in the list

ModesInit ==
  /\ capacity = 0 /\ list = <<>> /\ count = 0 /\ rebuildAt = "rest"
  /\ modes = <<>> /\ available = 0 /\ reported = {} /\ reserveFailed = FALSE
  /\ getter = "idle" /\ index = 0 /\ torn = FALSE

-----------------------------------------------------------------------------
(* lround(num / den) *)
RefreshHz(m) ==
  IF m.denominator = 0 THEN 0 ELSE (2 * m.numerator + m.denominator) \div (2 * m.denominator)

Key(m) == <<m.width, m.height, RefreshHz(m)>>

Less(k, l) ==
  \/ k[1] < l[1]
  \/ k[1] = l[1] /\ k[2] < l[2]
  \/ k[1] = l[1] /\ k[2] = l[2] /\ k[3] < l[3]

BugBefore(a, b) == a.width < b.width \/ (a.width = b.width /\ a.height < b.height)

Before(a, b) == Less(Key(a), Key(b))

AboveFloor(m) == m.width >= 800 /\ m.height >= 600

RebuildStep(from, to) ==
  /\ rebuildAt = from /\ rebuildAt' = to
  /\ torn' = TRUE
  /\ UNCHANGED getterVars

ClearCount ==
  /\ RebuildStep("rest", "query")
  /\ count' = 0
  /\ UNCHANGED <<capacity, list, modes, available, reported, reserveFailed>>

RebuildReturns(from) ==
  /\ RebuildStep(from, "rest")
  /\ modes' = <<>> /\ available' = 0

(* No output, a failing call, or no modes. *)
NoModes ==
  /\ RebuildReturns("query") \/ RebuildReturns("fetch")
  /\ UNCHANGED <<capacity, list, count, reported, reserveFailed>>

QueryModes ==
  /\ RebuildStep("query", "fetch")
  /\ available' \in 1..Cardinality(Modes)
  /\ UNCHANGED <<capacity, list, count, modes, reported, reserveFailed>>

(* The arrangements std::ranges::sort may leave: which of two modes with   *)
(* the same key comes first is open.                                       *)
SortedArrangements(kept) ==
  {s \in [1..Cardinality(kept) -> kept] :
     ToSet(s) = kept /\ \A i, j \in DOMAIN s : i < j => ~Before(s[j], s[i])}

(* The second call fails if the output now has more modes, but may find    *)
(* fewer; what is left above the floor is sorted.                          *)
FetchModes ==
  /\ \E found \in SUBSET Modes :
       LET kept == {m \in found : AboveFloor(m)} IN
       /\ Cardinality(found) <= available
       /\ \/ kept = {} /\ RebuildReturns("fetch")
          \/ kept # {} /\ RebuildStep("fetch", "reserve")
             /\ modes' \in SortedArrangements(kept) /\ UNCHANGED available
  /\ UNCHANGED <<capacity, list, count, reported, reserveFailed>>

(* Called when the masked capacity is too small, reserve enlarges the      *)
(* allocation if it has to, copying nothing since the count is 0; when it  *)
(* fails the list stays.                                                   *)
ReserveEnlarges == Len(modes) > capacity % 16384 /\ Len(modes) > capacity

Reserve ==
  /\ RebuildStep("reserve", "copy")
  /\ \/ /\ ReserveEnlarges
        /\ list' = [i \in 1..Len(modes) |-> Garbage] /\ capacity' = Len(modes)
        /\ UNCHANGED reserveFailed
     \/ /\ ReserveEnlarges
        /\ reserveFailed' = (reserveFailed \/ list # <<>>)
        /\ UNCHANGED <<capacity, list>>
     \/ /\ ~ReserveEnlarges
        /\ UNCHANGED <<capacity, list, reserveFailed>>
  /\ UNCHANGED <<count, modes, available, reported>>

AllocationFailed ==
  /\ list = <<>>
  /\ RebuildReturns("copy")
  /\ UNCHANGED <<capacity, list, count, reported, reserveFailed>>

CopyModes ==
  /\ list # <<>>
  /\ RebuildStep("copy", "publish")
  /\ list' = [i \in DOMAIN list |-> IF i <= Len(modes) THEN modes[i] ELSE list[i]]
  /\ UNCHANGED <<capacity, count, modes, available, reported, reserveFailed>>

Publish ==
  /\ RebuildReturns("publish")
  /\ count' = Len(modes) % 65536
  /\ reported' = ToSet(modes)
  /\ UNCHANGED <<capacity, list, reserveFailed>>

Rebuild ==
  \/ ClearCount \/ NoModes \/ QueryModes \/ FetchModes
  \/ Reserve \/ AllocationFailed \/ CopyModes \/ Publish

-----------------------------------------------------------------------------
(* The engine calls the getter with an index it has kept. *)
CallGetter ==
  /\ getter = "idle"
  /\ getter' = "entered"
  /\ index' \in {0, Len(list), Missing}
  /\ torn' = (rebuildAt # "rest")
  /\ UNCHANGED rebuildVars

Getter(from, to) == getter = from /\ getter' = to /\ UNCHANGED <<rebuildVars, torn>>

BugClampsToCount ==
  /\ count # 0
  /\ Getter("entered", "clamped")
  /\ index' = IF index < count THEN index ELSE count

(* ClampModeIndex: to the last mode. *)
ClampModeIndex ==
  /\ count # 0
  /\ Getter("entered", "clamped")
  /\ index' = IF index < count THEN index ELSE count - 1

(* Nothing to clamp to: zeros.  Without a swapchain owner the getter has   *)
(* its own way out.                                                        *)
ReturnZeros ==
  /\ Getter("entered", "idle")
  /\ index' = 0

(* The getter's own code reads the list, without a bounds check. *)
ReadMode ==
  /\ Getter("clamped", "idle")
  /\ index' = 0

ModesNext == Rebuild \/ CallGetter \/ ClampModeIndex \/ ReturnZeros \/ ReadMode

ModesSpec == ModesInit /\ [][ModesNext]_modeVars

-----------------------------------------------------------------------------
(* The engine's lookup, a binary search by key: an index from 0, or        *)
(* Missing.                                                                *)
Lookup(k) ==
  LET search[p \in (0..count) \X (0..count)] ==   \* among the entries p[1]..p[2] - 1
        LET mid == (p[1] + p[2]) \div 2
            at == Key(list[mid + 1]) IN
        IF p[1] >= p[2] THEN Missing
        ELSE IF at = k THEN mid
        ELSE IF Less(at, k) THEN search[<<mid + 1, p[2]>>] ELSE search[<<p[1], mid>>] IN
  search[<<0, count>>]

ModesTypeOK ==
  /\ rebuildAt \in {"rest", "query", "fetch", "reserve", "copy", "publish"}
  /\ getter \in {"idle", "entered", "clamped"}
  /\ count > 0 => count = Cardinality(reported)
  /\ ToSet(list) \subseteq Modes \cup {Garbage}

(* The getter's index is inside the allocation it reads, though a rebuild  *)
(* may replace the list after the clamp; without a rebuild in between it   *)
(* reads a mode that was published.  Unless reserve failed to enlarge an   *)
(* older list, which memcpy then overruns.                                 *)
GetterInBounds ==
  getter = "clamped" /\ ~reserveFailed =>
    /\ index < Len(list)
    /\ ~torn => list[index + 1] \in reported

(* Every mode the output reported above the floor can be looked up in the  *)
(* published list, whatever the rates it comes in.                         *)
SavedModeResolves ==
  rebuildAt = "rest" /\ count > 0 /\ ~reserveFailed =>
    \A m \in reported : LET i == Lookup(Key(m)) IN i # Missing /\ Key(list[i + 1]) = Key(m)
=============================================================================
