------------------------- MODULE FaultHandling_proofs -------------------------
(***************************************************************************)
(* What the searches of the patch registry find and what registering       *)
(* keeps; then, that every byte the DLL has changed can be attributed when *)
(* a fault happens at it, that a report names the hook that changed it,    *)
(* and that no thread crashes twice in one callback, for every install     *)
(* script, set of threads and set of addresses.                            *)
(***************************************************************************)
EXTENDS FaultHandling, WellFoundedInduction, SequenceTheorems, TLAPS

-----------------------------------------------------------------------------
(* The registry: searches and insertion.                                    *)

(* A non-empty set of naturals has a least element. *)
LEMMA NatMin ==
  ASSUME NEW T, T \subseteq Nat, T # {}
  PROVE  \E x \in T : \A y \in T : x <= y
<1> DEFINE R == {p \in Nat \X Nat : p[1] < p[2]}
<1>1. IsWellFoundedOn(R, Nat)
  BY NatLessThanWellFounded DEF OpToRel
<1>2. PICK x \in T : \A y \in T : ~(<<y, x>> \in R)
  <2> HIDE DEF R
  <2>. QED BY <1>1, WFMin
<1>3. ASSUME NEW y \in T PROVE x <= y
  <2>1. x \in Nat /\ y \in Nat
    OBVIOUS
  <2>2. ~(y < x)
    BY <1>2, <2>1
  <2>. QED BY <2>1, <2>2
<1>. QED
  BY <1>3

(* The fields of an entry are numbers.                                     *)
LEMMA EntryFields ==
  ASSUME NEW s \in Seq(Entry)
  PROVE  /\ Len(s) \in Nat
         /\ \A i \in 1..Len(s) : s[i].base \in Nat /\ s[i].size \in 1..Threshold
<1>1. Len(s) \in Nat /\ \A i \in 1..Len(s) : s[i] \in Entry
  OBVIOUS
<1>2. \A e \in Entry : e.base \in Nat /\ e.size \in 1..Threshold
  BY DEF Entry
<1>. QED
  BY <1>1, <1>2

(* lower_bound splits a sorted vector at the address. *)
LEMMA LowerBoundSplits ==
  ASSUME NEW s \in Seq(Entry), IsSortedByBase(s), NEW a \in Nat
  PROVE  /\ LowerBound(s, a) \in 1..(Len(s) + 1)
         /\ \A i \in 1..(LowerBound(s, a) - 1) : s[i].base < a
         /\ \A i \in LowerBound(s, a)..Len(s) : s[i].base >= a
<1> DEFINE T == {k \in 1..(Len(s) + 1) : \A i \in k..Len(s) : s[i].base >= a}
<1>1. Len(s) \in Nat /\ \A i \in 1..Len(s) : s[i].base \in Nat
  BY EntryFields
<1>2. PICK k \in T : \A y \in T : k <= y
  <2>1. Len(s) + 1 \in T
    BY <1>1
  <2>2. T \subseteq Nat /\ T # {}
    BY <1>1, <2>1
  <2> HIDE DEF T
  <2>. QED BY <2>2, NatMin
<1>3. ASSUME NEW i \in 1..(k - 1) PROVE s[i].base < a
  <2>1. SUFFICES ASSUME s[i].base >= a PROVE FALSE
    BY <1>1
  <2>2. \A j \in i..Len(s) : s[j].base >= a
    BY <1>1, <2>1 DEF IsSortedByBase
  <2>3. i \in T
    BY <1>1, <2>2
  <2>. QED BY <1>1, <1>2, <2>3
<1>4. \A i \in k..Len(s) : s[i].base >= a
  BY <1>2
<1>. QED
  BY <1>3, <1>4 DEF LowerBound

(* upper_bound does, past the address. *)
LEMMA UpperBoundSplits ==
  ASSUME NEW s \in Seq(Entry), IsSortedByBase(s), NEW a \in Nat
  PROVE  /\ UpperBound(s, a) \in 1..(Len(s) + 1)
         /\ \A i \in 1..(UpperBound(s, a) - 1) : s[i].base <= a
         /\ \A i \in UpperBound(s, a)..Len(s) : s[i].base > a
<1>1. a + 1 \in Nat /\ Len(s) \in Nat /\ \A i \in 1..Len(s) : s[i].base \in Nat
  BY EntryFields
<1> DEFINE k == LowerBound(s, a + 1)
<1>2. /\ k \in 1..(Len(s) + 1)
      /\ \A i \in 1..(k - 1) : s[i].base < a + 1
      /\ \A i \in k..Len(s) : s[i].base >= a + 1
  BY <1>1, LowerBoundSplits
<1> HIDE DEF k
<1>3. \A i \in 1..(k - 1) : s[i].base <= a
  BY <1>1, <1>2
<1>4. \A i \in k..Len(s) : s[i].base > a
  BY <1>1, <1>2
<1>. QED
  BY <1>2, <1>3, <1>4 DEF UpperBound

(* A range at least one byte and at most Threshold bytes long is found     *)
(* from every address in it: by find_patch, or, when a shorter range that  *)
(* starts later in it hides it, by find_nearby.  So nested patches cannot  *)
(* make veh_handler take a fault at one of them for the game's own.        *)
THEOREM CoveredIsAttributed ==
  ASSUME NEW s \in Seq(Entry), IsSortedByBase(s), NEW a \in Nat, Covered(s, a)
  PROVE  Attributed(s, a)
<1>1. Len(s) \in Nat /\ \A i \in 1..Len(s) : s[i].base \in Nat /\ s[i].size \in 1..Threshold
  BY EntryFields
<1>2. PICK i \in 1..Len(s) : InRange(s[i], a)
  BY DEF Covered
<1> DEFINE v == UpperBound(s, a)
           u == v - 1
           l == LowerBound(s, a)
<1>3. v \in 1..(Len(s) + 1) /\ (\A j \in 1..(v - 1) : s[j].base <= a) /\ (\A j \in v..Len(s) : s[j].base > a)
  BY UpperBoundSplits
<1>4. l \in 1..(Len(s) + 1) /\ (\A j \in 1..(l - 1) : s[j].base < a) /\ (\A j \in l..Len(s) : s[j].base >= a)
  BY <1>1, LowerBoundSplits
<1>5. SUFFICES ASSUME FindPatch(s, a) = 0 PROVE FindNearby(s, a) # 0
  BY DEF Attributed
<1>6. FindPatch(s, a) = IF u > 0 /\ InRange(s[u], a) THEN u ELSE 0
  BY DEF FindPatch, v
<1> HIDE DEF v, l
<1>7. i <= u
  BY <1>1, <1>2, <1>3, ThresholdAssumption DEF InRange
<1>8. u \in 1..Len(s) /\ s[u].base <= a /\ a >= PastEnd(s[u])
  BY <1>1, <1>3, <1>5, <1>6, <1>7 DEF InRange, PastEnd
<1>9. s[u].base < a
  BY <1>1, <1>8, ThresholdAssumption DEF PastEnd
<1>10. u = l - 1
  <2>1. u < l
    BY <1>1, <1>4, <1>8, <1>9
  <2>2. ASSUME NEW j \in 1..(l - 1) PROVE j <= u
    <3>1. j \in 1..Len(s) /\ s[j].base < a /\ s[j].base \in Nat
      BY <1>1, <1>4
    <3>. QED BY <1>1, <1>3, <3>1
  <2>. QED BY <1>1, <1>3, <1>4, <2>1, <2>2
<1>11. s[i].base <= s[u].base
  BY <1>1, <1>7, <1>8 DEF IsSortedByBase
<1>12. a - PastEnd(s[u]) <= Threshold
  <2>1. /\ s[i].base \in Nat /\ s[i].size \in Nat /\ s[i].size <= Threshold
        /\ s[u].base \in Nat /\ s[u].size \in Nat
    BY <1>1, <1>8, ThresholdAssumption
  <2>2. a < s[i].base + s[i].size
    BY <1>2 DEF InRange, PastEnd
  <2>3. \A b, c, d, f \in Nat : a < b + c /\ c <= Threshold /\ b <= d => a - (d + f) <= Threshold
    BY ThresholdAssumption
  <2>4. a - (s[u].base + s[u].size) <= Threshold
    BY <1>11, <2>1, <2>2, <2>3
  <2>. QED BY <2>4 DEF PastEnd
<1>13. NearBefore(s, a, Threshold)
  BY <1>1, <1>8, <1>10, <1>12 DEF NearBefore, l
<1>. QED
  BY <1>4, <1>8, <1>10, <1>13 DEF FindNearby, l

(* Where the entries of a vector are after register_patch. *)
LEMMA InsertedEntries ==
  ASSUME NEW s \in Seq(Entry), IsSortedByBase(s), NEW e \in Entry
  PROVE  \E k \in 1..(Len(s) + 1) :
           /\ \A i \in 1..(k - 1) : s[i].base < e.base
           /\ \A i \in k..Len(s) : s[i].base >= e.base
           /\ Inserted(s, e) \in Seq(Entry)
           /\ Len(Inserted(s, e)) = Len(s) + 1
           /\ \A i \in 1..(Len(s) + 1) :
                Inserted(s, e)[i] = IF i < k THEN s[i] ELSE IF i = k THEN e ELSE s[i - 1]
<1>1. e.base \in Nat /\ Len(s) \in Nat
  BY DEF Entry
<1> DEFINE k == LowerBound(s, e.base)
           front == SubSeq(s, 1, k - 1)
           back == SubSeq(s, k, Len(s))
<1>2. /\ k \in 1..(Len(s) + 1)
      /\ \A i \in 1..(k - 1) : s[i].base < e.base
      /\ \A i \in k..Len(s) : s[i].base >= e.base
  BY <1>1, LowerBoundSplits
<1>3. Inserted(s, e) = front \o <<e>> \o back
  BY DEF Inserted
<1> HIDE DEF k
<1>4. front \in Seq(Entry) /\ Len(front) = k - 1 /\ \A i \in 1..(k - 1) : front[i] = s[i]
  BY <1>1, <1>2
<1>5. /\ back \in Seq(Entry) /\ Len(back) = Len(s) - k + 1
      /\ \A i \in 1..(Len(s) - k + 1) : back[i] = s[k + i - 1]
  BY <1>1, <1>2
<1> HIDE DEF front, back
<1> DEFINE head == front \o <<e>>
<1>6. head \in Seq(Entry) /\ Len(head) = k /\ \A i \in 1..k : head[i] = IF i < k THEN s[i] ELSE e
  BY <1>2, <1>4
<1> HIDE DEF head
<1>7. /\ head \o back \in Seq(Entry)
      /\ Len(head \o back) = Len(s) + 1
      /\ \A i \in 1..(Len(s) + 1) : (head \o back)[i] = IF i <= k THEN head[i] ELSE back[i - k]
  <2>1. /\ head \o back \in Seq(Entry)
        /\ Len(head \o back) = Len(head) + Len(back)
        /\ \A i \in 1..(Len(head) + Len(back)) :
             (head \o back)[i] = IF i <= Len(head) THEN head[i] ELSE back[i - Len(head)]
    <3>1. head \in Seq(Entry) /\ back \in Seq(Entry)
      BY <1>5, <1>6
    <3>. QED BY <3>1, ConcatProperties
  <2>2. Len(head) = k /\ Len(head) + Len(back) = Len(s) + 1
    BY <1>1, <1>2, <1>5, <1>6
  <2>. QED BY <2>1, <2>2
<1>8. ASSUME NEW i \in 1..(Len(s) + 1), i > k PROVE back[i - k] = s[i - 1]
  <2>1. i - k \in 1..(Len(s) - k + 1) /\ k + (i - k) - 1 = i - 1
    BY <1>1, <1>2, <1>8
  <2>. QED BY <1>5, <2>1
<1>9. Inserted(s, e) = head \o back
  BY <1>3 DEF head
<1>10. ASSUME NEW i \in 1..(Len(s) + 1)
       PROVE  Inserted(s, e)[i] = IF i < k THEN s[i] ELSE IF i = k THEN e ELSE s[i - 1]
  BY <1>2, <1>6, <1>7, <1>8, <1>9
<1>. QED
  BY <1>2, <1>7, <1>9, <1>10

(* register_patch keeps the vector sorted. *)
THEOREM InsertedIsSorted ==
  ASSUME NEW s \in Seq(Entry), IsSortedByBase(s), NEW e \in Entry
  PROVE  Inserted(s, e) \in Seq(Entry) /\ IsSortedByBase(Inserted(s, e))
<1> DEFINE r == Inserted(s, e)
<1>1. PICK k \in 1..(Len(s) + 1) :
           /\ \A i \in 1..(k - 1) : s[i].base < e.base
           /\ \A i \in k..Len(s) : s[i].base >= e.base
           /\ r \in Seq(Entry)
           /\ Len(r) = Len(s) + 1
           /\ \A i \in 1..(Len(s) + 1) : r[i] = IF i < k THEN s[i] ELSE IF i = k THEN e ELSE s[i - 1]
  BY InsertedEntries
<1>2. Len(s) \in Nat /\ (\A i \in 1..Len(s) : s[i].base \in Nat) /\ e.base \in Nat
  <2>1. e.base \in Nat
    BY DEF Entry
  <2>. QED BY <2>1, EntryFields
<1> HIDE DEF r
<1>3. ASSUME NEW i \in 1..Len(r), NEW j \in 1..Len(r), i <= j PROVE r[i].base <= r[j].base
  <2>1. CASE j < k
    BY <1>1, <1>2, <1>3, <2>1 DEF IsSortedByBase
  <2>2. CASE j = k
    <3>1. r[j] = e /\ r[j].base <= r[j].base
      BY <1>1, <1>2, <2>2
    <3>2. i < k => r[i] = s[i] /\ i \in 1..(k - 1)
      BY <1>1, <1>2, <1>3
    <3>3. i < k => r[i].base <= e.base
      BY <1>1, <1>2, <3>2
    <3>4. i < k \/ i = k
      BY <1>1, <1>2, <1>3, <2>2
    <3>. QED BY <2>2, <3>1, <3>3, <3>4
  <2>3. CASE j > k
    <3>1. r[j] = s[j - 1] /\ j - 1 \in k..Len(s)
      BY <1>1, <1>2, <2>3
    <3>2. CASE i > k
      <4>1. r[i] = s[i - 1] /\ i - 1 \in 1..Len(s) /\ i - 1 <= j - 1
        BY <1>1, <1>2, <1>3, <3>2
      <4>2. j - 1 \in 1..Len(s)
        BY <1>2, <3>1
      <4>3. s[i - 1].base <= s[j - 1].base
        BY <4>1, <4>2 DEF IsSortedByBase
      <4>. QED BY <3>1, <4>1, <4>3
    <3>3. CASE i <= k
      <4>1. i \in 1..(Len(s) + 1) /\ i <= k /\ r[i] = IF i < k THEN s[i] ELSE e
        BY <1>1, <1>2, <3>3
      <4>2. r[i].base \in Nat /\ r[i].base <= e.base
        <5>1. CASE i < k
          <6>1. i \in 1..(k - 1) /\ i \in 1..Len(s) /\ r[i] = s[i]
            BY <1>2, <4>1, <5>1
          <6>. QED BY <1>1, <1>2, <6>1
        <5>2. CASE i = k
          BY <1>2, <4>1, <5>2
        <5>. QED BY <4>1, <5>1, <5>2
      <4>3. r[j].base \in Nat /\ e.base <= r[j].base
        BY <1>1, <1>2, <3>1
      <4>. QED BY <1>2, <4>2, <4>3
    <3>. QED BY <1>1, <1>2, <3>2, <3>3
  <2>. QED BY <1>1, <1>2, <2>1, <2>2, <2>3
<1>. QED
  BY <1>1, <1>3 DEF IsSortedByBase, r

(* It loses no range and adds the new one. *)
THEOREM InsertedCovers ==
  ASSUME NEW s \in Seq(Entry), IsSortedByBase(s), NEW e \in Entry, NEW a \in Nat,
         Covered(s, a) \/ InRange(e, a)
  PROVE  Covered(Inserted(s, e), a)
<1> DEFINE r == Inserted(s, e)
<1>1. PICK k \in 1..(Len(s) + 1) :
           /\ Len(r) = Len(s) + 1
           /\ \A i \in 1..(Len(s) + 1) : r[i] = IF i < k THEN s[i] ELSE IF i = k THEN e ELSE s[i - 1]
  BY InsertedEntries
<1>2. Len(s) \in Nat
  OBVIOUS
<1> HIDE DEF r
<1>3. CASE InRange(e, a)
  BY <1>1, <1>2, <1>3 DEF Covered, r
<1>4. CASE Covered(s, a)
  <2>1. PICK i \in 1..Len(s) : InRange(s[i], a)
    BY <1>4 DEF Covered
  <2>2. CASE i < k
    <3>1. i \in 1..Len(r) /\ r[i] = s[i]
      BY <1>1, <1>2, <2>2
    <3>. QED BY <2>1, <3>1 DEF Covered, r
  <2>3. CASE i >= k
    <3>1. i + 1 \in 1..Len(r) /\ r[i + 1] = s[i]
      BY <1>1, <1>2, <2>3
    <3>. QED BY <2>1, <3>1 DEF Covered, r
  <2>. QED BY <1>1, <1>2, <2>2, <2>3
<1>. QED
  BY <1>3, <1>4

-----------------------------------------------------------------------------
(* The install scripts.                                                    *)

(* The fields of an operation. *)
LEMMA OpFields ==
  ASSUME NEW h \in Hook, NEW i \in DOMAIN Script[h]
  PROVE  /\ Script[h][i] \in Operation
         /\ Script[h][i].kind \in Kinds /\ Script[h][i].onFail \in Reactions
         /\ Script[h][i].again => Script[h][i].kind # "hook"
         /\ Script[h][i].base \in Nat /\ Script[h][i].size \in 1..Threshold
         /\ Bytes(Script[h][i]) \subseteq Nat
<1>1. Script \in Seq(Seq(Operation))
  BY ScriptAssumption
<1>2. Script[h] \in Seq(Operation)
  BY <1>1 DEF Hook
<1>3. Script[h][i] \in Operation
  BY <1>2
<1>4. /\ Script[h][i].kind \in Kinds /\ Script[h][i].onFail \in Reactions
      /\ Script[h][i].again => Script[h][i].kind # "hook"
      /\ Script[h][i].base \in Nat /\ Script[h][i].size \in 1..Threshold
  BY <1>3 DEF Operation
<1>. QED
  BY <1>3, <1>4, ThresholdAssumption DEF Bytes

(* The lengths of the scripts. *)
LEMMA ScriptLengths ==
  /\ Len(Script) \in Nat
  /\ \A h \in Hook : Len(Script[h]) \in Nat /\ DOMAIN Script[h] = 1..Len(Script[h])
<1>1. Script \in Seq(Seq(Operation))
  BY ScriptAssumption
<1>2. ASSUME NEW h \in Hook PROVE Script[h] \in Seq(Operation)
  BY <1>1 DEF Hook
<1>3. Len(Script) \in Nat
  BY <1>1
<1>. QED
  BY <1>2, <1>3

-----------------------------------------------------------------------------
(* What is in the registry when bytes are written: the range of every      *)
(* operation that is done or was passed over, unless a failed write is the *)
(* reason, and the range of the one about to write.                        *)
DoneOp(h, i) == h \in installed \/ (h = hook /\ i < step)

RangesRegistered ==
  /\ \A h \in Hook : \A i \in DOMAIN Script[h] :
       DoneOp(h, i) /\ Script[h][i].kind # "hook" =>
         \A a \in Bytes(Script[h][i]) : a \in missed \/ Covered(patches, a)
  /\ opPc = "registered" => \A a \in Bytes(Op) : Covered(patches, a)
  /\ opPc # "start" => (opPc = "created") = (Op.kind = "hook")

ChangedCovered ==
  \A a \in changed : InFlight(a) \/ a \in missed \/ Covered(patches, a)

RegistryInv == InstallerTypeOK /\ PatchesSorted /\ RangesRegistered /\ ChangedCovered

(* Register adds the operation's range and keeps everything else. *)
LEMMA RegisterProperties ==
  ASSUME InstallerTypeOK, PatchesSorted, Installing, step \in DOMAIN Script[hook], Register
  PROVE  /\ patches' \in Seq(Entry) /\ PatchesSorted'
         /\ \A a \in Nat : Covered(patches, a) => Covered(patches', a)
         /\ \A a \in Bytes(Op) : Covered(patches', a)
<1> DEFINE e == [base |-> Op.base, size |-> Op.size, hook |-> hook]
<1>1. Op.base \in Nat /\ Op.size \in 1..Threshold /\ Bytes(Op) \subseteq Nat
  BY OpFields DEF Op, Installing
<1>2. e \in Entry
  BY <1>1 DEF Entry, Installing, Hook
<1>3. patches' = Inserted(patches, e)
  BY DEF Register
<1>4. patches \in Seq(Entry) /\ IsSortedByBase(patches)
  BY DEF InstallerTypeOK, PatchesSorted
<1>5. ASSUME NEW a \in Bytes(Op) PROVE InRange(e, a)
  BY <1>1, ThresholdAssumption DEF InRange, PastEnd, Bytes
<1> HIDE DEF e
<1>6. patches' \in Seq(Entry) /\ PatchesSorted'
  BY <1>2, <1>3, <1>4, InsertedIsSorted DEF PatchesSorted
<1>7. \A a \in Nat : Covered(patches, a) => Covered(patches', a)
  BY <1>2, <1>3, <1>4, InsertedCovers
<1>8. \A a \in Bytes(Op) : Covered(patches', a)
  BY <1>1, <1>2, <1>3, <1>4, <1>5, InsertedCovers
<1>. QED
  BY <1>6, <1>7, <1>8

(* The steps of the init thread that leave the registry alone and move on  *)
(* to the next hook or the next operation. *)
LEMMA MoveOnKeepsDone ==
  ASSUME InstallerTypeOK, Installing, opPc = "start", NextHook,
         installed' = installed \/ (installed' = installed \cup {hook} /\ step = Len(Script[hook]) + 1)
  PROVE  /\ \A h \in Hook : \A i \in DOMAIN Script[h] : DoneOp(h, i)' => DoneOp(h, i)
         /\ hook' \in 1..(Len(Script) + 1) /\ step' \in Nat \ {0} /\ opPc' = "start"
<1>1. Len(Script) \in Nat /\ hook \in 1..Len(Script)
  BY ScriptLengths DEF Installing, Hook
<1>2. hook' = hook + 1 /\ step' = 1 /\ opPc' = "start"
  BY DEF NextHook
<1>3. ASSUME NEW h \in Hook, NEW i \in DOMAIN Script[h], DoneOp(h, i)' PROVE DoneOp(h, i)
  <2>1. i \in 1..Len(Script[h]) /\ Len(Script[h]) \in Nat
    BY ScriptLengths
  <2>2. h \in installed'
    BY <1>2, <1>3, <2>1 DEF DoneOp
  <2>. QED BY <2>1, <2>2 DEF DoneOp
<1>. QED
  BY <1>1, <1>2, <1>3

(* Moving on to the next operation adds that one operation to the done.    *)
LEMMA NextStepDone ==
  ASSUME InstallerTypeOK, Installing, step \in DOMAIN Script[hook], NextStep, installed' = installed
  PROVE  /\ \A h \in Hook : \A i \in DOMAIN Script[h] : DoneOp(h, i)' => DoneOp(h, i) \/ (h = hook /\ i = step)
         /\ hook' = hook /\ step' \in Nat \ {0} /\ opPc' = "start"
<1>1. hook' = hook /\ step' = step + 1 /\ opPc' = "start" /\ step \in Nat
  BY DEF NextStep, InstallerTypeOK
<1>2. ASSUME NEW h \in Hook, NEW i \in DOMAIN Script[h], DoneOp(h, i)'
      PROVE  DoneOp(h, i) \/ (h = hook /\ i = step)
  <2>1. i \in Nat
    BY ScriptLengths
  <2>. QED BY <1>1, <1>2, <2>1 DEF DoneOp
<1>. QED
  BY <1>1, <1>2

(* At the start nothing is registered, changed or done.                    *)
LEMMA RegistryInvInit == Init => RegistryInv
<1> SUFFICES ASSUME Init PROVE RegistryInv
  OBVIOUS
<1>1. patches = <<>> /\ hook = 1 /\ step = 1 /\ opPc = "start" /\ installed = {} /\ changed = {}
      /\ missed = {} /\ hooked = {}
  BY DEF Init
<1>2. InstallerTypeOK
  BY <1>1, ScriptLengths DEF InstallerTypeOK
<1>3. PatchesSorted
  BY <1>1 DEF PatchesSorted, IsSortedByBase
<1>4. RangesRegistered
  <2>1. ASSUME NEW h \in Hook, NEW i \in DOMAIN Script[h] PROVE ~DoneOp(h, i)
    BY <1>1, ScriptLengths DEF DoneOp
  <2>. QED BY <1>1, <2>1 DEF RangesRegistered
<1>. QED
  BY <1>1, <1>2, <1>3, <1>4 DEF RegistryInv, ChangedCovered

(* Game threads and skipped, failed and finished hooks add nothing to what *)
(* is changed and take nothing from what is registered.                    *)
LEMMA RegistryInvQuietStep ==
  ASSUME RegistryInv, patches' = patches, changed' = changed, missed \subseteq missed', missed' \subseteq Nat,
         hook' \in 1..(Len(Script) + 1), step' \in Nat \ {0}, opPc = "start", opPc' = "start",
         installed' \subseteq Hook, hooked' = hooked,
         \A h \in Hook : \A i \in DOMAIN Script[h] :
           DoneOp(h, i)' /\ Script[h][i].kind # "hook" => DoneOp(h, i) \/ Bytes(Script[h][i]) \subseteq missed'
  PROVE  RegistryInv'
<1>1. InstallerTypeOK'
  BY DEF RegistryInv, InstallerTypeOK
<1>2. PatchesSorted'
  BY DEF RegistryInv, PatchesSorted
<1>3. RangesRegistered'
  <2>1. ASSUME NEW h \in Hook, NEW i \in DOMAIN Script[h], DoneOp(h, i)', Script[h][i].kind # "hook",
               NEW a \in Bytes(Script[h][i])
        PROVE  a \in missed' \/ Covered(patches, a)
    BY <2>1 DEF RegistryInv, RangesRegistered
  <2>. QED BY <2>1 DEF RangesRegistered
<1>4. ChangedCovered'
  BY DEF RegistryInv, ChangedCovered, InFlight
<1>. QED
  BY <1>1, <1>2, <1>3, <1>4 DEF RegistryInv

(* The invariant is inductive: bytes are registered before they are         *)
(* written, and a registered range is never lost.                          *)
LEMMA RegistryInvStep == RegistryInv /\ [Next]_vars => RegistryInv'
<1> SUFFICES ASSUME RegistryInv, [Next]_vars PROVE RegistryInv'
  OBVIOUS
<1>1. InstallerTypeOK /\ PatchesSorted /\ RangesRegistered /\ ChangedCovered
  BY DEF RegistryInv
<1>2. CASE SkipHook \/ InstallReturns \/ InstallFaults
  <2>1. /\ Installing /\ opPc = "start" /\ NextHook
        /\ installed' = installed \/ (installed' = installed \cup {hook} /\ step = Len(Script[hook]) + 1)
        /\ patches' = patches /\ changed' = changed /\ missed' = missed /\ hooked' = hooked
    BY <1>2 DEF SkipHook, InstallReturns, InstallFaults
  <2>2. installed' \subseteq Hook /\ missed \subseteq Nat
    BY <1>1, <2>1 DEF InstallerTypeOK, Installing
  <2>. QED BY <1>1, <2>1, <2>2, MoveOnKeepsDone, RegistryInvQuietStep
<1>3. CASE OperationFails
  <2> DEFINE Lost == UNION {Bytes(Script[hook][i]) : i \in {j \in NotDone : Script[hook][j].kind = "bytes"}}
  <2>1. /\ hook \in Hook /\ Installing /\ step \in DOMAIN Script[hook] /\ opPc = "start"
        /\ patches' = patches /\ changed' = changed /\ installed' = installed /\ hooked' = hooked
        /\ missed' = missed \cup Lost
    BY <1>3 DEF OperationFails, AtOp, Installing
  <2>2. NotDone \subseteq DOMAIN Script[hook] /\ step \in NotDone
    BY <1>1, <2>1, ScriptLengths DEF NotDone, Rest, InstallerTypeOK
  <2>3. missed \subseteq missed' /\ missed' \subseteq Nat
    <3>1. Lost \subseteq Nat
      BY <2>1, <2>2, OpFields
    <3>. QED BY <1>1, <2>1, <3>1 DEF InstallerTypeOK
  <2>4. \A i \in NotDone : Script[hook][i].kind # "hook" => Bytes(Script[hook][i]) \subseteq missed'
    <3> SUFFICES ASSUME NEW i \in NotDone, Script[hook][i].kind # "hook"
                 PROVE  Bytes(Script[hook][i]) \subseteq Lost
      BY <2>1
    <3>1. Script[hook][i].kind = "bytes"
      BY <2>1, <2>2, OpFields DEF Kinds
    <3>. QED BY <3>1
  <2> HIDE DEF Lost
  <2>5. installed' \subseteq Hook /\ hook \in 1..(Len(Script) + 1)
    BY <1>1, <2>1 DEF InstallerTypeOK
  <2>6. CASE Op.onFail = "giveUp"
    <3>1. NextHook
      BY <1>3, <2>6 DEF OperationFails
    <3>. QED BY <1>1, <2>1, <2>3, <2>5, <3>1, MoveOnKeepsDone, RegistryInvQuietStep
  <2>7. CASE Op.onFail = "goOn"
    <3>1. NextStep
      BY <1>3, <2>7 DEF OperationFails
    <3>2. /\ \A h \in Hook : \A i \in DOMAIN Script[h] : DoneOp(h, i)' => DoneOp(h, i) \/ (h = hook /\ i = step)
          /\ hook' = hook /\ step' \in Nat \ {0} /\ opPc' = "start"
      BY <1>1, <2>1, <3>1, NextStepDone
    <3>3. \A h \in Hook : \A i \in DOMAIN Script[h] :
            DoneOp(h, i)' /\ Script[h][i].kind # "hook" => DoneOp(h, i) \/ Bytes(Script[h][i]) \subseteq missed'
      BY <2>2, <2>4, <3>2
    <3>. QED BY <2>1, <2>3, <2>5, <3>2, <3>3, RegistryInvQuietStep
  <2>8. CASE Op.onFail = "leave"
    <3>1. step' = Len(Script[hook]) + 1 /\ hook' = hook /\ opPc' = opPc
      BY <1>3, <2>8 DEF OperationFails
    <3>2. step' \in Nat \ {0}
      BY <2>1, <3>1, ScriptLengths
    <3>3. NotDone = Rest
      BY <2>8 DEF NotDone
    <3>4. ASSUME NEW h \in Hook, NEW i \in DOMAIN Script[h], DoneOp(h, i)', Script[h][i].kind # "hook"
          PROVE  DoneOp(h, i) \/ Bytes(Script[h][i]) \subseteq missed'
      <4>1. DoneOp(h, i) \/ (h = hook /\ i \in Rest)
        BY <1>1, <2>1, <3>1, <3>4, ScriptLengths DEF DoneOp, Rest, InstallerTypeOK
      <4>. QED BY <2>4, <3>3, <3>4, <4>1
    <3>. QED BY <2>1, <2>3, <2>5, <3>1, <3>2, <3>4, RegistryInvQuietStep
  <2>. QED BY <2>1, <2>6, <2>7, <2>8, OpFields DEF Op, Reactions
<1>4. CASE RegisterBytes
  <2>1. /\ Installing /\ step \in DOMAIN Script[hook] /\ opPc = "start" /\ Op.kind \in {"bytes"}
        /\ Register /\ opPc' = "registered"
        /\ hook' = hook /\ step' = step /\ installed' = installed /\ changed' = changed
        /\ missed' = missed /\ hooked' = hooked
    BY <1>4 DEF RegisterBytes, AtOp
  <2>2. /\ patches' \in Seq(Entry) /\ PatchesSorted'
        /\ \A a \in Nat : Covered(patches, a) => Covered(patches', a)
        /\ \A a \in Bytes(Op) : Covered(patches', a)
    BY <1>1, <2>1, RegisterProperties
  <2>3. InstallerTypeOK'
    BY <1>1, <2>1, <2>2 DEF InstallerTypeOK, Installing
  <2>4. RangesRegistered'
    <3>1. ASSUME NEW h \in Hook, NEW i \in DOMAIN Script[h], DoneOp(h, i)', Script[h][i].kind # "hook",
                 NEW a \in Bytes(Script[h][i])
          PROVE  a \in missed' \/ Covered(patches', a)
      BY <1>1, <2>1, <2>2, <3>1, OpFields DEF RangesRegistered, DoneOp
    <3>2. Op' = Op
      BY <2>1 DEF Op
    <3>. QED BY <2>1, <2>2, <3>1, <3>2 DEF RangesRegistered
  <2>5. ChangedCovered'
    <3>1. ASSUME NEW a \in changed PROVE a \in missed \/ Covered(patches', a)
      BY <1>1, <2>1, <2>2 DEF ChangedCovered, InFlight, InstallerTypeOK
    <3>. QED BY <2>1, <3>1 DEF ChangedCovered
  <2>. QED BY <2>2, <2>3, <2>4, <2>5 DEF RegistryInv
<1>5. CASE WriteBytes
  <2>1. /\ opPc = "registered" /\ changed' = changed \cup Bytes(Op) /\ NextStep
        /\ patches' = patches /\ installed' = installed /\ missed' = missed /\ hooked' = hooked
    BY <1>5 DEF WriteBytes
  <2>2. Installing /\ step \in DOMAIN Script[hook]
    BY <1>1, <2>1 DEF InstallerTypeOK
  <2>3. /\ \A h \in Hook : \A i \in DOMAIN Script[h] : DoneOp(h, i)' => DoneOp(h, i) \/ (h = hook /\ i = step)
        /\ hook' = hook /\ step' \in Nat \ {0} /\ opPc' = "start"
    BY <1>1, <2>1, <2>2, NextStepDone
  <2>4. Bytes(Op) \subseteq Nat /\ \A a \in Bytes(Op) : Covered(patches, a)
    BY <1>1, <2>1, <2>2, OpFields DEF RangesRegistered, Op, Installing
  <2>5. InstallerTypeOK'
    BY <1>1, <2>1, <2>3, <2>4 DEF InstallerTypeOK
  <2>6. RangesRegistered'
    <3>1. ASSUME NEW h \in Hook, NEW i \in DOMAIN Script[h], DoneOp(h, i)', Script[h][i].kind # "hook",
                 NEW a \in Bytes(Script[h][i])
          PROVE  a \in missed \/ Covered(patches, a)
      BY <1>1, <2>3, <2>4, <3>1 DEF RangesRegistered, Op
    <3>. QED BY <2>1, <2>3, <3>1 DEF RangesRegistered
  <2>7. ChangedCovered'
    <3>1. ASSUME NEW a \in changed' PROVE a \in missed \/ Covered(patches, a)
      BY <1>1, <2>1, <2>4 DEF ChangedCovered, InFlight
    <3>. QED BY <2>1, <3>1 DEF ChangedCovered
  <2>8. PatchesSorted'
    BY <1>1, <2>1 DEF PatchesSorted
  <2>. QED BY <2>5, <2>6, <2>7, <2>8 DEF RegistryInv
<1>6. CASE CreateHook
  <2>1. /\ Installing /\ step \in DOMAIN Script[hook] /\ opPc = "start" /\ Op.kind = "hook" /\ opPc' = "created"
        /\ changed' = changed \cup Bytes(Op) /\ hooked' = hooked \cup {<<hook, step>>}
        /\ patches' = patches /\ hook' = hook /\ step' = step /\ installed' = installed /\ missed' = missed
    BY <1>6 DEF CreateHook, AtOp
  <2>2. Bytes(Op) \subseteq Nat /\ <<hook, step>> \in Callback
    BY <2>1, OpFields DEF Op, Installing, Callback
  <2>3. InstallerTypeOK'
    BY <1>1, <2>1, <2>2 DEF InstallerTypeOK, Installing
  <2>4. Op' = Op
    BY <2>1 DEF Op
  <2>5. RangesRegistered'
    <3>1. ASSUME NEW h \in Hook, NEW i \in DOMAIN Script[h], DoneOp(h, i)', Script[h][i].kind # "hook",
                 NEW a \in Bytes(Script[h][i])
          PROVE  a \in missed \/ Covered(patches, a)
      BY <1>1, <2>1, <3>1 DEF RangesRegistered, DoneOp
    <3>. QED BY <2>1, <2>4, <3>1 DEF RangesRegistered
  <2>6. ChangedCovered'
    <3>1. ASSUME NEW a \in changed' PROVE InFlight(a)' \/ a \in missed \/ Covered(patches, a)
      BY <1>1, <2>1, <2>4 DEF ChangedCovered, InFlight
    <3>. QED BY <2>1, <3>1 DEF ChangedCovered
  <2>7. PatchesSorted'
    BY <1>1, <2>1 DEF PatchesSorted
  <2>. QED BY <2>3, <2>5, <2>6, <2>7 DEF RegistryInv
<1>7. CASE RegisterHook
  <2>1. /\ opPc = "created" /\ Register /\ NextStep
        /\ installed' = installed /\ changed' = changed /\ missed' = missed /\ hooked' = hooked
    BY <1>7 DEF RegisterHook
  <2>2. Installing /\ step \in DOMAIN Script[hook] /\ Op.kind = "hook"
    BY <1>1, <2>1 DEF InstallerTypeOK, RangesRegistered
  <2>3. /\ patches' \in Seq(Entry) /\ PatchesSorted'
        /\ \A a \in Nat : Covered(patches, a) => Covered(patches', a)
        /\ \A a \in Bytes(Op) : Covered(patches', a)
    BY <1>1, <2>1, <2>2, RegisterProperties
  <2>4. /\ \A h \in Hook : \A i \in DOMAIN Script[h] : DoneOp(h, i)' => DoneOp(h, i) \/ (h = hook /\ i = step)
        /\ hook' = hook /\ step' \in Nat \ {0} /\ opPc' = "start"
    BY <1>1, <2>1, <2>2, NextStepDone
  <2>5. InstallerTypeOK'
    BY <1>1, <2>1, <2>3, <2>4 DEF InstallerTypeOK
  <2>6. RangesRegistered'
    <3>1. ASSUME NEW h \in Hook, NEW i \in DOMAIN Script[h], DoneOp(h, i)', Script[h][i].kind # "hook",
                 NEW a \in Bytes(Script[h][i])
          PROVE  a \in missed \/ Covered(patches', a)
      <4>1. DoneOp(h, i)
        BY <2>2, <2>4, <3>1 DEF Op
      <4>. QED BY <1>1, <2>3, <3>1, <4>1, OpFields DEF RangesRegistered
    <3>. QED BY <2>1, <2>4, <3>1 DEF RangesRegistered
  <2>7. ChangedCovered'
    <3>1. ASSUME NEW a \in changed PROVE a \in missed \/ Covered(patches', a)
      BY <1>1, <2>1, <2>3 DEF ChangedCovered, InFlight, InstallerTypeOK
    <3>. QED BY <2>1, <3>1 DEF ChangedCovered
  <2>. QED BY <2>3, <2>5, <2>6, <2>7 DEF RegistryInv
<1>8. CASE Rewrite
  <2>1. /\ ~Installing
        /\ patches' = patches /\ hook' = hook /\ step' = step /\ opPc' = opPc
        /\ installed' = installed /\ missed' = missed /\ hooked' = hooked
    BY <1>8 DEF Rewrite
  <2> DEFINE Written(h, k) == UNION {Bytes(Script[h][i]) : i \in Again(h, k)}
  <2>2. PICK h \in installed : \E k \in DOMAIN Script[h] : changed' = changed \cup Written(h, k)
    BY <1>8 DEF Rewrite
  <2>3. PICK k \in DOMAIN Script[h] : changed' = changed \cup Written(h, k)
    BY <2>2
  <2>4. h \in Hook
    BY <1>1 DEF InstallerTypeOK
  <2>5. ASSUME NEW i \in Again(h, k)
        PROVE  /\ Bytes(Script[h][i]) \subseteq Nat
               /\ \A a \in Bytes(Script[h][i]) : a \in missed \/ Covered(patches, a)
    <3>1. i \in DOMAIN Script[h] /\ Script[h][i].again
      BY DEF Again
    <3>2. DoneOp(h, i)
      BY DEF DoneOp
    <3>. QED BY <1>1, <2>4, <3>1, <3>2, OpFields DEF RangesRegistered
  <2>6. \A a \in Written(h, k) : a \in Nat /\ (a \in missed \/ Covered(patches, a))
    BY <2>5
  <2> HIDE DEF Written
  <2>7. InstallerTypeOK'
    BY <1>1, <2>1, <2>3, <2>6 DEF InstallerTypeOK, Installing
  <2>8. RangesRegistered'
    BY <1>1, <2>1 DEF RangesRegistered, DoneOp, Op
  <2>9. ChangedCovered'
    BY <1>1, <2>1, <2>3, <2>6 DEF ChangedCovered, InFlight, Op
  <2>10. PatchesSorted'
    BY <1>1, <2>1 DEF PatchesSorted
  <2>. QED BY <2>7, <2>8, <2>9, <2>10 DEF RegistryInv
<1>9. CASE (\E t \in Thread : ThreadNext(t)) \/ UNCHANGED vars
  <2>1. UNCHANGED <<patches, installVars>>
    BY <1>9 DEF ThreadNext, EnterCallback, LeaveCallback, FaultInPlugin, Fault, SearchExact, SearchNear,
       AttributeExact, AttributeNear, UseEntry, CatchCrash, GameRecovers, vars
  <2>. QED
    BY <1>1, <2>1 DEF RegistryInv, installVars, InstallerTypeOK, PatchesSorted, RangesRegistered, ChangedCovered,
       Installing, DoneOp, Op, InFlight
<1>. QED
  BY <1>2, <1>3, <1>4, <1>5, <1>6, <1>7, <1>8, <1>9 DEF Next, InstallerNext

-----------------------------------------------------------------------------
(* The vector the handler searches is sorted at every moment.              *)
THEOREM RegistryStaysSorted == Spec => []PatchesSorted
<1>1. RegistryInv => PatchesSorted
  BY DEF RegistryInv
<1>. QED
  BY <1>1, RegistryInvInit, RegistryInvStep, PTL DEF Spec

(* A fault at a changed byte is attributed to a hook, for every install    *)
(* script whose operations are at most Threshold bytes long: the invariant *)
(* keeps every changed byte in a registered range, which suffices however  *)
(* the ranges nest (CoveredIsAttributed).                                  *)
THEOREM ChangedBytesStayAttributed == Spec => []ChangedBytesAttributed
<1>1. RegistryInv => ChangedBytesAttributed
  BY CoveredIsAttributed DEF RegistryInv, ChangedCovered, ChangedBytesAttributed, InstallerTypeOK, PatchesSorted
<1>. QED
  BY <1>1, RegistryInvInit, RegistryInvStep, PTL DEF Spec

-----------------------------------------------------------------------------
(* What the searches return is null or an index. *)
LEMMA SearchTypes ==
  ASSUME RegistryInv, NEW a \in Nat
  PROVE  FindPatch(patches, a) \in Nat /\ FindNearby(patches, a) \in Nat
<1>1. patches \in Seq(Entry) /\ IsSortedByBase(patches)
  BY DEF RegistryInv, InstallerTypeOK, PatchesSorted
<1>2. UpperBound(patches, a) \in 1..(Len(patches) + 1) /\ LowerBound(patches, a) \in 1..(Len(patches) + 1)
  BY <1>1, UpperBoundSplits, LowerBoundSplits
<1>3. Len(patches) \in Nat
  BY <1>1
<1>4. FindPatch(patches, a) \in Nat
  BY <1>2, <1>3 DEF FindPatch
<1>5. FindNearby(patches, a) \in Nat
  <2>1. NearBefore(patches, a, Threshold) => LowerBound(patches, a) - 1 > 0
    BY DEF NearBefore
  <2>. QED BY <1>2, <1>3, <2>1 DEF FindNearby
<1>. QED
  BY <1>4, <1>5

(* A thread in a callback has not crashed in it, and a callback a thread   *)
(* has crashed in is disabled, so the thread does not enter it again.      *)
CrashInv ==
  /\ in \in [Thread -> Callback \cup {NoCallback}]
  /\ faulted \in [Callback -> BOOLEAN]
  /\ crashes \in [Thread -> [Callback -> 0..2]]
  /\ \A t \in Thread : in[t] # NoCallback => crashes[t][in[t]] = 0
  /\ \A t \in Thread, f \in Callback : crashes[t][f] = 0 \/ (crashes[t][f] = 1 /\ faulted[f])

(* A thread's first crash in a callback disables it, and only an enabled   *)
(* callback is entered.                                                    *)
LEMMA CrashInvStep == RegistryInv /\ CrashInv /\ [Next]_vars => CrashInv'
<1> SUFFICES ASSUME RegistryInv, CrashInv, [Next]_vars PROVE CrashInv'
  OBVIOUS
<1>1. hooked \subseteq Callback
  BY DEF RegistryInv, InstallerTypeOK
<1>2. ASSUME NEW t \in Thread, EnterCallback(t) PROVE CrashInv'
  <2>1. PICK f \in hooked : ~faulted[f] /\ in' = [in EXCEPT ![t] = f]
    BY <1>2 DEF EnterCallback
  <2>2. f \in Callback /\ crashes' = crashes /\ faulted' = faulted
    BY <1>1, <1>2 DEF EnterCallback
  <2>3. crashes[t][f] = 0
    BY <2>1, <2>2 DEF CrashInv
  <2>. QED BY <2>1, <2>2, <2>3 DEF CrashInv
<1>3. ASSUME NEW t \in Thread, LeaveCallback(t) PROVE CrashInv'
  BY <1>3 DEF LeaveCallback, CrashInv
<1>4. ASSUME NEW t \in Thread, CatchCrash(t) PROVE CrashInv'
  <2> DEFINE f == in[t]
  <2>1. f \in Callback /\ crashes[t][f] = 0
    BY <1>4 DEF CatchCrash, CrashInv
  <2>2. /\ faulted' = [faulted EXCEPT ![f] = TRUE]
        /\ in' = [in EXCEPT ![t] = NoCallback]
        /\ crashes' = [crashes EXCEPT ![t] = [crashes[t] EXCEPT ![f] = 1]]
    BY <1>4, <2>1 DEF CatchCrash, CrashInv
  <2> HIDE DEF f
  <2>3. faulted' \in [Callback -> BOOLEAN] /\ \A g \in Callback : faulted[g] \/ g = f => faulted'[g]
    BY <2>1, <2>2, Zenon DEF CrashInv
  <2>4. crashes' \in [Thread -> [Callback -> 0..2]] /\ in' \in [Thread -> Callback \cup {NoCallback}]
    BY <2>1, <2>2 DEF CrashInv
  <2>5. ASSUME NEW u \in Thread, in'[u] # NoCallback PROVE crashes'[u][in'[u]] = 0
    <3>1. u # t /\ in'[u] = in[u] /\ crashes'[u] = crashes[u]
      BY <2>2, <2>5 DEF CrashInv
    <3>. QED BY <3>1, <2>5 DEF CrashInv
  <2>6. ASSUME NEW u \in Thread, NEW g \in Callback
        PROVE  crashes'[u][g] = 0 \/ (crashes'[u][g] = 1 /\ faulted'[g])
    <3>1. CASE u = t /\ g = f
      BY <2>1, <2>2, <2>3, <3>1 DEF CrashInv
    <3>2. CASE ~(u = t /\ g = f)
      <4>1. crashes'[u][g] = crashes[u][g]
        BY <2>1, <2>2, <3>2 DEF CrashInv
      <4>. QED BY <2>3, <4>1 DEF CrashInv
    <3>. QED BY <3>1, <3>2
  <2>. QED BY <2>3, <2>4, <2>5, <2>6 DEF CrashInv
<1>5. ASSUME NEW t \in Thread,
             FaultInPlugin(t) \/ Fault(t) \/ SearchExact(t) \/ SearchNear(t) \/ AttributeExact(t)
             \/ AttributeNear(t) \/ UseEntry(t) \/ GameRecovers(t)
      PROVE  CrashInv'
  <2>1. UNCHANGED <<in, faulted, crashes>>
    BY <1>5 DEF FaultInPlugin, Fault, SearchExact, SearchNear, AttributeExact, AttributeNear, UseEntry, GameRecovers
  <2>. QED BY <2>1 DEF CrashInv
<1>6. CASE InstallerNext \/ UNCHANGED vars
  <2>1. UNCHANGED <<in, faulted, crashes>>
    BY <1>6 DEF InstallerNext, SkipHook, OperationFails, RegisterBytes, WriteBytes, CreateHook, RegisterHook,
       Register, InstallReturns, InstallFaults, Rewrite, vars, threadVars
  <2>. QED BY <2>1 DEF CrashInv
<1>. QED
  BY <1>2, <1>3, <1>4, <1>5, <1>6 DEF Next, ThreadNext

(* At the start no callback has crashed.                                   *)
LEMMA CrashInvInit == Init => CrashInv
<1> SUFFICES ASSUME Init PROVE CrashInv
  OBVIOUS
<1>1. faulted \in [Callback -> BOOLEAN]
  BY Zenon DEF Init
<1>. QED
  BY <1>1 DEF Init, CrashInv

(* No thread crashes twice in one callback, however many threads are in it *)
(* when the first of them does.                                            *)
THEOREM CallbackCrashesOncePerThread == Spec => []OneCrashPerThread
<1>1. CrashInv => OneCrashPerThread
  BY DEF CrashInv, OneCrashPerThread
<1>. QED
  BY <1>1, CrashInvInit, RegistryInvInit, RegistryInvStep, CrashInvStep, PTL DEF Spec

-----------------------------------------------------------------------------
(* The state of a thread that returns to the game.                         *)
LEMMA ForgetTypes ==
  ASSUME ThreadTypeOK, NEW t \in Thread, Forget(t)
  PROVE  /\ pc' \in [Thread -> Labels] /\ rip' \in [Thread -> Nat] /\ ptr' \in [Thread -> Nat]
         /\ raced' \in [Thread -> BOOLEAN] /\ ours' \in [Thread -> BOOLEAN]
         /\ report' \in [Thread -> [kind : Reports, hook : Nat]]
<1>1. raced' \in [Thread -> BOOLEAN] /\ ours' \in [Thread -> BOOLEAN]
  BY Zenon DEF ThreadTypeOK, Forget
<1>2. Quiet \in [kind : Reports, hook : Nat]
  BY DEF Quiet, Reports
<1>. QED
  BY <1>1, <1>2 DEF ThreadTypeOK, Forget, Goto, Labels

(* Every step of the handler keeps its labels, pointers and reports typed. *)
LEMMA ThreadTypeStep == RegistryInv /\ ThreadTypeOK /\ [Next]_vars /\ CrashInv' => ThreadTypeOK'
<1> SUFFICES ASSUME RegistryInv, ThreadTypeOK, [Next]_vars, CrashInv' PROVE ThreadTypeOK'
  OBVIOUS
<1> USE DEF ThreadTypeOK
<1>0. /\ in' \in [Thread -> Callback \cup {NoCallback}] /\ faulted' \in [Callback -> BOOLEAN]
      /\ crashes' \in [Thread -> [Callback -> 0..2]]
  BY DEF CrashInv
<1>1. ForeignLimit \in Nat /\ FaultSites \subseteq Nat
  BY ScriptAssumption
<1>2. [Quiet EXCEPT !.kind = "plugin"] \in [kind : Reports, hook : Nat]
      /\ [Quiet EXCEPT !.kind = "foreign"] \in [kind : Reports, hook : Nat]
      /\ [Quiet EXCEPT !.kind = "unlogged"] \in [kind : Reports, hook : Nat]
      /\ [Quiet EXCEPT !.kind = "nameless"] \in [kind : Reports, hook : Nat]
  BY DEF Quiet, Reports
<1>3. ASSUME NEW t \in Thread, EnterCallback(t) \/ LeaveCallback(t) PROVE ThreadTypeOK'
  BY <1>0, <1>3 DEF EnterCallback, LeaveCallback, Goto, Labels
<1>4. ASSUME NEW t \in Thread, FaultInPlugin(t) PROVE ThreadTypeOK'
  BY <1>0, <1>2, <1>4 DEF FaultInPlugin, Goto, Labels
<1>5. ASSUME NEW t \in Thread, Fault(t) PROVE ThreadTypeOK'
  <2>1. PICK a \in FaultSites : rip' = [rip EXCEPT ![t] = a] /\ ours' = [ours EXCEPT ![t] = Covered(patches, a)]
    BY <1>5 DEF Fault
  <2>2. Covered(patches, a) \in BOOLEAN
    BY DEF Covered
  <2>3. ours' \in [Thread -> BOOLEAN]
    BY <2>1, <2>2, Zenon
  <2>. QED BY <1>0, <1>1, <1>5, <2>1, <2>3 DEF Fault, Goto, Labels
<1>6. ASSUME NEW t \in Thread, SearchExact(t) PROVE ThreadTypeOK'
  BY <1>0, <1>6 DEF SearchExact, Goto, Labels
<1>7. ASSUME NEW t \in Thread, SearchNear(t) PROVE ThreadTypeOK'
  <2>1. UNCHANGED <<in, rip, ptr, raced, ours, faulted, crashes>> /\ pc' \in [Thread -> Labels]
    BY <1>7 DEF SearchNear, Goto, Labels
  <2>2. report' \in [Thread -> [kind : Reports, hook : Nat]] /\ foreign' \in 0..ForeignLimit
    <3>1. CASE FindNearby(patches, rip[t]) # 0
      BY <1>7, <3>1 DEF SearchNear
    <3>2. CASE FindNearby(patches, rip[t]) = 0 /\ foreign < ForeignLimit
      <4> DEFINE logged == [Quiet EXCEPT !.kind = "foreign"]
      <4>1. report' = [report EXCEPT ![t] = logged] /\ foreign' = foreign + 1
        BY <1>7, <3>2 DEF SearchNear
      <4>2. logged \in [kind : Reports, hook : Nat]
        BY <1>2
      <4> HIDE DEF logged
      <4>3. report' \in [Thread -> [kind : Reports, hook : Nat]]
        BY <4>1, <4>2
      <4>. QED BY <1>1, <3>2, <4>1, <4>3
    <3>3. CASE FindNearby(patches, rip[t]) = 0 /\ ~(foreign < ForeignLimit)
      <4> DEFINE logged == [Quiet EXCEPT !.kind = "unlogged"]
      <4>1. report' = [report EXCEPT ![t] = logged] /\ foreign' = foreign
        BY <1>7, <3>3 DEF SearchNear
      <4>2. logged \in [kind : Reports, hook : Nat]
        BY <1>2
      <4> HIDE DEF logged
      <4>3. report' \in [Thread -> [kind : Reports, hook : Nat]]
        BY <4>1, <4>2
      <4>. QED BY <1>1, <3>3, <4>1, <4>3
    <3>. QED BY <3>1, <3>2, <3>3
  <2>. QED BY <1>0, <2>1, <2>2
<1>8. ASSUME NEW t \in Thread, AttributeExact(t) PROVE ThreadTypeOK'
  BY <1>0, <1>8, SearchTypes DEF AttributeExact, Goto, Labels
<1>9. ASSUME NEW t \in Thread, AttributeNear(t) PROVE ThreadTypeOK'
  <2>1. UNCHANGED <<in, rip, raced, ours, faulted, crashes, foreign>> /\ pc' \in [Thread -> Labels]
    BY <1>9 DEF AttributeNear, Goto, Labels
  <2>2. ptr' \in [Thread -> Nat]
    BY <1>9, SearchTypes DEF AttributeNear
  <2>3. report' \in [Thread -> [kind : Reports, hook : Nat]]
    BY <1>2, <1>9 DEF AttributeNear
  <2>. QED BY <1>0, <2>1, <2>2, <2>3
<1>10. ASSUME NEW t \in Thread, UseEntry(t) PROVE ThreadTypeOK'
  <2>1. PICK h \in Hook : report' = [report EXCEPT ![t] = [kind |-> IF pc[t] = "use" THEN "patched" ELSE "nearby", hook |-> h]]
    BY <1>10 DEF UseEntry
  <2>2. report' \in [Thread -> [kind : Reports, hook : Nat]]
    BY <2>1 DEF Reports, Hook
  <2>. QED BY <1>0, <1>10, <2>2 DEF UseEntry, Goto, Labels
<1>11. ASSUME NEW t \in Thread, CatchCrash(t) \/ GameRecovers(t) PROVE ThreadTypeOK'
  <2>1. Forget(t) /\ foreign' = foreign
    BY <1>11 DEF CatchCrash, GameRecovers
  <2>. QED BY <1>0, <2>1, ForgetTypes
<1>12. CASE InstallerNext \/ UNCHANGED vars
  <2>1. UNCHANGED <<pc, rip, ptr, ours, report, foreign>>
    BY <1>12 DEF InstallerNext, SkipHook, OperationFails, RegisterBytes, WriteBytes, CreateHook, RegisterHook,
       Register, InstallReturns, InstallFaults, Rewrite, vars, threadVars
  <2>2. raced' \in [Thread -> BOOLEAN]
    <3>1. UNCHANGED raced \/ raced' = [t \in Thread |-> raced[t] \/ pc[t] \in {"use", "useNear"}]
      BY <1>12 DEF InstallerNext, SkipHook, OperationFails, RegisterBytes, WriteBytes, CreateHook, RegisterHook,
         Register, InstallReturns, InstallFaults, Rewrite, vars, threadVars
    <3>. QED BY <3>1, Zenon
  <2>. QED BY <1>0, <2>1, <2>2
<1>. QED
  BY <1>0, <1>3, <1>4, <1>5, <1>6, <1>7, <1>8, <1>9, <1>10, <1>11, <1>12 DEF Next, ThreadNext

(* The variables of the init thread and of the game threads keep their     *)
(* types, for every install script, set of threads and set of addresses.   *)
THEOREM FaultHandlingTypes == Spec => []TypeOK
<1>1. Init => ThreadTypeOK
  <2> SUFFICES ASSUME Init PROVE ThreadTypeOK
    OBVIOUS
  <2>1. faulted \in [Callback -> BOOLEAN] /\ raced \in [Thread -> BOOLEAN] /\ ours \in [Thread -> BOOLEAN]
    BY Zenon DEF Init
  <2>2. Quiet \in [kind : Reports, hook : Nat]
    BY DEF Quiet, Reports
  <2>. QED BY <2>1, <2>2, ScriptAssumption DEF Init, ThreadTypeOK, Labels
<1>2. RegistryInv /\ ThreadTypeOK => TypeOK
  BY DEF RegistryInv, TypeOK
<1>. QED
  BY <1>1, <1>2, RegistryInvInit, CrashInvInit, RegistryInvStep, CrashInvStep, ThreadTypeStep, PTL DEF Spec

-----------------------------------------------------------------------------
(* An insertion keeps every entry, at some index.                          *)
LEMMA InsertedKeeps ==
  ASSUME NEW s \in Seq(Entry), IsSortedByBase(s), NEW e \in Entry, NEW i \in 1..Len(s)
  PROVE  \E j \in 1..Len(Inserted(s, e)) : Inserted(s, e)[j] = s[i]
<1> DEFINE r == Inserted(s, e)
<1>1. PICK k \in 1..(Len(s) + 1) :
           /\ Len(r) = Len(s) + 1
           /\ \A l \in 1..(Len(s) + 1) : r[l] = IF l < k THEN s[l] ELSE IF l = k THEN e ELSE s[l - 1]
  BY InsertedEntries
<1>2. Len(s) \in Nat
  OBVIOUS
<1> HIDE DEF r
<1>3. CASE i < k
  <2>1. i \in 1..Len(r) /\ r[i] = s[i]
    BY <1>1, <1>2, <1>3
  <2>. QED BY <2>1 DEF r
<1>4. CASE i >= k
  <2>1. i + 1 \in 1..Len(r) /\ r[i + 1] = s[i]
    BY <1>1, <1>2, <1>4
  <2>. QED BY <2>1 DEF r
<1>. QED
  BY <1>1, <1>2, <1>3, <1>4

(* What find_patch returns is null or the index of a range that has the    *)
(* address in it.                                                          *)
LEMMA FoundIsInRange ==
  ASSUME NEW s \in Seq(Entry), IsSortedByBase(s), NEW a \in Nat, FindPatch(s, a) # 0
  PROVE  FindPatch(s, a) \in 1..Len(s) /\ InRange(s[FindPatch(s, a)], a)
<1>1. UpperBound(s, a) \in 1..(Len(s) + 1) /\ Len(s) \in Nat
  BY UpperBoundSplits
<1>. QED
  BY <1>1 DEF FindPatch

(* Some entry of s is of hook h and has address a in it.                   *)
Patcher(s, h, a) == \E i \in 1..Len(s) : s[i].hook = h /\ InRange(s[i], a)

(* A pointer no insertion has overtaken is to a range with the address; a  *)
(* report that names a hook is the last thing the handler does.            *)
NamingInv ==
  \A t \in Thread :
    /\ pc[t] = "use" /\ ~raced[t] => ptr[t] \in 1..Len(patches) /\ InRange(patches[ptr[t]], rip[t])
    /\ report[t].kind = "patched" => pc[t] = "handled"
    /\ report[t].kind = "patched" /\ ~raced[t] => Patcher(patches, report[t].hook, rip[t])

(* Registering keeps the patchers, and marks the pointers in use.          *)
LEMMA RegisterKeepsNames ==
  ASSUME RegistryInv, ThreadTypeOK, NamingInv, Installing, step \in DOMAIN Script[hook], Register
  PROVE  NamingInv'
<1> DEFINE e == [base |-> Op.base, size |-> Op.size, hook |-> hook]
<1>1. e \in Entry
  BY OpFields DEF Op, Installing, Entry, Hook
<1>2. patches \in Seq(Entry) /\ IsSortedByBase(patches)
  BY DEF RegistryInv, InstallerTypeOK, PatchesSorted
<1>3. patches' = Inserted(patches, e)
  BY DEF Register
<1> HIDE DEF e
<1>4. ASSUME NEW h, NEW a, Patcher(patches, h, a) PROVE Patcher(patches', h, a)
  <2>1. PICK i \in 1..Len(patches) : patches[i].hook = h /\ InRange(patches[i], a)
    BY <1>4 DEF Patcher
  <2>2. PICK j \in 1..Len(patches') : patches'[j] = patches[i]
    BY <1>1, <1>2, <1>3, InsertedKeeps
  <2>. QED BY <2>1, <2>2 DEF Patcher
<1>5. /\ UNCHANGED <<pc, rip, ptr, report>>
      /\ raced' = [t \in Thread |-> raced[t] \/ pc[t] \in {"use", "useNear"}]
  BY DEF Register
<1>. QED
  <2> SUFFICES ASSUME NEW t \in Thread
               PROVE  /\ ~(pc[t] = "use" /\ ~raced'[t])
                      /\ report[t].kind = "patched" => pc[t] = "handled"
                      /\ report[t].kind = "patched" /\ ~raced'[t] => Patcher(patches', report[t].hook, rip[t])
    BY <1>5 DEF NamingInv
  <2>1. raced'[t] <=> (raced[t] \/ pc[t] \in {"use", "useNear"})
    BY <1>5, Zenon
  <2>2. report[t].kind = "patched" /\ ~raced[t] => Patcher(patches, report[t].hook, rip[t])
    BY DEF NamingInv
  <2>3. Patcher(patches, report[t].hook, rip[t]) => Patcher(patches', report'[t].hook, rip'[t])
    BY <1>4, <1>5
  <2>. QED BY <1>5, <2>1, <2>2, <2>3 DEF NamingInv

(* A thread's own steps: only find_patch's pointer leads to a name.        *)
LEMMA HandlerKeepsNames ==
  ASSUME RegistryInv, ThreadTypeOK, NamingInv, NEW t \in Thread, ThreadNext(t)
  PROVE  NamingInv'
<1>1. patches' = patches
  BY DEF ThreadNext, EnterCallback, LeaveCallback, FaultInPlugin, Fault, SearchExact, SearchNear,
     AttributeExact, AttributeNear, UseEntry, CatchCrash, GameRecovers
<1>2. \A u \in Thread : u # t =>
        /\ pc'[u] = pc[u] /\ raced'[u] = raced[u] /\ ptr'[u] = ptr[u] /\ rip'[u] = rip[u]
        /\ report'[u] = report[u]
  BY DEF ThreadNext, EnterCallback, LeaveCallback, FaultInPlugin, Fault, SearchExact, SearchNear,
     AttributeExact, AttributeNear, UseEntry, CatchCrash, GameRecovers, Forget, Goto, ThreadTypeOK
<1>3. /\ pc'[t] = "use" /\ ~raced'[t] => ptr'[t] \in 1..Len(patches) /\ InRange(patches[ptr'[t]], rip'[t])
      /\ report'[t].kind = "patched" => pc'[t] = "handled"
      /\ report'[t].kind = "patched" /\ ~raced'[t] => Patcher(patches, report'[t].hook, rip'[t])
  <2>0. report[t].kind = "patched" => pc[t] = "handled"
    BY DEF NamingInv
  <2>1. CASE EnterCallback(t) \/ LeaveCallback(t) \/ Fault(t) \/ SearchExact(t)
    BY <2>0, <2>1 DEF EnterCallback, LeaveCallback, Fault, SearchExact, Goto, ThreadTypeOK
  <2>2. CASE FaultInPlugin(t) \/ SearchNear(t) \/ AttributeNear(t)
    BY <2>0, <2>2 DEF FaultInPlugin, SearchNear, AttributeNear, Goto, ThreadTypeOK, Quiet
  <2>3. CASE AttributeExact(t)
    <3>1. /\ ptr'[t] = FindPatch(patches, rip[t]) /\ rip' = rip /\ report' = report /\ pc[t] = "attrib"
          /\ pc'[t] = "use" => FindPatch(patches, rip[t]) # 0
      BY <2>3 DEF AttributeExact, Goto, ThreadTypeOK
    <3>2. patches \in Seq(Entry) /\ IsSortedByBase(patches) /\ rip[t] \in Nat
      BY DEF RegistryInv, InstallerTypeOK, PatchesSorted, ThreadTypeOK
    <3>. QED BY <2>0, <3>1, <3>2, FoundIsInRange
  <2>4. CASE UseEntry(t)
    <3>1. PICK h \in Hook :
            /\ raced[t] \/ h = patches[ptr[t]].hook
            /\ report' = [report EXCEPT ![t] = [kind |-> IF pc[t] = "use" THEN "patched" ELSE "nearby", hook |-> h]]
      BY <2>4 DEF UseEntry
    <3>2. /\ report'[t].kind = IF pc[t] = "use" THEN "patched" ELSE "nearby"
          /\ report'[t].hook = h
          /\ pc'[t] = "handled" /\ raced' = raced /\ rip' = rip
      BY <2>4, <3>1 DEF UseEntry, Goto, ThreadTypeOK
    <3>3. pc[t] = "use" /\ ~raced[t] => Patcher(patches, h, rip[t])
      BY <3>1 DEF NamingInv, Patcher
    <3>. QED BY <3>2, <3>3
  <2>5. CASE CatchCrash(t) \/ GameRecovers(t)
    BY <2>5 DEF CatchCrash, GameRecovers, Forget, Goto, ThreadTypeOK, Quiet
  <2>. QED BY <2>1, <2>2, <2>3, <2>4, <2>5 DEF ThreadNext
<1>. QED
  BY <1>1, <1>2, <1>3 DEF NamingInv, Patcher

(* Every step keeps the names true.                                        *)
LEMMA NamingInvStep == RegistryInv /\ ThreadTypeOK /\ NamingInv /\ [Next]_vars => NamingInv'
<1> SUFFICES ASSUME RegistryInv, ThreadTypeOK, NamingInv, [Next]_vars PROVE NamingInv'
  OBVIOUS
<1>1. CASE RegisterBytes \/ RegisterHook
  <2>1. Installing /\ step \in DOMAIN Script[hook] /\ Register
    BY <1>1 DEF RegisterBytes, RegisterHook, AtOp, RegistryInv, InstallerTypeOK
  <2>. QED BY <2>1, RegisterKeepsNames
<1>2. ASSUME NEW t \in Thread, ThreadNext(t) PROVE NamingInv'
  BY <1>2, HandlerKeepsNames
<1>3. CASE \/ SkipHook \/ OperationFails \/ WriteBytes \/ CreateHook \/ InstallReturns
           \/ InstallFaults \/ Rewrite \/ UNCHANGED vars
  <2>1. UNCHANGED <<patches, pc, raced, ptr, rip, report>>
    BY <1>3 DEF SkipHook, OperationFails, WriteBytes, CreateHook, InstallReturns, InstallFaults, Rewrite,
       vars, threadVars
  <2>. QED BY <2>1 DEF NamingInv, Patcher
<1>. QED
  BY <1>1, <1>2, <1>3 DEF Next, InstallerNext

(* "Address patched by hook X" is true, for every install script and any   *)
(* number of threads that fault while hooks are installed, unless an       *)
(* insertion came between the search and the use of its pointer.           *)
THEOREM ReportsNameThePatcher == Spec => []NamesThePatcher
<1>1. Init => NamingInv
  BY DEF Init, NamingInv, Quiet
<1>2. NamingInv => NamesThePatcher
  BY DEF NamingInv, NamesThePatcher, Patcher
<1>3. TypeOK => ThreadTypeOK
  BY DEF TypeOK
<1>. QED
  BY <1>1, <1>2, <1>3, RegistryInvInit, RegistryInvStep, NamingInvStep, FaultHandlingTypes, PTL DEF Spec
=============================================================================
