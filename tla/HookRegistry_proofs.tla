-------------------------- MODULE HookRegistry_proofs --------------------------
(***************************************************************************)
(* The registry's invariants hold for every hook list, dependency graph    *)
(* and sequence of INI contents.  IInv is the inductive strengthening: it  *)
(* says where in its loops a pass is and what it has done so far.          *)
(***************************************************************************)
EXTENDS HookRegistry, TLAPS

-----------------------------------------------------------------------------
(* The largest closed subset is closed, and a subset. *)
LEMMA LargestClosedIsClosed ==
  ASSUME NEW hard, NEW S
  PROVE  /\ LargestClosed(hard, S) \subseteq S
         /\ HardClosed(hard, LargestClosed(hard, S))
  BY DEF LargestClosed, HardClosed

(* What the cascade makes of the wanted hooks.                             *)
LEMMA CascadeFacts ==
  ASSUME NEW S \in SUBSET Hook
  PROVE  /\ Cascade(S) \in SUBSET S
         /\ Cascade(S) \in SUBSET Hook
         /\ HardClosed(Hard, Cascade(S))
  BY LargestClosedIsClosed DEF Cascade

(* Positions of the install order: every hook has the hooks it depends on  *)
(* strictly before it.                                                     *)
LEMMA LaterIsNoDep ==
  ASSUME NEW i \in Hook, NEW j \in Hook, i <= j
  PROVE  InstallOrder[j] \notin Hard[InstallOrder[i]] \cup Soft[InstallOrder[i]]
<1> SUFFICES ASSUME InstallOrder[j] \in Hard[InstallOrder[i]] \cup Soft[InstallOrder[i]]
             PROVE  FALSE
  OBVIOUS
<1>1. PICK k \in Hook : k < i /\ InstallOrder[k] = InstallOrder[j]
  BY OrderAssumption
<1>2. k = j
  BY <1>1, OrderAssumption
<1>3. i \in Nat /\ j \in Nat
  BY GraphAssumption DEF Hook
<1>4. QED
  BY <1>1, <1>2, <1>3

-----------------------------------------------------------------------------
(* The type invariant.  Sequences are typed by their length and elements,  *)
(* so it is as strong as the run's TypeOK.                                 *)
LEMMA SetEnabledType ==
  ASSUME TypeOK, NEW h \in Hook, NEW b, SetEnabled(h, b)
  PROVE  enabled' \in SUBSET Hook
  BY DEF TypeOK, SetEnabled

(* Every variable stays in its range. *)
THEOREM TypeCorrect == Spec => []TypeOK
<1>1. Init => TypeOK
  <2> SUFFICES ASSUME Init PROVE TypeOK
    OBVIOUS
  <2>1. EmptyIni \in Ini
    BY DEF EmptyIni, Ini
  <2>2. ini \in Ini
    BY <2>1, IniAssumption DEF Init
  <2>3. pos \in 1..(N + 1)
    BY GraphAssumption DEF Init
  <2>4. journal \in Seq(Hook)
    BY DEF Init
  <2>5. QED
    BY <2>2, <2>3, <2>4, IniAssumption DEF Init, TypeOK, None
<1>2. TypeOK /\ [Next]_vars => TypeOK'
  <2> SUFFICES ASSUME TypeOK, [Next]_vars PROVE TypeOK'
    OBVIOUS
  <2> USE DEF TypeOK, store, setup, pass, Step, GoTo
  <2>0. N \in Nat
    BY GraphAssumption
  <2>1. CASE LoadConfig
    <3>1. pos \in Hook /\ ini.cfg[pos] \in Value \cup {Absent}
      BY <2>0, <2>1 DEF LoadConfig, Hook, Ini
    <3>2. config' \in [Hook -> Value]
      BY <2>1, <3>1 DEF LoadConfig
    <3>3. QED
      BY <2>0, <2>1, <3>2 DEF LoadConfig
  <2>2. CASE ConfigsLoaded
    BY <2>0, <2>2 DEF ConfigsLoaded
  <2>3. CASE LoadEnabled
    <3>1. pos \in Hook
      BY <2>0, <2>3 DEF LoadEnabled, Hook
    <3>2. enabled' \in SUBSET Hook
      BY <2>3, <3>1, SetEnabledType DEF LoadEnabled
    <3>3. QED
      BY <2>0, <2>3, <3>2 DEF LoadEnabled
  <2>4. CASE CascadeFlags
    <3>1. flags' \in SUBSET Hook
      BY <2>4, CascadeFacts DEF CascadeFlags
    <3>2. QED
      BY <2>0, <2>4, <3>1 DEF CascadeFlags
  <2>5. CASE StoreFlag
    <3>1. pos \in Hook
      BY <2>0, <2>5 DEF StoreFlag, Hook
    <3>2. enabled' \in SUBSET Hook
      BY <2>5, <3>1, SetEnabledType DEF StoreFlag
    <3>3. QED
      BY <2>0, <2>5, <3>2 DEF StoreFlag
  <2>6. CASE FlagsStored
    BY <2>0, <2>6 DEF FlagsStored
  <2>7. CASE SkipInstall
    BY <2>0, <2>7 DEF SkipInstall
  <2>8. CASE InstallSucceeds
    <3>1. Candidate \in Hook
      BY <2>8 DEF InstallSucceeds
    <3>2. applied' \in [Hook -> Value \cup {None}]
      BY <2>8, <3>1 DEF InstallSucceeds
    <3>3. installed' \in SUBSET live' /\ live' \in SUBSET found
      BY <2>8 DEF InstallSucceeds
    <3>4. QED
      BY <2>8, <3>2, <3>3 DEF InstallSucceeds
  <2>9. CASE JournalInstall
    <3>1. pos \in Hook /\ Candidate \in Hook
      BY <2>0, <2>9, OrderAssumption DEF JournalInstall, Hook, Candidate
    <3>2. journal' \in Seq(Hook)
      BY <2>9, <3>1 DEF JournalInstall
    <3>3. QED
      BY <2>0, <2>9, <3>1, <3>2 DEF JournalInstall, Hook
  <2>10. CASE InstallFails
    BY <2>0, <2>10 DEF InstallFails
  <2>11. CASE InstallThrows
    BY <2>11 DEF InstallThrows
  <2>12. CASE InstallAllReturns
    BY <2>0, <2>12 DEF InstallAllReturns
  <2>13. CASE Notify
    <3>1. pos \in Hook
      BY <2>0, <2>13 DEF Notify, Hook
    <3>2. applied' \in [Hook -> Value \cup {None}]
      BY <2>13, <3>1 DEF Notify
    <3>3. QED
      BY <2>0, <2>13, <3>2 DEF Notify
  <2>14. CASE ReloadReturns
    BY <2>0, <2>14 DEF ReloadReturns
  <2>15. CASE BeginReload
    BY <2>0, <2>15, IniAssumption DEF BeginReload
  <2>16. CASE UNCHANGED vars
    BY <2>16 DEF vars
  <2>17. QED
    BY <2>1, <2>2, <2>3, <2>4, <2>5, <2>6, <2>7, <2>8, <2>9, <2>10, <2>11,
       <2>12, <2>13, <2>14, <2>15, <2>16 DEF Next, Work
<1>3. QED
  BY <1>1, <1>2, PTL DEF Spec

-----------------------------------------------------------------------------
(* PassInv, action by action. *)

(* The wanted hooks are hooks.                                             *)
LEMMA WantedType == TypeOK => Wanted \in SUBSET Hook
  BY DEF Wanted

(* A loop that replaces one membership after the other. *)
LEMMA LoopStep ==
  ASSUME NEW p \in Hook, NEW new, NEW old
  PROVE  (IF p \in new THEN Progress(p, new, old) \cup {p} ELSE Progress(p, new, old) \ {p})
           = Progress(p + 1, new, old)
<1>1. \A h \in Hook : h < p + 1 <=> h < p \/ h = p
  BY GraphAssumption DEF Hook
<1>2. ~(p < p)
  BY GraphAssumption DEF Hook
<1>3. CASE p \in new
  BY <1>1, <1>2, <1>3 DEF Progress
<1>4. CASE p \notin new
  BY <1>1, <1>2, <1>4 DEF Progress
<1>5. QED
  BY <1>3, <1>4

(* A loop that has passed the last hook has done all of them.              *)
LEMMA LoopEnds ==
  ASSUME NEW new \in SUBSET Hook, NEW old
  PROVE  Progress(N + 1, new, old) = new
<1>1. \A h \in Hook : h < N + 1
  BY GraphAssumption DEF Hook
<1>2. QED
  BY <1>1 DEF Progress

(* A loop at the first hook has done none.                                 *)
LEMMA LoopStarts ==
  ASSUME NEW new, NEW old \in SUBSET Hook
  PROVE  Progress(1, new, old) = old
<1>1. \A h \in Hook : ~(h < 1)
  BY GraphAssumption DEF Hook
<1>2. QED
  BY <1>1 DEF Progress

(* The flags stay a mixture of old and new ones at the loop's index.       *)
LEMMA PassInvStep == TypeOK /\ TypeOK' /\ PassInv /\ [Next]_vars => PassInv'
<1> SUFFICES ASSUME TypeOK, TypeOK', PassInv, [Next]_vars PROVE PassInv'
  OBVIOUS
<1> USE DEF store, setup, pass, Step, GoTo, FlagsSettled
<1>0. N \in Nat /\ Wanted \in SUBSET Hook
  BY GraphAssumption, WantedType
<1>w. ini' = ini /\ before' = before => Wanted' = Wanted
  BY DEF Wanted, RawFlag
<1>1. CASE LoadConfig
  <2>1. pos \in Hook
    BY <1>0, <1>1 DEF LoadConfig, Hook, TypeOK
  <2>2. \A h \in Hook : ini.cfg[h] # Absent /\ h < pos + 1 => config'[h] = ini.cfg[h]
    <3> SUFFICES ASSUME NEW h \in Hook, ini.cfg[h] # Absent, h < pos + 1
                 PROVE  config'[h] = ini.cfg[h]
      OBVIOUS
    <3>1. h = pos \/ h < pos
      BY <2>1, GraphAssumption DEF Hook
    <3>2. QED
      BY <1>1, <2>1, <3>1 DEF LoadConfig, PassInv, TypeOK
  <2>3. QED
    BY <1>1, <2>2 DEF LoadConfig, PassInv
<1>2. CASE ConfigsLoaded
  <2>1. \A h \in Hook : h < pos
    BY <1>0, <1>2 DEF ConfigsLoaded, Hook
  <2>2. enabled = Progress(1, Wanted, before)
    BY <1>2, LoopStarts DEF ConfigsLoaded, PassInv, TypeOK
  <2>3. QED
    BY <1>2, <1>w, <2>1, <2>2 DEF ConfigsLoaded, PassInv
<1>3. CASE LoadEnabled
  <2>1. pos \in Hook
    BY <1>0, <1>3 DEF LoadEnabled, Hook, TypeOK
  <2>2. pos \in enabled <=> pos \in before
    BY <1>3, <2>1, GraphAssumption DEF LoadEnabled, PassInv, Hook, Progress
  <2>3. RawFlag(pos, pos \in enabled) <=> pos \in Wanted
    BY <2>1, <2>2 DEF RawFlag, Wanted
  <2>4. enabled' = IF pos \in Wanted THEN enabled \cup {pos} ELSE enabled \ {pos}
    BY <1>3, <2>3 DEF LoadEnabled, SetEnabled
  <2>5. enabled' = Progress(pos + 1, Wanted, before)
    <3>1. enabled = Progress(pos, Wanted, before)
      BY <1>3 DEF LoadEnabled, PassInv
    <3>2. (IF pos \in Wanted THEN Progress(pos, Wanted, before) \cup {pos}
           ELSE Progress(pos, Wanted, before) \ {pos}) = Progress(pos + 1, Wanted, before)
      BY <2>1, LoopStep, Zenon
    <3>3. QED
      BY <2>4, <3>1, <3>2
  <2>6. QED
    BY <1>3, <1>w, <2>5 DEF LoadEnabled, PassInv
<1>4. CASE CascadeFlags
  <2>1. enabled = Wanted
    BY <1>0, <1>4, LoopEnds DEF CascadeFlags, PassInv
  <2>2. enabled = Progress(1, Cascade(Wanted), Wanted)
    BY <1>0, <2>1, LoopStarts
  <2>3. flags' = Cascade(Wanted)
    BY <1>4, <2>1 DEF CascadeFlags
  <2>4. QED
    BY <1>4, <1>w, <2>2, <2>3 DEF CascadeFlags, PassInv
<1>5. CASE StoreFlag
  <2>1. pos \in Hook
    BY <1>0, <1>5 DEF StoreFlag, Hook, TypeOK
  <2>2. enabled' = IF pos \in flags THEN enabled \cup {pos} ELSE enabled \ {pos}
    BY <1>5 DEF StoreFlag, SetEnabled
  <2>3. enabled' = Progress(pos + 1, flags, Wanted)
    <3>1. enabled = Progress(pos, flags, Wanted)
      BY <1>5 DEF StoreFlag, PassInv
    <3>2. (IF pos \in flags THEN Progress(pos, flags, Wanted) \cup {pos}
           ELSE Progress(pos, flags, Wanted) \ {pos}) = Progress(pos + 1, flags, Wanted)
      BY <2>1, LoopStep, Zenon
    <3>3. QED
      BY <2>2, <3>1, <3>2
  <2>4. QED
    BY <1>5, <1>w, <2>3 DEF StoreFlag, PassInv
<1>6. CASE FlagsStored
  <2>1. enabled = Cascade(Wanted)
    BY <1>0, <1>6, LoopEnds, CascadeFacts DEF FlagsStored, PassInv
  <2>2. QED
    BY <1>6, <1>w, <2>1 DEF FlagsStored, PassInv, TypeOK
<1>7. CASE SkipInstall \/ InstallFails \/ InstallThrows \/ InstallAllReturns
  BY <1>7, <1>w DEF SkipInstall, InstallFails, InstallThrows, InstallAllReturns, PassInv
<1>8. CASE InstallSucceeds \/ JournalInstall
  BY <1>8, <1>w DEF InstallSucceeds, JournalInstall, PassInv
<1>9. CASE Notify \/ ReloadReturns
  BY <1>9, <1>w DEF Notify, ReloadReturns, PassInv
<1>10. CASE BeginReload
  <2>1. \A h \in Hook : ~(h < 1)
    BY <1>0 DEF Hook
  <2>2. QED
    BY <1>10, <2>1 DEF BeginReload, PassInv
<1>11. CASE UNCHANGED vars
  BY <1>11, <1>w DEF vars, PassInv
<1>12. QED
  BY <1>1, <1>2, <1>3, <1>4, <1>5, <1>6, <1>7, <1>8, <1>9, <1>10, <1>11 DEF Next, Work

-----------------------------------------------------------------------------
(* SetupInv: installed only grows while install_all installs; applied      *)
(* catches up with config before a pass comes to rest.                     *)
LEMMA SetupInvStep ==
  TypeOK /\ TypeOK' /\ JournalInv /\ SetupInv /\ [Next]_vars => SetupInv'
<1> SUFFICES ASSUME TypeOK, TypeOK', JournalInv, SetupInv, [Next]_vars PROVE SetupInv'
  OBVIOUS
<1> USE DEF store, setup, pass, Step, GoTo, FlagsSettled, SetupInv, AppliedIsCurrent
<1>0. N \in Nat
  BY GraphAssumption
<1>1. CASE LoadConfig \/ ConfigsLoaded \/ LoadEnabled \/ CascadeFlags \/ StoreFlag
  BY <1>1 DEF LoadConfig, ConfigsLoaded, LoadEnabled, CascadeFlags, StoreFlag
<1>2. CASE FlagsStored
  <2>1. CASE mode = "install"
    BY <1>2, <2>1 DEF FlagsStored
  <2>2. CASE mode = "reload"
    <3>1. \A h \in Hook : ~(h < 1)
      BY <1>0 DEF Hook
    <3>2. HasOnReload \subseteq Hook
      BY IniAssumption
    <3>3. QED
      BY <1>2, <2>2, <3>1, <3>2 DEF FlagsStored
  <2>3. QED
    BY <2>1, <2>2 DEF TypeOK
<1>3. CASE SkipInstall \/ InstallFails \/ InstallThrows \/ JournalInstall
  BY <1>3 DEF SkipInstall, InstallFails, InstallThrows, JournalInstall
<1>4. CASE InstallSucceeds
  <2>1. Candidate \in Hook
    BY <1>4 DEF InstallSucceeds, TypeOK
  <2>2. applied'[Candidate] = config[Candidate]
    BY <1>4, <2>1 DEF InstallSucceeds, TypeOK
  <2>3. \A h \in Hook : h # Candidate => applied'[h] = applied[h]
    BY <1>4, <2>1 DEF InstallSucceeds, TypeOK
  <2>4. QED
    BY <1>4, <2>2, <2>3 DEF InstallSucceeds, TypeOK
<1>5. CASE InstallAllReturns
  BY <1>5 DEF InstallAllReturns
<1>6. CASE Notify
  <2>1. pos \in Hook
    BY <1>0, <1>6 DEF Notify, Hook, TypeOK
  <2>2. \A h \in Hook : h < pos + 1 <=> h < pos \/ h = pos
    BY <2>1, GraphAssumption DEF Hook
  <2>3. \A h \in Hook : applied'[h] = IF h = pos /\ pos \in HasOnReload /\ Notifies(pos)
                                      THEN config[pos] ELSE applied[h]
    BY <1>6, <2>1 DEF Notify, TypeOK
  <2>4. SUFFICES ASSUME NEW h \in installed' \cap enabled' \cap HasOnReload, h < pos'
                 PROVE  applied'[h] = config'[h]
    BY <1>6 DEF Notify
  <2>5. h \in Hook /\ h \in installed \cap enabled \cap HasOnReload /\ config' = config
    BY <1>6, <2>4, IniAssumption DEF Notify
  <2>6. h < pos \/ h = pos
    BY <1>6, <2>2, <2>4, <2>5 DEF Notify
  <2>7. CASE h = pos
    BY <2>3, <2>5, <2>7 DEF Notifies
  <2>8. CASE h < pos /\ h # pos
    BY <1>6, <2>3, <2>5, <2>8 DEF Notify
  <2>9. QED
    BY <2>6, <2>7, <2>8
<1>7. CASE ReloadReturns
  <2>1. \A h \in HasOnReload : h < pos
    BY <1>0, <1>7, IniAssumption DEF ReloadReturns, Hook
  <2>2. QED
    BY <1>7, <2>1 DEF ReloadReturns
<1>8. CASE BeginReload
  BY <1>8 DEF BeginReload
<1>9. CASE UNCHANGED vars
  BY <1>9 DEF vars
<1>10. QED
  BY <1>1, <1>2, <1>3, <1>4, <1>5, <1>6, <1>7, <1>8, <1>9 DEF Next, Work

-----------------------------------------------------------------------------
(* JournalInv: the journal follows the install order.                      *)
LEMMA JournalInvStep ==
  TypeOK /\ TypeOK' /\ SetupInv /\ JournalInv /\ [Next]_vars => JournalInv'
<1> SUFFICES ASSUME TypeOK, TypeOK', SetupInv, JournalInv, [Next]_vars PROVE JournalInv'
  OBVIOUS
<1> USE DEF store, setup, pass, Step, GoTo, FlagsSettled
<1>0. N \in Nat
  BY GraphAssumption
<1>j. UNCHANGED journal => Journaled' = Journaled /\ (JournalInDepOrder <=> JournalInDepOrder')
  BY DEF Journaled, JournalInDepOrder
<1>1. CASE LoadConfig \/ ConfigsLoaded \/ LoadEnabled \/ CascadeFlags \/ StoreFlag
            \/ Notify \/ ReloadReturns \/ BeginReload
  BY <1>1, <1>j DEF LoadConfig, ConfigsLoaded, LoadEnabled, CascadeFlags, StoreFlag,
     Notify, ReloadReturns, BeginReload, JournalInv, JournalListsInstalled
<1>2. CASE FlagsStored
  <2>1. mode = "install" => Journaled = {}
    BY <1>2 DEF FlagsStored, JournalInv, JournalListsInstalled, SetupInv
  <2>2. QED
    BY <1>2, <1>j, <2>1 DEF FlagsStored, JournalInv, JournalListsInstalled, TypeOK
<1>3. CASE SkipInstall \/ InstallFails
  <2>1. pos' = pos + 1 /\ pos \in Nat /\ \A i \in Hook : i < pos => i < pos + 1
    BY <1>0, <1>3 DEF SkipInstall, InstallFails, TypeOK, Hook
  <2>2. QED
    BY <1>3, <1>j, <2>1 DEF SkipInstall, InstallFails, JournalInv, JournalListsInstalled
<1>4. CASE InstallThrows \/ InstallAllReturns
  BY <1>4, <1>j DEF InstallThrows, InstallAllReturns, JournalInv, JournalListsInstalled
<1>5. CASE InstallSucceeds
  BY <1>5, <1>j DEF InstallSucceeds, JournalInv, JournalListsInstalled, Candidate
<1>6. CASE JournalInstall
  <2>1. pos \in Hook /\ Candidate \in Hook /\ pc' = "install"
    BY <1>0, <1>6, OrderAssumption DEF JournalInstall, Candidate, Hook, TypeOK
  <2>2. DEFINE k == Len(journal) + 1
  <2>3. /\ journal' = Append(journal, Candidate)
        /\ journal \in Seq(Hook) /\ Len(journal) \in Nat /\ Len(journal') = k
        /\ journal'[k] = Candidate
        /\ \A i \in 1..Len(journal) : journal'[i] = journal[i]
    BY <1>6, <2>1 DEF JournalInstall, TypeOK
  <2>4. \A i \in 1..k : i \in 1..Len(journal) \/ i = k
    BY <2>3
  <2>5. Journaled' = Journaled \cup {Candidate}
    BY <2>3, <2>4 DEF Journaled
  <2>6. \A h \in Journaled' : \E i \in Hook : i < pos + 1 /\ h = InstallOrder[i]
    <3>1. \A i \in Hook : i < pos => i < pos + 1
      BY <2>1, GraphAssumption DEF Hook
    <3>2. pos < pos + 1
      BY <2>1, GraphAssumption DEF Hook
    <3>3. QED
      BY <1>6, <2>1, <2>5, <3>1, <3>2 DEF JournalInstall, JournalInv, Candidate
  <2>7. JournalInDepOrder'
    <3> SUFFICES ASSUME NEW i \in 1..k, NEW j \in 1..k, i <= j
                 PROVE  journal'[j] \notin Hard[journal'[i]] \cup Soft[journal'[i]]
      BY <2>3 DEF JournalInDepOrder
    <3>1. CASE j \in 1..Len(journal)
      <4>1. i \in 1..Len(journal)
        BY <2>3, <3>1
      <4>2. journal[j] \notin Hard[journal[i]] \cup Soft[journal[i]]
        BY <3>1, <4>1 DEF JournalInv, JournalInDepOrder
      <4>3. QED
        BY <2>3, <3>1, <4>1, <4>2
    <3>2. CASE j = k
      <4>1. PICK a \in Hook : a <= pos /\ journal'[i] = InstallOrder[a]
        <5>1. CASE i = k
          BY <2>1, <2>3, <5>1, GraphAssumption DEF Candidate, Hook
        <5>2. CASE i \in 1..Len(journal)
          <6>1. journal'[i] \in Journaled
            BY <2>3, <5>2 DEF Journaled
          <6>2. PICK a \in Hook : a < pos /\ journal'[i] = InstallOrder[a]
            BY <1>6, <6>1 DEF JournalInstall, JournalInv
          <6>3. a <= pos
            BY <2>1, <6>2, GraphAssumption DEF Hook
          <6>4. QED
            BY <6>2, <6>3
        <5>3. QED
          BY <2>4, <5>1, <5>2
      <4>2. journal'[j] = InstallOrder[pos]
        BY <2>3, <3>2 DEF Candidate
      <4>3. QED
        BY <2>1, <4>1, <4>2, LaterIsNoDep
    <3>3. QED
      BY <2>4, <3>1, <3>2
  <2>8. JournalListsInstalled'
    BY <1>6, <2>1, <2>5 DEF JournalInstall, JournalInv, JournalListsInstalled
  <2>9. QED
    BY <1>6, <2>6, <2>7, <2>8 DEF JournalInstall, JournalInv
<1>7. CASE UNCHANGED vars
  BY <1>7, <1>j DEF vars, JournalInv, JournalListsInstalled, Candidate
<1>8. QED
  BY <1>1, <1>2, <1>3, <1>4, <1>5, <1>6, <1>7 DEF Next, Work

-----------------------------------------------------------------------------
(* IInv is an invariant, and the properties follow from it.                *)

(* The state of every loop of a pass is what PassInv, SetupInv and         *)
(* JournalInv say.                                                         *)
THEOREM Inductive == Spec => []IInv
<1>1. Init => PassInv /\ SetupInv /\ JournalInv
  <2> SUFFICES ASSUME Init PROVE PassInv /\ SetupInv /\ JournalInv
    OBVIOUS
  <2>1. \A h \in Hook : ~(h < 1)
    BY GraphAssumption DEF Hook
  <2>2. PassInv
    BY <2>1 DEF Init, PassInv, FlagsSettled
  <2>3. SetupInv
    BY DEF Init, SetupInv, FlagsSettled, AppliedIsCurrent
  <2>4. Len(journal) = 0 /\ Journaled = {}
    BY DEF Init, Journaled
  <2>5. JournalInv
    BY <2>4 DEF Init, JournalInv, JournalListsInstalled, JournalInDepOrder
  <2>6. QED
    BY <2>2, <2>3, <2>5
<1>2. TypeOK /\ TypeOK' /\ (PassInv /\ SetupInv /\ JournalInv) /\ [Next]_vars
        => (PassInv /\ SetupInv /\ JournalInv)'
  BY PassInvStep, SetupInvStep, JournalInvStep
<1>3. IInv <=> TypeOK /\ (PassInv /\ SetupInv /\ JournalInv)
  BY DEF IInv
<1>4. QED
  BY <1>1, <1>2, <1>3, TypeCorrect, PTL DEF Spec

(* No enabled hook has a disabled hard dependency, outside the window in   *)
(* which apply_enabled_flags is storing the flags.                         *)
THEOREM HardDepsHold == Spec => []HardDepsSettled
<1>1. IInv => HardDepsSettled
  BY WantedType, CascadeFacts DEF IInv, PassInv, HardDepsSettled
<1>2. QED
  BY <1>1, Inductive, PTL

(* A pass leaves what the INI says, less the cascade. *)
THEOREM PassIsHonoured == Spec => []PassHonoursIni
<1>1. IInv => PassHonoursIni
  BY DEF IInv, PassInv, PassHonoursIni, FlagsSettled
<1>2. QED
  BY <1>1, Inductive, PTL

(* A wanted hook whose hard dependencies survive the cascade survives it.   *)
LEMMA KeptWithItsDeps ==
  ASSUME NEW S \in SUBSET Hook, NEW h \in S, Hard[h] \subseteq Cascade(S)
  PROVE  h \in Cascade(S)
<1> DEFINE T == Cascade(S) \cup {h}
<1>1. T \in SUBSET S
  BY CascadeFacts
<1>2. HardClosed(Hard, T)
  BY CascadeFacts DEF HardClosed
<1>3. QED
  BY <1>1, <1>2 DEF Cascade, LargestClosed

(* A flag that a pass keeps never flickers, whatever the game thread's     *)
(* timing; one that the cascade takes back shows for no longer than from   *)
(* its load to its store.                                                  *)
THEOREM FlickersAreBounded == Spec => []FlickersOnlyInCascade
<1>1. IInv => FlickersOnlyInCascade
  <2> SUFFICES ASSUME IInv PROVE FlickersOnlyInCascade
    OBVIOUS
  <2> DEFINE Window(h) == (pc = "enabled" /\ h < pos) \/ (pc = "store" /\ pos <= h)
  <2>1. /\ Wanted \in SUBSET Hook
        /\ Cascade(Wanted) \in SUBSET Wanted
    BY WantedType, CascadeFacts DEF IInv
  <2>2. \A h \in Hook : h < pos \/ pos <= h
    BY GraphAssumption DEF IInv, TypeOK, Hook
  <2>3. /\ before \cap Cascade(Wanted) \subseteq enabled
        /\ enabled \subseteq before \cup Wanted
        /\ \A h \in enabled \ (before \cup Cascade(Wanted)) : Window(h)
    <3>1. CASE pc = "configs"
      BY <3>1 DEF IInv, PassInv
    <3>2. CASE pc = "enabled"
      BY <2>1, <3>2 DEF IInv, PassInv, Progress, TypeOK
    <3>3. CASE pc = "store"
      BY <2>1, <2>2, <3>3 DEF IInv, PassInv, Progress, TypeOK
    <3>4. CASE FlagsSettled
      BY <2>1, <3>4 DEF IInv, PassInv
    <3>5. QED
      BY <3>1, <3>2, <3>3, <3>4 DEF IInv, TypeOK, FlagsSettled
  <2>4. ASSUME NEW h \in enabled \ (before \cup Cascade(Wanted))
        PROVE  ini.flag[h] = "on" /\ ~(Hard[h] \subseteq Cascade(Wanted))
    <3>1. h \in Wanted /\ h \notin before
      BY <2>3, <2>4
    <3>2. ini.flag[h] = "on"
      BY <3>1 DEF Wanted, RawFlag
    <3>3. QED
      BY <2>1, <2>4, <3>1, <3>2, KeptWithItsDeps
  <2>5. QED
    BY <2>3, <2>4 DEF FlickersOnlyInCascade
<1>2. QED
  BY <1>1, Inductive, PTL

(* At rest the hooks act on the current config.                            *)
THEOREM AppliedAtRest == Spec => []AppliedIsCurrent
<1>1. IInv => AppliedIsCurrent
  BY DEF IInv, SetupInv
<1>2. QED
  BY <1>1, Inductive, PTL

(* The journal lists the installed hooks, dependencies first.              *)
THEOREM JournalIsRight == Spec => [](JournalListsInstalled /\ JournalInDepOrder)
<1>1. IInv => JournalListsInstalled /\ JournalInDepOrder
  BY DEF IInv, JournalInv
<1>2. QED
  BY <1>1, Inductive, PTL
=============================================================================
