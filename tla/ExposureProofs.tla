--------------------------- MODULE ExposureProofs ---------------------------
(***************************************************************************)
(* The properties of Exposure for any number of hosts, ports, scans and    *)
(* decisions, any cap, and scans that may be cut anywhere.                 *)
(*                                                                         *)
(* HostsReported is not inductive: while a scan is between its two writes  *)
(* the new baseline holds hosts nobody has reported.  ToldInv says what    *)
(* holds then: the old baseline, which the scan still has, was accounted   *)
(* for, and the new one is what it saw.  A new host that is not reported   *)
(* lies behind as many that are as the cap allows (CapInOrder), for those  *)
(* that are reported are the first ones.                                   *)
(***************************************************************************)
EXTENDS Exposure, FiniteSetTheorems, WellFoundedInduction, TLAPS

\* The hosts that are reported, or that no scan was to tell of.
Accounted == untold \cup {h \in Hosts : Has(NewHost(h))}

ToldInv ==
    /\ pc \in {"idle", "probed"} => baseline \subseteq Accounted
    /\ pc = "saved" => before \subseteq Accounted /\ baseline = Up

-----------------------------------------------------------------------------
(* Identities and records *)

LEMMA Identities ==
    /\ \A h \in Hosts, s \in Schemes : Web(h, s) \in Identity
    /\ \A h \in Hosts, p \in Ports : Tcp(h, p) \in Identity
    /\ \A h \in Hosts : NewHost(h) \in Identity
BY DEF Identity, Web, Tcp, NewHost

LEMMA TargetIsHost ==
    ASSUME NEW i \in Identity
    PROVE  Target(i) \in Hosts
BY DEF Identity, Target

\* Reconciliation keeps the records and their type, and counts one miss at most.
LEMMA ReconciledType ==
    ASSUME TypeOK, NEW i \in Identity
    PROVE  /\ Reconciled(i) \in Record
           /\ Reconciled(i).copies = findings[i].copies
           /\ Reconciled(i).streak <= findings[i].streak + 1
           /\ findings[i].status = "none" => Reconciled(i) = findings[i]
           /\ findings[i].status # "none" => Reconciled(i).status # "none"
<1>1. PICK f \in Record : f = findings[i]
  BY DEF TypeOK
<1>2. f.streak \in Nat /\ f.status \in {"none", "OPEN", "RESOLVED", "OWNED"}
  BY <1>1 DEF Record
<1>3. CASE f.status = "none"
  BY <1>1, <1>2, <1>3 DEF Reconciled
<1>4. CASE f.status # "none"
  <2>1. PICK st \in {"OPEN", "RESOLVED", "OWNED"}, n \in {0, f.streak, f.streak + 1} :
          Reconciled(i) = [f EXCEPT !.status = st, !.streak = n]
    <3>1. CASE f.status = "RESOLVED" /\ ~Observed(i)
      <4>1. Reconciled(i) = [f EXCEPT !.status = "RESOLVED", !.streak = f.streak]
        BY <1>1, <3>1 DEF Reconciled, Record
      <4> QED
        BY <4>1
    <3>2. CASE Observed(i)
      <4>1. Reconciled(i) =
              [f EXCEPT !.status = IF @ = "RESOLVED" THEN "OPEN" ELSE @, !.streak = 0]
        BY <1>1, <1>2, <1>4, <3>2 DEF Reconciled, Record
      <4> QED
        BY <1>2, <1>4, <4>1
    <3>3. CASE f.status # "RESOLVED" /\ ~Observed(i)
      <4>1. PICK st \in {"OPEN", "RESOLVED", "OWNED"} :
              st = IF f.status = "OPEN" /\ Due(i, f.streak + 1) THEN "RESOLVED" ELSE f.status
        BY <1>2, <1>4
      <4>2. Reconciled(i) = [f EXCEPT !.status = st, !.streak = f.streak + 1]
        BY <1>1, <1>2, <1>4, <3>3, <4>1 DEF Reconciled, Record
      <4> QED
        BY <4>2
    <3> QED
      BY <3>1, <3>2, <3>3
  <2>2. n \in Nat /\ n <= f.streak + 1
    BY <1>2, <2>1
  <2>3. /\ Reconciled(i).status = st /\ Reconciled(i).streak = n
        /\ Reconciled(i).copies = f.copies /\ Reconciled(i) \in Record
    BY <1>1, <2>1, <2>2 DEF Record
  <2> QED
    BY <1>1, <1>4, <2>1, <2>2, <2>3
<1> QED
  BY <1>3, <1>4

LEMMA MergedType ==
    ASSUME TypeOK, NEW i \in Identity
    PROVE  /\ Merged(i) \in Record
           /\ Merged(i).copies = findings[i].copies + (IF i \in Added THEN 1 ELSE 0)
<1>1. Reconciled(i) \in Record /\ Reconciled(i).copies = findings[i].copies
  BY ReconciledType
<1>2. findings[i] \in Record /\ findings[i].copies \in Nat
  BY DEF TypeOK, Record
<1> QED
  BY <1>1, <1>2 DEF Merged, Record

\* While a scan is at work there is room for the miss it may count.
CountInv ==
    pc # "idle" =>
      scans > 0 /\ \A i \in Identity : findings[i].copies > 0 => findings[i].streak + 1 < scans

\* A scan that has begun leaves every streak below the number of scans, if those it
\* found had room for one more.
LEMMA MergedCounted ==
    ASSUME TypeOK, CountInv, pc # "idle", NEW i \in Identity
    PROVE  Counted(Merged(i))
<1>1. /\ findings[i] \in Record /\ Counted(findings[i]) /\ scans \in Nat
      /\ findings[i].copies \in Nat /\ findings[i].streak \in Nat
      /\ scans > 0 /\ (findings[i].copies > 0 => findings[i].streak + 1 < scans)
  BY ExposureAssumption DEF TypeOK, CountInv, Record
<1>2. CASE i \in Added
  BY <1>1, <1>2, ReconciledType DEF Merged, Counted, Has
<1>3. CASE i \notin Added /\ findings[i].copies = 0
  BY <1>1, <1>3, ReconciledType DEF Merged, Counted, Absent
<1>4. CASE i \notin Added /\ findings[i].copies > 0
  <2>1. PICK r \in Record : r = Reconciled(i)
    BY ReconciledType
  <2>2. r.copies = findings[i].copies /\ r.streak <= findings[i].streak + 1 /\ r.status # "none"
    BY <1>1, <1>4, <2>1, ReconciledType DEF Counted
  <2>3. r.streak \in Nat /\ Merged(i) = r
    BY <1>4, <2>1 DEF Merged, Record
  <2> QED
    BY <1>1, <1>4, <2>2, <2>3 DEF Counted
<1> QED
  BY <1>1, <1>2, <1>3, <1>4

\* What a scan adds as new was not there.
LEMMA AddedIsNew ==
    ASSUME NEW i \in Added
    PROVE  ~Has(i)
<1>1. CASE i \in Surface
  BY <1>1 DEF Surface
<1>2. CASE i \in Diff
  BY <1>2 DEF Diff, ToldHosts, NewHosts, ToldPorts, NewPorts
<1> QED
  BY <1>1, <1>2 DEF Added

LEMMA UnseenPossible == Unseen \in Sights
BY DEF Unseen, Sights, Sight, Possible, Unmarked

-----------------------------------------------------------------------------
(* Types *)

\* What a step that leaves the findings alone does to their counts.
LEMMA SameCounts ==
    ASSUME TypeOK, findings' = findings, scans' \in Nat, scans <= scans'
    PROVE  \A i \in Identity : Counted(findings[i])'
<1> SUFFICES ASSUME NEW i \in Identity PROVE Counted(findings[i])'
  OBVIOUS
<1>1. Counted(findings[i]) /\ findings[i].streak \in Nat /\ scans \in Nat
  BY ExposureAssumption DEF TypeOK, Record
<1> QED
  BY <1>1 DEF Counted, Absent

LEMMA TypeInit == Init => TypeOK /\ CountInv
<1> SUFFICES ASSUME Init PROVE TypeOK /\ CountInv
  OBVIOUS
<1>1. Absent \in Record
  BY DEF Absent, Record
<1>2. Counted(Absent)
  BY DEF Counted, Absent
<1> QED
  BY <1>1, <1>2, UnseenPossible, ExposureAssumption DEF Init, TypeOK, CountInv

LEMMA TypeStep == TypeOK /\ CountInv /\ [Next]_vars => TypeOK' /\ CountInv'
<1> SUFFICES ASSUME TypeOK, CountInv, [Next]_vars PROVE TypeOK' /\ CountInv'
  OBVIOUS
<1>0. scans \in Nat /\ MaxScans \in Nat /\ \A i \in Identity : findings[i].streak \in Nat
  BY ExposureAssumption DEF TypeOK, Record
<1>1. ASSUME NEW i \in Identity, NEW st \in {"OPEN", "RESOLVED", "OWNED"}, SetStatus(i, st)
      PROVE  TypeOK' /\ CountInv'
  <2>1. /\ findings' = [findings EXCEPT ![i].status = st] /\ findings[i].copies > 0
        /\ scans' = scans /\ pc' = pc /\ findings[i] \in Record
    BY <1>1 DEF SetStatus, Has, TypeOK
  <2>2. findings' \in [Identity -> Record]
    BY <2>1 DEF TypeOK, Record
  <2>3. \A j \in Identity : findings'[j].streak = findings[j].streak /\ findings'[j].copies = findings[j].copies
    BY <2>1 DEF TypeOK, Record
  <2>4. ASSUME NEW j \in Identity PROVE Counted(findings[j])'
    <3>1. CASE j = i
      <4>1. findings'[j].copies # 0 /\ findings'[j].status # "none"
        BY <2>1, <2>3, <3>1 DEF TypeOK, Record
      <4>2. findings'[j].streak < scans'
        BY <2>1, <2>3, <3>1 DEF TypeOK, Counted
      <4> QED
        BY <4>1, <4>2 DEF Counted
    <3>2. CASE j # i
      <4>1. findings'[j] = findings[j]
        BY <2>1, <3>2 DEF TypeOK
      <4> QED
        BY <2>1, <4>1 DEF TypeOK, Counted, Absent
    <3> QED
      BY <3>1, <3>2
  <2>5. CountInv'
    BY <2>1, <2>3 DEF CountInv
  <2> QED
    BY <1>1, <2>2, <2>4, <2>5, ExposureAssumption DEF SetStatus, TypeOK
<1>2. CASE Probe
  <2>1. scans' = scans + 1 /\ findings' = findings /\ scans' \in 0..MaxScans
    BY <1>0, <1>2 DEF Probe
  <2>2. \A i \in Identity : Counted(findings[i])'
    BY <1>0, <2>1, SameCounts
  <2>3. CountInv'
    BY <1>0, <2>1 DEF CountInv, TypeOK, Counted
  <2> QED
    BY <1>2, <2>1, <2>2, <2>3 DEF Probe, TypeOK
<1>3. CASE SaveBaseline
  <2>1. \A i \in Identity : Counted(findings[i])'
    BY <1>0, <1>3, SameCounts DEF SaveBaseline
  <2> QED
    BY <1>3, <2>1 DEF SaveBaseline, TypeOK, CountInv, Up
<1>4. CASE SaveFindings
  <2>1. findings' \in [Identity -> Record]
    BY <1>4, MergedType DEF SaveFindings
  <2>2. ASSUME NEW i \in Identity PROVE Counted(findings[i])'
    BY <1>4, MergedCounted DEF SaveFindings, Counted, Absent
  <2>3. known' \in [Hosts -> SUBSET Ports]
    BY <1>4 DEF SaveFindings, TypeOK, Sights, Sight
  <2>4. untold' \subseteq Hosts
    BY <1>4 DEF SaveFindings, Passed, Up, Fresh, TypeOK
  <2>5. seen' \in [Hosts -> Sights] /\ before' \subseteq Hosts
    BY <1>4, UnseenPossible DEF SaveFindings, Forget
  <2> QED
    BY <1>4, <2>1, <2>2, <2>3, <2>4, <2>5 DEF SaveFindings, TypeOK, CountInv
<1>5. CASE Cut
  <2>1. seen' \in [Hosts -> Sights] /\ before' \subseteq Hosts
    BY <1>5, UnseenPossible DEF Cut, Forget
  <2>2. \A i \in Identity : Counted(findings[i])'
    BY <1>0, <1>5, SameCounts DEF Cut
  <2> QED
    BY <1>5, <2>1, <2>2 DEF Cut, TypeOK, CountInv, Fresh, Up
<1>6. CASE UNCHANGED vars
  BY <1>6 DEF vars, TypeOK, CountInv, Counted, Absent
<1> QED
  BY <1>1, <1>2, <1>3, <1>4, <1>5, <1>6 DEF Next

\* The variables of the exposure stay within their types, and no finding is missed
\* by more scans than came after the one that added it, however many are cut short
\* and whatever the analyst decides.
THEOREM Typed == Spec => []TypeOK
BY TypeInit, TypeStep, PTL DEF Spec

-----------------------------------------------------------------------------
(* A re-scan repeats nothing *)

\* No identity is ever recorded twice: OneRecordEach, for any sequence of scans.
THEOREM NothingRepeated == Spec => []OneRecordEach
<1>1. Init => OneRecordEach
  BY DEF Init, OneRecordEach, Absent
<1>2. TypeOK /\ OneRecordEach /\ [Next]_vars => OneRecordEach'
  <2> SUFFICES ASSUME TypeOK, OneRecordEach, [Next]_vars, NEW j \in Identity
               PROVE  findings'[j].copies <= 1
    BY DEF OneRecordEach
  <2>0. findings[j] \in Record /\ findings[j].copies \in Nat /\ findings[j].copies <= 1
    BY DEF TypeOK, Record, OneRecordEach
  <2>1. ASSUME NEW i \in Identity, NEW st \in {"OPEN", "RESOLVED", "OWNED"}, SetStatus(i, st)
        PROVE  findings'[j].copies <= 1
    BY <2>0, <2>1 DEF SetStatus, TypeOK, Record
  <2>2. CASE SaveFindings
    <3>1. findings'[j] = Merged(j)
      BY <2>2 DEF SaveFindings
    <3>2. CASE j \in Added
      <4>1. findings[j].copies = 0
        BY <2>0, <3>2, AddedIsNew DEF Has
      <4> QED
        BY <3>1, <3>2, <4>1, MergedType
    <3>3. CASE j \notin Added
      BY <2>0, <3>1, <3>3, MergedType
    <3> QED
      BY <3>2, <3>3
  <2>3. CASE Probe \/ SaveBaseline \/ Cut \/ UNCHANGED vars
    BY <2>0, <2>3 DEF Probe, SaveBaseline, Cut, vars
  <2> QED
    BY <2>1, <2>2, <2>3 DEF Next
<1> QED
  BY <1>1, <1>2, Typed, PTL DEF Spec

-----------------------------------------------------------------------------
(* Hosts are reported *)

\* What is accounted for stays so.
LEMMA StaysAccounted ==
    ASSUME TypeOK, [Next]_vars
    PROVE  Accounted \subseteq Accounted'
<1>1. untold \subseteq untold'
  BY DEF Next, vars, SetStatus, Probe, SaveBaseline, SaveFindings, Cut
<1>2. ASSUME NEW j \in Identity, Has(j)
      PROVE  Has(j)'
  <2>0. findings[j] \in Record /\ findings[j].copies \in Nat
    BY DEF TypeOK, Record
  <2>1. ASSUME NEW i \in Identity, NEW st \in {"OPEN", "RESOLVED", "OWNED"}, SetStatus(i, st)
        PROVE  Has(j)'
    BY <1>2, <2>0, <2>1 DEF SetStatus, TypeOK, Record, Has
  <2>2. CASE SaveFindings
    <3>1. findings'[j] = Merged(j)
      BY <2>2 DEF SaveFindings
    <3> QED
      BY <1>2, <2>0, <3>1, MergedType DEF Has
  <2>3. CASE Probe \/ SaveBaseline \/ Cut \/ UNCHANGED vars
    BY <1>2, <2>3 DEF Probe, SaveBaseline, Cut, vars, Has
  <2> QED
    BY <2>1, <2>2, <2>3 DEF Next
<1> QED
  BY <1>1, <1>2, Identities DEF Accounted

\* A set of numbers that is not empty has a least one.
LEMMA Least ==
    ASSUME NEW S \in SUBSET Nat, S # {}
    PROVE  \E n \in S : \A m \in S : n <= m
<1> DEFINE R == {p \in Nat \X Nat : p[1] < p[2]}
<1>1. R = OpToRel(<, Nat)
  BY DEF OpToRel
<1>2. IsWellFoundedOn(R, Nat)
  BY <1>1, NatLessThanWellFounded
<1>3. \A m, n \in Nat : m < n => <<m, n>> \in R
  OBVIOUS
<1> HIDE DEF R
<1>4. PICK n \in S : \A m \in S : ~(<<m, n>> \in R)
  BY <1>2, WFMin
<1>5. \A m, k \in Nat : ~(m < k) => k <= m
  OBVIOUS
<1>6. n \in Nat /\ \A m \in S : m \in Nat
  OBVIOUS
<1> QED  BY <1>3, <1>4, <1>5, <1>6, Zenon

\* A new host that the cap leaves out is behind as many that it lets in.
LEMMA CapInOrder ==
    ASSUME TypeOK, NEW h \in NewHosts \ ToldHosts
    PROVE  LET Told == {g \in ToldHosts : g < h}
           IN  IsFiniteSet(Told) /\ Cardinality(Told) >= MaxDiff
<1> DEFINE Ahead(g) == {k \in NewHosts : k < g}
           Told == {g \in ToldHosts : g < h}
           Left == Ahead(h) \ Told
<1>1. /\ NewHosts \subseteq Nat /\ IsFiniteSet(NewHosts) /\ ToldHosts \subseteq NewHosts
      /\ MaxDiff \in Nat
  <2>1. NewHosts \subseteq Hosts /\ ToldHosts \subseteq NewHosts
    BY DEF NewHosts, ToldHosts, Fresh, Up
  <2> QED
    BY <2>1, FS_Subset, ExposureAssumption
<1>2. \A g \in NewHosts : IsFiniteSet(Ahead(g)) /\ Cardinality(Ahead(g)) \in Nat
  BY <1>1, FS_Subset, FS_CardinalityType
<1>3. \A g \in NewHosts : g \in ToldHosts <=> Cardinality(Ahead(g)) < MaxDiff
  BY DEF ToldHosts
<1>4. IsFiniteSet(Told) /\ Cardinality(Told) \in Nat
  BY <1>1, FS_Subset, FS_CardinalityType
<1>5. CASE Left = {}
  <2>1. Ahead(h) = Told
    BY <1>1, <1>5
  <2> QED
    BY <1>1, <1>2, <1>3, <1>4, <2>1
<1>6. CASE Left # {}
  <2>1. Left \in SUBSET Nat
    BY <1>1
  <2>2. PICK m \in Left : \A k \in Left : m <= k
    BY <1>6, <2>1, Least
  <2>3. m \in NewHosts /\ m \in Nat /\ m < h /\ m \notin ToldHosts /\ h \in Nat
    BY <1>1, <2>2
  <2>4. Ahead(m) \subseteq Told
    <3>1. SUFFICES ASSUME NEW k \in NewHosts, k < m PROVE k \in Told
      OBVIOUS
    <3>2. k \in Nat /\ k < h
      BY <1>1, <2>3, <3>1
    <3>3. k \notin Left
      BY <2>2, <2>3, <3>1, <3>2
    <3> QED
      BY <3>2, <3>3
  <2>5. Cardinality(Ahead(m)) <= Cardinality(Told)
    BY <1>4, <2>4, FS_Subset
  <2>6. Cardinality(Ahead(m)) \in Nat /\ ~(Cardinality(Ahead(m)) < MaxDiff)
    BY <1>2, <1>3, <2>3
  <2>7. \A a, b, c \in Nat : a <= b /\ ~(a < c) => b >= c
    OBVIOUS
  <2> QED
    BY <1>1, <1>4, <2>5, <2>6, <2>7
<1> QED
  BY <1>5, <1>6

\* So the scan has nothing to tell of it.
LEMMA LeftIsPassed ==
    ASSUME TypeOK, before # {}, NEW h \in NewHosts \ ToldHosts
    PROVE  h \in Passed
<1> DEFINE Told == {g \in ToldHosts : g < h}
           In == {g \in Hosts : g < h /\ NewHost(g) \in Diff}
<1>1. ToldHosts \subseteq Hosts /\ h \in Fresh
  BY DEF NewHosts, ToldHosts, Fresh, Up
<1>2. Told \subseteq In
  BY <1>1 DEF Diff
<1>3. IsFiniteSet(In)
  BY FS_Subset, ExposureAssumption
<1>4. Cardinality(Told) <= Cardinality(In) /\ Cardinality(In) \in Nat /\ Cardinality(Told) \in Nat
  BY <1>2, <1>3, FS_Subset, FS_CardinalityType
<1>5. Cardinality(Told) >= MaxDiff
  BY CapInOrder
<1>6. Cardinality(In) >= MaxDiff
  <2>1. MaxDiff \in Nat
    BY ExposureAssumption
  <2>2. \A a, b, c \in Nat : a <= b /\ a >= c => b >= c
    OBVIOUS
  <2> QED
    BY <1>4, <1>5, <2>1, <2>2
<1> QED
  BY <1>1, <1>6 DEF Passed

\* The scan that writes its findings accounts for every host it saw.
LEMMA ScanAccounts ==
    ASSUME TypeOK, SaveFindings, before \subseteq Accounted, NEW h \in Up
    PROVE  h \in Accounted'
<1>0. h \in Hosts /\ NewHost(h) \in Identity
  BY Identities DEF Up
<1>1. CASE h \in before
  <2>1. [Next]_vars
    BY DEF Next
  <2> QED
    BY <1>1, <2>1, StaysAccounted
<1>2. CASE before = {}
  BY <1>2 DEF SaveFindings, Passed, Accounted
<1>3. CASE h \notin before /\ before # {} /\ Has(NewHost(h))
  <2>1. [Next]_vars
    BY DEF Next
  <2>2. h \in Accounted
    BY <1>0, <1>3 DEF Accounted
  <2> QED
    BY <2>1, <2>2, StaysAccounted
<1>4. CASE h \notin before /\ before # {} /\ ~Has(NewHost(h))
  <2>1. h \in NewHosts
    BY <1>4 DEF NewHosts, Fresh
  <2>2. CASE h \notin ToldHosts
    <3>1. h \in Passed
      BY <1>4, <2>1, <2>2, LeftIsPassed
    <3> QED
      BY <3>1 DEF SaveFindings, Accounted
  <2>3. CASE h \in ToldHosts
    <3>1. NewHost(h) \in Added
      BY <1>4, <2>3 DEF Added, Diff
    <3>2. findings'[NewHost(h)] = Merged(NewHost(h))
      BY <1>0 DEF SaveFindings
    <3>3. findings[NewHost(h)].copies \in Nat
      BY <1>0 DEF TypeOK, Record
    <3>4. findings'[NewHost(h)].copies > 0
      BY <1>0, <3>1, <3>2, <3>3, MergedType
    <3> QED
      BY <1>0, <3>4 DEF Accounted, Has
  <2> QED
    BY <2>2, <2>3
<1> QED
  BY <1>1, <1>2, <1>3, <1>4

\* Every host of the baseline was reported as new, or is one of those of which no
\* scan was to tell: HostsReported, with cuts, caps and decisions of any number.
THEOREM NoHostInSilence == Spec => []HostsReported
<1>1. Init => ToldInv
  BY DEF Init, ToldInv
<1>2. TypeOK /\ ToldInv /\ [Next]_vars => ToldInv'
  <2> SUFFICES ASSUME TypeOK, ToldInv, [Next]_vars
               PROVE  ToldInv'
    OBVIOUS
  <2>0. Accounted \subseteq Accounted'
    BY StaysAccounted
  <2>1. ASSUME NEW i \in Identity, NEW st \in {"OPEN", "RESOLVED", "OWNED"}, SetStatus(i, st)
        PROVE  ToldInv'
    BY <2>0, <2>1 DEF SetStatus, ToldInv, TypeOK
  <2>2. CASE Probe
    BY <2>0, <2>2 DEF Probe, ToldInv
  <2>3. CASE SaveBaseline
    BY <2>0, <2>3 DEF SaveBaseline, ToldInv, Up
  <2>4. CASE SaveFindings
    BY <2>4, ScanAccounts DEF SaveFindings, ToldInv
  <2>5. CASE Cut
    <3>1. CASE pc = "probed"
      BY <2>0, <2>5, <3>1 DEF Cut, ToldInv
    <3>2. CASE pc = "saved"
      BY <2>0, <2>5, <3>2 DEF Cut, ToldInv, Fresh, Accounted
    <3> QED
      BY <2>5, <3>1, <3>2 DEF Cut
  <2>6. CASE UNCHANGED vars
    BY <2>0, <2>6 DEF vars, ToldInv, Up
  <2> QED
    BY <2>1, <2>2, <2>3, <2>4, <2>5, <2>6 DEF Next
<1>3. ToldInv => HostsReported
  BY DEF ToldInv, HostsReported, Accounted
<1> QED
  BY <1>1, <1>2, <1>3, Typed, PTL DEF Spec

-----------------------------------------------------------------------------
(* What listens is tracked *)

\* A finding that is there and observed is open after the scan.
LEMMA ObservedIsLive ==
    ASSUME TypeOK, SaveFindings, NEW i \in Identity, Observed(i), i \in Added \/ Has(i)
    PROVE  Live(i)'
<1>1. findings'[i] = Merged(i)
  BY DEF SaveFindings
<1>2. findings[i] \in Record /\ findings[i].copies \in Nat
  BY DEF TypeOK, Record
<1>3. Merged(i).copies > 0
  BY <1>2, MergedType DEF Has
<1>4. Reconciled(i).status # "RESOLVED"
  BY <1>2 DEF Reconciled, Record
<1>5. Merged(i).status # "RESOLVED"
  BY <1>4 DEF Merged
<1> QED
  BY <1>1, <1>3, <1>5 DEF Live, Has

\* When a scan is done, what it saw listening has a finding that is not resolved:
\* ScanTracksServices, for any threshold, any decisions and any earlier scans.
THEOREM ServicesTracked == Spec => ScanTracksServices
<1>1. ASSUME TypeOK, SaveFindings, NEW h \in Hosts, NEW p \in Ports, p \in seen[h].open
      PROVE  \/ Live(Tcp(h, p))'
             \/ p \in WebPorts /\ \E s \in Schemes : Live(Web(h, s))'
  <2>0. Tcp(h, p) \in Identity /\ Family(Tcp(h, p)) = "tcp"
        /\ Target(Tcp(h, p)) = h /\ Sign(Tcp(h, p)) = p
    BY Identities DEF Family, Target, Sign, Tcp
  <2>1. CASE seen[h].web # "none" => p \notin WebPorts
    <3>1. Tcp(h, p) \in TcpSeen
      BY <1>1, <2>0, <2>1 DEF TcpSeen
    <3>2. Tcp(h, p) \in Added \/ Has(Tcp(h, p))
      BY <3>1 DEF Added, Surface
    <3>3. Observed(Tcp(h, p))
      BY <1>1, <2>0 DEF Observed
    <3> QED
      BY <1>1, <2>0, <3>2, <3>3, ObservedIsLive
  <2>2. CASE seen[h].web # "none" /\ p \in WebPorts
    <3>0. PICK s \in Schemes : s = seen[h].web
      BY <1>1, <2>2 DEF TypeOK, Sights, Sight
    <3>1. Web(h, s) \in Identity /\ Family(Web(h, s)) = "web"
          /\ Target(Web(h, s)) = h /\ Sign(Web(h, s)) = s
      BY <3>0, Identities DEF Family, Target, Sign, Web
    <3>2. Web(h, s) \in Added \/ Has(Web(h, s))
      BY <3>0, <3>1 DEF Added, Surface, WebSeen
    <3>3. Observed(Web(h, s))
      BY <3>0, <3>1 DEF Observed
    <3>4. Live(Web(h, s))'
      BY <1>1, <3>1, <3>2, <3>3, ObservedIsLive
    <3> QED
      BY <2>2, <3>4
  <2> QED
    BY <2>1, <2>2
<1>2. TypeOK /\ [Next]_vars =>
        (SaveFindings => \A h \in Hosts, p \in Ports :
           p \in seen[h].open =>
             \/ Live(Tcp(h, p))'
             \/ p \in WebPorts /\ \E s \in Schemes : Live(Web(h, s))')
  BY <1>1
<1> QED
  BY <1>2, Typed, PTL DEF Spec, ScanTracksServices
=============================================================================
