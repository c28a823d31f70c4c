-------------------------- MODULE LifecycleProofs --------------------------
(***************************************************************************)
(* The safety properties of Lifecycle for any number of misses before a    *)
(* finding resolves, any kinds of finding and any graders (GradesStayNear: *)
(* one grader per organization, as two break it).                          *)
(*                                                                         *)
(* AutoResolveNeedsMisses speaks of the misses there have been; the code   *)
(* decides by missing_streak, which other actors reset as well;            *)
(* StreakIsHonest links the two.  Likewise ClosedAgree for the mitigations.*)
(* GradeWithinOneStep needs to know what the anchor of the grader can be,  *)
(* which is AnchorInv.                                                     *)
(***************************************************************************)
EXTENDS Lifecycle, TLAPS

\* The streak never counts a miss that did not happen.
StreakIsHonest == streak <= missRun

Inv == TypeOK /\ StreakIsHonest

LEMMA EntryType ==
    ASSUME NEW s \in Canonical \cup {"absent"}, NEW who \in Author
    PROVE  /\ Entry(s, who) \in HistoryEntry
           /\ Entry(s, who).to = s
           /\ Entry(s, who).by = who
BY DEF Entry, HistoryEntry

\* A miss leaves a legal status and entry, and adds one to the streak.
LEMMA MissedType ==
    ASSUME TypeOK, status # "absent", NEW who \in {"reconcile", "openhack"}, Missed(who)
    PROVE  status' \in Canonical \cup {"absent"} /\ last' \in HistoryEntry /\ streak' = streak + 1
<1>1. who \in Author /\ status \in Canonical \cup {"absent"} /\ last \in HistoryEntry
  BY DEF TypeOK, Author
<1>2. "RESOLVED" \in Canonical \cup {"absent"}
  BY DEF Canonical
<1>3. Entry(status, who) \in HistoryEntry /\ Entry("RESOLVED", who) \in HistoryEntry
  BY <1>1, <1>2, EntryType
<1>4. QED
  BY <1>1, <1>2, <1>3 DEF Missed

LEMMA ScanInv ==
    ASSUME Inv, NEW obs \in Observations, Scan(obs)
    PROVE  Inv'
<1> USE LifecycleAssumption DEF Inv, TypeOK, StreakIsHonest
<1>1. /\ graders' \in Setups /\ family' \in Families /\ positive' \in BOOLEAN /\ verified' \in BOOLEAN
      /\ aiBase' \in Severity \cup {NoBase} /\ ohBase' \in Severity \cup {NoBase}
      /\ unreach' \in 0..2 /\ closedRun' \in 0..2 /\ exploited' \in BOOLEAN
  BY DEF Scan, fixed, probed
<1>2. job' \in JobKind \cup {"idle"} /\ picked' \in BOOLEAN
  BY DEF Scan, ScanDone, JobDone, JobKind
<1>3. seen' \in {"none", "missed", "present", "bad", "valid"}
  BY DEF Scan, Observations
<1>4. Entry("OPEN", "scan") \in HistoryEntry /\ Entry("OPEN", "reconcile") \in HistoryEntry
      /\ Entry("RESOLVED", "reconcile") \in HistoryEntry
  BY EntryType DEF Canonical, Author
<1>5. CASE Synthesize(obs)
  <2>1. sev' \in Severity /\ detSev' \in Severity
    BY <1>5 DEF Synthesize, Severity
  <2>2. status' \in Canonical \cup {"absent"} /\ last' \in HistoryEntry
    BY <1>4, <1>5 DEF Synthesize, Canonical
  <2>3. QED
    BY <1>1, <1>2, <1>3, <1>5, <2>1, <2>2 DEF Synthesize
<1>6. CASE Reconcile(obs)
  <2>1. sev' \in Severity /\ detSev' \in Severity
    BY <1>6 DEF Reconcile
  <2>2. missRun' = 0 \/ (obs = "missed" /\ missRun' = missRun + 1 /\ missRun' \in 0..MaxMisses)
    BY <1>6 DEF Reconcile
  <2>3. /\ status' \in Canonical \cup {"absent"} /\ last' \in HistoryEntry
        /\ streak' = 0 \/ (obs = "missed" /\ streak' \in {streak, streak + 1})
    <3>1. CASE obs = "missed" /\ StaysGone
      BY <3>1 DEF StaysGone
    <3>2. CASE Recurs
      BY <3>2, <1>4 DEF Recurs, Canonical
    <3>3. CASE obs = "missed" /\ Missed("reconcile")
      BY <3>3, <1>6, MissedType DEF Reconcile
    <3>4. CASE Observed(obs)
      BY <3>4, <1>4 DEF Observed, Canonical
    <3>5. QED
      BY <1>6, <3>1, <3>2, <3>3, <3>4 DEF Reconcile
  <2>4. streak' \in 0..MaxMisses /\ streak' <= missRun' /\ missRun' \in 0..MaxMisses
    <3>1. CASE obs = "missed"
      BY <3>1, <1>6, <2>3 DEF Reconcile
    <3>2. CASE obs # "missed"
      BY <3>2, <1>6, <2>3 DEF Reconcile
    <3>3. QED
      BY <3>1, <3>2
  <2>5. QED
    BY <1>1, <1>2, <1>3, <2>1, <2>3, <2>4
<1>7. QED
  BY <1>5, <1>6 DEF Scan

LEMMA InvStep == Inv /\ [Next]_vars => Inv'
<1> SUFFICES ASSUME Inv, [Next]_vars
             PROVE  Inv'
  OBVIOUS
<1> USE LifecycleAssumption DEF Inv, TypeOK, StreakIsHonest
<1>0. \A s \in Canonical \cup {"absent"}, who \in Author : Entry(s, who) \in HistoryEntry
  BY EntryType
<1>1. ASSUME NEW k \in JobKind, Begin(k)
      PROVE  Inv'
  BY <1>1 DEF Begin, Selects, fixed, graded, probed
<1>2. CASE Abort
  BY <1>2 DEF Abort, fixed, graded, probed
<1>3. ASSUME NEW s \in Canonical, SetStatus(s)
      PROVE  Inv'
  <2>1. status' \in Canonical \cup {"absent"} /\ last' \in HistoryEntry
    BY <1>0, <1>3 DEF SetStatus, Author
  <2>2. QED
    BY <1>3, <2>1 DEF SetStatus, fixed, graded, probed
<1>4. ASSUME NEW obs \in Observations, Scan(obs)
      PROVE  Inv'
  BY <1>4, ScanInv
<1>5. CASE Recheck
  <2>1. unreach' \in 0..2 /\ closedRun' \in 0..2
    BY <1>5 DEF Recheck, Reachable, Closed, UpTo2
  <2>2. last' \in HistoryEntry
    BY <1>0, <1>5 DEF Recheck, Reachable, Closed, Author
  <2>3. QED
    BY <1>5, <2>1, <2>2 DEF Recheck, JobDone, fixed, graded
<1>6. ASSUME NEW s \in Severity, AiGrade(s)
      PROVE  Inv'
  <2>1. last' \in HistoryEntry
    BY <1>0, <1>6 DEF AiGrade, Author
  <2>2. aiBase' \in Severity \cup {NoBase}
    BY <1>6 DEF AiGrade, Baseline
  <2>3. QED
    BY <1>6, <2>1, <2>2 DEF AiGrade, JobDone, fixed, probed
<1>7. ASSUME NEW s \in Severity, NEW valid \in BOOLEAN, QuickGrade(s, valid)
      PROVE  Inv'
  <2>1. Baseline(ohBase) \in Severity
    BY DEF Baseline
  <2>2. Clamp(Baseline(ohBase), s) \in Severity
    BY <2>1 DEF Clamp, Severity
  <2>3. sev' \in Severity /\ ohBase' \in Severity
    BY <1>7, <2>1, <2>2 DEF QuickGrade, GradedByRef
  <2>4. last' \in HistoryEntry
    BY <1>0, <1>7 DEF QuickGrade, Author
  <2>5. streak' = 0 /\ missRun' = missRun /\ exploited' \in BOOLEAN
    BY <1>7 DEF QuickGrade
  <2>6. job' \in JobKind \cup {"idle"} /\ picked' \in BOOLEAN
    BY <1>7 DEF QuickGrade, JobDone
  <2>7. /\ UNCHANGED <<graders, family, positive, status, verified, aiBase, detSev, unreach,
                       closedRun, seen>>
    BY <1>7 DEF QuickGrade, fixed, probed
  <2>8. QED
    BY <2>3, <2>4, <2>5, <2>6, <2>7
<1>8. ASSUME NEW s \in Severity, NEW valid \in BOOLEAN, NEW ref \in BOOLEAN,
             Ingest(s, valid, ref)
      PROVE  Inv'
  <2>1. sev' \in Severity /\ detSev' \in Severity /\ verified' \in BOOLEAN
    BY <1>8 DEF Ingest, Reported, Severity, HIGH
  <2>2. status' \in Canonical \cup {"absent"} /\ last' \in HistoryEntry
    BY <1>0, <1>8 DEF Ingest, Canonical, Author
  <2>3. streak' = 0 /\ missRun' = 0
    BY <1>8 DEF Ingest
  <2>4. job' \in JobKind \cup {"idle"} /\ picked' \in BOOLEAN
    BY <1>8 DEF Ingest, JobDone
  <2>5. UNCHANGED <<graders, family, positive, aiBase, ohBase, exploited, unreach, closedRun, seen>>
    BY <1>8 DEF Ingest, fixed, probed
  <2>6. QED
    BY <2>1, <2>2, <2>3, <2>4, <2>5
<1>9. CASE ReportMisses
  <2>1. status' \in Canonical \cup {"absent"} /\ last' \in HistoryEntry /\ streak' = streak + 1
    BY <1>9, MissedType DEF ReportMisses
  <2>2. missRun' = missRun + 1 /\ missRun < MaxMisses
    BY <1>9 DEF ReportMisses, Ages
  <2>3. streak' \in 0..MaxMisses /\ missRun' \in 0..MaxMisses /\ streak' <= missRun'
    BY <2>1, <2>2
  <2>4. QED
    BY <1>9, <2>1, <2>3 DEF ReportMisses, JobDone, fixed, graded, probed
<1>10. CASE UNCHANGED vars
  BY <1>10 DEF vars
<1>11. QED
  BY <1>1, <1>2, <1>3, <1>4, <1>5, <1>6, <1>7, <1>8, <1>9, <1>10 DEF Next

LEMMA InvInit == Init => Inv
<1> SUFFICES ASSUME Init
             PROVE  Inv
  OBVIOUS
<1> USE LifecycleAssumption DEF Init
<1>1. positive \in BOOLEAN
  BY DEF Init
<1>2. status \in Canonical \cup {"absent"}
  BY DEF Canonical
<1>3. last \in HistoryEntry
  BY <1>2 DEF HistoryEntry, Author
<1>4. aiBase \in Severity \cup {NoBase} /\ ohBase \in Severity \cup {NoBase}
  OBVIOUS
<1>5. sev \in Severity /\ detSev \in Severity
  BY DEF Severity
<1>6. verified \in BOOLEAN /\ exploited \in BOOLEAN /\ picked \in BOOLEAN
  OBVIOUS
<1>7. /\ streak \in 0..MaxMisses /\ missRun \in 0..MaxMisses /\ streak <= missRun
      /\ unreach \in 0..2 /\ closedRun \in 0..2
  OBVIOUS
<1>8. /\ family \in Families /\ job \in JobKind \cup {"idle"}
      /\ seen \in {"none", "missed", "present", "bad", "valid"}
  OBVIOUS
<1>9. QED
  BY <1>1, <1>2, <1>3, <1>4, <1>5, <1>6, <1>7, <1>8 DEF Inv, TypeOK, StreakIsHonest

\* Every variable stays within its type, and the streak never exceeds the number
\* of misses there have been.
THEOREM Invariance == Spec => []Inv
<1>1. QED
  BY InvInit, InvStep, PTL DEF Spec

\* Every variable stays within its type.
THEOREM TypeCorrect == Spec => []TypeOK
<1>1. Inv => TypeOK
  BY DEF Inv
<1>2. QED
  BY <1>1, Invariance, PTL

-----------------------------------------------------------------------------
(* Who resolves a finding, and when *)

\* The steps that make a finding RESOLVED: the analyst's, a good certificate's,
\* and a miss that comes after ResolveAfter - 1 others.
LEMMA ResolvingStep ==
    ASSUME Inv, Next, status' = "RESOLVED", status # "RESOLVED", last'.by # "user"
    PROVE  \/ family = "tls" /\ seen' = "valid"
           \/ missRun' >= ResolveAfter /\ sev < HIGH /\ ~positive
<1>1. streak \in Int /\ missRun \in Int /\ ResolveAfter \in Int /\ streak <= missRun
  BY LifecycleAssumption DEF Inv, TypeOK, StreakIsHonest
<1>2. ASSUME NEW s \in Canonical, SetStatus(s)
      PROVE  FALSE
  <2>1. last'.by = "user"
    BY <1>2, EntryType DEF SetStatus, Author
  <2>2. QED
    BY <2>1
<1>3. ASSUME NEW obs \in Observations, Scan(obs)
      PROVE  \/ family = "tls" /\ seen' = "valid"
             \/ missRun' >= ResolveAfter /\ sev < HIGH /\ ~positive
  <2>1. CASE obs = "missed"
    <3>1. Missed("reconcile") /\ missRun' = missRun + 1
      BY <1>3, <2>1 DEF Scan, Reconcile, Synthesize, Observations, StaysGone
    <3>2. Due /\ sev < HIGH
      BY <3>1 DEF Missed
    <3>3. missRun' >= ResolveAfter /\ ~positive
      BY <1>1, <3>1, <3>2 DEF Due
    <3>4. QED
      BY <3>2, <3>3
  <2>2. CASE obs # "missed"
    <3>1. Observed(obs)
      BY <1>3, <2>2 DEF Scan, Reconcile, Recurs, Synthesize
    <3>2. family = "tls" /\ obs = "valid"
      BY <3>1 DEF Observed
    <3>3. QED
      BY <1>3, <3>2 DEF Scan
  <2>3. QED
    BY <2>1, <2>2
<1>4. ASSUME ReportMisses
      PROVE  missRun' >= ResolveAfter /\ sev < HIGH /\ ~positive
  <2>1. Missed("openhack") /\ missRun' = missRun + 1
    BY <1>4 DEF ReportMisses, Ages
  <2>2. Due /\ sev < HIGH
    BY <2>1 DEF Missed
  <2>3. missRun' >= ResolveAfter /\ ~positive
    BY <1>1, <2>1, <2>2 DEF Due
  <2>4. QED
    BY <2>2, <2>3
<1>5. ASSUME NEW s \in Severity, NEW valid \in BOOLEAN, NEW ref \in BOOLEAN,
             Ingest(s, valid, ref)
      PROVE  FALSE
  BY <1>5 DEF Ingest
<1>6. QED
  BY <1>2, <1>3, <1>4, <1>5 DEF Next, Begin, Abort, Recheck, AiGrade, QuickGrade

\* No job resolves a finding before ResolveAfter scans in a row have missed it,
\* nor one that is HIGH, except on the sight of a good certificate.
THEOREM ResolvedOnMisses == Spec => AutoResolveNeedsMisses
<1>1. ASSUME Inv, [Next]_vars
      PROVE  [status' = "RESOLVED" /\ status # "RESOLVED" /\ last'.by # "user" =>
                \/ family = "tls" /\ seen' = "valid"
                \/ missRun' >= ResolveAfter /\ sev < HIGH /\ ~positive]_vars
  BY <1>1, ResolvingStep
<1>2. QED
  BY <1>1, Invariance, PTL DEF Spec, AutoResolveNeedsMisses

\* The jobs only open and resolve: what the analyst decided while one ran stands.
THEOREM AnalystOwns == Spec => StatusOwnership
<1>1. ASSUME Inv, [Next]_vars
      PROVE  [status' # status =>
                \/ last'.by = "user"
                \/ status = "absent" /\ status' = "OPEN"
                \/ {status, status'} = {"OPEN", "RESOLVED"}]_vars
  <2>1. ASSUME NEW s \in Canonical, SetStatus(s)
        PROVE  last'.by = "user"
    BY <2>1, EntryType DEF SetStatus, Author
  <2>2. ASSUME NEW obs \in Observations, Scan(obs), status' # status
        PROVE  \/ status = "absent" /\ status' = "OPEN"
               \/ {status, status'} = {"OPEN", "RESOLVED"}
    BY <2>2 DEF Scan, Reconcile, Synthesize, StaysGone, Recurs, Missed, Due, Observed
  <2>3. ASSUME NEW s \in Severity, NEW valid \in BOOLEAN, NEW ref \in BOOLEAN,
               Ingest(s, valid, ref), status' # status
        PROVE  \/ status = "absent" /\ status' = "OPEN"
               \/ {status, status'} = {"OPEN", "RESOLVED"}
    BY <2>3 DEF Ingest
  <2>4. ASSUME ReportMisses, status' # status
        PROVE  {status, status'} = {"OPEN", "RESOLVED"}
    BY <2>4 DEF ReportMisses, Missed, Due
  <2>5. QED
    BY <1>1, <2>1, <2>2, <2>3, <2>4
       DEF Next, Begin, Abort, Recheck, AiGrade, QuickGrade, vars
<1>2. QED
  BY <1>1, Invariance, PTL DEF Spec, StatusOwnership

\* The last entry of a finding's history is its status.
THEOREM HistoryAgrees == Spec => []HistoryEndsAtStatus
<1>1. Init => HistoryEndsAtStatus
  BY DEF Init, HistoryEndsAtStatus
<1>2. ASSUME Inv, HistoryEndsAtStatus, [Next]_vars
      PROVE  HistoryEndsAtStatus'
  <2>1. status \in Canonical \cup {"absent"} /\ last.to = status
    BY <1>2 DEF Inv, TypeOK, HistoryEndsAtStatus
  <2>2. \A s \in Canonical \cup {"absent"}, who \in Author : Entry(s, who).to = s
    BY EntryType
  <2> HIDE DEF Entry
  <2>3. ASSUME NEW s \in Canonical, SetStatus(s)
        PROVE  last'.to = status'
    BY <2>2, <2>3 DEF SetStatus, Author
  <2>4. ASSUME NEW obs \in Observations, Scan(obs)
        PROVE  last'.to = status'
    BY <2>1, <2>2, <2>4
       DEF Scan, Reconcile, Synthesize, StaysGone, Recurs, Missed, Observed, Canonical, Author
  <2>5. CASE Recheck
    BY <2>1, <2>2, <2>5 DEF Recheck, Reachable, Closed, Author, HistoryEndsAtStatus
  <2>6. ASSUME NEW s \in Severity, AiGrade(s)
        PROVE  last'.to = status'
    BY <2>1, <2>2, <2>6 DEF AiGrade, Author
  <2>7. ASSUME NEW s \in Severity, NEW valid \in BOOLEAN, QuickGrade(s, valid)
        PROVE  last'.to = status'
    BY <2>1, <2>2, <2>7 DEF QuickGrade, Author
  <2>8. ASSUME NEW s \in Severity, NEW valid \in BOOLEAN, NEW ref \in BOOLEAN,
               Ingest(s, valid, ref)
        PROVE  last'.to = status'
    BY <2>1, <2>2, <2>8 DEF Ingest, Canonical, Author
  <2>9. CASE ReportMisses
    BY <2>1, <2>2, <2>9 DEF ReportMisses, Missed, Canonical, Author, HistoryEndsAtStatus
  <2>10. QED
    BY <1>2, <2>1, <2>3, <2>4, <2>5, <2>6, <2>7, <2>8, <2>9
       DEF Next, Begin, Abort, vars, HistoryEndsAtStatus
<1>3. QED
  BY <1>1, <1>2, Invariance, PTL DEF Spec

-----------------------------------------------------------------------------
(* Mitigations *)

\* The streak of closed probes counts the closed probes there were.
ClosedAgree == unreach = closedRun

LEMMA ClosedStep ==
    ASSUME Inv, ClosedAgree, [Next]_vars
    PROVE  /\ ClosedAgree'
           /\ [last' # last /\ last'.by = "recheck" => closedRun' = 2]_vars
<1>1. status \in Canonical \cup {"absent"}
  BY DEF Inv, TypeOK
<1>2. \A s \in Canonical \cup {"absent"}, who \in Author : Entry(s, who).by = who
  BY EntryType
<1>3. "OPEN" \in Canonical /\ "RESOLVED" \in Canonical
  BY DEF Canonical
<1> HIDE DEF Entry
<1>4. CASE Recheck
  <2>1. CASE Reachable
    BY <2>1, <1>4 DEF Reachable, ClosedAgree
  <2>2. CASE Closed
    <3>1. unreach' = closedRun'
      BY <2>2 DEF Closed, ClosedAgree
    <3>2. last' = last \/ last'.by = "scan" \/ closedRun' = 2
      BY <2>2, <3>1, <1>1, <1>2 DEF Closed, Author
    <3>3. QED
      BY <3>1, <3>2 DEF ClosedAgree
  <2>3. QED
    BY <1>4, <2>1, <2>2 DEF Recheck
<1>5. ASSUME NEW obs \in Observations, Scan(obs)
      PROVE  UNCHANGED probed /\ (last' = last \/ last'.by \in {"scan", "reconcile"})
  BY <1>1, <1>2, <1>3, <1>5
     DEF Scan, Reconcile, Synthesize, StaysGone, Recurs, Missed, Observed, Author
<1>6. ASSUME NEW s \in Canonical, SetStatus(s)
      PROVE  UNCHANGED probed /\ last'.by = "user"
  BY <1>2, <1>6 DEF SetStatus, Author
<1>7. ASSUME NEW s \in Severity, AiGrade(s)
      PROVE  UNCHANGED probed /\ last'.by = "ai"
  BY <1>1, <1>2, <1>7 DEF AiGrade, Author
<1>8. ASSUME NEW s \in Severity, NEW valid \in BOOLEAN, QuickGrade(s, valid)
      PROVE  UNCHANGED probed /\ last'.by = "openhack"
  BY <1>1, <1>2, <1>8 DEF QuickGrade, Author
<1>9. ASSUME NEW s \in Severity, NEW valid \in BOOLEAN, NEW ref \in BOOLEAN,
             Ingest(s, valid, ref)
      PROVE  UNCHANGED probed /\ (last' = last \/ last'.by = "openhack")
  BY <1>2, <1>3, <1>9 DEF Ingest, Author
<1>10. CASE ReportMisses
  <2>1. UNCHANGED probed /\ (last' = last \/ last'.by = "openhack")
    BY <1>1, <1>2, <1>3, <1>10 DEF ReportMisses, Missed, Author
  <2>2. QED
    BY <2>1 DEF probed, ClosedAgree
<1>11. ASSUME \/ \E k \in JobKind : Begin(k)
              \/ Abort
              \/ UNCHANGED vars
       PROVE  UNCHANGED probed /\ last' = last
  BY <1>11 DEF Begin, Abort, vars, probed
<1>12. QED
  BY <1>4, <1>5, <1>6, <1>7, <1>8, <1>9, <1>10, <1>11 DEF Next, probed, ClosedAgree

\* A mitigation is proposed only for a port that was found closed twice with no
\* successful probe between, whatever scans, gradings and decisions come between.
THEOREM MitigationIsFounded == Spec => MitigationNeedsTwoClosed
<1>1. Init => ClosedAgree
  BY DEF Init, ClosedAgree
<1>2. ASSUME Inv, ClosedAgree, [Next]_vars
      PROVE  /\ ClosedAgree'
             /\ [last' # last /\ last'.by = "recheck" => closedRun' = 2]_vars
  BY <1>2, ClosedStep
<1>3. QED
  BY <1>1, <1>2, Invariance, PTL DEF Spec, MitigationNeedsTwoClosed

-----------------------------------------------------------------------------
(* A grader that is alone keeps a severity near the deterministic one *)

OneGrader == \A g \in Setups : ~({"ai", "openhack"} \subseteq g)

\* Only the grader the organization has runs, and only it notes a baseline.
AloneInv ==
    /\ job = "grade" => "ai" \in graders
    /\ job \in {"quick", "deep"} => "openhack" \in graders
    /\ "ai" \notin graders => aiBase = NoBase
    /\ "openhack" \notin graders => ohBase = NoBase
    /\ status = "absent" => aiBase = NoBase /\ ohBase = NoBase

\* The baseline that was noted is the deterministic severity, and until one is
\* noted the severity is the deterministic one.
AnchoredSev ==
    /\ aiBase \in {NoBase, detSev} /\ ohBase \in {NoBase, detSev}
    /\ aiBase = NoBase /\ ohBase = NoBase => sev = detSev
    /\ Near(sev, detSev)

AnchorInv == AloneInv /\ (family # "ohack" /\ ~exploited => AnchoredSev)

LEMMA AloneStep ==
    ASSUME OneGrader, Inv, AloneInv, [Next]_vars
    PROVE  AloneInv' /\ graders' = graders /\ family' = family
<1> USE DEF AloneInv, fixed, graded, JobDone
<1>1. ASSUME NEW k \in JobKind, Begin(k)
      PROVE  AloneInv' /\ graders' = graders /\ family' = family
  BY <1>1 DEF Begin
<1>2. CASE Abort
  BY <1>2 DEF Abort
<1>3. ASSUME NEW s \in Canonical, SetStatus(s)
      PROVE  AloneInv' /\ graders' = graders /\ family' = family
  BY <1>3 DEF SetStatus, Canonical, AnalystOwned
<1>4. ASSUME NEW obs \in Observations, Scan(obs)
      PROVE  AloneInv' /\ graders' = graders /\ family' = family
  <2>1. status' = "absent" => status = "absent"
    BY <1>4 DEF Scan, Synthesize, Reconcile, StaysGone, Recurs, Missed, Observed
  <2>2. QED
    BY <1>4, <2>1 DEF Scan, ScanDone
<1>5. CASE Recheck
  BY <1>5 DEF Recheck
<1>6. ASSUME NEW s \in Severity, AiGrade(s)
      PROVE  AloneInv' /\ graders' = graders /\ family' = family
  BY <1>6 DEF AiGrade
<1>7. ASSUME NEW s \in Severity, NEW valid \in BOOLEAN, QuickGrade(s, valid)
      PROVE  AloneInv' /\ graders' = graders /\ family' = family
  BY <1>7 DEF QuickGrade
<1>8. ASSUME NEW s \in Severity, NEW valid \in BOOLEAN, NEW ref \in BOOLEAN,
             Ingest(s, valid, ref)
      PROVE  AloneInv' /\ graders' = graders /\ family' = family
  BY <1>8 DEF Ingest
<1>9. CASE ReportMisses
  BY <1>9 DEF ReportMisses, Missed
<1>10. CASE UNCHANGED vars
  BY <1>10 DEF vars
<1>11. QED
  BY <1>1, <1>2, <1>3, <1>4, <1>5, <1>6, <1>7, <1>8, <1>9, <1>10 DEF Next

LEMMA ClampNear ==
    ASSUME NEW b \in Severity, NEW p \in Severity
    PROVE  Near(Clamp(b, p), b)
BY DEF Near, Clamp, Severity

LEMMA AnchorStep ==
    ASSUME OneGrader, Inv, AnchorInv, [Next]_vars, family # "ohack", ~exploited'
    PROVE  AnchoredSev'
<1>1. sev \in Severity /\ detSev \in Severity /\ exploited \in BOOLEAN /\ graders \in Setups
  BY DEF Inv, TypeOK
<1>2. ~exploited
  BY <1>1 DEF Next, Begin, Abort, SetStatus, Scan, Recheck, AiGrade, QuickGrade, Ingest,
             ReportMisses, graded, vars
<1>3. AloneInv /\ AnchoredSev
  BY <1>2 DEF AnchorInv
<1>4. CASE UNCHANGED <<sev, detSev, aiBase, ohBase>>
  BY <1>3, <1>4 DEF AnchoredSev, Near
<1>5. ASSUME NEW obs \in Observations, Scan(obs)
      PROVE  AnchoredSev'
  <2>1. CASE Synthesize(obs)
    <3>1. aiBase' = NoBase /\ ohBase' = NoBase /\ detSev' = sev' /\ sev' \in Severity
      BY <1>3, <1>5, <2>1 DEF Scan, Synthesize, AloneInv, Severity
    <3>2. \A n \in Severity : Near(n, n)
      BY DEF Near, Severity
    <3>3. QED
      BY <3>1, <3>2 DEF AnchoredSev
  <2>2. CASE Reconcile(obs)
    BY <1>4, <1>5, <2>2 DEF Scan, Reconcile
  <2>3. QED
    BY <1>5, <2>1, <2>2 DEF Scan
<1>6. ASSUME NEW s \in Severity, AiGrade(s)
      PROVE  AnchoredSev'
  <2>1. ohBase = NoBase
    BY <1>1, <1>3, <1>6 DEF AiGrade, AloneInv, OneGrader
  <2>2. Baseline(aiBase) = detSev
    BY <1>3, <2>1 DEF AnchoredSev, Baseline
  <2>3. sev' = s /\ aiBase' = detSev /\ detSev' = detSev /\ ohBase' = ohBase /\ Near(s, detSev)
    BY <1>6, <2>2 DEF AiGrade
  <2>4. aiBase' # NoBase
    BY <1>1, <2>3 DEF Severity, NoBase
  <2>5. QED
    BY <2>1, <2>3, <2>4 DEF AnchoredSev, Near
<1>7. ASSUME NEW s \in Severity, NEW valid \in BOOLEAN, QuickGrade(s, valid)
      PROVE  AnchoredSev'
  <2>1. aiBase = NoBase
    BY <1>1, <1>3, <1>7 DEF QuickGrade, AloneInv, OneGrader
  <2>2. Baseline(ohBase) = detSev
    BY <1>3, <2>1 DEF AnchoredSev, Baseline
  <2>3. ~valid /\ detSev' = detSev /\ aiBase' = NoBase /\ ohBase' = detSev
        /\ sev' = Clamp(detSev, s)
    BY <1>2, <1>7, <2>1, <2>2 DEF QuickGrade, GradedByRef
  <2>4. ohBase' # NoBase
    BY <1>1, <2>3 DEF Severity, NoBase
  <2>5. Near(sev', detSev)
    BY <1>1, <2>3, ClampNear
  <2>6. QED
    BY <2>3, <2>4, <2>5 DEF AnchoredSev, Near
<1>8. QED
  BY <1>4, <1>5, <1>6, <1>7
     DEF Next, Begin, Abort, SetStatus, Recheck, Ingest, ReportMisses, graded, vars

\* Where an organization has one of the two graders, no sequence of scans and
\* grades takes a severity more than one step from the deterministic one, unless
\* an exploit is verified.
THEOREM GradesStayNear ==
    ASSUME OneGrader
    PROVE  Spec => []GradeWithinOneStep
<1>1. Init => AnchorInv
  BY DEF Init, AnchorInv, AloneInv, AnchoredSev, Near, NoBase
<1>2. Inv /\ AnchorInv /\ [Next]_vars => AnchorInv'
  BY AloneStep, AnchorStep DEF AnchorInv
<1>3. AnchorInv => GradeWithinOneStep
  BY DEF AnchorInv, AnchoredSev, GradeWithinOneStep
<1>4. QED
  BY <1>1, <1>2, <1>3, Invariance, PTL DEF Spec
=============================================================================
