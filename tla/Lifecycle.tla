------------------------------ MODULE Lifecycle ------------------------------
(***************************************************************************)
(* The life of one finding of one organization under everything that may   *)
(* change it: the analyst, the scan's reconciliation, the light recheck,   *)
(* the AI grader and the two modes of the OpenHack source.                 *)
(*                                                                         *)
(* The jobs of an organization run one at a time (module Jobs).  A job     *)
(* reads the findings when it starts, talks to the network for a while and *)
(* applies what it learnt to the findings of THAT moment, under the org    *)
(* lock; the analyst may act in between.  Each apply step below is the     *)
(* locked part of a job.                                                   *)
(*                                                                         *)
(* Severities are 0 (INFO) .. 4 (CRITICAL).  The history of a finding is   *)
(* kept as its last entry: the status it records and who wrote it.         *)
(* missRun, closedRun, detSev, exploited and seen are not in the code:     *)
(* they remember what the properties speak of.                             *)
(***************************************************************************)
EXTENDS Integers

CONSTANTS
    Families,      \* which kinds of finding to look at
    Setups,        \* which graders organizations have: "ai", where a profile is
                   \* configured, and "openhack", where the org opted in
    ResolveAfter,  \* RESOLVE_AFTER_MISSES
    MaxMisses      \* bound on the misses counted

ASSUME LifecycleAssumption ==
    /\ Families \subseteq {"surface", "tls", "ohack"}
    /\ Setups \subseteq SUBSET {"ai", "openhack"}
    /\ ResolveAfter \in Nat \ {0}
    /\ MaxMisses \in Nat

VARIABLES
    graders,       \* the graders of the organization
    family,        \* first part of identity_key
    positive,      \* the finding says that something is in order
    status,        \* "absent" or a canonical status
    sev,           \* severity
    verified,      \* status_detail is OHACK-VERIFIED
    aiBase,        \* ai_grading.severity_baseline
    ohBase,        \* ohack_grading.severity_baseline
    streak,        \* missing_streak
    unreach,       \* _unreach_streak: 0, 1, or 2 for two and more
    last,          \* last entry of status_history
    job,           \* the job that runs, or "idle"
    picked,        \* the job selected this finding when it started
    missRun,       \* scans (deep reports) that missed the finding in a row
    closedRun,     \* closed probes since the port was last reachable, up to 2
    detSev,        \* the severity its deterministic source gave it
    exploited,     \* an exploit-verified result has set the severity
    seen           \* what the last scan saw of it

vars == <<graders, family, positive, status, sev, verified, aiBase, ohBase, streak,
          unreach, last, job, picked, missRun, closedRun, detSev, exploited, seen>>

Severity == 0..4
HIGH == 3
CRITICAL == 4
NoBase == -1

AnalystOwned == {"IN_PROGRESS", "MITIGATED", "ACCEPTED_RISK"}
Canonical == {"OPEN", "RESOLVED"} \cup AnalystOwned
JobKind == {"scan", "recheck", "grade", "quick", "deep"}
Author == {"scan", "reconcile", "recheck", "ai", "openhack", "user"}
HistoryEntry == [to : Canonical \cup {"absent"}, by : Author]

TypeOK ==
    /\ graders \in Setups
    /\ family \in Families
    /\ positive \in BOOLEAN
    /\ status \in Canonical \cup {"absent"}
    /\ sev \in Severity
    /\ verified \in BOOLEAN
    /\ aiBase \in Severity \cup {NoBase}
    /\ ohBase \in Severity \cup {NoBase}
    /\ streak \in 0..MaxMisses
    /\ unreach \in 0..2
    /\ last \in HistoryEntry
    /\ job \in JobKind \cup {"idle"}
    /\ picked \in BOOLEAN
    /\ missRun \in 0..MaxMisses
    /\ closedRun \in 0..2
    /\ detSev \in Severity
    /\ exploited \in BOOLEAN
    /\ seen \in {"none", "missed", "present", "bad", "valid"}

\* The finding is not there yet, or is a positive one of the data files.
Init ==
    /\ graders \in Setups
    /\ family \in Families
    /\ positive \in IF family = "surface" THEN BOOLEAN ELSE {FALSE}
    /\ status = IF positive THEN "OPEN" ELSE "absent"
    /\ sev = 0 /\ detSev = 0
    /\ verified = FALSE /\ exploited = FALSE
    /\ aiBase = NoBase /\ ohBase = NoBase
    /\ streak = 0 /\ unreach = 0 /\ missRun = 0 /\ closedRun = 0
    /\ last = [to |-> status, by |-> "scan"]
    /\ job = "idle" /\ picked = FALSE
    /\ seen = "none"

graded == <<sev, verified, aiBase, ohBase, detSev, exploited>>
probed == <<unreach, closedRun>>
fixed == <<graders, family, positive>>

Entry(s, who) == [to |-> s, by |-> who]

-----------------------------------------------------------------------------
(* Jobs start and stop *)

\* The findings a job selects when it reads the file: OPEN ones for grading,
\* not positive and not closed by the analyst for the recheck.  The other
\* jobs work on whatever is there when they apply.
Selects(k) ==
    /\ status # "absent"
    /\ k = "grade" => status = "OPEN"
    /\ k = "recheck" => status \notin {"MITIGATED", "ACCEPTED_RISK"} /\ ~positive

Begin(k) ==
    /\ job = "idle"
    /\ k = "grade" => "ai" \in graders
    /\ k \in {"quick", "deep"} => "openhack" \in graders
    /\ job' = k
    /\ picked' = Selects(k)
    /\ UNCHANGED <<fixed, status, graded, streak, probed, last, missRun, seen>>

\* The job ends and this finding is as before: the provider or the tool failed,
\* the findings file is unreadable, the reply does not speak of the finding or
\* proposes what the clamp drops, the report is incomplete, the process died.
Abort ==
    /\ job # "idle"
    /\ job' = "idle" /\ picked' = FALSE
    /\ UNCHANGED <<fixed, status, graded, streak, probed, last, missRun, seen>>

-----------------------------------------------------------------------------
(* The analyst *)

\* set_finding_status: any canonical status, at any time.
SetStatus(s) ==
    /\ status # "absent"
    /\ status' = s
    /\ last' = Entry(s, "user")
    /\ UNCHANGED <<fixed, graded, streak, probed, job, picked, missRun, seen>>

-----------------------------------------------------------------------------
(* The scan: _reconcile_findings and the synthesis of new findings *)

JobDone == job' = "idle" /\ picked' = FALSE

\* A scan in AI mode goes on to grade what is OPEN now.
ScanDone ==
    \/ JobDone
    \/ "ai" \in graders /\ job' = "grade" /\ picked' = (status' = "OPEN")

Observations == IF family = "tls" THEN {"missed", "bad", "valid"} ELSE {"missed", "present"}

\* Mutant of Due: whatever the status, who owns it notwithstanding.
MutDueAnyStatus == ~positive /\ streak + 1 >= ResolveAfter

\* One more miss makes it time to resolve the finding, or to propose it.
Due == status = "OPEN" /\ ~positive /\ streak + 1 >= ResolveAfter

\* Missing once more: only what is less than HIGH resolves by itself.
Missed(who) ==
    /\ streak' = streak + 1
    /\ \/ ~Due /\ UNCHANGED <<status, last>>
       \/ Due /\ sev >= HIGH /\ UNCHANGED status /\ last' = Entry(status, who)
       \/ Due /\ sev < HIGH /\ status' = "RESOLVED" /\ last' = Entry("RESOLVED", who)

\* A RESOLVED finding that is missed is left alone, its streak included.
StaysGone == UNCHANGED <<status, streak, last>>

\* A RESOLVED finding that is observed, whatever was observed, is open again.
Recurs ==
    /\ status' = "OPEN"
    /\ streak' = 0
    /\ last' = Entry("OPEN", "reconcile")

\* Mutant of Observed: the streak is not reset.
MutObservedKeepsStreak(obs) == UNCHANGED <<status, last, streak>>

\* An unresolved finding that is observed; a good certificate resolves it.
Observed(obs) ==
    /\ streak' = 0
    /\ IF family = "tls" /\ status = "OPEN" /\ obs = "valid"
         THEN status' = "RESOLVED" /\ last' = Entry("RESOLVED", "reconcile")
         ELSE UNCHANGED <<status, last>>

Reconcile(obs) ==
    /\ status # "absent"
    /\ \/ status = "RESOLVED" /\ obs = "missed" /\ StaysGone
       \/ status = "RESOLVED" /\ obs # "missed" /\ Recurs
       \/ status # "RESOLVED" /\ obs = "missed" /\ Missed("reconcile")
       \/ status # "RESOLVED" /\ obs # "missed" /\ Observed(obs)
    /\ IF obs = "missed"
         THEN missRun < MaxMisses /\ missRun' = missRun + 1
         ELSE missRun' = 0
    /\ UNCHANGED <<sev, detSev>>

\* A certificate finding is MEDIUM (expired) or LOW (self-signed); the others
\* may have any severity.
Synthesize(obs) ==
    /\ status = "absent" /\ obs \in {"present", "bad"}
    /\ status' = "OPEN" /\ last' = Entry("OPEN", "scan")
    /\ sev' \in IF family = "tls" THEN {1, 2} ELSE Severity
    /\ detSev' = sev'
    /\ UNCHANGED <<streak, missRun>>

\* Findings of the ohack family are none of the scan's business.
Scan(obs) ==
    /\ job = "scan" /\ family # "ohack"
    /\ Reconcile(obs) \/ Synthesize(obs)
    /\ seen' = obs
    /\ ScanDone
    /\ UNCHANGED <<fixed, verified, aiBase, ohBase, exploited, probed>>

-----------------------------------------------------------------------------
(* recheck_findings: probes the port and leaves notes *)

UpTo2(n) == IF n < 2 THEN n + 1 ELSE 2

\* Mutant of Reachable: the streak goes on after a success.
MutReachableKeepsStreak == closedRun' = 0 /\ UNCHANGED <<unreach, last>>

Reachable == unreach' = 0 /\ closedRun' = 0 /\ UNCHANGED last

\* Each note is written once in the life of a finding; here an occasion for a
\* note may or may not leave one.
Closed ==
    /\ unreach' = UpTo2(unreach) /\ closedRun' = UpTo2(closedRun)
    /\ \/ last' \in {last, Entry(status, "scan")}
       \/ unreach' = 2 /\ sev >= HIGH /\ last' = Entry(status, "recheck")

\* The third outcome, a timeout, changes neither.
Recheck ==
    /\ job = "recheck" /\ picked
    /\ Reachable \/ Closed
    /\ JobDone
    /\ UNCHANGED <<fixed, status, graded, streak, missRun, seen>>

-----------------------------------------------------------------------------
(* The graders *)

Baseline(base) == IF base = NoBase THEN sev ELSE base

Near(a, b) == a <= b + 1 /\ b <= a + 1

\* Mutants of AiGrade: the clamp is around the current severity; the status the
\* job saw when it started is taken for the status of now.
MutAiGradeDrifts(s) ==
    /\ job = "grade" /\ picked
    /\ status = "OPEN"
    /\ Near(s, sev)
    /\ sev' = s /\ aiBase' = sev
    /\ last' = Entry(status, "ai")
    /\ JobDone
    /\ UNCHANGED <<fixed, status, verified, ohBase, detSev, exploited, streak, probed,
                   missRun, seen>>

MutAiGradeStale(s) ==
    /\ job = "grade" /\ picked
    /\ Near(s, Baseline(aiBase))
    /\ sev' = s /\ aiBase' = Baseline(aiBase)
    /\ last' = Entry("OPEN", "ai")
    /\ JobDone
    /\ UNCHANGED <<fixed, status, verified, ohBase, detSev, exploited, streak, probed,
                   missRun, seen>>

\* ai_grade_org: within one step of the baseline it noted at its first grade.
AiGrade(s) ==
    /\ job = "grade" /\ picked
    /\ status = "OPEN"
    /\ Near(s, Baseline(aiBase))
    /\ sev' = s /\ aiBase' = Baseline(aiBase)
    /\ last' = Entry(status, "ai")
    /\ JobDone
    /\ UNCHANGED <<fixed, status, verified, ohBase, detSev, exploited, streak, probed,
                   missRun, seen>>

Clamp(b, p) == IF p > b + 1 THEN b + 1 ELSE IF p < b - 1 THEN b - 1 ELSE p

\* Mutant of GradedByRef: what the model proposes is taken as it is.
MutGradedByRefUnclamped(s, valid) == sev' = s /\ ohBase' = Baseline(ohBase)

GradedByRef(s, valid) ==
    /\ sev' = IF valid THEN s ELSE Clamp(Baseline(ohBase), s)
    /\ ohBase' = Baseline(ohBase)

\* _grade_and_enrich: a quick pass names a finding by its id.  Any status is
\* graded; a verified result is taken as it is.
QuickGrade(s, valid) ==
    /\ job = "quick" /\ status # "absent"
    /\ GradedByRef(s, valid)
    /\ exploited' = (exploited \/ valid)
    /\ streak' = 0
    /\ last' = Entry(status, "openhack")
    /\ JobDone
    /\ UNCHANGED <<fixed, status, verified, aiBase, detSev, probed, missRun, seen>>

-----------------------------------------------------------------------------
(* ingest_report, by identity: the ohack family *)

\* severity_from_finding: without validation CRITICAL becomes HIGH, unless the
\* result carries a well-formed ref.
Reported(s, valid, ref) == IF s = CRITICAL /\ ~valid /\ ~ref THEN HIGH ELSE s

\* The report speaks of this finding: it is added, or refreshed and, if it was
\* RESOLVED, opened again.
Ingest(s, valid, ref) ==
    /\ job \in {"quick", "deep"} /\ family = "ohack"
    /\ sev' = Reported(s, valid, ref) /\ detSev' = sev'
    /\ verified' = valid
    /\ streak' = 0 /\ missRun' = 0
    /\ IF status \in {"absent", "RESOLVED"}
         THEN status' = "OPEN" /\ last' = Entry("OPEN", "openhack")
         ELSE UNCHANGED <<status, last>>
    /\ JobDone
    /\ UNCHANGED <<fixed, aiBase, ohBase, exploited, probed, seen>>

\* Mutant of Ages: the quick pass ages what it does not mention.
MutAges == job \in {"quick", "deep"}

\* Only a complete deep report says that what it does not mention is gone.
Ages == job = "deep"

ReportMisses ==
    /\ Ages /\ family = "ohack" /\ status # "absent"
    /\ Missed("openhack")
    /\ missRun < MaxMisses
    /\ missRun' = IF job = "deep" THEN missRun + 1 ELSE missRun
    /\ JobDone
    /\ UNCHANGED <<fixed, graded, probed, seen>>

-----------------------------------------------------------------------------
Next ==
    \/ \E k \in JobKind : Begin(k)
    \/ Abort
    \/ \E s \in Canonical : SetStatus(s)
    \/ \E obs \in Observations : Scan(obs)
    \/ Recheck
    \/ \E s \in Severity : AiGrade(s)
    \/ \E s \in Severity, valid \in BOOLEAN : QuickGrade(s, valid)
    \/ \E s \in Severity, valid, ref \in BOOLEAN : Ingest(s, valid, ref)
    \/ ReportMisses

Spec == Init /\ [][Next]_vars

-----------------------------------------------------------------------------
(* Properties *)

\* A job resolves a finding for one of two reasons: its certificate was seen to
\* be good, or ResolveAfter scans (complete deep reports, for the ohack family)
\* in a row have missed it, and then only below HIGH.
AutoResolveNeedsMisses ==
    [][status' = "RESOLVED" /\ status # "RESOLVED" /\ last'.by # "user" =>
         \/ family = "tls" /\ seen' = "valid"
         \/ missRun' >= ResolveAfter /\ sev < HIGH /\ ~positive]_vars

\* Only the analyst moves a finding in or out of a status the analyst owns;
\* the jobs open and resolve, whatever the analyst did while they ran.
StatusOwnership ==
    [][status' # status =>
         \/ last'.by = "user"
         \/ status = "absent" /\ status' = "OPEN"
         \/ {status, status'} = {"OPEN", "RESOLVED"}]_vars

\* The history ends with the status the finding has, whoever wrote last.
HistoryEndsAtStatus == last.to = status

\* "Graded severity is clamped to +/-1 step of the deterministic baseline"
\* (app/scanner.py:1724): unless an exploit has been verified, the severity
\* of a scanned finding is within one step of what the scan gave it.
GradeWithinOneStep ==
    family # "ohack" /\ ~exploited => Near(sev, detSev)

\* A mitigation is proposed only for a port that was found closed twice with no
\* successful probe between.
MitigationNeedsTwoClosed ==
    [][last' # last /\ last'.by = "recheck" => closedRun' = 2]_vars
=============================================================================
