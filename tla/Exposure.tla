------------------------------ MODULE Exposure ------------------------------
(***************************************************************************)
(* What a scan makes of what it saw: it compares the Internet side of an   *)
(* organization with the baseline and the services of the scan before,     *)
(* brings the findings it has up to date and adds new ones                 *)
(* (_generate_org_inner, _reconcile_findings, the synthesizers and         *)
(* _synthesize_diff_findings of app/scanner.py).                           *)
(*                                                                         *)
(* The scan probes the network without a lock.  Under the org lock it then *)
(* replaces baseline.txt and, in a second write, findings.json, which also *)
(* holds the services it saw.  The second write may never come: a write    *)
(* fails, or the process dies.                                             *)
(*                                                                         *)
(* A finding is named by its identity: a family, a host and what was seen. *)
(* Hosts are numbered in the order of their names.  Bounds: MaxScans,      *)
(* MaxDecisions.                                                           *)
(***************************************************************************)
EXTENDS Naturals, FiniteSets

CONSTANTS
    Hosts,         \* names the enumeration may yield
    Infra,         \* those whose name tells critical infrastructure
    Ports,         \* the ports that are probed
    WebPorts,      \* those of services "http" and "https"
    Schemes,       \* what a fingerprint was taken over
    Marks,         \* "login", "version", "cve", "headers"
    Details,       \* what a mark may say: products, sets of CVEs
    Grave,         \* the details of severity HIGH
    MaxDiff,       \* MAX_DIFF_FINDINGS
    ResolveAfter,  \* RESOLVE_AFTER_MISSES
    Faults,        \* whether a scan may be cut short
    MaxScans,      \* bound on the scans
    MaxDecisions   \* bound on the analyst's decisions

ASSUME ExposureAssumption ==
    /\ Hosts \subseteq Nat /\ IsFiniteSet(Hosts)
    /\ Infra \subseteq Hosts
    /\ IsFiniteSet(Ports) /\ WebPorts \subseteq Ports
    /\ Grave \subseteq Details
    /\ "none" \notin Schemes \cup Details /\ "host" \notin Ports
    /\ MaxDiff \in Nat /\ ResolveAfter \in Nat \ {0} /\ MaxScans \in Nat /\ MaxDecisions \in Nat
    /\ Faults \in BOOLEAN

VARIABLES
    baseline,      \* the hosts of baseline.txt
    findings,      \* findings.json
    known,         \* meta.services of findings.json
    pc,            \* what the scan does next
    seen,          \* what it saw
    before,        \* the baseline it found
    scans,         \* scans so far
    decisions,     \* decisions so far
    untold         \* history: hosts of which no scan was to tell

vars == <<baseline, findings, known, pc, seen, before, scans, decisions, untold>>

\* The identities: family, host, signature.
Web(h, s) == <<"web", h, s>>
Tcp(h, p) == <<"tcp", h, p>>
Enum(h) == <<"enum", h, "-">>
Mark(m, h, d) == <<m, h, d>>
NewHost(h) == <<"diff", h, "host">>
NewPort(h, p) == <<"diff", h, p>>

Identity ==
    ({"web"} \X Hosts \X Schemes) \cup ({"tcp"} \X Hosts \X Ports)
      \cup ({"enum"} \X Hosts \X {"-"}) \cup (Marks \X Hosts \X Details)
      \cup ({"diff"} \X Hosts \X (Ports \cup {"host"}))

Family(i) == i[1]
Target(i) == i[2]
Sign(i) == i[3]

\* What a scan may see of a host: nothing; its name; that it resolves, with a
\* fingerprint or without, open ports, and marks on the fingerprint.
Sight == [named : BOOLEAN, up : BOOLEAN, web : Schemes \cup {"none"},
          open : SUBSET Ports, marks : [Marks -> Details \cup {"none"}]]

Unmarked == [m \in Marks |-> "none"]

Unseen == [named |-> FALSE, up |-> FALSE, web |-> "none", open |-> {}, marks |-> Unmarked]

\* The locals of the scan are gone with it.
Forget == seen' = [h \in Hosts |-> Unseen] /\ before' = {}

Possible(s) ==
    /\ s.up => s.named
    /\ s.web # "none" \/ s.open # {} => s.up
    /\ s.marks # Unmarked => s.web # "none"

Sights == {s \in Sight : Possible(s)}

\* Status of the finding with an identity, how many scans in a row missed it and
\* how many records have that identity.
Record == [status : {"none", "OPEN", "RESOLVED", "OWNED"}, streak : Nat, copies : Nat]

Absent == [status |-> "none", streak |-> 0, copies |-> 0]

\* Nothing is said of what is not there, and what is there was missed by fewer scans
\* than there were: the one that found it did not miss it.
Counted(f) == IF f.copies = 0 THEN f = Absent ELSE f.status # "none" /\ f.streak < scans

TypeOK ==
    /\ baseline \subseteq Hosts /\ before \subseteq Hosts /\ untold \subseteq Hosts
    /\ findings \in [Identity -> Record] /\ \A i \in Identity : Counted(findings[i])
    /\ known \in [Hosts -> SUBSET Ports]
    /\ pc \in {"idle", "probed", "saved"}
    /\ seen \in [Hosts -> Sights]
    /\ scans \in 0..MaxScans /\ decisions \in 0..MaxDecisions

Has(i) == findings[i].copies > 0

-----------------------------------------------------------------------------
\* A registration leaves an empty baseline and no findings.
Init ==
    /\ baseline = {} /\ before = {} /\ untold = {}
    /\ findings = [i \in Identity |-> Absent]
    /\ known = [h \in Hosts |-> {}]
    /\ pc = "idle" /\ scans = 0 /\ decisions = 0
    /\ seen = [h \in Hosts |-> Unseen]

\* The analyst decides on a finding, at any time the org lock is free.
SetStatus(i, st) ==
    /\ pc # "saved" /\ Has(i) /\ st # findings[i].status
    /\ decisions < MaxDecisions /\ decisions' = decisions + 1
    /\ findings' = [findings EXCEPT ![i].status = st]
    /\ UNCHANGED <<baseline, known, pc, seen, before, scans, untold>>

\* Enumeration, resolution, fingerprints, services.
Probe ==
    /\ pc = "idle" /\ scans < MaxScans
    /\ seen' \in [Hosts -> Sights]
    /\ scans' = scans + 1 /\ pc' = "probed"
    /\ UNCHANGED <<baseline, findings, known, before, decisions, untold>>

Up == {h \in Hosts : seen[h].up}

Fresh == {h \in Up : h \notin before}

\* Mutant of SaveBaseline: the old baseline is read after it was replaced.
MutSaveBaseline ==
    /\ pc = "probed" /\ pc' = "saved"
    /\ baseline' = Up /\ before' = Up
    /\ UNCHANGED <<findings, known, seen, scans, decisions, untold>>

\* Under the org lock the old baseline is read and replaced.
SaveBaseline ==
    /\ pc = "probed" /\ pc' = "saved"
    /\ baseline' = Up /\ before' = baseline
    /\ UNCHANGED <<findings, known, seen, scans, decisions, untold>>

-----------------------------------------------------------------------------
(* _reconcile_findings *)

\* Exact evidence for web, services and names; for the other families, new hosts
\* and ports among them, a fingerprint of the host.
Observed(i) ==
    LET s == seen[Target(i)]
    IN  CASE Family(i) = "web"  -> s.web = Sign(i)
          [] Family(i) = "tcp"  -> Sign(i) \in s.open
          [] Family(i) = "enum" -> s.named
          [] OTHER              -> s.web # "none"

\* Whether the streak n resolves the finding; a HIGH one is left to the analyst.
Due(i, n) == n >= ResolveAfter /\ Sign(i) \notin Grave

\* Mutant of Reconciled: what is resolved stays resolved.
MutReconciled(i) ==
    LET f == findings[i]
        n == f.streak + 1
    IN  CASE f.status = "none" \/ f.status = "RESOLVED" -> f
          [] f.status # "RESOLVED" /\ Observed(i) -> [f EXCEPT !.streak = 0]
          [] OTHER -> [f EXCEPT !.streak = n,
                         !.status = IF @ = "OPEN" /\ Due(i, n) THEN "RESOLVED" ELSE @]

\* Mutant of Reconciled: no fingerprint and no open port are two misses.
MutReconciledTwice(i) ==
    LET f == findings[i]
        n == f.streak + 2
    IN  CASE f.status = "none" \/ (f.status = "RESOLVED" /\ ~Observed(i)) -> f
          [] f.status # "none" /\ Observed(i) ->
               [f EXCEPT !.status = IF @ = "RESOLVED" THEN "OPEN" ELSE @, !.streak = 0]
          [] OTHER -> [f EXCEPT !.streak = n,
                         !.status = IF @ = "OPEN" /\ Due(i, n) THEN "RESOLVED" ELSE @]

Reconciled(i) ==
    LET f == findings[i]
        n == f.streak + 1
    IN  CASE f.status = "none" -> f
          [] f.status = "RESOLVED" /\ Observed(i) ->
               [f EXCEPT !.status = "OPEN", !.streak = 0]
          [] f.status = "RESOLVED" /\ ~Observed(i) -> f
          [] f.status \in {"OPEN", "OWNED"} /\ Observed(i) -> [f EXCEPT !.streak = 0]
          [] OTHER -> [f EXCEPT !.streak = n,
                         !.status = IF @ = "OPEN" /\ Due(i, n) THEN "RESOLVED" ELSE @]

-----------------------------------------------------------------------------
(* The synthesizers.  Each looks at the findings the scan found. *)

\* synthesize_surface_findings: a fingerprint, an open port of which it does not
\* tell already, the name of an infrastructure of which nothing is seen or known.
WebSeen == {i \in Identity : Family(i) = "web" /\ seen[Target(i)].web = Sign(i)}

TcpSeen ==
    {i \in Identity : /\ Family(i) = "tcp" /\ Sign(i) \in seen[Target(i)].open
                      /\ seen[Target(i)].web # "none" => Sign(i) \notin WebPorts}

EnumSeen ==
    {i \in Identity : /\ Family(i) = "enum" /\ Target(i) \in Infra
                      /\ seen[Target(i)].named
                      /\ seen[Target(i)].web = "none" /\ seen[Target(i)].open = {}
                      /\ \A j \in Identity : Target(j) = Target(i) => ~Has(j)}

\* The login, version, CVE and header synthesizers: one finding per host and
\* category, whatever the one that is there already says.
MarkSeen ==
    {i \in Identity : /\ Family(i) \in Marks
                      /\ seen[Target(i)].marks[Family(i)] = Sign(i)
                      /\ \A j \in Identity :
                           Family(j) = Family(i) /\ Target(j) = Target(i) => ~Has(j)}

\* Mutant of Surface: what is in the findings already is added again.
MutSurface == WebSeen \cup TcpSeen \cup EnumSeen \cup MarkSeen

Surface == {i \in WebSeen \cup TcpSeen \cup EnumSeen \cup MarkSeen : ~Has(i)}

\* _synthesize_diff_findings.  The cap is looked at before each host.
NewHosts == {h \in Fresh : ~Has(NewHost(h))}

\* Mutant of ToldHosts: the cap is reached one host early.
MutToldHosts == {h \in NewHosts : Cardinality({g \in NewHosts : g < h}) + 1 < MaxDiff}

ToldHosts == {h \in NewHosts : Cardinality({g \in NewHosts : g < h}) < MaxDiff}

NewPorts ==
    {i \in Identity : /\ Family(i) = "diff" /\ Target(i) \in before
                      /\ Sign(i) \in seen[Target(i)].open \ known[Target(i)]
                      /\ ~Has(i)}

ToldPorts ==
    {i \in NewPorts : Cardinality(ToldHosts)
                        + Cardinality({j \in NewPorts : Target(j) < Target(i)}) < MaxDiff}

\* Nothing is new when there was no baseline, or none with a host in it.
Diff == IF before = {} THEN {} ELSE {NewHost(h) : h \in ToldHosts} \cup ToldPorts

Added == Surface \cup Diff

Merged(i) ==
    IF i \in Added
      THEN [status |-> IF Has(i) THEN Reconciled(i).status ELSE "OPEN",
            streak |-> 0, copies |-> findings[i].copies + 1]
      ELSE Reconciled(i)

\* The hosts of which the scan has nothing to tell though it had not seen them
\* before: there was nothing to compare with, or as many hosts as the cap allows came
\* in with it, all of them ahead in the order of their names.
Passed ==
    IF before = {} THEN Up
    ELSE {h \in Fresh : Cardinality({g \in Hosts : g < h /\ NewHost(g) \in Diff}) >= MaxDiff}

\* Findings and services are written, the lock is released.
SaveFindings ==
    /\ pc = "saved" /\ pc' = "idle"
    /\ findings' = [i \in Identity |-> Merged(i)]
    /\ known' = [h \in Hosts |-> seen[h].open]
    /\ untold' = untold \cup Passed
    /\ Forget
    /\ UNCHANGED <<baseline, scans, decisions>>

\* The scan is cut short before its first write, or between the two.
Cut ==
    /\ Faults /\ pc \in {"probed", "saved"} /\ pc' = "idle"
    /\ untold' = IF pc = "saved" THEN untold \cup Fresh ELSE untold
    /\ Forget
    /\ UNCHANGED <<baseline, findings, known, scans, decisions>>

Next ==
    \/ \E i \in Identity, st \in {"OPEN", "RESOLVED", "OWNED"} : SetStatus(i, st)
    \/ Probe \/ SaveBaseline \/ SaveFindings \/ Cut

Spec == Init /\ [][Next]_vars

-----------------------------------------------------------------------------
(* Properties *)

Live(i) == Has(i) /\ findings[i].status # "RESOLVED"

\* What a scan sees listening is in the findings when it is done and not resolved:
\* each open port has its finding, or is a web port of a host whose fingerprint
\* has one.  Whatever was resolved before, by misses or by the analyst, is open
\* again ("RESOLVED identities seen again REOPEN", app/scanner.py:2559).
ScanTracksServices ==
    [][SaveFindings => \A h \in Hosts, p \in Ports :
         p \in seen[h].open =>
           \/ Live(Tcp(h, p))'
           \/ p \in WebPorts /\ \E s \in Schemes : Live(Web(h, s))']_vars

\* "Deduped by identity_key so a re-scan does not repeat an exposure that is
\* already tracked" (app/scanner.py:3138): no two records have one identity,
\* after any sequence of scans, cuts and decisions.
OneRecordEach == \A i \in Identity : findings[i].copies <= 1

\* Between scans every host of the baseline was reported as new by some scan,
\* unless it is one of those of which no scan was to tell: it was there when there
\* was nothing to compare with, the scan that first saw it reported as many hosts as
\* MAX_DIFF_FINDINGS allows, all ahead of it, or that scan was cut between the two
\* writes.  No other is taken into the baseline in silence.
HostsReported ==
    pc = "idle" => \A h \in baseline : h \in untold \/ Has(NewHost(h))
=============================================================================
