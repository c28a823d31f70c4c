----------------------------- MODULE Correlation -----------------------------
(***************************************************************************)
(* The correlation engine, correlate_org of app/scanner.py: what a pass    *)
(* derives from the findings of an organization, the addresses of the      *)
(* hosts of its baseline and what InternetDB lists for these addresses,    *)
(* and how it is merged into findings.json; with the scans and the AI      *)
(* assessments that add findings between two passes.                       *)
(*                                                                         *)
(* A pass is one step: jobs of an organization do not overlap (Jobs), and  *)
(* what an analyst changes meanwhile is not what it reads.  Hosts and CVEs *)
(* are numbered in the order of their names.  Bounds: MaxPasses, MaxScans, *)
(* MaxAssessments.                                                         *)
(***************************************************************************)
EXTENDS Naturals, Sequences, FiniteSets, SequencesExt

CONSTANTS
    Hosts, Cves,    \* numbered from one
    Addresses,      \* not "none"
    Listings,       \* what InternetDB may list for an address, Unlisted among it
    Seeds,          \* findings the scans may make
    MaxPasses,      \* bound on the passes
    MaxScans,       \* bound on the scans
    MaxAssessments  \* bound on the AI assessments

Unlisted == [vulns |-> {}, ports |-> FALSE, cpes |-> FALSE]

Address == Addresses \cup {"none"}

\* A pass is about a CVE, by its number, or about none.
About == Cves \cup {0}

\* Sources that do not count as an observation; what a scan saw itself is a "scan".
CorrSources == {"cve-share", "ip-co-residency", "internetdb", "ai-assess", "scan-cve"}

Sources == CorrSources \cup {"scan"}

\* The ids of scans are made of what was found, the others of a count; a seed has none.
NoId == <<"-", 0>>

Ids ==
    ({"scan"} \X (Hosts \X About \X Sources)) \cup ({"AI", "cve", "ip", "idb"} \X Nat) \cup {NoId}

Finding ==
    [source : Sources, target : Hosts, about : About, id : Ids, cves : SUBSET Cves,
     ip : Address, confirmed : BOOLEAN]

ASSUME CorrelationAssumption ==
    /\ Hosts \subseteq Nat /\ IsFiniteSet(Hosts)
    /\ Cves \subseteq Nat /\ IsFiniteSet(Cves)
    /\ "none" \notin Addresses
    /\ Unlisted \in Listings
    /\ Listings \subseteq [vulns : SUBSET Cves, ports : BOOLEAN, cpes : BOOLEAN]
    /\ Seeds \subseteq Finding /\ IsFiniteSet(Seeds)
    /\ MaxPasses \in Nat /\ MaxScans \in Nat /\ MaxAssessments \in Nat

VARIABLES
    findings,  \* findings.json, in its order
    baseline,  \* baseline.txt
    network,   \* history: what the last pass saw
    calm,      \* history: passes since anything changed
    passes, scans, assessments

vars == <<findings, baseline, network, calm, passes, scans, assessments>>

\* What a pass may see: where each host resolves to, and the listings.
Network == [at : [Hosts -> Address], listed : [Addresses -> Listings]]

\* The category of a correlated finding says no more than its source, except
\* that a shared CVE is part of it.
Key(f) == <<f.target, f.about, f.source>>

Keys(fs) == {Key(fs[i]) : i \in DOMAIN fs}

Pairs(fs) == UNION {{fs[i].target} \X fs[i].cves : i \in DOMAIN fs}

Before(x, y) == x[1] < y[1] \/ (x[1] = y[1] /\ x[2] < y[2])

\* The elements of a set in order: the k-th is the one with k - 1 ahead of it.
InOrder(S, Ahead(_, _)) ==
    LET Place(x) == Cardinality({y \in S : Ahead(y, x)}) + 1
    IN  [k \in 1..Cardinality(S) |-> CHOOSE x \in S : Place(x) = k]

Sorted(S) == InOrder(S, Before)

Ascending(S) == InOrder(S, <)

-----------------------------------------------------------------------------
Init ==
    /\ findings = <<>> /\ baseline = {}
    /\ network = [at |-> [h \in Hosts |-> "none"],
                  listed |-> [a \in Addresses |-> Unlisted]]
    /\ calm = 0 /\ passes = 0 /\ scans = 0 /\ assessments = 0

\* A scan leaves the hosts that resolve and findings that are not there yet, one
\* for each key (Exposure), each with an id of its own.
Scan(found, up) ==
    /\ scans < MaxScans /\ scans' = scans + 1
    /\ found # {} /\ \A f \in found : Key(f) \notin Keys(findings)
    /\ \A f, g \in found : Key(f) = Key(g) => f = g
    /\ findings' = findings \o SetToSeq({[f EXCEPT !.id = <<"scan", Key(f)>>] : f \in found})
    /\ baseline' = up
    /\ calm' = 0
    /\ UNCHANGED <<network, passes, assessments>>

\* What an assessment or a pass adds is not confirmed.
Derived(source, h, about, n, cves, ip) ==
    [source |-> source, target |-> h, about |-> about, id |-> n, cves |-> cves, ip |-> ip,
     confirmed |-> FALSE]

\* ai_assess_org appends what the model said of hosts and is not there already; the
\* CVEs it may name, and that it rewrites its own findings, are left out.
\* The id is made of the length of the list, which has grown by then, and the
\* number of those added.
AiFinding(h, n) == Derived("ai-assess", h, 0, <<"AI", n>>, {}, "none")

Assess(said) ==
    LET new == Ascending({h \in said : Key(AiFinding(h, 0)) \notin Keys(findings)})
    IN  /\ assessments < MaxAssessments /\ assessments' = assessments + 1
        /\ said # {}
        /\ findings' = findings \o
             [k \in DOMAIN new |-> AiFinding(new[k], Len(findings) + 2 * k - 1)]
        /\ calm' = 0
        /\ UNCHANGED <<baseline, network, passes, scans>>

-----------------------------------------------------------------------------
(* A pass *)

\* Mutant of Enriched: what InternetDB lists takes the place of what was known.
MutEnriched(fs, net) ==
    [i \in DOMAIN fs |->
       [fs[i] EXCEPT !.cves = IF fs[i].ip = "none" THEN @ ELSE net.listed[fs[i].ip].vulns]]

\* The findings with the CVEs InternetDB lists for their addresses.
Enriched(fs, net) ==
    [i \in DOMAIN fs |->
       [fs[i] EXCEPT !.cves = @ \cup IF fs[i].ip = "none" THEN {} ELSE net.listed[fs[i].ip].vulns]]

\* CVEs of a host: those of its findings, and what is listed for a host of the baseline.
HostCves(fs, net, h) ==
    {c \in Cves : \/ \E i \in DOMAIN fs : fs[i].target = h /\ c \in fs[i].cves
                  \/ h \in baseline /\ net.at[h] # "none" /\ c \in net.listed[net.at[h]].vulns}

\* The first finding that names a CVE, whatever its source is.
Source(fs, c) ==
    LET I == {i \in DOMAIN fs : c \in fs[i].cves}
    IN  CHOOSE i \in I : \A j \in I : i <= j

HostAddress(fs, net, h) ==
    IF h \in baseline /\ net.at[h] # "none"
      THEN net.at[h]
      ELSE LET I == {i \in DOMAIN fs : fs[i].target = h /\ fs[i].ip # "none"}
           IN  IF I = {} THEN "none" ELSE fs[CHOOSE i \in I : \A j \in I : j <= i].ip

\* Rule 1: a host shares a CVE with the first finding that names it.
Shares(fs, net) ==
    LET Shared(h, c) == /\ c \in HostCves(fs, net, h)
                        /\ \E i \in DOMAIN fs : c \in fs[i].cves
                        /\ fs[Source(fs, c)].target # h
        hits == Sorted({p \in Hosts \X Cves : Shared(p[1], p[2])})
    IN  [k \in DOMAIN hits |->
           Derived("cve-share", hits[k][1], hits[k][2], <<"cve", 0>>, {hits[k][2]},
                   HostAddress(fs, net, hits[k][1]))]

\* Mutant of CoResidents: finding and host are mixed up.
MutCoResidents(fs, net) ==
    LET Beside(i, h) == /\ fs[i].confirmed /\ fs[i].source \notin CorrSources
                        /\ fs[i].ip # "none"
                        /\ h \in baseline /\ net.at[h] = fs[i].ip /\ h # fs[i].target
        hits == Sorted({p \in (DOMAIN fs) \X Hosts : Beside(p[1], p[2])})
    IN  [k \in DOMAIN hits |->
           Derived("ip-co-residency", hits[k][1], 0, <<"ip", 0>>, {}, fs[hits[k][1]].ip)]

\* Rule 2: a host of the baseline lives at the address of a confirmed finding.
CoResidents(fs, net) ==
    LET Beside(i, h) == /\ fs[i].confirmed /\ fs[i].source \notin CorrSources
                        /\ fs[i].ip # "none"
                        /\ h \in baseline /\ net.at[h] = fs[i].ip /\ h # fs[i].target
        hits == Sorted({p \in (DOMAIN fs) \X Hosts : Beside(p[1], p[2])})
    IN  [k \in DOMAIN hits |->
           Derived("ip-co-residency", hits[k][2], 0, <<"ip", 0>>, {}, fs[hits[k][1]].ip)]

\* Rule 3: InternetDB lists ports with CVEs, or products, for the address of a finding.
Backed(fs, net) ==
    LET Telling(l) == (l.ports /\ l.vulns # {}) \/ l.cpes
        hits == Ascending({i \in DOMAIN fs : fs[i].ip # "none" /\ Telling(net.listed[fs[i].ip])})
    IN  [k \in DOMAIN hits |->
           LET f == fs[hits[k]]
           IN  Derived("internetdb", f.target, 0, <<"idb", 0>>, net.listed[f.ip].vulns, f.ip)]

\* The candidates, numbered from one in every pass.
Candidates(fs, net) ==
    LET all == Shares(fs, net) \o CoResidents(fs, net) \o Backed(fs, net)
    IN  [k \in DOMAIN all |-> [all[k] EXCEPT !.id = <<@[1], k>>]]

\* Mutant of Fresh: what the findings hold already is added again.
MutFresh(fs, net) == Candidates(fs, net)

\* The candidates in turn: one is passed over when its host has one of its CVEs
\* already, in the file or by one that was taken, or one with its key was taken.
Taken(c, fs) ==
    LET Known(T, f) ==
          \/ \E v \in f.cves : <<f.target, v>> \in Pairs(fs)
          \/ \E j \in T : \/ Key(c[j]) = Key(f)
                         \/ (c[j].target = f.target /\ c[j].cves \cap f.cves # {})
        after[k \in 0..Len(c)] ==
          IF k = 0 THEN {}
          ELSE after[k - 1] \cup (IF Known(after[k - 1], c[k]) THEN {} ELSE {k})
    IN  after[Len(c)]

\* Of those that were taken, the ones whose key the file does not hold.
Fresh(fs, net) ==
    LET c == Candidates(fs, net)
        pick == Ascending({k \in Taken(c, fs) : Key(c[k]) \notin Keys(fs)})
    IN  [n \in DOMAIN pick |-> c[pick[n]]]

\* The enriched CVEs are stored by id: of findings with one id the last has them.
Stored(fs, e) ==
    [i \in DOMAIN fs |->
       IF \E j \in DOMAIN fs : j > i /\ fs[j].id = fs[i].id THEN fs[i] ELSE e[i]]

Correlate(net) ==
    LET e == Enriched(findings, net)
        new == Fresh(e, net)
    IN  /\ passes < MaxPasses /\ passes' = passes + 1
        /\ findings' = Stored(findings, e) \o new
        /\ network' = net /\ calm' = IF net = network THEN calm + 1 ELSE 1
        /\ UNCHANGED <<baseline, scans, assessments>>

Next ==
    \/ \E found \in SUBSET Seeds, up \in SUBSET Hosts : Scan(found, up)
    \/ \E said \in SUBSET Hosts : Assess(said)
    \/ \E net \in Network : Correlate(net)

Spec == Init /\ [][Next]_vars

-----------------------------------------------------------------------------
(* Properties *)

TypeOK ==
    /\ findings \in Seq(Finding)
    /\ baseline \subseteq Hosts
    /\ network \in Network
    /\ calm \in 0..MaxPasses /\ passes \in 0..MaxPasses /\ scans \in 0..MaxScans
    /\ assessments \in 0..MaxAssessments

\* "only new ones (by stable target+category+source key) are appended"
\* (app/cti_correlation.py:974): no two findings have one key.
OneRecordPerKey ==
    \A i, j \in DOMAIN findings : Key(findings[i]) = Key(findings[j]) => i = j

\* Each finding keeps its place, key and id, and in a pass its CVEs: it gains only those
\* that are listed for its own address.  (An assessment may rewrite what it said before.)
Preserved ==
    \A i \in DOMAIN findings :
      LET f == findings[i]
          g == findings'[i]
      IN  /\ i \in DOMAIN findings' /\ Key(g) = Key(f) /\ g.id = f.id
          /\ passes' # passes =>
               /\ f.cves \subseteq g.cves
               /\ \A c \in g.cves \ f.cves : f.ip # "none" /\ c \in network'.listed[f.ip].vulns

\* "Existing findings are always preserved" (app/cti_correlation.py:989), though two
\* of them may have one id and enrichment is stored by it.
NothingTaken == [][Preserved]_vars

\* What a pass derives is in the end all there is to derive: when nothing changed
\* for two passes, the next one adds nothing and changes nothing.
Settles ==
    [][(\E net \in Network : net = network /\ Correlate(net)) /\ calm >= 2
         => findings' = findings]_vars
=============================================================================
