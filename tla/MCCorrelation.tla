---------------------------- MODULE MCCorrelation ----------------------------
(***************************************************************************)
(* An instance of Correlation for TLC.  Two hosts may resolve to one       *)
(* address, of which InternetDB lists nothing, a CVE or a product; a scan  *)
(* confirms something on the first, matches a CVE by version on it, and    *)
(* finds the same CVE on the second.                                       *)
(***************************************************************************)
EXTENDS Correlation

Seed(source, h, cves, ip, confirmed) ==
    [source |-> source, target |-> h, about |-> 0, id |-> NoId, cves |-> cves,
     ip |-> ip, confirmed |-> confirmed]

SomeSeeds ==
    {Seed("scan", 1, {}, "a", TRUE), Seed("scan-cve", 1, {1}, "a", FALSE),
     Seed("scan", 2, {1}, "none", FALSE)}

Listing(vulns, cpes) ==
    [vulns |-> vulns, ports |-> vulns # {} \/ cpes, cpes |-> cpes]

SomeListings == {Listing({}, FALSE), Listing({1}, FALSE), Listing({}, TRUE)}
=============================================================================
