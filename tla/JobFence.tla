------------------------------ MODULE JobFence ------------------------------
(***************************************************************************)
(* What the job table of CTI Radar promises, with no table and no pool:    *)
(* background work on one organization is serialized, the work of all      *)
(* organizations together is bounded, and a job that has ended never works *)
(* again.  Everything that rewrites an organization's files as a whole     *)
(* (scan, recheck, correlate, vuln lookup, grading, OpenHack) relies on    *)
(* this promise.                                                           *)
(***************************************************************************)
EXTENDS Naturals, FiniteSets

CONSTANTS
    Jobs,          \* every job that may ever be accepted
    OrgOf(_),      \* the organization a job works on
    MaxActive      \* the most jobs at work at one time

VARIABLES
    live,          \* the jobs accepted and not finished
    past           \* the jobs that finished, or were lost with the process

fenceVars == <<live, past>>

FenceInit == live = {} /\ past = {}

Begin(j) ==
    /\ j \notin live \cup past
    /\ \A i \in live : OrgOf(i) # OrgOf(j)
    /\ Cardinality(live) < MaxActive
    /\ live' = live \cup {j}
    /\ UNCHANGED past

End(j) ==
    /\ j \in live
    /\ live' = live \ {j}
    /\ past' = past \cup {j}

\* The process stops: whatever was live is lost, and is not resumed.
Crash ==
    /\ live' = {}
    /\ past' = past \cup live

FenceNext == Crash \/ \E j \in Jobs : Begin(j) \/ End(j)

FenceSpec == FenceInit /\ [][FenceNext]_fenceVars
=============================================================================
