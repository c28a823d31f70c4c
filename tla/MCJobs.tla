------------------------------- MODULE MCJobs -------------------------------
(***************************************************************************)
(* Instances of Jobs for TLC.  Two threads' worth of work compete for one  *)
(* thread, so jobs wait in the queue; the cap is below the number of       *)
(* organizations in the safety run, so that it refuses; the clock reaches  *)
(* an age beyond JobTTL.                                                   *)
(***************************************************************************)
EXTENDS Jobs, TLC

CONSTANTS o1, o2, o3, scan, grade

TwoOrgs == {o1, o2}

ThreeOrgs == {o1, o2, o3}

ScanOnly == {scan}

ScanAndGrade == {scan, grade}

\* Organizations and kinds are interchangeable; used with safety alone.
Symmetric == Permutations(ThreeOrgs) \cup Permutations(ScanAndGrade)
=============================================================================
