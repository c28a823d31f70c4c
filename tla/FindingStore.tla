---------------------------- MODULE FindingStore ----------------------------
(***************************************************************************)
(* The files of one organization, findings.json, baseline.txt and          *)
(* history.json, and the threads that read and write them: the job of the  *)
(* organization (one at a time: module Jobs), the requests of the analysts *)
(* and the readers, who go through a cache.                                *)
(*                                                                         *)
(* Every file is replaced atomically; what interleaves is reading a file,  *)
(* replacing it, dropping the cached copy and appending to the history.    *)
(* Writers hold the org lock (not reentrant) around a read-modify-write,   *)
(* except the vuln job.  A reader holds the cache lock while it reads the  *)
(* two files and stores the result.                                        *)
(*                                                                         *)
(* Of the findings file we keep the analyst edits it holds, the findings   *)
(* the jobs added (a finding is named by the job and the stage that added  *)
(* it), the ids of meta.last_snapshot and the number of the last scan that *)
(* wrote it; of the baseline, the number of the scan that wrote it.        *)
(***************************************************************************)
EXTENDS Naturals, FiniteSets

CONSTANTS
    Edits,        \* requests to change a status or to leave a comment
    Readers,      \* requests that read through the cache
    Kinds,        \* the kinds of jobs that run
    AiRuns,       \* the scans that may be in AI mode
    Faults,       \* "crash": the process may die; "write": a write may fail
    MaxRuns,      \* bound on the jobs
    MaxCrashes    \* bound on the crashes

AnyKind == {"scan", "recheck", "grade", "correlate", "openhack", "vuln"}

ASSUME StoreAssumption ==
    /\ Kinds \subseteq AnyKind
    /\ AiRuns \subseteq Nat
    /\ Faults \subseteq {"crash", "write"}
    /\ MaxRuns \in Nat /\ MaxCrashes \in Nat
    /\ "job" \notin Edits /\ "free" \notin Edits /\ "free" \notin Readers

VARIABLES
    findings,     \* findings.json
    baseline,     \* baseline.txt
    ledger,       \* history.json, as a set of events
    cache,        \* _DATA_CACHE[org], or Nothing
    cacheLock,    \* who holds _DATA_CACHE_LOCK across a read
    orgLock,      \* who holds _org_lock(slug)
    pc,           \* what each writer does next
    copy,         \* the findings each writer has read
    page,         \* the history each writer has read
    stage,        \* the stage of the job
    event,        \* the findings the job's history event will call new
    runs,         \* jobs started
    rpc,          \* what each reader does next
    view,         \* what each reader has read
    owed,         \* edits answered before the reader began
    crashes,      \* crashes so far
    unsaved       \* history variable: announced with a snapshot that was not written

files == <<findings, baseline, ledger>>
jobVars == <<stage, event, runs>>
readVars == <<rpc, view, owed>>
vars == <<files, cache, cacheLock, orgLock, pc, copy, page, jobVars, readVars,
          crashes, unsaved>>

Writers == Edits \cup {"job"}
Stage == AnyKind \cup {"reply", "ai", "snap", "void"}
Id == (1..MaxRuns) \X Stage
Free == "free"
Nothing == [none |-> TRUE]

FindingsFile == [edits : SUBSET Edits, ids : SUBSET Id, snap : SUBSET Id, gen : 0..MaxRuns]
View == [edits : SUBSET Edits, gen : 0..MaxRuns, base : 0..MaxRuns]
EditEvent(e) == [edit |-> e]
JobEvent(n, s, new) == [job |-> n, stage |-> s, new |-> new]
Events == [edit : Edits] \cup [job : 1..MaxRuns, stage : Stage, new : SUBSET Id]

EditStep == {"new", "write", "drop", "page", "log", "done", "failed"}
JobStep == {"idle", "apply", "baseline", "dropBaseline", "write", "drop",
            "record", "snapshot", "dropSnapshot", "append", "log"}

StepsOK ==
    /\ pc \in [Writers -> EditStep \cup JobStep]
    /\ \A p \in Writers : pc[p] \in IF p = "job" THEN JobStep ELSE EditStep
    /\ stage = "none" <=> pc["job"] = "idle"

TypeOK ==
    /\ findings \in FindingsFile
    /\ baseline \in 0..MaxRuns
    /\ ledger \subseteq Events
    /\ cache \in View \cup {Nothing}
    /\ cacheLock \in Readers \cup {Free}
    /\ orgLock \in Writers \cup {Free}
    /\ StepsOK
    /\ copy \in [Writers -> FindingsFile]
    /\ page \in [Writers -> SUBSET Events]
    /\ stage \in Stage \cup {"none"}
    /\ event \subseteq Id
    /\ runs \in 0..MaxRuns
    /\ rpc \in [Readers -> {"idle", "findings", "baseline"}]
    /\ view \in [Readers -> View]
    /\ owed \in [Readers -> SUBSET Edits]
    /\ crashes \in 0..MaxCrashes
    /\ unsaved \subseteq Id

Empty == [edits |-> {}, ids |-> {}, snap |-> {}, gen |-> 0]

Init ==
    /\ findings = Empty /\ baseline = 0 /\ ledger = {}
    /\ cache = Nothing /\ cacheLock = Free /\ orgLock = Free
    /\ pc = [p \in Writers |-> IF p = "job" THEN "idle" ELSE "new"]
    /\ copy = [p \in Writers |-> Empty]
    /\ page = [p \in Writers |-> {}]
    /\ stage = "none" /\ event = {} /\ runs = 0
    /\ rpc = [r \in Readers |-> "idle"]
    /\ view = [r \in Readers |-> [edits |-> {}, gen |-> 0, base |-> 0]]
    /\ owed = [r \in Readers |-> {}]
    /\ crashes = 0
    /\ unsaved = {}

Goto(p, s) == pc' = [pc EXCEPT ![p] = s]

-----------------------------------------------------------------------------
(* What the writers share *)

\* with _org_lock(slug): the file is read once the lock is held.
LockAndRead(p) ==
    /\ orgLock = Free
    /\ orgLock' = p
    /\ copy' = [copy EXCEPT ![p] = findings]

\* Leaving the with block.  The copies are of no use any more.
Unlock(p) ==
    /\ orgLock' = IF orgLock = p THEN Free ELSE orgLock
    /\ copy' = [copy EXCEPT ![p] = Empty]
    /\ page' = [page EXCEPT ![p] = {}]

\* Mutant of Invalidate: the entry is dropped without the cache lock.
MutInvalidateUnlocked == cache' = Nothing

\* invalidate_org_cache
Invalidate == cacheLock = Free /\ cache' = Nothing

\* _append_history_locked reads the whole history and writes it back longer.
ReadLedger(p) == page' = [page EXCEPT ![p] = ledger]
Append(p, ev) == ledger' = page[p] \cup {ev}

-----------------------------------------------------------------------------
(* set_finding_status and add_finding_comment *)

Request(e) ==
    /\ pc[e] = "new" /\ LockAndRead(e) /\ Goto(e, "write")
    /\ UNCHANGED <<files, cache, cacheLock, page, jobVars, readVars, crashes, unsaved>>

SaveEdit(e) ==
    /\ pc[e] = "write" /\ Goto(e, "drop")
    /\ findings' = [copy[e] EXCEPT !.edits = @ \cup {e}]
    /\ UNCHANGED <<baseline, ledger, cache, cacheLock, orgLock, copy, page, jobVars,
                   readVars, crashes, unsaved>>

DropAfterEdit(e) ==
    /\ pc[e] = "drop" /\ Invalidate /\ Goto(e, "page")
    /\ UNCHANGED <<files, cacheLock, orgLock, copy, page, jobVars,
                   readVars, crashes, unsaved>>

PageForEdit(e) ==
    /\ pc[e] = "page" /\ ReadLedger(e) /\ Goto(e, "log")
    /\ UNCHANGED <<files, cache, cacheLock, orgLock, copy, jobVars,
                   readVars, crashes, unsaved>>

LogEdit(e) ==
    /\ pc[e] = "log" /\ Append(e, EditEvent(e)) /\ Unlock(e) /\ Goto(e, "done")
    /\ UNCHANGED <<findings, baseline, cache, cacheLock, jobVars,
                   readVars, crashes, unsaved>>

\* A write fails: the request answers with an error.
FailEdit(e) ==
    /\ "write" \in Faults
    /\ pc[e] \in {"write", "log"} /\ Unlock(e) /\ Goto(e, "failed")
    /\ UNCHANGED <<files, cache, cacheLock, jobVars, readVars, crashes, unsaved>>

-----------------------------------------------------------------------------
(* The job *)

\* Stages that add findings; stages that bring last_snapshot up to date with
\* the findings they write; stages that leave no event in the history; stages
\* that leave one even when they have nothing to apply.
Adds == {"scan", "ai", "correlate", "openhack", "vuln"}
Snapshots == {"correlate", "snap"}
Silent == {"reply", "snap", "openhack"}
Notes == {"scan", "recheck", "grade", "ai"}

\* What a scan in AI mode goes on to: the answers to the feedback, the merge of
\* the assessment, the snapshot that counts it in, the grading.  A scan that
\* cannot be persisted is void and ends.
Follow ==
    [s \in Stage |->
        IF runs \notin AiRuns THEN {}
        ELSE CASE s = "scan"  -> {"reply", "ai", "grade"}
               [] s = "reply" -> {"ai"}
               [] s = "ai"    -> {"snap", "grade"}
               [] s = "snap"  -> {"grade"}
               [] OTHER       -> {}]

\* A job reads the findings when it starts and then turns to the network.
StartJob(k) ==
    /\ pc["job"] = "idle" /\ runs < MaxRuns /\ Goto("job", "apply")
    /\ stage' = k /\ runs' = runs + 1 /\ event' = {}
    /\ copy' = [copy EXCEPT !["job"] = findings]
    /\ UNCHANGED <<files, cache, cacheLock, orgLock, page, readVars, crashes, unsaved>>

\* Mutant of EndStage: the job ends and keeps its stage.
MutEndStage ==
    /\ event' = {} /\ UNCHANGED <<runs, stage>>
    /\ Goto("job", "idle")

\* The stage is over: the job ends or goes on to a next stage.
EndStage ==
    /\ event' = {} /\ UNCHANGED runs
    /\ \/ Goto("job", "idle") /\ stage' = "none"
       \/ Goto("job", "apply") /\ stage' \in Follow[stage]

EndJob == event' = {} /\ UNCHANGED runs /\ Goto("job", "idle") /\ stage' = "none"

\* There is nothing to apply: the network, the provider or the tool failed or had
\* nothing to tell, or the findings file is unreadable.
GiveUp ==
    /\ pc["job"] = "apply" /\ Unlock("job")
    /\ \/ EndJob
       \/ stage # "scan" /\ EndStage
       \/ /\ stage \in Notes /\ Goto("job", "append")
          /\ stage' = IF stage = "scan" THEN "void" ELSE stage
          /\ UNCHANGED <<event, runs>>
    /\ UNCHANGED <<files, cache, cacheLock, readVars, crashes, unsaved>>

\* Mutant of Reread: what the job read when it started is good enough.
MutRereadStale == orgLock = Free /\ orgLock' = "job" /\ UNCHANGED copy

\* The findings are read again before the result is applied to them: under the
\* lock, but for the vuln job.
Reread ==
    \/ stage # "vuln" /\ LockAndRead("job")
    \/ stage = "vuln" /\ copy' = [copy EXCEPT !["job"] = findings] /\ UNCHANGED orgLock

Apply ==
    /\ pc["job"] = "apply" /\ Reread
    /\ Goto("job", IF stage = "scan" THEN "baseline" ELSE "write")
    /\ UNCHANGED <<files, cache, cacheLock, page, jobVars, readVars, crashes, unsaved>>

\* Mutant of SaveBaseline: a write that fails is passed over in silence.
MutSaveBaselineIgnored ==
    /\ pc["job"] = "baseline" /\ Goto("job", "dropBaseline")
    /\ baseline' \in {baseline, runs}
    /\ UNCHANGED <<findings, ledger, cache, cacheLock, orgLock, copy, page, jobVars,
                   readVars, crashes, unsaved>>

\* A scan writes the baseline first.
SaveBaseline ==
    /\ pc["job"] = "baseline" /\ Goto("job", "dropBaseline")
    /\ baseline' = runs
    /\ UNCHANGED <<findings, ledger, cache, cacheLock, orgLock, copy, page, jobVars,
                   readVars, crashes, unsaved>>

DropAfterBaseline ==
    /\ pc["job"] = "dropBaseline" /\ Invalidate /\ Goto("job", "write")
    /\ UNCHANGED <<files, cacheLock, orgLock, copy, page, jobVars,
                   readVars, crashes, unsaved>>

\* What the job writes when it has read c.
Added(c) == IF stage \in Adds THEN c.ids \cup {<<runs, stage>>} ELSE c.ids

Applied(c) ==
    [edits |-> c.edits, ids |-> Added(c),
     snap |-> IF stage \in Snapshots THEN Added(c) ELSE c.snap,
     gen |-> IF stage = "scan" THEN runs ELSE c.gen]

SaveFindings ==
    /\ pc["job"] = "write" /\ Goto("job", "drop")
    /\ findings' = Applied(copy["job"])
    /\ event' = IF stage = "correlate" THEN Added(copy["job"]) \ copy["job"].snap ELSE {}
    /\ UNCHANGED <<baseline, ledger, cache, cacheLock, orgLock, copy, page, stage, runs,
                   readVars, crashes, unsaved>>

\* Mutant of Leave: the history is to be appended to with the lock still held.
MutLeaveLocked == UNCHANGED <<orgLock, copy, page>>

\* The lock is released before the history is appended to, which takes it again.
Leave == Unlock("job")

DropAfterFindings ==
    /\ pc["job"] = "drop" /\ Invalidate /\ Leave
    /\ \/ stage = "scan" /\ Goto("job", "record") /\ UNCHANGED jobVars
       \/ stage \in Silent /\ EndStage
       \/ stage \notin Silent \cup {"scan"} /\ Goto("job", "append") /\ UNCHANGED jobVars
    /\ UNCHANGED <<files, cacheLock, readVars, crashes, unsaved>>

\* record_scan_event: what is not in the last snapshot is new.
Record ==
    /\ pc["job"] = "record" /\ LockAndRead("job") /\ Goto("job", "snapshot")
    /\ UNCHANGED <<files, cache, cacheLock, page, jobVars, readVars, crashes, unsaved>>

\* Mutant of Snapshotted: the snapshot stays as it was.
MutSnapshotted(c) == c

Snapshotted(c) == [c EXCEPT !.snap = c.ids]

SaveSnapshot ==
    /\ pc["job"] = "snapshot" /\ Goto("job", "dropSnapshot")
    /\ findings' = Snapshotted(copy["job"])
    /\ event' = copy["job"].ids \ copy["job"].snap
    /\ UNCHANGED <<baseline, ledger, cache, cacheLock, orgLock, copy, page, stage, runs,
                   readVars, crashes, unsaved>>

DropAfterSnapshot ==
    /\ pc["job"] = "dropSnapshot" /\ Invalidate /\ Unlock("job") /\ Goto("job", "append")
    /\ UNCHANGED <<files, cacheLock, jobVars, readVars, crashes, unsaved>>

\* Mutant of LockLedger: the history is read without the lock.
MutLockLedger == UNCHANGED orgLock

LockLedger == orgLock = Free /\ orgLock' = "job"

\* append_history
PageForJob ==
    /\ pc["job"] = "append" /\ LockLedger /\ ReadLedger("job") /\ Goto("job", "log")
    /\ UNCHANGED <<files, cache, cacheLock, copy, jobVars, readVars, crashes, unsaved>>

LogJob ==
    /\ pc["job"] = "log" /\ Append("job", JobEvent(runs, stage, event)) /\ Unlock("job")
    /\ EndStage
    /\ UNCHANGED <<findings, baseline, cache, cacheLock, readVars, crashes, unsaved>>

\* A write fails.  The recheck and the grading go on to the history; so does the
\* scan when only its snapshot could not be written.  The answers and the last
\* snapshot of the AI mode can be done without, like the history event of a
\* scan: the job goes on.  Otherwise it ends.
FailJob ==
    /\ "write" \in Faults
    /\ Unlock("job")
    /\ \/ pc["job"] = "baseline" /\ EndJob
       \/ pc["job"] = "write" /\ stage \in {"grade", "recheck"}
          /\ Goto("job", "append") /\ UNCHANGED jobVars
       \/ pc["job"] = "write" /\ stage \in {"reply", "snap"} /\ EndStage
       \/ pc["job"] = "write" /\ stage \notin {"grade", "recheck", "reply", "snap"} /\ EndJob
       \/ pc["job"] = "snapshot"
          /\ Goto("job", "append") /\ UNCHANGED <<stage, runs>>
          /\ event' = copy["job"].ids \ copy["job"].snap
          /\ unsaved' = unsaved \cup event'
       \/ pc["job"] = "log" /\ stage = "scan" /\ EndStage
       \/ pc["job"] = "log" /\ stage # "scan" /\ EndJob
    /\ pc["job"] # "snapshot" => UNCHANGED unsaved
    /\ UNCHANGED <<files, cache, cacheLock, readVars, crashes>>

-----------------------------------------------------------------------------
(* _cached_org_data *)

Answered == {e \in Edits : pc[e] = "done"}

\* The entry in the cache is good, or the cache lock is kept and the files are read.
Look(r) ==
    /\ rpc[r] = "idle" /\ cacheLock = Free
    /\ owed' = [owed EXCEPT ![r] = Answered]
    /\ \/ /\ cache # Nothing
          /\ view' = [view EXCEPT ![r] = cache]
          /\ UNCHANGED <<cacheLock, rpc>>
       \/ /\ cache = Nothing
          /\ cacheLock' = r
          /\ rpc' = [rpc EXCEPT ![r] = "findings"]
          /\ UNCHANGED view
    /\ UNCHANGED <<files, cache, orgLock, pc, copy, page, jobVars, crashes, unsaved>>

WithFindings(v) == [v EXCEPT !.edits = findings.edits, !.gen = findings.gen]
WithBaseline(v) == [v EXCEPT !.base = baseline]

\* _read_org_files: the findings first, then the baseline.
Half(n, v) == IF n = 1 THEN WithFindings(v) ELSE WithBaseline(v)

ReadFindings(r) ==
    /\ rpc[r] = "findings"
    /\ view' = [view EXCEPT ![r] = Half(1, @)]
    /\ rpc' = [rpc EXCEPT ![r] = "baseline"]
    /\ UNCHANGED <<files, cache, cacheLock, orgLock, pc, copy, page, jobVars,
                   owed, crashes, unsaved>>

ReadBaseline(r) ==
    /\ rpc[r] = "baseline"
    /\ cache' = Half(2, view[r])
    /\ view' = [view EXCEPT ![r] = cache']
    /\ cacheLock' = Free
    /\ rpc' = [rpc EXCEPT ![r] = "idle"]
    /\ UNCHANGED <<files, orgLock, pc, copy, page, jobVars, owed, crashes, unsaved>>

\* The entry is too old.
Forget ==
    /\ cacheLock = Free /\ cache # Nothing /\ cache' = Nothing
    /\ UNCHANGED <<files, cacheLock, orgLock, pc, copy, page, jobVars,
                   readVars, crashes, unsaved>>

-----------------------------------------------------------------------------
\* A request that was being served is lost.
AfterCrash(s) == IF s \in {"new", "done"} THEN s ELSE "failed"

\* The process dies and starts again: the files are what remains.
Crash ==
    /\ "crash" \in Faults /\ crashes < MaxCrashes /\ crashes' = crashes + 1
    /\ pc' = [p \in Writers |-> IF p = "job" THEN "idle" ELSE AfterCrash(pc[p])]
    /\ copy' = [p \in Writers |-> Empty] /\ page' = [p \in Writers |-> {}]
    /\ orgLock' = Free /\ cacheLock' = Free /\ cache' = Nothing
    /\ stage' = "none" /\ event' = {} /\ UNCHANGED runs
    /\ rpc' = [r \in Readers |-> "idle"]
    /\ view' = [r \in Readers |-> [edits |-> {}, gen |-> 0, base |-> 0]]
    /\ owed' = [r \in Readers |-> {}]
    /\ UNCHANGED <<files, unsaved>>

EditStepOf(e) ==
    \/ SaveEdit(e) \/ DropAfterEdit(e) \/ PageForEdit(e) \/ LogEdit(e) \/ FailEdit(e)

JobSteps ==
    \/ GiveUp \/ Apply \/ SaveBaseline \/ DropAfterBaseline \/ SaveFindings
    \/ DropAfterFindings \/ Record \/ SaveSnapshot \/ DropAfterSnapshot
    \/ PageForJob \/ LogJob \/ FailJob

Next ==
    \/ \E e \in Edits : Request(e) \/ EditStepOf(e)
    \/ \E k \in Kinds : StartJob(k)
    \/ JobSteps
    \/ \E r \in Readers : Look(r) \/ ReadFindings(r) \/ ReadBaseline(r)
    \/ Forget
    \/ Crash

Spec == Init /\ [][Next]_vars

\* The threads run as long as the process does, and get the lock they wait for
\* when it is free again and again.  Nobody has to look, or to let the cache age.
FairSpec ==
    /\ Spec
    /\ \A e \in Edits : SF_vars(Request(e)) /\ SF_vars(EditStepOf(e))
    /\ SF_vars(JobSteps)
    /\ \A r \in Readers : WF_vars(ReadFindings(r)) /\ WF_vars(ReadBaseline(r))

-----------------------------------------------------------------------------
(* Properties *)

\* An edit that was answered with success is in the findings for good, whatever
\* the jobs write back.
NoLostEdit == \A e \in Edits : pc[e] = "done" => e \in findings.edits

\* The history tells of every edit that was answered, and of none that is not in
\* the findings, even when the process dies between the two files.
LedgerTellsEdits ==
    /\ \A e \in Edits : pc[e] = "done" => EditEvent(e) \in ledger
    /\ \A e \in Edits : EditEvent(e) \in ledger => e \in findings.edits

\* A reader sees every edit that was answered before it looked: "a reader that
\* misses the cache cannot ... re-cache stale file content after the
\* invalidation" (app/cti_correlation.py:1103-1105).
ReadsAreFresh == \A r \in Readers : rpc[r] = "idle" => owed[r] \subseteq view[r].edits

\* "a reader can never observe new findings paired with a stale baseline"
\* (app/scanner.py:3595-3596), through the cache or not, though it does not take
\* the org lock.
NoStaleBaseline ==
    /\ \A r \in Readers : rpc[r] = "idle" => view[r].gen <= view[r].base
    /\ cache # Nothing => cache.gen <= cache.base

\* No finding is announced as new by two events of the history, but for one that
\* a scan announced without being able to write its snapshot.
AnnouncedOnce ==
    \A ev1, ev2 \in {ev \in ledger : "new" \in DOMAIN ev} :
        ev1 # ev2 => ev1.new \cap ev2.new \subseteq unsaved

\* Edits and events, as the analysts know them.
Atomic == INSTANCE AtomicEdits WITH
    made <- findings.edits, history <- ledger, answered <- Answered,
    failed <- {e \in Edits : pc[e] = "failed"}

\* Whatever jobs and analysts do, their reads and writes of two files come to this:
\* each edit is made once and for good, and an event, a job's or an edit's, stays in
\* the history.  Without vuln jobs.
ImplementsAtomicEdits == Atomic!Spec

\* Every request is answered and every job ends: nobody waits for ever on the two
\* locks, though the org lock is not reentrant.
AllAnswered ==
    /\ \A e \in Edits : <>(pc[e] \in {"done", "failed"})
    /\ pc["job"] # "idle" ~> pc["job"] = "idle"
=============================================================================
