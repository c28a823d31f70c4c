------------------------------ MODULE RustStore ------------------------------
(***************************************************************************)
(* What FindingStore is for the Python server, for the one in rust/src:    *)
(* the writers of findings.json and history.json of one organization, and  *)
(* the cache.  Three things are not as they are there.                     *)
(*                                                                         *)
(*   - A request reads the findings it changes through the cache, and a    *)
(*     reader that misses the cache reads the file BEFORE it takes the     *)
(*     cache lock to store what it has read.                               *)
(*   - A guard of the org lock lives to the end of its function: the scan  *)
(*     keeps it while it asks the AI provider and calls ai_grade_org,      *)
(*     which also runs as a job of its own.                                *)
(*   - append_history takes no lock: it relies on its caller's.            *)
(*                                                                         *)
(* The findings file is the set of the analyst edits it holds.  Files are  *)
(* replaced atomically; the lock is fair and not reentrant.                *)
(***************************************************************************)
EXTENDS Naturals, FiniteSets

CONSTANTS
    Edits,        \* requests to change a status or to leave a comment
    Readers,      \* reads through the cache; so do grade and correlate, first
    Kinds,        \* the kinds of jobs that run
    Reissued,     \* those of findings whose id a correlation may give out again
    AiMode,       \* scans are in AI mode
    Faults,       \* "write": a write may fail
    MaxRuns       \* bound on the jobs

AnyKind == {"scan", "recheck", "grade", "correlate", "vuln"}

ASSUME RustAssumption ==
    /\ Kinds \subseteq AnyKind
    /\ Reissued \subseteq Edits
    /\ AiMode \in BOOLEAN
    /\ Faults \subseteq {"write"}
    /\ MaxRuns \in Nat
    /\ "job" \notin Edits /\ "free" \notin Edits

VARIABLES
    findings,     \* findings.json
    doubled,      \* edits of findings whose id another, further down, has as well
    ledger,       \* history.json, as a set of events
    cache,        \* the entry of DATA_CACHE, or Nothing
    held,         \* the views of the readers that have read and not yet stored
    overtaken,    \* history: edits that a view that was stored came too late to have
    lock,         \* who has the guard of org_write_lock(slug)
    pc,           \* what each writer does next
    copy,         \* the findings each writer has read
    page,         \* the history each writer has read
    stage,        \* the kind of the job, or what it has become
    runs          \* jobs started

file == <<findings, doubled>>
views == <<held, overtaken>>
jobVars == <<stage, runs>>
vars == <<file, ledger, cache, views, lock, pc, copy, page, jobVars>>

Writers == Edits \cup {"job"}
Free == "free"
Nothing == [none |-> TRUE]
Cached(v) == [edits |-> v]
Entries == [edits : SUBSET Edits]
EditEvent(e) == [edit |-> e]
JobEvent(n, s) == [job |-> n, stage |-> s]
Events == [edit : Edits] \cup [job : 1..MaxRuns, stage : AnyKind]

EditStep == {"new", "load", "write", "drop", "page", "log", "answer", "done", "failed"}
JobStep == {"idle", "read", "ask", "lock", "write", "drop", "page", "log"}

TypeOK ==
    /\ findings \subseteq Edits /\ doubled \subseteq Reissued
    /\ ledger \subseteq Events
    /\ cache \in Entries \cup {Nothing}
    /\ held \in [Readers -> Entries \cup {Nothing}] /\ overtaken \subseteq Edits
    /\ lock \in Writers \cup {Free}
    /\ \A p \in Edits : pc[p] \in EditStep
    /\ pc["job"] \in JobStep
    /\ pc \in [Writers -> EditStep \cup JobStep]
    /\ copy \in [Writers -> SUBSET Edits]
    /\ page \in [Writers -> SUBSET Events]
    /\ stage \in AnyKind \cup {"none"}
    /\ stage = "none" <=> pc["job"] = "idle"
    /\ runs \in 0..MaxRuns
    /\ pc["job"] # "idle" => runs >= 1

Init ==
    /\ findings = {} /\ doubled = {} /\ ledger = {} /\ cache = Nothing
    /\ held = [r \in Readers |-> Nothing] /\ overtaken = {}
    /\ lock = Free
    /\ pc = [p \in Writers |-> IF p = "job" THEN "idle" ELSE "new"]
    /\ copy = [p \in Writers |-> {}]
    /\ page = [p \in Writers |-> {}]
    /\ stage = "none" /\ runs = 0

Goto(p, s) == pc' = [pc EXCEPT ![p] = s]

\* org_write_lock(slug).await
Lock(p) == lock = Free /\ lock' = p

\* The guard, if p has it, is dropped; what p has read is of no use any more.
Unlock(p) ==
    /\ lock' = IF lock = p THEN Free ELSE lock
    /\ copy' = [copy EXCEPT ![p] = {}]
    /\ page' = [page EXCEPT ![p] = {}]

-----------------------------------------------------------------------------
(* The cache *)

\* cached_org_data when it misses: the file is read now ...
Look(r) ==
    /\ held[r] = Nothing /\ cache = Nothing
    /\ held' = [held EXCEPT ![r] = Cached(findings)]
    /\ UNCHANGED <<overtaken, file, ledger, cache, lock, pc, copy, page, jobVars>>

\* ... and stored when the cache lock has been taken.
Store(r) ==
    /\ held[r] # Nothing
    /\ cache' = held[r]
    /\ held' = [held EXCEPT ![r] = Nothing]
    /\ overtaken' = overtaken \cup (findings \ held[r].edits)
    /\ UNCHANGED <<file, ledger, lock, pc, copy, page, jobVars>>

\* The entry is too old.
Forget ==
    /\ cache # Nothing /\ cache' = Nothing
    /\ UNCHANGED <<file, ledger, views, lock, pc, copy, page, jobVars>>

\* load_data of a writer that has the guard: nobody replaces the file between
\* its reading and its storing.
Through == IF cache = Nothing THEN Cached(findings) ELSE cache

-----------------------------------------------------------------------------
(* api_status_change and api_finding_comment *)

Request(e) ==
    /\ pc[e] = "new" /\ Lock(e) /\ Goto(e, "load")
    /\ UNCHANGED <<file, ledger, cache, views, copy, page, jobVars>>

Load(e) ==
    /\ pc[e] = "load" /\ Goto(e, "write")
    /\ copy' = [copy EXCEPT ![e] = Through.edits]
    /\ cache' = Through
    /\ UNCHANGED <<file, ledger, views, lock, page, jobVars>>

SaveEdit(e) ==
    /\ pc[e] = "write" /\ Goto(e, "drop")
    /\ findings' = copy[e] \cup {e}
    /\ UNCHANGED <<doubled, ledger, cache, views, lock, copy, page, jobVars>>

\* The write fails: the request answers with an error.
FailEdit(e) ==
    /\ "write" \in Faults
    /\ pc[e] = "write" /\ Goto(e, "failed") /\ Unlock(e)
    /\ UNCHANGED <<file, ledger, cache, views, jobVars>>

\* Mutant of DropAfterEdit: the entry of the cache stays.
MutDropAfterEdit(e) ==
    /\ pc[e] = "drop" /\ Goto(e, "page")
    /\ UNCHANGED <<file, ledger, cache, views, lock, copy, page, jobVars>>

DropAfterEdit(e) ==
    /\ pc[e] = "drop" /\ Goto(e, "page")
    /\ cache' = Nothing
    /\ UNCHANGED <<file, ledger, views, lock, copy, page, jobVars>>

\* Mutant of ReadLedger: append_history takes the org lock as well.
MutReadLedger(p) ==
    pc[p] = "page" /\ lock = Free /\ Goto(p, "log") /\ page' = [page EXCEPT ![p] = ledger]

\* append_history: read the whole history and write it back longer.  Nobody
\* learns that a write of the history has failed.
ReadLedger(p) == pc[p] = "page" /\ Goto(p, "log") /\ page' = [page EXCEPT ![p] = ledger]

Append(p, ev) ==
    \/ ledger' = page[p] \cup {ev}
    \/ "write" \in Faults /\ UNCHANGED ledger

PageForEdit(e) ==
    /\ ReadLedger(e)
    /\ UNCHANGED <<file, ledger, cache, views, lock, copy, jobVars>>

LogEdit(e) ==
    /\ pc[e] = "log" /\ Goto(e, "answer")
    /\ Append(e, EditEvent(e))
    /\ UNCHANGED <<file, cache, views, lock, copy, page, jobVars>>

\* find_finding: the answer shows the finding, read through the cache.
Answer(e) ==
    /\ pc[e] = "answer" /\ Goto(e, "done") /\ Unlock(e)
    /\ cache' = Through
    /\ UNCHANGED <<file, ledger, views, jobVars>>

EditStepOf(e) ==
    \/ Load(e) \/ SaveEdit(e) \/ FailEdit(e) \/ DropAfterEdit(e)
    \/ PageForEdit(e) \/ LogEdit(e) \/ Answer(e)

-----------------------------------------------------------------------------
(* The jobs *)

\* A scan is at "read" before it reads the findings it will reconcile, and a
\* grading at "ask" before its answer is there; the others read under the lock.
FirstStep(k) == CASE k = "scan" -> "read" [] k = "grade" -> "ask" [] OTHER -> "lock"

StartJob(k) ==
    /\ pc["job"] = "idle" /\ runs < MaxRuns
    /\ runs' = runs + 1 /\ stage' = k /\ Goto("job", FirstStep(k))
    /\ UNCHANGED <<file, ledger, cache, views, lock, copy, page>>

\* Mutant of EndJob: the kind of the job stays behind.
MutEndJob == Goto("job", "idle") /\ UNCHANGED <<stage, runs>>

EndJob == Goto("job", "idle") /\ stage' = "none" /\ UNCHANGED runs

\* There is nothing to apply, or the findings file cannot be used.
GiveUp ==
    /\ \/ pc["job"] = "read"
       \/ pc["job"] = "lock" /\ stage \in {"recheck", "correlate", "vuln"}
    /\ EndJob /\ Unlock("job")
    /\ UNCHANGED <<file, ledger, cache, views>>

\* generate_org reads the findings and reconciles them without the lock.
ReadForScan ==
    /\ pc["job"] = "read" /\ Goto("job", "lock")
    /\ copy' = [copy EXCEPT !["job"] = findings]
    /\ UNCHANGED <<file, ledger, cache, views, lock, page, jobVars>>

\* Mutant of Restored: what the scan has read is written back as it was.
MutRestored(mine, now) == mine

\* Where the analyst's fields differ from what the scan has read the file wins.  They
\* are looked up by id, and of findings with one id the last is looked at: an edit
\* of the first, which is the one that requests edit, is not seen.
Restored(mine, now) ==
    {e \in Edits :
       IF e \notin doubled /\ (e \in now) # (e \in mine) THEN e \in now ELSE e \in mine}

\* The lock, and the findings as they are now.  A scan whose grading comes to
\* this point has the lock and waits for it.
LockJob ==
    /\ pc["job"] = "lock" /\ Lock("job") /\ Goto("job", "write")
    /\ copy' = [copy EXCEPT !["job"] = IF stage = "scan" THEN Restored(@, findings) ELSE findings]
    /\ UNCHANGED <<file, ledger, cache, views, page, jobVars>>

\* No job changes what the analysts did.  A correlation numbers what it adds from one
\* in every pass, and adds again what is there already.
SaveFindings ==
    /\ pc["job"] = "write" /\ Goto("job", "drop")
    /\ findings' = copy["job"]
    /\ \E again \in SUBSET Reissued :
         doubled' = IF stage = "correlate" THEN doubled \cup again ELSE doubled
    /\ UNCHANGED <<ledger, cache, views, lock, copy, page, jobVars>>

\* The write fails: a scan and a lookup end, the others do not look.
FailSave ==
    /\ "write" \in Faults /\ pc["job"] = "write"
    /\ \/ stage \in {"scan", "vuln"} /\ EndJob /\ Unlock("job")
       \/ stage \notin {"scan", "vuln"} /\ Goto("job", "drop")
          /\ UNCHANGED <<lock, copy, page, jobVars>>
    /\ UNCHANGED <<file, ledger, cache, views>>

\* A recheck and a correlation leave no event.
DropAndEnd ==
    /\ stage \in {"recheck", "correlate"}
    /\ pc["job"] = "drop" /\ cache' = Nothing
    /\ EndJob /\ Unlock("job")
    /\ UNCHANGED <<file, ledger, views>>

\* Mutant of DropAfterSave: the guard goes with the entry of the cache.
MutDropAfterSave ==
    /\ stage \in {"scan", "grade", "vuln"}
    /\ pc["job"] = "drop" /\ Goto("job", "page")
    /\ cache' = Nothing /\ lock' = Free
    /\ UNCHANGED <<file, ledger, views, copy, page, jobVars>>

\* The others keep the guard for it.
DropAfterSave ==
    /\ stage \in {"scan", "grade", "vuln"}
    /\ pc["job"] = "drop" /\ Goto("job", "page")
    /\ cache' = Nothing
    /\ UNCHANGED <<file, ledger, views, lock, copy, page, jobVars>>

PageForJob ==
    /\ ReadLedger("job")
    /\ UNCHANGED <<file, ledger, cache, views, lock, copy, jobVars>>

\* A scan in AI mode asks the provider, still with the guard; for any other job
\* this was the last step.
AfterLog ==
    IF stage = "scan" /\ AiMode
      THEN Goto("job", "ask") /\ UNCHANGED <<lock, copy, page, jobVars>>
      ELSE EndJob /\ Unlock("job")

LogJob ==
    /\ pc["job"] = "log"
    /\ Append("job", JobEvent(runs, stage))
    /\ AfterLog
    /\ UNCHANGED <<file, cache, views>>

\* ai_grade_org: nothing is OPEN; there is no profile, no answer or none that can
\* be read, which goes to the history; or there are grades to be applied.
Ask ==
    /\ pc["job"] = "ask"
    /\ \/ EndJob /\ Unlock("job")
       \/ Goto("job", "page") /\ stage' = "grade" /\ UNCHANGED <<runs, lock, copy, page>>
       \/ Goto("job", "lock") /\ stage' = "grade" /\ UNCHANGED <<runs, lock, copy, page>>
    /\ UNCHANGED <<file, ledger, cache, views>>

JobSteps ==
    \/ GiveUp \/ ReadForScan \/ LockJob \/ SaveFindings \/ FailSave
    \/ DropAndEnd \/ DropAfterSave \/ PageForJob \/ LogJob \/ Ask

-----------------------------------------------------------------------------
Next ==
    \/ \E e \in Edits : Request(e) \/ EditStepOf(e)
    \/ \E k \in Kinds : StartJob(k)
    \/ JobSteps
    \/ \E r \in Readers : Look(r) \/ Store(r)
    \/ Forget

Spec == Init /\ [][Next]_vars

\* Tasks run as long as the process does, and the lock is fair: who waits for it
\* gets it when it is free again and again.
FairSpec ==
    /\ Spec
    /\ \A e \in Edits : SF_vars(Request(e)) /\ WF_vars(EditStepOf(e))
    /\ SF_vars(JobSteps)

-----------------------------------------------------------------------------
(* Properties *)

\* "every read-modify-write cycle [..] holds its org's guard so parallel mutations of
\* the same org cannot lose updates" (rust/src/correlation.rs:72-74): an edit that is in
\* the file is lost in two cases only.  A reader that had read before it stored in the
\* cache after it; or its finding shares its id with another, and a scan puts back what
\* it had read.
EditsKept ==
    [][\A e \in findings \ findings' :
         e \in overtaken \/ (e \in doubled /\ pc["job"] = "write" /\ stage = "scan")]_vars

\* The grading that appends to the history without the lock.
LooseAppend == stage = "grade" /\ lock # "job"

\* An event of the history is lost only to a grading that failed and appends
\* without the lock, or is itself the event of a grading.
EventsKept ==
    [][\A ev \in ledger \ ledger' :
         \/ pc["job"] = "log" /\ LooseAppend
         \/ "job" \in DOMAIN ev /\ ev.stage = "grade"]_vars

\* Every request is answered and every job ends.
AllAnswered ==
    /\ \A e \in Edits : <>(pc[e] \in {"done", "failed"})
    /\ pc["job"] # "idle" ~> pc["job"] = "idle"

\* "AI never fails a scan; it degrades to the deterministic result" (README.md:39):
\* a scan that has come to its AI stages ends.
AiNeverHoldsScan == pc["job"] = "ask" ~> pc["job"] = "idle"
=============================================================================
