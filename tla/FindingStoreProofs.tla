------------------------- MODULE FindingStoreProofs -------------------------
(***************************************************************************)
(* The properties of FindingStore for any number of edits, readers, jobs   *)
(* and crashes.  The vuln job, which does not take the org lock, loses     *)
(* edits; the theorems about edits are about the other kinds of jobs.      *)
(*                                                                         *)
(* The argument: a writer that has read a file holds the org lock until it *)
(* has written it (LockInv), so what it has read is still what is there    *)
(* (CopyInv, PageInv) and writing it back longer loses nothing (SavedInv,  *)
(* LedgerInv); and an edit is answered only after the entry of the cache   *)
(* that might not have it is gone (CacheInv).  The snapshot changes only   *)
(* under the lock, whatever jobs run (SnapInv), so that what an event      *)
(* tells was in no snapshot before (ToldInv).                              *)
(***************************************************************************)
EXTENDS FindingStore, TLAPS

EditBusy == {"write", "drop", "page", "log"}
JobBusy == {"baseline", "dropBaseline", "write", "drop", "snapshot", "dropSnapshot", "log"}

\* Who is between reading a file and writing it holds the lock.
LockInv ==
    /\ \A e \in Edits : pc[e] \in EditBusy => orgLock = e
    /\ pc["job"] \in JobBusy => orgLock = "job"

\* What such a writer has read of the edits is what is there.
CopyInv ==
    /\ \A e \in Edits : pc[e] = "write" => copy[e].edits = findings.edits
    /\ pc["job"] \in {"baseline", "dropBaseline", "write", "snapshot"} =>
           copy["job"].edits = findings.edits

\* What it has read of the history, likewise.
PageInv == \A p \in Writers : pc[p] = "log" => page[p] = ledger

\* A saved edit stays saved.
SavedInv ==
    \A e \in Edits : pc[e] \in {"drop", "page", "log", "done"} => e \in findings.edits

\* The history has the edits that are done, and only edits that are saved.
LedgerInv ==
    \A e \in Edits :
        /\ pc[e] = "done" => EditEvent(e) \in ledger
        /\ EditEvent(e) \in ledger => e \in findings.edits

EditInv == LockInv /\ CopyInv /\ PageInv /\ SavedInv /\ LedgerInv

\* A reader with the files half read has the cache lock; an edit whose entry was
\* dropped is in whatever the cache has since, or will be given by that reader.
Dropped == {e \in Edits : pc[e] \in {"page", "log", "done"}}

CacheInv ==
    /\ \A r \in Readers : rpc[r] # "idle" => cacheLock = r
    /\ cache # Nothing => Dropped \subseteq cache.edits
    /\ \A r \in Readers :
          /\ rpc[r] = "baseline" => Dropped \subseteq view[r].edits
          /\ rpc[r] # "idle" => owed[r] \subseteq Answered
          /\ rpc[r] = "idle" => owed[r] \subseteq view[r].edits

\* The baseline is never older than any findings that are or were in a file.
BaseInv ==
    /\ findings.gen <= baseline
    /\ \A p \in Writers : copy[p].gen <= baseline
    /\ stage = "scan" /\ pc["job"] \in {"dropBaseline", "write"} => baseline = runs
    /\ baseline <= runs
    /\ pc["job"] = "baseline" => stage = "scan"
    /\ \A r \in Readers :
          /\ rpc[r] = "baseline" => view[r].gen <= baseline
          /\ rpc[r] = "idle" => view[r].gen <= view[r].base
    /\ cache # Nothing => cache.gen <= cache.base

\* A job that runs has a number, and is not of a kind that does not run.
JobInv ==
    /\ pc["job"] # "idle" => runs >= 1
    /\ stage = "vuln" => "vuln" \in Kinds

-----------------------------------------------------------------------------
(* Records *)

LEMMA FileFields ==
    ASSUME NEW c \in FindingsFile
    PROVE  c.edits \subseteq Edits /\ c.ids \subseteq Id /\ c.snap \subseteq Id
           /\ c.gen \in 0..MaxRuns
BY DEF FindingsFile

LEMMA FileWithEdits ==
    ASSUME NEW c \in FindingsFile, NEW e \in Edits
    PROVE  LET d == [c EXCEPT !.edits = @ \cup {e}] IN
           d \in FindingsFile /\ d.edits = c.edits \cup {e} /\ d.gen = c.gen
BY DEF FindingsFile

LEMMA FileWithSnap ==
    ASSUME NEW c \in FindingsFile
    PROVE  LET d == [c EXCEPT !.snap = c.ids] IN
           d \in FindingsFile /\ d.edits = c.edits /\ d.gen = c.gen
BY DEF FindingsFile

LEMMA EmptyFile == Empty \in FindingsFile /\ Empty.edits = {} /\ Empty.gen = 0
<1>1. 0 \in 0..MaxRuns
  BY StoreAssumption
<1>2. QED
  BY <1>1 DEF Empty, FindingsFile

LEMMA HalfViews ==
    ASSUME NEW v \in View, findings \in FindingsFile, baseline \in 0..MaxRuns
    PROVE  /\ Half(1, v) \in View /\ Half(1, v).edits = findings.edits
           /\ Half(1, v).gen = findings.gen
           /\ Half(2, v) \in View /\ Half(2, v).edits = v.edits /\ Half(2, v).gen = v.gen
           /\ Half(2, v).base = baseline
<1>1. Half(1, v) = [v EXCEPT !.edits = findings.edits, !.gen = findings.gen]
  BY DEF Half, WithFindings
<1>2. Half(2, v) = [v EXCEPT !.base = baseline]
  BY DEF Half, WithBaseline
<1>3. findings.edits \subseteq Edits /\ findings.gen \in 0..MaxRuns
  BY FileFields
<1>4. QED
  BY <1>1, <1>2, <1>3 DEF View

LEMMA ViewFields ==
    ASSUME NEW v \in View
    PROVE  v.edits \subseteq Edits /\ v.gen \in 0..MaxRuns /\ v.base \in 0..MaxRuns
           /\ v # Nothing
BY DEF View, Nothing

LEMMA NoView == [edits |-> {}, gen |-> 0, base |-> 0] \in View
BY StoreAssumption DEF View

LEMMA AppliedFile ==
    ASSUME NEW c \in FindingsFile, runs \in 0..MaxRuns, runs >= 1, stage \in Stage
    PROVE  /\ Applied(c) \in FindingsFile
           /\ Applied(c).edits = c.edits
           /\ Applied(c).gen = IF stage = "scan" THEN runs ELSE c.gen
           /\ Added(c) \subseteq Id
<1>1. <<runs, stage>> \in Id
  BY StoreAssumption DEF Id
<1>2. Added(c) \subseteq Id
  BY <1>1 DEF Added, FindingsFile
<1>3. c.snap \subseteq Id /\ c.gen \in 0..MaxRuns /\ c.edits \subseteq Edits
  BY FileFields
<1> HIDE DEF Added
<1>4. QED
  BY <1>2, <1>3 DEF Applied, FindingsFile

LEMMA EventTypes ==
    /\ \A e \in Edits : EditEvent(e) \in Events
    /\ \A n \in 1..MaxRuns, s \in Stage, new \in SUBSET Id : JobEvent(n, s, new) \in Events
    /\ \A n, s, new, e : JobEvent(n, s, new) # EditEvent(e)
    /\ \A d, e : EditEvent(d) = EditEvent(e) => d = e
<1>1. \A e \in Edits : EditEvent(e) \in Events
  BY DEF EditEvent, Events
<1>2. \A n \in 1..MaxRuns, s \in Stage, new \in SUBSET Id : JobEvent(n, s, new) \in Events
  BY DEF JobEvent, Events
<1>3. ASSUME NEW n, NEW s, NEW new, NEW e, JobEvent(n, s, new) = EditEvent(e)
      PROVE  FALSE
  <2>1. "job" \in DOMAIN JobEvent(n, s, new) /\ "job" \notin DOMAIN EditEvent(e)
    BY DEF JobEvent, EditEvent
  <2>2. QED
    BY <1>3, <2>1
<1>4. ASSUME NEW d, NEW e, EditEvent(d) = EditEvent(e)
      PROVE  d = e
  <2>1. EditEvent(d).edit = d /\ EditEvent(e).edit = e
    BY DEF EditEvent
  <2>2. QED
    BY <1>4, <2>1
<1>5. QED
  BY <1>1, <1>2, <1>3, <1>4

-----------------------------------------------------------------------------
(* Types *)

TypeInv == TypeOK /\ JobInv

LEMMA StageTypes ==
    ASSUME TypeOK
    PROVE  /\ pc["job"] # "idle" => stage \in Stage
           /\ Follow[stage] \subseteq Stage \ {"vuln"} \/ stage \notin Stage
           /\ \A k \in AnyKind : k \in Stage /\ k # "none"
           /\ \A e \in Edits : e # "job" /\ e \in Writers
           /\ "job" \in Writers
<1>1. \A k \in AnyKind : k \in Stage /\ k # "none"
  BY DEF AnyKind, Stage
<1>2. pc["job"] # "idle" => stage \in Stage
  BY DEF TypeOK, StepsOK, Stage
<1>3. stage \in Stage => Follow[stage] \subseteq Stage \ {"vuln"}
  BY DEF Follow, Stage, AnyKind
<1>4. QED
  BY <1>1, <1>2, <1>3, StoreAssumption DEF Writers

\* The end of the job is an end of its stage.
LEMMA EndJobEndsStage == EndJob => EndStage
BY DEF EndJob, EndStage

\* The end of a stage, as all the steps that end one see it.
LEMMA EndStageType ==
    ASSUME TypeInv, EndStage, pc["job"] # "idle"
    PROVE  /\ StepsOK'
           /\ pc'["job"] \in {"idle", "apply"}
           /\ \A e \in Edits : pc'[e] = pc[e]
           /\ stage' \in Stage \cup {"none"}
           /\ stage' # "vuln"
           /\ event' = {} /\ runs' = runs /\ runs >= 1
<1> USE DEF TypeInv, JobInv
<1>1. /\ pc \in [Writers -> EditStep \cup JobStep] /\ {"idle", "apply"} \subseteq JobStep
      /\ \A p \in Writers : pc[p] \in IF p = "job" THEN JobStep ELSE EditStep
  BY DEF TypeOK, StepsOK, JobStep
<1>2. event' = {} /\ runs' = runs /\ runs >= 1
  BY DEF EndStage
<1>3. CASE Goto("job", "idle") /\ stage' = "none"
  BY <1>1, <1>2, <1>3, StageTypes DEF Goto, StepsOK
<1>4. CASE Goto("job", "apply") /\ stage' \in Follow[stage]
  <2>1. stage' \in Stage /\ stage' # "vuln" /\ stage' # "none"
    BY <1>4, StageTypes DEF Stage, AnyKind, TypeOK, StepsOK
  <2>2. QED
    BY <1>1, <1>2, <1>4, <2>1, StageTypes DEF Goto, StepsOK
<1>5. QED
  BY <1>3, <1>4 DEF EndStage

\* A step of p that leaves the others where they are.
LEMMA GotoType ==
    ASSUME TypeOK, NEW p \in Writers, NEW s, Goto(p, s)
    PROVE  /\ pc'[p] = s
           /\ \A q \in Writers : q # p => pc'[q] = pc[q]
           /\ p # "job" /\ s \in EditStep /\ stage' = stage => StepsOK'
           /\ p = "job" /\ s \in JobStep /\ (stage' = "none" <=> s = "idle") => StepsOK'
BY StageTypes DEF TypeOK, StepsOK, Goto

LEMMA CopyType ==
    ASSUME TypeOK, NEW p \in Writers
    PROVE  /\ LockAndRead(p) => /\ copy' \in [Writers -> FindingsFile]
                                /\ orgLock' \in Writers \cup {Free}
           /\ Unlock(p) => /\ copy' \in [Writers -> FindingsFile]
                           /\ page' \in [Writers -> SUBSET Events]
                           /\ orgLock' \in Writers \cup {Free}
           /\ ReadLedger(p) => page' \in [Writers -> SUBSET Events]
           /\ \A ev \in Events : Append(p, ev) => ledger' \subseteq Events
           /\ copy[p] \in FindingsFile
<1>1. LockAndRead(p) => /\ copy' \in [Writers -> FindingsFile]
                        /\ orgLock' \in Writers \cup {Free}
  BY DEF TypeOK, LockAndRead
<1>2. Unlock(p) => copy' \in [Writers -> FindingsFile]
  BY EmptyFile DEF TypeOK, Unlock
<1>3. Unlock(p) => page' \in [Writers -> SUBSET Events] /\ orgLock' \in Writers \cup {Free}
  BY DEF TypeOK, Unlock
<1>4. ReadLedger(p) => page' \in [Writers -> SUBSET Events]
  BY DEF TypeOK, ReadLedger
<1>5. \A ev \in Events : Append(p, ev) => ledger' \subseteq Events
  BY DEF TypeOK, Append
<1>6. QED
  BY <1>1, <1>2, <1>3, <1>4, <1>5 DEF TypeOK

LEMMA TypeStepEdit ==
    ASSUME TypeInv, NEW e \in Edits, Request(e) \/ EditStepOf(e)
    PROVE  TypeInv'
<1> USE DEF TypeInv, TypeOK, JobInv, files, jobVars, readVars
<1>1. e \in Writers /\ e # "job"
  BY StageTypes
<1>2. "write" \in EditStep /\ "drop" \in EditStep /\ "page" \in EditStep
      /\ "log" \in EditStep /\ "done" \in EditStep /\ "failed" \in EditStep
  BY DEF EditStep
<1>3. UNCHANGED <<baseline, stage, event, runs, rpc, view, owed, crashes, unsaved>>
  BY DEF Request, EditStepOf, SaveEdit, DropAfterEdit, PageForEdit, LogEdit, FailEdit
<1>4. \A s \in EditStep : Goto(e, s) => StepsOK' /\ pc'["job"] = pc["job"]
  BY <1>1, <1>3, GotoType, StageTypes
<1> HIDE DEF Goto
<1>5. CASE Request(e)
  BY <1>1, <1>2, <1>3, <1>4, <1>5, CopyType DEF Request
<1>6. CASE SaveEdit(e)
  <2>1. findings' \in FindingsFile
    BY <1>1, <1>6, CopyType, FileWithEdits DEF SaveEdit
  <2>2. QED
    BY <1>2, <1>3, <1>4, <1>6, <2>1 DEF SaveEdit
<1>7. CASE DropAfterEdit(e)
  BY <1>2, <1>3, <1>4, <1>7 DEF DropAfterEdit, Invalidate
<1>8. CASE PageForEdit(e)
  BY <1>1, <1>2, <1>3, <1>4, <1>8, CopyType DEF PageForEdit
<1>9. CASE LogEdit(e)
  <2>1. ledger' \subseteq Events
    BY <1>1, <1>9, EventTypes, CopyType DEF LogEdit
  <2>2. QED
    BY <1>1, <1>2, <1>3, <1>4, <1>9, <2>1, CopyType DEF LogEdit
<1>10. CASE FailEdit(e)
  BY <1>1, <1>2, <1>3, <1>4, <1>10, CopyType DEF FailEdit
<1>11. QED
  BY <1>5, <1>6, <1>7, <1>8, <1>9, <1>10 DEF EditStepOf

LEMMA TypeStepJob ==
    ASSUME TypeInv, JobSteps \/ \E k \in Kinds : StartJob(k)
    PROVE  TypeInv'
<1> USE DEF TypeInv, TypeOK, JobInv, files, jobVars, readVars
<1>1. "job" \in Writers
  BY StageTypes
<1>2. "append" \in JobStep /\ "baseline" \in JobStep
      /\ "write" \in JobStep /\ "dropBaseline" \in JobStep /\ "drop" \in JobStep
      /\ "record" \in JobStep /\ "snapshot" \in JobStep /\ "dropSnapshot" \in JobStep
      /\ "log" \in JobStep /\ "apply" \in JobStep /\ "idle" \in JobStep
  BY DEF JobStep
<1>3. \A s \in JobStep : s # "idle" /\ Goto("job", s) /\ stage' # "none" =>
                             StepsOK' /\ pc'["job"] = s
  BY <1>1, GotoType, StageTypes
<1>4. pc["job"] # "idle" => stage # "none" /\ stage \in Stage /\ runs >= 1
  BY StageTypes DEF StepsOK
<1>5. copy["job"] \in FindingsFile
  BY <1>1
<1>6. ASSUME NEW k \in Kinds, StartJob(k)
      PROVE  TypeInv'
  <2>1. stage' = k /\ stage' \in Stage /\ stage' # "none"
    BY <1>6, StageTypes, StoreAssumption DEF StartJob
  <2>2. runs' \in 0..MaxRuns /\ runs' >= 1 /\ event' \subseteq Id
    BY <1>6, StoreAssumption DEF StartJob
  <2>3. StepsOK'
    BY <1>2, <1>3, <1>6, <2>1 DEF StartJob
  <2>4. copy' \in [Writers -> FindingsFile]
    BY <1>6 DEF StartJob
  <2>5. k = "vuln" => "vuln" \in Kinds
    BY <1>6
  <2>6. QED
    BY <1>6, <2>1, <2>2, <2>3, <2>4, <2>5 DEF StartJob
<1>7. CASE GiveUp
  <2>1. copy' \in [Writers -> FindingsFile] /\ page' \in [Writers -> SUBSET Events]
        /\ orgLock' \in Writers \cup {Free}
    BY <1>1, <1>7, CopyType DEF GiveUp
  <2>2. CASE EndStage
    BY <1>7, <2>1, <2>2, EndStageType DEF GiveUp
  <2>3. ASSUME Goto("job", "append"), UNCHANGED <<event, runs>>,
               stage' = IF stage = "scan" THEN "void" ELSE stage
        PROVE  TypeInv'
    <3>1. pc["job"] = "apply" /\ UNCHANGED <<files, cache, cacheLock, readVars, crashes, unsaved>>
      BY <1>7 DEF GiveUp
    <3>2. stage' \in Stage /\ stage' # "none" /\ (stage' = "vuln" => stage = "vuln")
      BY <1>4, <2>3, <3>1 DEF Stage, AnyKind
    <3>3. StepsOK' /\ pc'["job"] = "append"
      BY <1>2, <1>3, <2>3, <3>2
    <3>4. QED
      BY <1>4, <2>1, <2>3, <3>1, <3>2, <3>3
  <2>4. QED
    BY <1>7, <2>2, <2>3, EndJobEndsStage DEF GiveUp
<1>8. CASE Apply
  <2>1. copy' \in [Writers -> FindingsFile] /\ orgLock' \in Writers \cup {Free}
    BY <1>1, <1>8, CopyType DEF Apply, Reread
  <2>2. StepsOK' /\ pc'["job"] # "idle"
    BY <1>2, <1>3, <1>4, <1>8 DEF Apply
  <2>3. QED
    BY <1>4, <1>8, <2>1, <2>2 DEF Apply
<1>9. CASE SaveBaseline
  BY <1>2, <1>3, <1>4, <1>9 DEF SaveBaseline
<1>10. CASE DropAfterBaseline
  BY <1>2, <1>3, <1>4, <1>10 DEF DropAfterBaseline, Invalidate
<1>11. CASE SaveFindings
  <2>1. findings' \in FindingsFile /\ event' \subseteq Id
    BY <1>4, <1>5, <1>11, AppliedFile, FileFields DEF SaveFindings
  <2>2. QED
    BY <1>2, <1>3, <1>4, <1>11, <2>1 DEF SaveFindings
<1>12. CASE DropAfterFindings
  <2>1. copy' \in [Writers -> FindingsFile] /\ page' \in [Writers -> SUBSET Events]
        /\ orgLock' \in Writers \cup {Free}
    BY <1>1, <1>12, CopyType DEF DropAfterFindings, Leave
  <2>2. cache' = Nothing /\ UNCHANGED <<files, cacheLock, readVars, crashes, unsaved>>
    BY <1>12 DEF DropAfterFindings, Invalidate
  <2>3. CASE Goto("job", "record") /\ UNCHANGED jobVars
    BY <1>2, <1>3, <1>4, <1>12, <2>1, <2>2, <2>3 DEF DropAfterFindings
  <2>4. CASE EndStage
    BY <1>12, <2>1, <2>2, <2>4, EndStageType DEF DropAfterFindings
  <2>5. CASE Goto("job", "append") /\ UNCHANGED jobVars
    BY <1>2, <1>3, <1>4, <1>12, <2>1, <2>2, <2>5 DEF DropAfterFindings
  <2>6. QED
    BY <1>12, <2>3, <2>4, <2>5 DEF DropAfterFindings
<1>13. CASE Record
  BY <1>1, <1>2, <1>3, <1>4, <1>13, CopyType DEF Record
<1>14. CASE SaveSnapshot
  <2>1. findings' \in FindingsFile /\ event' \subseteq Id
    BY <1>5, <1>14, FileWithSnap, FileFields DEF SaveSnapshot, Snapshotted
  <2>2. QED
    BY <1>2, <1>3, <1>4, <1>14, <2>1 DEF SaveSnapshot
<1>15. CASE DropAfterSnapshot
  BY <1>1, <1>2, <1>3, <1>4, <1>15, CopyType DEF DropAfterSnapshot, Invalidate
<1>16. CASE PageForJob
  BY <1>1, <1>2, <1>3, <1>4, <1>16, CopyType DEF PageForJob, LockLedger
<1>17. CASE LogJob
  <2>1. runs \in 1..MaxRuns /\ stage \in Stage /\ event \in SUBSET Id
    BY <1>4, <1>17, StoreAssumption DEF LogJob
  <2>2. ledger' \subseteq Events
    BY <1>1, <1>17, <2>1, EventTypes, CopyType DEF LogJob
  <2>3. QED
    BY <1>1, <1>17, <2>2, CopyType, EndStageType DEF LogJob
<1>18. CASE FailJob
  <2>1. copy' \in [Writers -> FindingsFile] /\ page' \in [Writers -> SUBSET Events]
        /\ orgLock' \in Writers \cup {Free}
    BY <1>1, <1>18, CopyType DEF FailJob
  <2>2. UNCHANGED <<files, cache, cacheLock, readVars, crashes>> /\ pc["job"] # "idle"
    BY <1>18 DEF FailJob
  <2>3. unsaved' \subseteq Id
    BY <1>5, <1>18, FileFields DEF FailJob
  <2>4. CASE Goto("job", "append") /\ UNCHANGED <<stage, runs>> /\ event' \subseteq Id
    BY <1>2, <1>3, <1>4, <2>1, <2>2, <2>3, <2>4
  <2>5. CASE EndStage
    BY <2>1, <2>2, <2>3, <2>5, EndStageType
  <2>6. copy["job"].ids \ copy["job"].snap \subseteq Id
    BY <1>5, FileFields
  <2>7. QED
    BY <1>18, <2>4, <2>5, <2>6, EndJobEndsStage DEF FailJob, jobVars
<1>19. QED
  BY <1>6, <1>7, <1>8, <1>9, <1>10, <1>11, <1>12, <1>13, <1>14, <1>15, <1>16, <1>17, <1>18
     DEF JobSteps

ReadStep ==
    (\E r \in Readers : Look(r) \/ ReadFindings(r) \/ ReadBaseline(r)) \/ Forget

LEMMA TypeStepRead ==
    ASSUME TypeInv, ReadStep
    PROVE  TypeInv'
<1> USE DEF TypeInv, TypeOK, JobInv, StepsOK, files, jobVars, readVars
<1>1. ASSUME NEW r \in Readers, Look(r)
      PROVE  TypeInv'
  <2>1. view' \in [Readers -> View]
    BY <1>1 DEF Look
  <2>2. owed' \in [Readers -> SUBSET Edits]
    BY <1>1 DEF Look, Answered
  <2>3. rpc' \in [Readers -> {"idle", "findings", "baseline"}] /\ cacheLock' \in Readers \cup {Free}
    BY <1>1 DEF Look
  <2>4. QED
    BY <1>1, <2>1, <2>2, <2>3 DEF Look
<1>2. ASSUME NEW r \in Readers, ReadFindings(r)
      PROVE  TypeInv'
  <2>1. view' \in [Readers -> View]
    BY <1>2, HalfViews DEF ReadFindings
  <2>2. QED
    BY <1>2, <2>1 DEF ReadFindings
<1>3. ASSUME NEW r \in Readers, ReadBaseline(r)
      PROVE  TypeInv'
  <2>1. cache' \in View
    BY <1>3, HalfViews DEF ReadBaseline
  <2>2. view' \in [Readers -> View]
    BY <1>3, <2>1 DEF ReadBaseline
  <2>3. QED
    BY <1>3, <2>1, <2>2 DEF ReadBaseline
<1>4. CASE Forget
  BY <1>4 DEF Forget
<1>5. QED
  BY <1>1, <1>2, <1>3, <1>4 DEF ReadStep

LEMMA TypeStepCrash ==
    ASSUME TypeInv, Crash
    PROVE  TypeInv'
<1> USE DEF TypeInv, TypeOK, JobInv, files, jobVars, readVars
<1>1. pc' = [p \in Writers |-> IF p = "job" THEN "idle" ELSE AfterCrash(pc[p])]
  BY DEF Crash
<1>2. \A p \in Writers : pc'[p] \in IF p = "job" THEN JobStep ELSE EditStep
  BY <1>1 DEF JobStep, EditStep, AfterCrash
<1>3. StepsOK' /\ pc'["job"] = "idle"
  BY <1>1, <1>2, StageTypes DEF StepsOK, Crash
<1>4. copy' \in [Writers -> FindingsFile] /\ page' \in [Writers -> SUBSET Events]
  BY EmptyFile DEF Crash
<1>5. view' \in [Readers -> View] /\ owed' \in [Readers -> SUBSET Edits]
      /\ rpc' \in [Readers -> {"idle", "findings", "baseline"}]
  BY NoView DEF Crash
<1>6. crashes' \in 0..MaxCrashes
  BY StoreAssumption DEF Crash
<1>7. QED
  BY <1>3, <1>4, <1>5, <1>6 DEF Crash

LEMMA NextParts ==
    ASSUME [Next]_vars
    PROVE  \/ \E e \in Edits : Request(e) \/ EditStepOf(e)
           \/ JobSteps \/ \E k \in Kinds : StartJob(k)
           \/ ReadStep
           \/ Crash
           \/ UNCHANGED vars
BY DEF Next, ReadStep

LEMMA TypeStep == TypeInv /\ [Next]_vars => TypeInv'
<1> SUFFICES ASSUME TypeInv, [Next]_vars
             PROVE  TypeInv'
  OBVIOUS
<1>1. CASE UNCHANGED vars
  BY <1>1 DEF vars, files, jobVars, readVars, TypeInv, TypeOK, StepsOK, JobInv
<1>2. QED
  BY <1>1, NextParts, TypeStepEdit, TypeStepJob, TypeStepRead, TypeStepCrash

LEMMA TypeInit == Init => TypeInv
<1> SUFFICES ASSUME Init
             PROVE  TypeInv
  OBVIOUS
<1> USE DEF Init
<1>1. StepsOK /\ pc["job"] = "idle"
  BY StoreAssumption DEF StepsOK, Writers, EditStep, JobStep
<1>2. copy \in [Writers -> FindingsFile] /\ findings \in FindingsFile
  BY EmptyFile
<1>3. page \in [Writers -> SUBSET Events] /\ ledger \subseteq Events /\ event \subseteq Id
  OBVIOUS
<1>4. view \in [Readers -> View] /\ owed \in [Readers -> SUBSET Edits]
      /\ rpc \in [Readers -> {"idle", "findings", "baseline"}]
  BY NoView
<1>5. baseline \in 0..MaxRuns /\ runs \in 0..MaxRuns /\ crashes \in 0..MaxCrashes
  BY StoreAssumption
<1>6. QED
  BY <1>1, <1>2, <1>3, <1>4, <1>5 DEF TypeInv, TypeOK, JobInv

\* Every variable stays within its type.
THEOREM TypeCorrect == Spec => []TypeOK
<1>1. TypeInv => TypeOK
  BY DEF TypeInv
<1>2. QED
  BY <1>1, TypeInit, TypeStep, PTL DEF Spec

-----------------------------------------------------------------------------
(* Edits *)

\* What a step of p does to the copies of the writers.
LEMMA CopySteps ==
    ASSUME TypeOK, NEW p \in Writers
    PROVE  /\ LockAndRead(p) => /\ orgLock = Free /\ orgLock' = p /\ copy'[p] = findings
                                /\ \A q \in Writers : q # p => copy'[q] = copy[q]
           /\ Unlock(p) => /\ \A q \in Writers : q # p => copy'[q] = copy[q]
                           /\ \A q \in Writers : q # p => page'[q] = page[q]
                           /\ \A q \in Writers : q # p /\ orgLock = q => orgLock' = q
                           /\ copy'[p] = Empty
           /\ ReadLedger(p) => /\ page'[p] = ledger
                               /\ \A q \in Writers : q # p => page'[q] = page[q]
BY DEF TypeOK, LockAndRead, Unlock, ReadLedger

LEMMA EditInvEdit ==
    ASSUME TypeInv, EditInv, NEW e \in Edits, Request(e) \/ EditStepOf(e)
    PROVE  EditInv'
<1> USE DEF EditInv, LockInv, CopyInv, PageInv, SavedInv, LedgerInv, EditBusy, JobBusy
<1>1. TypeOK /\ e \in Writers /\ e # "job" /\ Free \notin Writers /\ "job" \in Writers
      /\ \A d \in Edits : d \in Writers /\ d # "job"
  BY StageTypes, StoreAssumption DEF TypeInv, Writers, Free
<1>2. \A s : Goto(e, s) => pc'[e] = s /\ \A q \in Writers : q # e => pc'[q] = pc[q]
  BY <1>1, GotoType
<1>3. findings \in FindingsFile /\ copy[e] \in FindingsFile
  BY <1>1 DEF TypeOK
<1>4. CASE Request(e)
  <2>1. /\ orgLock = Free /\ orgLock' = e /\ copy'[e] = findings /\ pc'[e] = "write"
        /\ \A q \in Writers : q # e => copy'[q] = copy[q] /\ pc'[q] = pc[q]
        /\ findings' = findings /\ ledger' = ledger /\ page' = page
    BY <1>1, <1>2, <1>4, CopySteps DEF Request, files
  <2>2. LockInv'
    BY <1>1, <2>1
  <2>3. CopyInv'
    BY <1>1, <2>1
  <2>4. PageInv' /\ SavedInv' /\ LedgerInv'
    BY <1>1, <2>1
  <2>5. QED
    BY <2>2, <2>3, <2>4
<1>5. CASE SaveEdit(e)
  <2>1. /\ pc[e] = "write" /\ pc'[e] = "drop" /\ orgLock' = orgLock /\ copy' = copy
        /\ \A q \in Writers : q # e => pc'[q] = pc[q]
        /\ ledger' = ledger /\ page' = page
    BY <1>1, <1>2, <1>5 DEF SaveEdit
  <2>2. findings'.edits = findings.edits \cup {e}
    BY <1>3, <1>5, <2>1, FileWithEdits DEF SaveEdit
  <2>3. LockInv'
    BY <1>1, <2>1
  <2>4. \A q \in Writers : q # e => orgLock # q
    BY <2>1
  <2>5. CopyInv'
    BY <1>1, <2>1, <2>4
  <2>6. PageInv' /\ SavedInv' /\ LedgerInv'
    BY <1>1, <2>1, <2>2
  <2>7. QED
    BY <2>3, <2>5, <2>6
<1>6. CASE DropAfterEdit(e)
  <2>1. /\ pc[e] = "drop" /\ pc'[e] = "page" /\ UNCHANGED <<orgLock, copy, page, findings, ledger>>
        /\ \A q \in Writers : q # e => pc'[q] = pc[q]
    BY <1>1, <1>2, <1>6 DEF DropAfterEdit, files
  <2>2. QED
    BY <1>1, <2>1
<1>7. CASE PageForEdit(e)
  <2>1. /\ pc[e] = "page" /\ pc'[e] = "log" /\ UNCHANGED <<orgLock, copy, findings, ledger>>
        /\ \A q \in Writers : q # e => pc'[q] = pc[q] /\ page'[q] = page[q]
        /\ page'[e] = ledger
    BY <1>1, <1>2, <1>7, CopySteps DEF PageForEdit, files
  <2>2. QED
    BY <1>1, <2>1
<1>8. CASE LogEdit(e)
  <2>1. /\ pc[e] = "log" /\ pc'[e] = "done" /\ UNCHANGED <<findings>>
        /\ \A q \in Writers : q # e => pc'[q] = pc[q] /\ page'[q] = page[q] /\ copy'[q] = copy[q]
        /\ \A q \in Writers : q # e /\ orgLock = q => orgLock' = q
        /\ ledger' = ledger \cup {EditEvent(e)}
    BY <1>1, <1>2, <1>8, CopySteps DEF LogEdit, Append
  <2>2. LockInv' /\ CopyInv' /\ SavedInv'
    BY <1>1, <2>1
  <2>3. PageInv'
    <3>1. \A q \in Writers : q # e => pc'[q] # "log"
      BY <1>1, <2>1 DEF Writers
    <3>2. QED
      BY <2>1, <3>1
  <2>4. LedgerInv'
    BY <1>1, <2>1, EventTypes
  <2>5. QED
    BY <2>2, <2>3, <2>4
<1>9. CASE FailEdit(e)
  <2>1. /\ pc'[e] = "failed" /\ UNCHANGED <<findings, ledger>>
        /\ \A q \in Writers : q # e => pc'[q] = pc[q] /\ page'[q] = page[q] /\ copy'[q] = copy[q]
        /\ \A q \in Writers : q # e /\ orgLock = q => orgLock' = q
    BY <1>1, <1>2, <1>9, CopySteps DEF FailEdit, files
  <2>2. QED
    BY <1>1, <2>1
<1>10. QED
  BY <1>4, <1>5, <1>6, <1>7, <1>8, <1>9 DEF EditStepOf

\* What a step of the job has to keep for the edits: it leaves those in the files
\* alone, and holds the lock when it is busy.
LEMMA EditInvFrame ==
    ASSUME TypeInv, EditInv,
           \A e \in Edits : pc'[e] = pc[e] /\ copy'[e] = copy[e] /\ page'[e] = page[e],
           \A e \in Edits : orgLock = e => orgLock' = e,
           findings'.edits = findings.edits,
           \A e \in Edits : EditEvent(e) \in ledger' <=> EditEvent(e) \in ledger,
           ledger' = ledger \/ orgLock = "job",
           pc'["job"] \in JobBusy => orgLock' = "job",
           pc'["job"] \in {"baseline", "dropBaseline", "write", "snapshot"} =>
               copy'["job"].edits = findings.edits,
           pc'["job"] = "log" => page'["job"] = ledger'
    PROVE  EditInv'
<1> USE DEF EditInv
<1>1. LockInv' /\ CopyInv' /\ SavedInv' /\ LedgerInv'
  BY DEF LockInv, CopyInv, SavedInv, LedgerInv
<1>2. PageInv'
  <2>1. ASSUME NEW e \in Edits, pc[e] = "log"
        PROVE  ledger' = ledger
    BY <2>1, StoreAssumption DEF LockInv, EditBusy
  <2>2. QED
    BY <2>1 DEF PageInv, Writers
<1>3. QED
  BY <1>1, <1>2

LEMMA EditInvJob ==
    ASSUME "vuln" \notin Kinds, TypeInv, EditInv, JobSteps \/ \E k \in Kinds : StartJob(k)
    PROVE  EditInv'
<1> USE DEF JobBusy
<1>1. /\ TypeOK /\ "job" \in Writers
      /\ \A e \in Edits : e \in Writers /\ e # "job"
      /\ Free # "job"
  BY StageTypes DEF TypeInv, Free
<1>2. \A s : Goto("job", s) => pc'["job"] = s /\ \A e \in Edits : pc'[e] = pc[e]
  BY <1>1, GotoType
<1>3. findings \in FindingsFile /\ copy["job"] \in FindingsFile /\ stage # "vuln"
  BY <1>1 DEF TypeInv, TypeOK, JobInv
<1>4. /\ pc["job"] \in JobBusy => orgLock = "job"
      /\ pc["job"] \in {"baseline", "dropBaseline", "write", "snapshot"} =>
             copy["job"].edits = findings.edits
      /\ pc["job"] = "log" => page["job"] = ledger
  BY <1>1 DEF EditInv, LockInv, CopyInv, PageInv
<1>5. LockAndRead("job") => /\ orgLock = Free /\ orgLock' = "job" /\ copy'["job"] = findings
                            /\ \A e \in Edits : copy'[e] = copy[e]
  BY <1>1, CopySteps
<1>6. Unlock("job") => /\ \A e \in Edits : copy'[e] = copy[e] /\ page'[e] = page[e]
                       /\ \A e \in Edits : orgLock = e => orgLock' = e
  BY <1>1, CopySteps
<1>7. EndStage /\ pc["job"] # "idle" =>
          pc'["job"] \in {"idle", "apply"} /\ \A e \in Edits : pc'[e] = pc[e]
  BY EndStageType
<1>8. orgLock = Free => \A e \in Edits : orgLock # e
  BY StoreAssumption DEF Free
<1>9. ASSUME NEW k \in Kinds, StartJob(k)
      PROVE  EditInv'
  <2>1. \A e \in Edits : copy'[e] = copy[e]
    BY <1>1, <1>9 DEF StartJob, TypeOK
  <2>2. QED
    BY <1>2, <1>9, <2>1, EditInvFrame DEF StartJob, files
<1>10. CASE GiveUp
  <2>1. pc'["job"] \notin JobBusy /\ \A e \in Edits : pc'[e] = pc[e]
    BY <1>2, <1>7, <1>10, EndJobEndsStage DEF GiveUp
  <2>2. QED
    BY <1>6, <1>10, <2>1, EditInvFrame DEF GiveUp, files
<1>11. CASE Apply
  <2>1. LockAndRead("job")
    BY <1>3, <1>11 DEF Apply, Reread
  <2>2. pc'["job"] \in {"baseline", "write"}
    BY <1>2, <1>11 DEF Apply
  <2>3. QED
    BY <1>2, <1>5, <1>8, <1>11, <2>1, <2>2, EditInvFrame DEF Apply, files
<1>12. CASE SaveBaseline
  BY <1>2, <1>4, <1>12, EditInvFrame DEF SaveBaseline
<1>13. CASE DropAfterBaseline
  BY <1>2, <1>4, <1>13, EditInvFrame DEF DropAfterBaseline, files
<1>14. CASE SaveFindings
  <2>1. findings'.edits = findings.edits
    BY <1>3, <1>4, <1>14, AppliedFile DEF SaveFindings, TypeInv, TypeOK, JobInv, StepsOK
  <2>2. QED
    BY <1>2, <1>4, <1>14, <2>1, EditInvFrame DEF SaveFindings
<1>15. CASE DropAfterFindings
  <2>1. pc'["job"] \notin JobBusy /\ \A e \in Edits : pc'[e] = pc[e]
    BY <1>2, <1>7, <1>15 DEF DropAfterFindings
  <2>2. QED
    BY <1>6, <1>15, <2>1, EditInvFrame DEF DropAfterFindings, Leave, files
<1>16. CASE Record
  BY <1>2, <1>5, <1>8, <1>16, EditInvFrame DEF Record, files
<1>17. CASE SaveSnapshot
  <2>1. findings'.edits = findings.edits
    BY <1>3, <1>4, <1>17, FileWithSnap DEF SaveSnapshot, Snapshotted
  <2>2. QED
    BY <1>2, <1>4, <1>17, <2>1, EditInvFrame DEF SaveSnapshot
<1>18. CASE DropAfterSnapshot
  BY <1>2, <1>6, <1>18, EditInvFrame DEF DropAfterSnapshot, files
<1>19. CASE PageForJob
  <2>1. \A e \in Edits : page'[e] = page[e]
    BY <1>1, <1>19, CopySteps DEF PageForJob
  <2>2. page'["job"] = ledger /\ orgLock = Free /\ orgLock' = "job"
    BY <1>1, <1>19, CopySteps DEF PageForJob, LockLedger
  <2>3. QED
    BY <1>2, <1>8, <1>19, <2>1, <2>2, EditInvFrame DEF PageForJob, files
<1>20. CASE LogJob
  <2>1. ledger' = ledger \cup {JobEvent(runs, stage, event)} /\ orgLock = "job"
    BY <1>4, <1>20 DEF LogJob, Append
  <2>2. \A e \in Edits : EditEvent(e) \in ledger' <=> EditEvent(e) \in ledger
    BY <2>1, EventTypes
  <2>3. QED
    BY <1>6, <1>7, <1>20, <2>1, <2>2, EditInvFrame DEF LogJob
<1>21. CASE FailJob
  <2>1. pc'["job"] \notin JobBusy /\ \A e \in Edits : pc'[e] = pc[e]
    BY <1>2, <1>7, <1>21, EndJobEndsStage DEF FailJob
  <2>2. QED
    BY <1>6, <1>21, <2>1, EditInvFrame DEF FailJob, files
<1>22. QED
  BY <1>9, <1>10, <1>11, <1>12, <1>13, <1>14, <1>15, <1>16, <1>17, <1>18, <1>19, <1>20, <1>21
     DEF JobSteps

LEMMA EditInvCrash ==
    ASSUME TypeInv, EditInv, Crash
    PROVE  EditInv'
<1> USE DEF EditInv, Crash, files
<1>1. \A e \in Edits : pc'[e] \in {"new", "done", "failed"} /\ (pc'[e] = "done" => pc[e] = "done")
  BY StageTypes DEF TypeInv, AfterCrash
<1>2. pc'["job"] = "idle" /\ \A p \in Writers : pc'[p] # "log"
  BY <1>1, StageTypes DEF TypeInv, Writers
<1>3. QED
  BY <1>1, <1>2 DEF LockInv, CopyInv, PageInv, SavedInv, LedgerInv, EditBusy, JobBusy

LEMMA EditInvStep ==
    ASSUME "vuln" \notin Kinds, TypeInv, EditInv, [Next]_vars
    PROVE  EditInv'
<1> USE DEF EditInv, LockInv, CopyInv, PageInv, SavedInv, LedgerInv
<1>1. CASE ReadStep
  BY <1>1 DEF ReadStep, Look, ReadFindings, ReadBaseline, Forget, files
<1>2. CASE UNCHANGED vars
  BY <1>2 DEF vars, files
<1>3. QED
  BY <1>1, <1>2, NextParts, EditInvEdit, EditInvJob, EditInvCrash

LEMMA EditInvInit == Init => EditInv
BY StageTypes, StoreAssumption, TypeInit
   DEF Init, EditInv, LockInv, CopyInv, PageInv, SavedInv, LedgerInv, EditBusy, JobBusy,
       Writers, TypeInv

THEOREM EditsInvariant ==
    ASSUME "vuln" \notin Kinds
    PROVE  Spec => [](TypeInv /\ EditInv)
<1>1. TypeInv /\ EditInv /\ [Next]_vars => TypeInv' /\ EditInv'
  BY TypeStep, EditInvStep
<1>2. QED
  BY <1>1, TypeInit, EditInvInit, PTL DEF Spec

\* Where no vuln job runs, an edit that was answered stays in the findings.
THEOREM EditsSurvive ==
    ASSUME "vuln" \notin Kinds
    PROVE  Spec => []NoLostEdit
<1>1. EditInv => NoLostEdit
  BY DEF EditInv, SavedInv, NoLostEdit
<1>2. QED
  BY <1>1, EditsInvariant, PTL

\* The history has an event for every edit that was answered and for none that is
\* not in the findings, even after a crash between the two files.
THEOREM HistoryTellsEdits ==
    ASSUME "vuln" \notin Kinds
    PROVE  Spec => []LedgerTellsEdits
<1>1. EditInv => LedgerTellsEdits
  BY DEF EditInv, LedgerInv, LedgerTellsEdits
<1>2. QED
  BY <1>1, EditsInvariant, PTL

-----------------------------------------------------------------------------
(* The cache *)

\* Steps that leave the cache and the readers alone and drop no entry for an edit.
LEMMA CacheFrame ==
    ASSUME CacheInv, UNCHANGED <<rpc, view, owed, cacheLock>>,
           cache' = cache \/ cache' = Nothing,
           Dropped' \subseteq Dropped, Answered \subseteq Answered'
    PROVE  CacheInv'
BY DEF CacheInv

LEMMA CacheInvEdit ==
    ASSUME TypeInv, EditInv, CacheInv, NEW e \in Edits, Request(e) \/ EditStepOf(e)
    PROVE  CacheInv'
<1>1. e \in Writers /\ e # "job" /\ \A d \in Edits : d \in Writers
  BY StageTypes DEF TypeInv
<1>2. \A s : Goto(e, s) => pc'[e] = s /\ \A d \in Edits : d # e => pc'[d] = pc[d]
  BY <1>1, GotoType DEF TypeInv
<1>3. CASE Request(e) \/ SaveEdit(e) \/ FailEdit(e)
  <2>1. /\ pc[e] \in {"new", "write", "log"} /\ pc'[e] \in {"write", "drop", "failed"}
        /\ \A d \in Edits : d # e => pc'[d] = pc[d]
    BY <1>2, <1>3 DEF Request, SaveEdit, FailEdit
  <2>2. Dropped' \subseteq Dropped /\ Answered \subseteq Answered'
    BY <2>1 DEF Dropped, Answered
  <2>3. QED
    BY <1>3, <2>2, CacheFrame DEF Request, SaveEdit, FailEdit, readVars
<1>4. CASE DropAfterEdit(e)
  <2>1. Answered' = Answered
    BY <1>2, <1>4 DEF DropAfterEdit, Answered
  <2>2. cacheLock = Free /\ cacheLock' = Free /\ cache' = Nothing /\ UNCHANGED <<rpc, view, owed>>
    BY <1>4 DEF DropAfterEdit, Invalidate, readVars
  <2>3. \A r \in Readers : rpc[r] = "idle"
    BY <2>2, StoreAssumption DEF CacheInv, Free
  <2>4. QED
    BY <2>1, <2>2, <2>3 DEF CacheInv
<1>5. CASE PageForEdit(e) \/ LogEdit(e)
  <2>1. /\ pc[e] \in {"page", "log"} /\ pc'[e] \in {"log", "done"}
        /\ \A d \in Edits : d # e => pc'[d] = pc[d]
    BY <1>2, <1>5 DEF PageForEdit, LogEdit
  <2>2. Dropped' = Dropped /\ Answered \subseteq Answered'
    BY <2>1 DEF Dropped, Answered
  <2>3. QED
    BY <1>5, <2>2, CacheFrame DEF PageForEdit, LogEdit, readVars
<1>6. QED
  BY <1>3, <1>4, <1>5 DEF EditStepOf

LEMMA CacheInvJob ==
    ASSUME TypeInv, CacheInv, JobSteps \/ \E k \in Kinds : StartJob(k)
    PROVE  CacheInv'
<1>1. "job" \in Writers /\ \A e \in Edits : e \in Writers /\ e # "job"
  BY StageTypes DEF TypeInv
<1>2. \A e \in Edits : pc'[e] = pc[e]
  <2>1. \A s : Goto("job", s) => \A e \in Edits : pc'[e] = pc[e]
    BY <1>1, GotoType DEF TypeInv
  <2>2. EndStage => \A e \in Edits : pc'[e] = pc[e]
    BY <2>1 DEF EndStage
  <2>3. QED
    BY <2>1, <2>2, EndJobEndsStage
       DEF JobSteps, StartJob, GiveUp, Apply, SaveBaseline, DropAfterBaseline, SaveFindings,
           DropAfterFindings, Record, SaveSnapshot, DropAfterSnapshot, PageForJob, LogJob, FailJob
<1>3. UNCHANGED <<rpc, view, owed, cacheLock>> /\ (cache' = cache \/ cache' = Nothing)
  BY DEF JobSteps, StartJob, GiveUp, Apply, SaveBaseline, DropAfterBaseline, SaveFindings,
         DropAfterFindings, Record, SaveSnapshot, DropAfterSnapshot, PageForJob, LogJob, FailJob,
         Invalidate, readVars
<1>4. Dropped' = Dropped /\ Answered' = Answered
  BY <1>2 DEF Dropped, Answered
<1>5. QED
  BY <1>3, <1>4, CacheFrame

LEMMA CacheInvRead ==
    ASSUME TypeInv, EditInv, CacheInv, ReadStep
    PROVE  CacheInv'
<1> USE DEF TypeInv
<1>1. Dropped' = Dropped /\ Answered' = Answered
  BY DEF ReadStep, Look, ReadFindings, ReadBaseline, Forget, Dropped, Answered
<1>2. Answered \subseteq Dropped /\ Dropped \subseteq findings.edits
  BY DEF Answered, Dropped, EditInv, SavedInv
<1>3. Free \notin Readers /\ \A r \in Readers : rpc[r] # "idle" => cacheLock = r
  BY StoreAssumption DEF Free, CacheInv
<1>4. ASSUME NEW r \in Readers, Look(r)
      PROVE  CacheInv'
  <2>1. /\ rpc[r] = "idle" /\ cacheLock = Free /\ cache' = cache
        /\ owed'[r] = Answered /\ \A q \in Readers : q # r => owed'[q] = owed[q]
        /\ \A q \in Readers : rpc[q] = "idle"
    BY <1>3, <1>4 DEF Look, TypeOK
  <2>2. CASE cache # Nothing /\ view' = [view EXCEPT ![r] = cache] /\ UNCHANGED <<cacheLock, rpc>>
    <3>1. view'[r] = cache /\ \A q \in Readers : q # r => view'[q] = view[q]
      BY <2>2 DEF TypeOK
    <3>2. QED
      BY <1>1, <1>2, <2>1, <2>2, <3>1 DEF CacheInv
  <2>3. CASE cacheLock' = r /\ rpc' = [rpc EXCEPT ![r] = "findings"] /\ UNCHANGED view
    <3>1. rpc'[r] = "findings" /\ \A q \in Readers : q # r => rpc'[q] = "idle"
      BY <2>1, <2>3 DEF TypeOK
    <3>2. QED
      BY <1>1, <1>2, <2>1, <2>3, <3>1 DEF CacheInv
  <2>4. QED
    BY <1>4, <2>2, <2>3 DEF Look
<1>5. ASSUME NEW r \in Readers, ReadFindings(r)
      PROVE  CacheInv'
  <2>1. rpc[r] = "findings" /\ cacheLock = r /\ UNCHANGED <<cache, cacheLock, owed>>
    BY <1>3, <1>5 DEF ReadFindings
  <2>2. rpc'[r] = "baseline" /\ \A q \in Readers : q # r => rpc'[q] = rpc[q] /\ view'[q] = view[q]
    BY <1>5 DEF ReadFindings, TypeOK
  <2>3. view'[r].edits = findings.edits
    BY <1>5, HalfViews DEF ReadFindings, TypeOK
  <2>4. QED
    BY <1>1, <1>2, <2>1, <2>2, <2>3 DEF CacheInv
<1>6. ASSUME NEW r \in Readers, ReadBaseline(r)
      PROVE  CacheInv'
  <2>1. rpc[r] = "baseline" /\ cacheLock = r /\ cacheLock' = Free /\ owed' = owed
    BY <1>3, <1>6 DEF ReadBaseline
  <2>2. /\ rpc'[r] = "idle" /\ view'[r] = cache'
        /\ \A q \in Readers : q # r => rpc'[q] = rpc[q] /\ view'[q] = view[q]
    BY <1>6 DEF ReadBaseline, TypeOK
  <2>3. cache'.edits = view[r].edits
    BY <1>6, HalfViews DEF ReadBaseline, TypeOK
  <2>4. \A q \in Readers : q # r => rpc[q] = "idle"
    BY <1>3, <2>1
  <2>5. QED
    BY <1>1, <1>2, <2>1, <2>2, <2>3, <2>4 DEF CacheInv
<1>7. CASE Forget
  BY <1>1, <1>7, CacheFrame DEF Forget, readVars
<1>8. QED
  BY <1>4, <1>5, <1>6, <1>7 DEF ReadStep

LEMMA CacheInvCrash ==
    ASSUME TypeInv, CacheInv, Crash
    PROVE  CacheInv'
BY DEF CacheInv, Crash

LEMMA CacheInvStep ==
    ASSUME TypeInv, EditInv, CacheInv, [Next]_vars
    PROVE  CacheInv'
<1>1. CASE UNCHANGED vars
  BY <1>1 DEF vars, readVars, CacheInv, Dropped, Answered
<1>2. QED
  BY <1>1, NextParts, CacheInvEdit, CacheInvJob, CacheInvRead, CacheInvCrash

\* Where no vuln job runs, a reader sees every edit that was answered before it
\* looked, from the cache or from the files.
THEOREM ReadersAreFresh ==
    ASSUME "vuln" \notin Kinds
    PROVE  Spec => []ReadsAreFresh
<1>1. Init => CacheInv
  BY DEF Init, CacheInv
<1>2. TypeInv /\ EditInv /\ CacheInv /\ [Next]_vars => CacheInv'
  BY CacheInvStep
<1>3. CacheInv => ReadsAreFresh
  BY DEF CacheInv, ReadsAreFresh
<1>4. QED
  BY <1>1, <1>2, <1>3, EditsInvariant, PTL DEF Spec

-----------------------------------------------------------------------------
(* The baseline *)

LEMMA BaseFrame ==
    ASSUME BaseInv, UNCHANGED <<baseline, readVars>>, runs' = runs,
           findings'.gen <= baseline,
           \A p \in Writers : copy'[p].gen <= baseline,
           cache' = cache \/ cache' = Nothing,
           stage' = "scan" /\ pc'["job"] \in {"dropBaseline", "write"} => baseline = runs,
           pc'["job"] = "baseline" => stage' = "scan"
    PROVE  BaseInv'
BY DEF BaseInv, readVars

LEMMA BaseInvEdit ==
    ASSUME TypeInv, BaseInv, NEW e \in Edits, Request(e) \/ EditStepOf(e)
    PROVE  BaseInv'
<1>1. e \in Writers /\ e # "job" /\ "job" \in Writers
  BY StageTypes DEF TypeInv
<1>2. \A s : Goto(e, s) => pc'["job"] = pc["job"]
  BY <1>1, GotoType DEF TypeInv
<1>3. /\ baseline \in Nat /\ findings \in FindingsFile /\ findings.gen <= baseline
      /\ \A p \in Writers : copy[p] \in FindingsFile /\ copy[p].gen <= baseline
  BY DEF TypeInv, TypeOK, BaseInv
<1>4. LockAndRead(e) \/ Unlock(e) => \A p \in Writers : copy'[p].gen <= baseline
  BY <1>1, <1>3, CopySteps, EmptyFile DEF TypeInv
<1>5. SaveEdit(e) => findings'.gen <= baseline
  BY <1>1, <1>3, FileWithEdits DEF SaveEdit
<1>6. UNCHANGED <<baseline, readVars, stage, runs>> /\ pc'["job"] = pc["job"]
  BY <1>2
     DEF Request, EditStepOf, SaveEdit, DropAfterEdit, PageForEdit, LogEdit, FailEdit, files, jobVars
<1>7. cache' = cache \/ cache' = Nothing
  BY DEF Request, EditStepOf, SaveEdit, DropAfterEdit, PageForEdit, LogEdit, FailEdit, Invalidate
<1>8. findings'.gen <= baseline /\ \A p \in Writers : copy'[p].gen <= baseline
  BY <1>3, <1>4, <1>5
     DEF Request, EditStepOf, SaveEdit, DropAfterEdit, PageForEdit, LogEdit, FailEdit, files
<1>9. QED
  BY <1>6, <1>7, <1>8, BaseFrame DEF BaseInv

LEMMA BaseInvJob ==
    ASSUME TypeInv, BaseInv, JobSteps \/ \E k \in Kinds : StartJob(k)
    PROVE  BaseInv'
<1>1. "job" \in Writers
  BY StageTypes DEF TypeInv
<1>2. \A s : Goto("job", s) => pc'["job"] = s
  BY <1>1, GotoType DEF TypeInv
<1>3. /\ baseline \in Nat /\ runs \in Nat /\ baseline <= runs
      /\ findings \in FindingsFile /\ findings.gen <= baseline /\ copy["job"] \in FindingsFile
      /\ \A p \in Writers : copy[p].gen <= baseline
      /\ copy \in [Writers -> FindingsFile]
  BY <1>1, StoreAssumption DEF TypeInv, TypeOK, BaseInv
<1>4. LockAndRead("job") \/ Unlock("job") => \A p \in Writers : copy'[p].gen <= baseline
  BY <1>1, <1>3, CopySteps, EmptyFile DEF TypeInv
<1>5. EndStage /\ pc["job"] # "idle" => pc'["job"] \in {"idle", "apply"} /\ runs' = runs
  BY EndStageType
<1>6. ASSUME NEW k \in Kinds, StartJob(k)
      PROVE  BaseInv'
  <2>1. \A p \in Writers : copy'[p].gen <= baseline
    BY <1>1, <1>3, <1>6 DEF StartJob
  <2>2. UNCHANGED <<findings, baseline, readVars, cache>> /\ runs' = runs + 1 /\ pc'["job"] = "apply"
    BY <1>2, <1>6 DEF StartJob, files
  <2>3. baseline <= runs'
    BY <1>3, <2>2
  <2>4. QED
    BY <2>1, <2>2, <2>3 DEF BaseInv, readVars
<1>7. CASE GiveUp
  <2>1. pc'["job"] \in {"idle", "apply", "append"} /\ runs' = runs
    BY <1>2, <1>5, <1>7, EndJobEndsStage DEF GiveUp, jobVars
  <2>2. QED
    BY <1>3, <1>4, <1>7, <2>1, BaseFrame DEF GiveUp, files
<1>8. CASE Apply
  <2>1. \A p \in Writers : copy'[p].gen <= baseline
    BY <1>1, <1>3, <1>4, <1>8 DEF Apply, Reread
  <2>2. pc'["job"] = IF stage = "scan" THEN "baseline" ELSE "write"
    BY <1>2, <1>8 DEF Apply
  <2>3. QED
    BY <1>3, <1>8, <2>1, <2>2, BaseFrame DEF Apply, files, jobVars
<1>9. CASE SaveBaseline
  <2>1. baseline' = runs /\ UNCHANGED <<findings, cache, copy, stage, runs, rpc, view>>
        /\ pc'["job"] = "dropBaseline"
    BY <1>2, <1>9 DEF SaveBaseline, readVars, jobVars
  <2>2. \A r \in Readers : view[r] \in View
    BY DEF TypeInv, TypeOK
  <2>3. /\ findings'.gen <= baseline' /\ \A p \in Writers : copy'[p].gen <= baseline'
        /\ \A r \in Readers : rpc[r] = "baseline" => view[r].gen <= baseline'
    <3>1. /\ findings.gen \in Nat /\ \A p \in Writers : copy[p].gen \in Nat
          /\ \A r \in Readers : view[r].gen \in Nat
      BY <1>3, <2>2, FileFields, ViewFields, StoreAssumption
    <3>2. QED
      BY <1>3, <2>1, <3>1 DEF BaseInv
  <2>4. QED
    BY <1>3, <2>1, <2>3 DEF BaseInv
<1>10. CASE DropAfterBaseline
  <2>1. stage = "scan" => baseline = runs
    BY <1>10 DEF DropAfterBaseline, BaseInv
  <2>2. QED
    BY <1>2, <1>3, <1>10, <2>1, BaseFrame DEF DropAfterBaseline, Invalidate, files, jobVars
<1>11. CASE SaveFindings
  <2>1. stage = "scan" => baseline = runs
    BY <1>11 DEF SaveFindings, BaseInv
  <2>2. findings'.gen <= baseline
    BY <1>1, <1>3, <1>11, <2>1, AppliedFile DEF SaveFindings, TypeInv, TypeOK, JobInv, StepsOK
  <2>3. QED
    BY <1>2, <1>3, <1>11, <2>2, BaseFrame DEF SaveFindings
<1>12. CASE DropAfterFindings
  <2>1. pc'["job"] \in {"record", "idle", "apply", "append"} /\ runs' = runs
    BY <1>2, <1>5, <1>12 DEF DropAfterFindings, jobVars
  <2>2. QED
    BY <1>3, <1>4, <1>12, <2>1, BaseFrame DEF DropAfterFindings, Leave, Invalidate, files
<1>13. CASE Record
  BY <1>2, <1>3, <1>4, <1>13, BaseFrame DEF Record, files, jobVars
<1>14. CASE SaveSnapshot
  <2>1. findings'.gen <= baseline
    BY <1>1, <1>3, <1>14, FileWithSnap DEF SaveSnapshot, Snapshotted
  <2>2. QED
    BY <1>2, <1>3, <1>14, <2>1, BaseFrame DEF SaveSnapshot
<1>15. CASE DropAfterSnapshot
  BY <1>2, <1>3, <1>4, <1>15, BaseFrame DEF DropAfterSnapshot, Invalidate, files, jobVars
<1>16. CASE PageForJob
  BY <1>2, <1>3, <1>16, BaseFrame DEF PageForJob, files, jobVars
<1>17. CASE LogJob
  BY <1>3, <1>4, <1>5, <1>17, BaseFrame DEF LogJob
<1>18. CASE FailJob
  <2>1. pc'["job"] \in {"idle", "apply", "append"} /\ runs' = runs
    BY <1>2, <1>5, <1>18, EndJobEndsStage DEF FailJob, jobVars
  <2>2. QED
    BY <1>3, <1>4, <1>18, <2>1, BaseFrame DEF FailJob, files
<1>19. QED
  BY <1>6, <1>7, <1>8, <1>9, <1>10, <1>11, <1>12, <1>13, <1>14, <1>15, <1>16, <1>17, <1>18
     DEF JobSteps

LEMMA BaseInvRead ==
    ASSUME TypeInv, BaseInv, ReadStep
    PROVE  BaseInv'
<1> USE DEF TypeInv
<1>1. UNCHANGED <<findings, baseline, copy, stage, runs, pc>>
  BY DEF ReadStep, Look, ReadFindings, ReadBaseline, Forget, files, jobVars
<1>2. ASSUME NEW r \in Readers, Look(r)
      PROVE  BaseInv'
  <2>1. cache' = cache /\ \A q \in Readers : q # r => rpc'[q] = rpc[q] /\ view'[q] = view[q]
    BY <1>2 DEF Look, TypeOK
  <2>2. \/ cache # Nothing /\ view'[r] = cache /\ rpc'[r] = "idle"
        \/ rpc'[r] = "findings"
    BY <1>2 DEF Look, TypeOK
  <2>3. QED
    BY <1>1, <2>1, <2>2 DEF BaseInv
<1>3. ASSUME NEW r \in Readers, ReadFindings(r)
      PROVE  BaseInv'
  <2>1. /\ cache' = cache /\ rpc'[r] = "baseline"
        /\ \A q \in Readers : q # r => rpc'[q] = rpc[q] /\ view'[q] = view[q]
    BY <1>3 DEF ReadFindings, TypeOK
  <2>2. view'[r].gen = findings.gen
    BY <1>3, HalfViews DEF ReadFindings, TypeOK
  <2>3. QED
    BY <1>1, <2>1, <2>2 DEF BaseInv
<1>4. ASSUME NEW r \in Readers, ReadBaseline(r)
      PROVE  BaseInv'
  <2>1. /\ view'[r] = cache' /\ rpc'[r] = "idle"
        /\ \A q \in Readers : q # r => rpc'[q] = rpc[q] /\ view'[q] = view[q]
    BY <1>4 DEF ReadBaseline, TypeOK
  <2>2. cache'.gen = view[r].gen /\ cache'.base = baseline /\ view[r].gen <= baseline
    BY <1>4, HalfViews DEF ReadBaseline, TypeOK, BaseInv
  <2>3. QED
    BY <1>1, <2>1, <2>2 DEF BaseInv
<1>5. CASE Forget
  BY <1>5 DEF Forget, readVars, files, jobVars, BaseInv
<1>6. QED
  BY <1>2, <1>3, <1>4, <1>5 DEF ReadStep

LEMMA BaseInvCrash ==
    ASSUME TypeInv, BaseInv, Crash
    PROVE  BaseInv'
<1>1. baseline \in Nat /\ \A p \in Writers : copy'[p].gen = 0
  BY EmptyFile, StoreAssumption DEF Crash, TypeInv, TypeOK
<1>2. \A r \in Readers : view'[r].gen = 0 /\ view'[r].base = 0 /\ rpc'[r] = "idle"
  BY DEF Crash
<1>3. pc'["job"] = "idle"
  BY StageTypes DEF Crash, TypeInv
<1>4. QED
  BY <1>1, <1>2, <1>3 DEF BaseInv, Crash, files

\* Whatever jobs run, no reader has findings that are newer than the baseline it
\* has with them.
THEOREM BaselineIsThere == Spec => []NoStaleBaseline
<1>1. Init => BaseInv
  BY EmptyFile, StageTypes, TypeInit DEF Init, BaseInv, TypeInv
<1>2. TypeInv /\ BaseInv /\ [Next]_vars => BaseInv'
  <2>1. ASSUME BaseInv, UNCHANGED vars
        PROVE  BaseInv'
    BY <2>1 DEF vars, readVars, files, jobVars, BaseInv
  <2>2. QED
    BY <2>1, NextParts, BaseInvEdit, BaseInvJob, BaseInvRead, BaseInvCrash
<1>3. BaseInv => NoStaleBaseline
  BY DEF BaseInv, NoStaleBaseline
<1>4. QED
  BY <1>1, <1>2, <1>3, TypeInit, TypeStep, PTL DEF Spec
-----------------------------------------------------------------------------
(* Announcements *)

\* Everything the history tells or may be made to tell by who has read it, as far
\* as it calls findings new.
Told == {ev \in ledger \cup UNION {page[p] : p \in Writers} : "new" \in DOMAIN ev}

\* The snapshot is part of the findings.  Who is about to write the findings has
\* the snapshot there is, and holds the lock, but for the vuln job, which leaves
\* the snapshot alone.
SnapInv ==
    /\ findings.snap \subseteq findings.ids
    /\ \A p \in Writers : copy[p].snap \subseteq copy[p].ids
    /\ \A e \in Edits : pc[e] = "write" => orgLock = e /\ copy[e].snap = findings.snap
    /\ pc["job"] \in {"baseline", "dropBaseline", "write", "snapshot"} =>
           /\ copy["job"].snap = findings.snap
           /\ orgLock = "job" \/ (stage = "vuln" /\ pc["job"] = "write")

\* What was announced, or is about to be, is in the snapshot, and no two events
\* have a finding in common, but for those whose snapshot could not be written.
ToldInv ==
    /\ \A ev \in Told : /\ ev.new \subseteq findings.snap \cup unsaved
                        /\ ev.new \cap event \subseteq unsaved
    /\ \A ev1, ev2 \in Told : ev1 # ev2 => ev1.new \cap ev2.new \subseteq unsaved
    /\ event \subseteq findings.snap \cup unsaved

LEMMA NewEvents ==
    ASSUME NEW n, NEW s, NEW new, NEW e
    PROVE  /\ "new" \in DOMAIN JobEvent(n, s, new) /\ JobEvent(n, s, new).new = new
           /\ "new" \notin DOMAIN EditEvent(e)
BY DEF JobEvent, EditEvent

LEMMA SnapFrame ==
    ASSUME TypeOK, SnapInv, findings' = findings,
           \A e \in Edits : pc'[e] = pc[e] /\ copy'[e] = copy[e] /\ (orgLock = e => orgLock' = e),
           copy'["job"].snap \subseteq copy'["job"].ids,
           pc'["job"] \in {"baseline", "dropBaseline", "write", "snapshot"} =>
               /\ copy'["job"].snap = findings.snap
               /\ orgLock' = "job" \/ (stage' = "vuln" /\ pc'["job"] = "write")
    PROVE  SnapInv'
BY DEF SnapInv, Writers

\* The snapshot only grows, and what is about to be announced was not in it or
\* cannot be put in it.
LEMMA ToldFrame ==
    ASSUME ToldInv, Told' \subseteq Told, findings.snap \subseteq findings'.snap,
           unsaved \subseteq unsaved',
           event' \subseteq event \cup (findings'.snap \ findings.snap) \cup unsaved'
    PROVE  ToldInv'
BY DEF ToldInv

\* Reading the history or leaving the lock gives nobody more to tell.
LEMMA ToldSteps ==
    ASSUME TypeOK, NEW p \in Writers
    PROVE  /\ ledger' = ledger /\ page' = page => Told' = Told
           /\ ledger' = ledger /\ (ReadLedger(p) \/ Unlock(p)) => Told' \subseteq Told
           /\ \A ev : Append(p, ev) /\ Unlock(p) =>
                 Told' \subseteq Told \cup {x \in {ev} : "new" \in DOMAIN x}
<1>1. ledger' = ledger /\ page' = page => Told' = Told
  BY DEF Told
<1>2. \A q \in Writers : page[q] \subseteq UNION {page[x] : x \in Writers}
  OBVIOUS
<1>3. ASSUME ReadLedger(p)
      PROVE  \A q \in Writers : page'[q] = ledger \/ page'[q] = page[q]
  BY <1>3 DEF ReadLedger, TypeOK
<1>4. ASSUME Unlock(p)
      PROVE  \A q \in Writers : page'[q] = {} \/ page'[q] = page[q]
  BY <1>4 DEF Unlock, TypeOK
<1>5. ASSUME ReadLedger(p) \/ Unlock(p)
      PROVE  UNION {page'[q] : q \in Writers} \subseteq ledger \cup UNION {page[q] : q \in Writers}
  BY <1>2, <1>3, <1>4, <1>5
<1>6. ledger' = ledger /\ (ReadLedger(p) \/ Unlock(p)) => Told' \subseteq Told
  BY <1>5 DEF Told
<1>7. ASSUME NEW ev, Append(p, ev), Unlock(p)
      PROVE  Told' \subseteq Told \cup {x \in {ev} : "new" \in DOMAIN x}
  <2>1. ledger' \subseteq {ev} \cup UNION {page[q] : q \in Writers}
    BY <1>2, <1>7 DEF Append
  <2>2. QED
    BY <1>5, <1>7, <2>1 DEF Told
<1>8. QED
  BY <1>1, <1>6, <1>7

LEMMA AnnounceEdit ==
    ASSUME TypeInv, SnapInv, ToldInv, NEW e \in Edits, Request(e) \/ EditStepOf(e)
    PROVE  SnapInv' /\ ToldInv'
<1>1. TypeOK /\ e \in Writers /\ e # "job" /\ Free \notin Writers /\ "job" \in Writers
      /\ \A d \in Edits : d \in Writers /\ d # "job"
  BY StageTypes, StoreAssumption DEF TypeInv, Writers, Free
<1>2. \A s : Goto(e, s) => pc'[e] = s /\ \A q \in Writers : q # e => pc'[q] = pc[q]
  BY <1>1, GotoType
<1>3. findings \in FindingsFile /\ \A p \in Writers : copy[p] \in FindingsFile
  BY <1>1 DEF TypeOK
<1>4. Empty.snap = {}
  BY DEF Empty
<1>5. event' = event /\ stage' = stage /\ unsaved' = unsaved
  BY DEF Request, EditStepOf, SaveEdit, DropAfterEdit, PageForEdit, LogEdit, FailEdit, jobVars
<1>6. Told' \subseteq Told
  BY <1>1, ToldSteps, NewEvents
     DEF Request, EditStepOf, SaveEdit, DropAfterEdit, PageForEdit, LogEdit, FailEdit, files
<1>7. CASE Request(e)
  <2>1. /\ orgLock = Free /\ orgLock' = e /\ copy'[e] = findings /\ findings' = findings
        /\ \A q \in Writers : q # e => copy'[q] = copy[q] /\ pc'[q] = pc[q]
    BY <1>1, <1>2, <1>7, CopySteps DEF Request, files
  <2>2. SnapInv'
    BY <1>1, <1>5, <2>1 DEF SnapInv
  <2>3. QED
    BY <1>5, <1>6, <2>1, <2>2, ToldFrame
<1>8. CASE SaveEdit(e)
  <2>1. /\ pc[e] = "write" /\ pc'[e] = "drop" /\ orgLock' = orgLock /\ copy' = copy
        /\ \A q \in Writers : q # e => pc'[q] = pc[q]
    BY <1>1, <1>2, <1>8 DEF SaveEdit
  <2>2. findings'.snap = copy[e].snap /\ findings'.ids = copy[e].ids
    BY <1>1, <1>3, <1>8 DEF SaveEdit, FindingsFile
  <2>3. copy[e].snap = findings.snap
    BY <2>1 DEF SnapInv
  <2>4. SnapInv'
    BY <1>1, <1>5, <2>1, <2>2, <2>3 DEF SnapInv
  <2>5. QED
    BY <1>5, <1>6, <2>2, <2>3, <2>4, ToldFrame
<1>9. CASE DropAfterEdit(e) \/ PageForEdit(e)
  <2>1. /\ pc'[e] # "write" /\ UNCHANGED <<orgLock, copy, findings>>
        /\ \A q \in Writers : q # e => pc'[q] = pc[q]
    BY <1>1, <1>2, <1>9 DEF DropAfterEdit, PageForEdit, files
  <2>2. SnapInv'
    BY <1>1, <1>5, <2>1 DEF SnapInv
  <2>3. QED
    BY <1>5, <1>6, <2>1, <2>2, ToldFrame
<1>10. CASE LogEdit(e) \/ FailEdit(e)
  <2>1. /\ pc'[e] # "write" /\ findings' = findings /\ copy'[e] = Empty
        /\ \A q \in Writers : q # e => pc'[q] = pc[q] /\ copy'[q] = copy[q]
        /\ \A q \in Writers : q # e /\ orgLock = q => orgLock' = q
    BY <1>1, <1>2, <1>10, CopySteps DEF LogEdit, FailEdit, files
  <2>2. SnapInv'
    BY <1>1, <1>4, <1>5, <2>1 DEF SnapInv
  <2>3. QED
    BY <1>5, <1>6, <2>1, <2>2, ToldFrame
<1>11. QED
  BY <1>7, <1>8, <1>9, <1>10 DEF EditStepOf

\* The steps of the job.  A snapshot that cannot be written leaves what the job
\* announces to be announced again.
LEMMA AnnounceJob ==
    ASSUME TypeInv, SnapInv, ToldInv,
           JobSteps \/ \E k \in Kinds : StartJob(k)
    PROVE  SnapInv' /\ ToldInv'
<1>1. TypeOK /\ "job" \in Writers /\ Free \notin Writers /\ \A e \in Edits : e \in Writers /\ e # "job"
  BY StageTypes, StoreAssumption DEF TypeInv, Writers, Free
<1>2. \A s : Goto("job", s) => pc'["job"] = s /\ \A e \in Edits : pc'[e] = pc[e]
  BY <1>1, GotoType
<1>3. /\ findings \in FindingsFile /\ copy["job"] \in FindingsFile
      /\ Empty.snap = {} /\ findings.snap \subseteq findings.ids
      /\ copy["job"].snap \subseteq copy["job"].ids
  BY <1>1 DEF TypeOK, Empty, SnapInv
<1>4. LockAndRead("job") => /\ orgLock' = "job" /\ copy'["job"] = findings
                            /\ \A e \in Edits : copy'[e] = copy[e] /\ orgLock # e
  BY <1>1, CopySteps
<1>5. Unlock("job") => /\ copy'["job"] = Empty
                       /\ \A e \in Edits : copy'[e] = copy[e] /\ (orgLock = e => orgLock' = e)
  BY <1>1, CopySteps
<1>6. EndStage /\ pc["job"] # "idle" =>
        pc'["job"] \in {"idle", "apply"} /\ event' = {} /\ \A e \in Edits : pc'[e] = pc[e]
  BY EndStageType
<1>0. unsaved \subseteq unsaved'
  BY DEF JobSteps, StartJob, GiveUp, Apply, SaveBaseline, DropAfterBaseline, SaveFindings,
         DropAfterFindings, Record, SaveSnapshot, DropAfterSnapshot, PageForJob, LogJob,
         FailJob
<1>7. ASSUME NEW k \in Kinds, StartJob(k)
      PROVE  SnapInv' /\ ToldInv'
  <2>1. /\ copy'["job"] = findings /\ \A e \in Edits : copy'[e] = copy[e]
        /\ UNCHANGED <<findings, orgLock, ledger, page>> /\ event' = {}
    BY <1>1, <1>7 DEF StartJob, files, TypeOK
  <2>2. SnapInv'
    BY <1>1, <1>2, <1>3, <1>7, <2>1, SnapFrame DEF StartJob
  <2>3. QED
    BY <1>1, <2>1, <2>2, <1>0, ToldFrame, ToldSteps
<1>8. CASE GiveUp
  <2>1. /\ pc'["job"] \in {"idle", "apply", "append"} /\ event' \subseteq event
        /\ \A e \in Edits : pc'[e] = pc[e]
    BY <1>2, <1>6, <1>8, EndJobEndsStage DEF GiveUp
  <2>2. SnapInv'
    BY <1>1, <1>3, <1>5, <1>8, <2>1, SnapFrame DEF GiveUp, files
  <2>3. QED
    BY <1>1, <1>8, <2>1, <2>2, <1>0, ToldFrame, ToldSteps DEF GiveUp, files
<1>9. CASE Apply
  <2>1. /\ copy'["job"] = findings
        /\ orgLock' = "job" \/ (stage = "vuln" /\ pc'["job"] = "write")
        /\ \A e \in Edits : copy'[e] = copy[e] /\ (orgLock = e => orgLock' = e)
    <3>1. CASE stage = "vuln"
      BY <1>1, <1>2, <1>9, <3>1 DEF Apply, Reread, TypeOK
    <3>2. CASE stage # "vuln"
      BY <1>4, <1>9, <3>2 DEF Apply, Reread
    <3>3. QED
      BY <3>1, <3>2
  <2>2. findings' = findings /\ stage' = stage /\ \A e \in Edits : pc'[e] = pc[e]
    BY <1>2, <1>9 DEF Apply, files, jobVars
  <2>3. SnapInv'
    BY <1>1, <1>3, <2>1, <2>2, SnapFrame
  <2>4. QED
    BY <1>1, <1>9, <2>3, <1>0, ToldFrame, ToldSteps DEF Apply, files, jobVars
<1>10. CASE SaveBaseline \/ DropAfterBaseline
  <2>1. /\ pc["job"] \in {"baseline", "dropBaseline"}
        /\ UNCHANGED <<findings, ledger, page, copy, orgLock, stage, event>>
        /\ \A e \in Edits : pc'[e] = pc[e]
    BY <1>2, <1>10 DEF SaveBaseline, DropAfterBaseline, files, jobVars
  <2>2. SnapInv'
    BY <1>1, <2>1, SnapFrame DEF SnapInv
  <2>3. QED
    BY <1>1, <2>1, <2>2, <1>0, ToldFrame, ToldSteps
<1>11. CASE SaveFindings
  <2> DEFINE c == copy["job"]
  <2>1. /\ pc["job"] = "write" /\ pc'["job"] = "drop" /\ findings' = Applied(c)
        /\ UNCHANGED <<copy, orgLock, ledger, page>> /\ \A e \in Edits : pc'[e] = pc[e]
    BY <1>2, <1>11 DEF SaveFindings
  <2>2. /\ findings'.ids = Added(c)
        /\ findings'.snap = IF stage \in Snapshots THEN Added(c) ELSE c.snap
    BY <2>1 DEF Applied
  <2>3. c.snap = findings.snap /\ c.snap \subseteq Added(c)
    BY <1>3, <2>1 DEF SnapInv, Added
  <2>4. orgLock = "job" \/ findings'.snap = findings.snap
    BY <2>1, <2>2, <2>3 DEF SnapInv, Snapshots
  <2>5. SnapInv'
    BY <1>1, <2>1, <2>2, <2>3, <2>4 DEF SnapInv
  <2>6. event' \subseteq findings'.snap \ findings.snap
    BY <1>11, <2>2, <2>3 DEF SaveFindings, Snapshots
  <2>7. QED
    BY <1>1, <2>1, <2>2, <2>3, <2>5, <2>6, <1>0, ToldFrame, ToldSteps
<1>12. CASE DropAfterFindings
  <2>1. /\ pc'["job"] \in {"record", "idle", "apply", "append"} /\ event' \subseteq event
        /\ \A e \in Edits : pc'[e] = pc[e]
    BY <1>2, <1>6, <1>12 DEF DropAfterFindings, jobVars
  <2>2. SnapInv'
    BY <1>1, <1>3, <1>5, <1>12, <2>1, SnapFrame DEF DropAfterFindings, Leave, files
  <2>3. QED
    BY <1>1, <1>12, <2>1, <2>2, <1>0, ToldFrame, ToldSteps DEF DropAfterFindings, Leave, files
<1>13. CASE Record
  <2>1. SnapInv'
    BY <1>1, <1>2, <1>3, <1>4, <1>13, SnapFrame DEF Record, files
  <2>2. QED
    BY <1>1, <1>13, <2>1, <1>0, ToldFrame, ToldSteps DEF Record, files, jobVars
<1>14. CASE SaveSnapshot
  <2> DEFINE c == copy["job"]
  <2>1. /\ pc["job"] = "snapshot" /\ pc'["job"] = "dropSnapshot"
        /\ UNCHANGED <<copy, orgLock, ledger, page>> /\ \A e \in Edits : pc'[e] = pc[e]
        /\ event' = c.ids \ c.snap
    BY <1>2, <1>14 DEF SaveSnapshot
  <2>2. findings'.ids = c.ids /\ findings'.snap = c.ids
    BY <1>3, <1>14 DEF SaveSnapshot, Snapshotted, FindingsFile
  <2>3. c.snap = findings.snap /\ orgLock = "job"
    BY <2>1 DEF SnapInv
  <2>4. SnapInv'
    BY <1>1, <2>1, <2>2, <2>3 DEF SnapInv
  <2>5. QED
    BY <1>1, <1>3, <2>1, <2>2, <2>3, <2>4, <1>0, ToldFrame, ToldSteps
<1>15. CASE DropAfterSnapshot
  <2>1. SnapInv'
    BY <1>1, <1>2, <1>3, <1>5, <1>15, SnapFrame DEF DropAfterSnapshot, files
  <2>2. QED
    BY <1>1, <1>15, <2>1, <1>0, ToldFrame, ToldSteps DEF DropAfterSnapshot, files, jobVars
<1>16. CASE PageForJob
  <2>1. \A e \in Edits : orgLock # e
    BY <1>1, <1>16 DEF PageForJob, LockLedger
  <2>2. SnapInv'
    BY <1>1, <1>2, <1>3, <1>16, <2>1, SnapFrame DEF PageForJob, files
  <2>3. QED
    BY <1>1, <1>16, <2>2, <1>0, ToldFrame, ToldSteps DEF PageForJob, files, jobVars
<1>17. CASE LogJob
  <2>1. /\ pc'["job"] \in {"idle", "apply"} /\ event' = {} /\ \A e \in Edits : pc'[e] = pc[e]
        /\ findings' = findings /\ unsaved' = unsaved
    BY <1>6, <1>17 DEF LogJob
  <2>2. SnapInv'
    BY <1>1, <1>3, <1>5, <1>17, <2>1, SnapFrame DEF LogJob
  <2> DEFINE ev == JobEvent(runs, stage, event)
  <2>3. Told' \subseteq Told \cup {ev} /\ ev.new = event
    BY <1>1, <1>17, ToldSteps, NewEvents DEF LogJob
  <2> HIDE DEF ev
  <2>4. QED
    BY <2>1, <2>2, <2>3 DEF ToldInv
<1>18. CASE FailJob
  <2>1. /\ pc'["job"] \in {"idle", "apply", "append"} /\ \A e \in Edits : pc'[e] = pc[e]
        /\ event' \subseteq event \cup unsaved' /\ unsaved \subseteq unsaved'
    BY <1>2, <1>6, <1>18, EndJobEndsStage DEF FailJob, jobVars
  <2>2. SnapInv'
    BY <1>1, <1>3, <1>5, <1>18, <2>1, SnapFrame DEF FailJob, files
  <2>3. QED
    BY <1>1, <1>18, <2>1, <2>2, <1>0, ToldFrame, ToldSteps DEF FailJob, files
<1>19. QED
  BY <1>7, <1>8, <1>9, <1>10, <1>11, <1>12, <1>13, <1>14, <1>15, <1>16, <1>17, <1>18 DEF JobSteps

LEMMA AnnounceOther ==
    ASSUME TypeInv, SnapInv, ToldInv, ReadStep \/ Crash \/ UNCHANGED vars
    PROVE  SnapInv' /\ ToldInv'
<1>1. TypeOK /\ "job" \in Writers /\ \A e \in Edits : e \in Writers /\ e # "job"
  BY StageTypes DEF TypeInv
<1>2. CASE ReadStep \/ UNCHANGED vars
  <2>1. UNCHANGED <<findings, ledger, orgLock, pc, copy, page, stage, event, unsaved>>
    BY <1>2 DEF ReadStep, Look, ReadFindings, ReadBaseline, Forget, vars, files, jobVars
  <2>2. QED
    BY <2>1, ToldFrame, <1>1, ToldSteps DEF SnapInv
<1>3. CASE Crash
  <2>1. /\ findings' = findings /\ ledger' = ledger /\ event' = {} /\ unsaved' = unsaved
        /\ pc'["job"] = "idle" /\ \A e \in Edits : pc'[e] # "write"
        /\ \A p \in Writers : copy'[p] = Empty /\ page'[p] = {}
    BY <1>1, <1>3 DEF Crash, AfterCrash, files
  <2>2. SnapInv'
    BY <1>1, <2>1 DEF SnapInv, Empty
  <2>3. Told' \subseteq Told
    BY <2>1 DEF Told
  <2>4. QED
    BY <2>1, <2>2, <2>3, ToldFrame
<1>4. QED
  BY <1>2, <1>3

\* No two events of the history announce one finding as new, for any jobs, edits
\* and crashes, the vuln job included, but for a finding whose announcement came
\* with a snapshot that could not be written.
THEOREM NewOnce == Spec => []AnnouncedOnce
<1>1. Init => SnapInv /\ ToldInv
  <2>1. SUFFICES ASSUME Init
                 PROVE  SnapInv /\ ToldInv
    OBVIOUS
  <2>2. /\ findings = Empty /\ ledger = {} /\ event = {} /\ unsaved = {} /\ pc["job"] = "idle"
        /\ \A e \in Edits : pc[e] = "new"
        /\ \A p \in Writers : copy[p] = Empty /\ page[p] = {}
    BY <2>1, StoreAssumption DEF Init, Writers
  <2>3. Told = {}
    BY <2>2 DEF Told
  <2>4. QED
    BY <2>2, <2>3 DEF SnapInv, ToldInv, Empty
<1>2. TypeInv /\ SnapInv /\ ToldInv /\ [Next]_vars => SnapInv' /\ ToldInv'
  BY NextParts, AnnounceEdit, AnnounceJob, AnnounceOther
<1>3. ToldInv => AnnouncedOnce
  BY DEF ToldInv, AnnouncedOnce, Told
<1>4. QED
  BY <1>1, <1>2, <1>3, TypeInit, TypeStep, PTL DEF Spec
-----------------------------------------------------------------------------
(* The refinement *)

\* What is not yet saved is not in the findings.
UnsavedInv == \A e \in Edits : pc[e] \in {"new", "write"} => e \notin findings.edits

\* What a step of anybody does to the edits and the history: nothing, but that
\* requests may fail or go on; it saves an edit; it answers one; it notes what a job
\* did.
OthersStay(e) == \A d \in Edits : d # e => pc'[d] = pc[d]

Calm ==
    /\ findings'.edits = findings.edits /\ ledger' = ledger
    /\ \A e \in Edits :
          /\ pc'[e] \in {"new", "write"} => pc[e] \in {"new", "write"}
          /\ pc'[e] = "done" <=> pc[e] = "done"
          /\ pc[e] = "failed" => pc'[e] = "failed"

Saves(e) ==
    /\ pc[e] = "write" /\ pc'[e] = "drop" /\ OthersStay(e)
    /\ findings'.edits = findings.edits \cup {e} /\ ledger' = ledger

Answers(e) ==
    /\ pc[e] = "log" /\ pc'[e] = "done" /\ OthersStay(e)
    /\ findings'.edits = findings.edits /\ ledger' = ledger \cup {EditEvent(e)}

Tells(ev) ==
    /\ \A e \in Edits : pc'[e] = pc[e]
    /\ findings'.edits = findings.edits /\ ledger' = ledger \cup {ev}

LEMMA EditMoves ==
    ASSUME TypeInv, EditInv, NEW e \in Edits, Request(e) \/ EditStepOf(e)
    PROVE  Calm \/ Saves(e) \/ Answers(e)
<1>1. TypeOK /\ e \in Writers /\ e # "job" /\ \A d \in Edits : d \in Writers
  BY StageTypes DEF TypeInv
<1>2. \A s : Goto(e, s) => pc'[e] = s /\ OthersStay(e)
  BY <1>1, GotoType DEF OthersStay
<1>3. CASE Request(e)
  BY <1>2, <1>3 DEF Request, Calm, OthersStay, files
<1>4. CASE SaveEdit(e)
  <2>1. copy[e] \in FindingsFile /\ copy[e].edits = findings.edits
    BY <1>1, <1>4 DEF SaveEdit, TypeOK, EditInv, CopyInv
  <2>2. findings'.edits = findings.edits \cup {e}
    BY <1>4, <2>1, FileWithEdits DEF SaveEdit
  <2> QED
    BY <1>2, <1>4, <2>2 DEF SaveEdit, Saves
<1>5. CASE DropAfterEdit(e)
  BY <1>2, <1>5 DEF DropAfterEdit, Calm, OthersStay, files
<1>6. CASE PageForEdit(e)
  BY <1>2, <1>6 DEF PageForEdit, Calm, OthersStay, files
<1>7. CASE LogEdit(e)
  <2>1. page[e] = ledger
    BY <1>1, <1>7 DEF LogEdit, EditInv, PageInv
  <2> QED
    BY <1>2, <1>7, <2>1 DEF LogEdit, Append, Answers
<1>8. CASE FailEdit(e)
  BY <1>2, <1>8 DEF FailEdit, Calm, OthersStay, files
<1> QED
  BY <1>3, <1>4, <1>5, <1>6, <1>7, <1>8 DEF EditStepOf

LEMMA JobMoves ==
    ASSUME "vuln" \notin Kinds, TypeInv, EditInv, JobSteps \/ \E k \in Kinds : StartJob(k)
    PROVE  Calm \/ Tells(JobEvent(runs, stage, event))
<1>1. TypeOK /\ "job" \in Writers /\ \A e \in Edits : e \in Writers /\ e # "job"
  BY StageTypes DEF TypeInv
<1>2. \A s : Goto("job", s) => \A e \in Edits : pc'[e] = pc[e]
  BY <1>1, GotoType
<1>3. EndStage /\ pc["job"] # "idle" => \A e \in Edits : pc'[e] = pc[e]
  BY EndStageType
<1>4. copy["job"] \in FindingsFile
      /\ (pc["job"] \in {"write", "snapshot"} => copy["job"].edits = findings.edits)
  BY <1>1 DEF TypeOK, EditInv, CopyInv
<1>5. ASSUME UNCHANGED <<findings, ledger>>, \A e \in Edits : pc'[e] = pc[e]
      PROVE  Calm
  BY <1>5 DEF Calm
<1>6. CASE \E k \in Kinds : StartJob(k)
  BY <1>2, <1>5, <1>6 DEF StartJob, files
<1>7. CASE GiveUp
  BY <1>2, <1>3, <1>5, <1>7, EndJobEndsStage DEF GiveUp, files
<1>8. CASE Apply \/ DropAfterBaseline \/ Record \/ DropAfterSnapshot \/ PageForJob
  BY <1>2, <1>5, <1>8
     DEF Apply, DropAfterBaseline, Record, DropAfterSnapshot, PageForJob, files
<1>9. CASE SaveBaseline
  BY <1>2, <1>5, <1>9 DEF SaveBaseline
<1>10. CASE SaveFindings
  <2>1. findings'.edits = findings.edits
    BY <1>4, <1>10, AppliedFile DEF SaveFindings, TypeInv, TypeOK, JobInv, StepsOK
  <2> QED
    BY <1>2, <1>10, <2>1 DEF SaveFindings, Calm
<1>11. CASE DropAfterFindings
  BY <1>2, <1>3, <1>5, <1>11 DEF DropAfterFindings, files
<1>12. CASE SaveSnapshot
  <2>1. findings'.edits = findings.edits
    BY <1>4, <1>12, FileWithSnap DEF SaveSnapshot, Snapshotted
  <2> QED
    BY <1>2, <1>12, <2>1 DEF SaveSnapshot, Calm
<1>13. CASE LogJob
  <2>1. page["job"] = ledger
    BY <1>1, <1>13 DEF LogJob, EditInv, PageInv
  <2> QED
    BY <1>3, <1>13, <2>1 DEF LogJob, Append, Tells
<1>14. CASE FailJob
  BY <1>2, <1>3, <1>5, <1>14, EndJobEndsStage DEF FailJob, files
<1> QED
  BY <1>6, <1>7, <1>8, <1>9, <1>10, <1>11, <1>12, <1>13, <1>14 DEF JobSteps

LEMMA CrashMoves ==
    ASSUME TypeInv, Crash
    PROVE  Calm
<1>1. \A e \in Edits : pc'[e] = AfterCrash(pc[e])
  BY StageTypes DEF TypeInv, Crash
<1> QED
  BY <1>1 DEF Crash, Calm, AfterCrash, files

LEMMA Moves ==
    ASSUME "vuln" \notin Kinds, TypeInv, EditInv, [Next]_vars
    PROVE  \/ Calm
           \/ \E e \in Edits : Saves(e) \/ Answers(e)
           \/ Tells(JobEvent(runs, stage, event))
<1>1. ReadStep \/ UNCHANGED vars => Calm
  BY DEF ReadStep, Look, ReadFindings, ReadBaseline, Forget, vars, files, Calm
<1> QED
  BY <1>1, NextParts, EditMoves, JobMoves, CrashMoves

Failed == {e \in Edits : pc[e] = "failed"}

LEMMA MovesRefine ==
    ASSUME UnsavedInv,
           \/ Calm
           \/ \E e \in Edits : Saves(e) \/ Answers(e)
           \/ Tells(JobEvent(runs, stage, event)),
           SavedInv
    PROVE  UnsavedInv' /\ [Atomic!Next]_(Atomic!vars)
<1>1. CASE Calm
  <2>1. Answered' = Answered /\ Failed \subseteq Failed' /\ Failed' \subseteq Edits \ Answered
    BY <1>1 DEF Calm, Answered, Failed
  <2>2. Atomic!Fail
    BY <1>1, <2>1 DEF Calm, Atomic!Fail, Failed
  <2> QED
    BY <1>1, <2>2 DEF Calm, UnsavedInv, Atomic!Next
<1>2. ASSUME NEW e \in Edits, Saves(e)
      PROVE  UnsavedInv' /\ [Atomic!Next]_(Atomic!vars)
  <2>1. Answered' = Answered /\ Failed' = Failed /\ e \notin findings.edits \cup Failed
    BY <1>2 DEF Saves, OthersStay, Answered, Failed, UnsavedInv
  <2>2. Atomic!Make(e)
    BY <1>2, <2>1 DEF Saves, Atomic!Make, Failed
  <2> QED
    BY <1>2, <2>2 DEF Saves, OthersStay, UnsavedInv, Atomic!Next
<1>3. ASSUME NEW e \in Edits, Answers(e)
      PROVE  UnsavedInv' /\ [Atomic!Next]_(Atomic!vars)
  <2>1. /\ Answered' = Answered \cup {e} /\ Failed' = Failed
        /\ e \in findings.edits /\ e \notin Answered \cup Failed
    BY <1>3 DEF Answers, OthersStay, Answered, Failed, SavedInv
  <2>2. Atomic!Answer(e)
    BY <1>3, <2>1 DEF Answers, Atomic!Answer, Failed, EditEvent, Atomic!EditEvent
  <2> QED
    BY <1>3, <2>2 DEF Answers, OthersStay, UnsavedInv, Atomic!Next
<1>4. CASE Tells(JobEvent(runs, stage, event))
  <2>1. Answered' = Answered /\ Failed' = Failed
    BY <1>4 DEF Tells, Answered, Failed
  <2>2. "edit" \notin DOMAIN JobEvent(runs, stage, event)
    BY DEF JobEvent
  <2>3. Atomic!Note
    BY <1>4, <2>1, <2>2 DEF Tells, Atomic!Note, Failed
  <2> QED
    BY <1>4, <2>3 DEF Tells, UnsavedInv, Atomic!Next
<1> QED
  BY <1>1, <1>2, <1>3, <1>4

\* Without vuln jobs the two files, their locks, copies, jobs and crashes come to one
\* set of edits and one history: an edit is made once and for good, and no event is
\* lost.
THEOREM StoreImplementsAtomicEdits ==
    ASSUME "vuln" \notin Kinds
    PROVE  Spec => ImplementsAtomicEdits
<1>1. Init => UnsavedInv /\ Atomic!Init
  <2> SUFFICES ASSUME Init
               PROVE  UnsavedInv /\ Atomic!Init
    OBVIOUS
  <2>1. findings.edits = {} /\ ledger = {} /\ \A e \in Edits : pc[e] = "new"
    BY StoreAssumption DEF Init, Empty, Writers
  <2> QED
    BY <2>1 DEF UnsavedInv, Atomic!Init, Answered
<1>2. TypeInv /\ EditInv /\ UnsavedInv /\ [Next]_vars =>
          UnsavedInv' /\ [Atomic!Next]_(Atomic!vars)
  BY Moves, MovesRefine DEF EditInv
<1> QED
  BY <1>1, <1>2, EditsInvariant, PTL DEF Spec, ImplementsAtomicEdits, Atomic!Spec
=============================================================================
