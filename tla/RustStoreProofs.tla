--------------------------- MODULE RustStoreProofs ---------------------------
(***************************************************************************)
(* The properties of RustStore for any number of requests, readers and     *)
(* jobs, with and without AI mode and failing writes.                      *)
(*                                                                         *)
(* The argument: who writes the findings has the guard since it read them  *)
(* (GuardInv), so a job writes what is there, a scan less what it read of  *)
(* findings that share an id (CopyInv).  A request reads through the       *)
(* cache, which lacks only what a view that was stored came too late for   *)
(* once nobody is about to drop it (CacheInv).  The history is harder, for *)
(* a grading that failed appends without the guard: what a guarded writer  *)
(* has read lacks at most events of gradings, both of the history          *)
(* (PageInv) and of what the grading itself has read (LooseInv).           *)
(***************************************************************************)
EXTENDS RustStore, TLAPS

EditBusy == {"load", "write", "drop", "page", "log", "answer"}

GuardInv ==
    /\ \A e \in Edits : pc[e] \in EditBusy => lock = e
    /\ pc["job"] \in {"write", "drop"} => lock = "job"
    /\ pc["job"] \in {"page", "log"} /\ stage # "grade" => lock = "job"

\* What is about to be written has all that is there, but for edits of findings
\* that share an id, and for those that came too late for what was in the cache.
CopyInv ==
    /\ pc["job"] = "write" =>
         \A e \in findings \ copy["job"] : stage = "scan" /\ e \in doubled
    /\ \A e \in Edits : pc[e] = "write" => findings \ copy[e] \subseteq overtaken

\* Nobody is about to drop the entry of the cache.
Quiet == pc["job"] # "drop" /\ \A e \in Edits : pc[e] # "drop"

CacheInv == cache # Nothing /\ Quiet => findings \ cache.edits \subseteq overtaken

OnlyGrades(S) == \A ev \in S : "job" \in DOMAIN ev /\ ev.stage = "grade"

\* What who has the guard is about to extend lacks only events of gradings.
PageInv ==
    /\ \A e \in Edits : pc[e] = "log" => OnlyGrades(ledger \ page[e])
    /\ pc["job"] = "log" /\ ~LooseAppend => page["job"] = ledger

\* So it is with what a grading puts back, and with what was logged meanwhile.
LooseInv ==
    pc["job"] = "log" =>
        /\ OnlyGrades(page["job"] \ ledger)
        /\ \A e \in Edits : pc[e] = "log" => OnlyGrades(page["job"] \ page[e])

Inv == TypeOK /\ GuardInv /\ CopyInv /\ CacheInv /\ PageInv /\ LooseInv

-----------------------------------------------------------------------------
LEMMA JobIsNoEdit == "job" \notin Edits /\ Free \notin Edits /\ Free # "job"
BY RustAssumption DEF Free

LEMMA InitInv == Init => Inv
<1>1. ASSUME Init PROVE TypeOK
  BY <1>1, JobIsNoEdit, RustAssumption
     DEF Init, TypeOK, Writers, EditStep, JobStep
<1>2. ASSUME Init PROVE GuardInv /\ CopyInv /\ CacheInv /\ PageInv /\ LooseInv
  BY <1>2, JobIsNoEdit
     DEF Init, Writers, EditBusy, GuardInv, CopyInv, CacheInv, PageInv, LooseInv
<1>3. QED
  BY <1>1, <1>2 DEF Inv

\* Every step keeps the variables within their types.
LEMMA TypeStep == TypeOK /\ [Next]_vars => TypeOK'
<1> SUFFICES ASSUME TypeOK, [Next]_vars PROVE TypeOK'
  OBVIOUS
<1> USE JobIsNoEdit, RustAssumption DEF file, views, jobVars
<1>1. Through \in Entries
  BY DEF TypeOK, Through, Cached, Entries, Nothing
<1>2. CASE UNCHANGED vars
  BY <1>2 DEF vars, TypeOK
<1>3. ASSUME NEW e \in Edits, Request(e) \/ EditStepOf(e) PROVE TypeOK'
  <2>1. EditEvent(e) \in Events
    BY DEF EditEvent, Events
  <2>2. Through.edits \subseteq Edits
    BY <1>1 DEF Entries
  <2>3. CASE Request(e)
    BY <2>3 DEF Request, Lock, Goto, TypeOK, Writers, EditStep
  <2>4. CASE Load(e)
    BY <2>4, <1>1, <2>2 DEF Load, Goto, TypeOK, Writers, EditStep
  <2>5. CASE SaveEdit(e)
    BY <2>5 DEF SaveEdit, Goto, TypeOK, Writers, EditStep
  <2>6. CASE FailEdit(e)
    BY <2>6 DEF FailEdit, Goto, Unlock, TypeOK, Writers, EditStep
  <2>7. CASE DropAfterEdit(e)
    BY <2>7 DEF DropAfterEdit, Goto, TypeOK, Writers, EditStep
  <2>8. CASE PageForEdit(e)
    BY <2>8 DEF PageForEdit, ReadLedger, Goto, TypeOK, Writers, EditStep
  <2>9. CASE LogEdit(e)
    BY <2>9, <2>1 DEF LogEdit, Append, Goto, TypeOK, Writers, EditStep
  <2>10. CASE Answer(e)
    BY <2>10, <1>1 DEF Answer, Goto, Unlock, TypeOK, Writers, EditStep
  <2> QED
    BY <1>3, <2>3, <2>4, <2>5, <2>6, <2>7, <2>8, <2>9, <2>10 DEF EditStepOf
<1>4. ASSUME NEW k \in Kinds, StartJob(k) PROVE TypeOK'
  <2>1. k \in AnyKind /\ k # "none" /\ FirstStep(k) \in JobStep /\ FirstStep(k) # "idle"
    BY DEF AnyKind, FirstStep, JobStep
  <2> QED
    BY <1>4, <2>1 DEF StartJob, Goto, TypeOK, Writers, EditStep, JobStep
<1>5. CASE JobSteps
  <2>1. CASE GiveUp
    BY <2>1 DEF GiveUp, EndJob, Goto, Unlock, TypeOK, Writers, EditStep, JobStep
  <2>2. CASE ReadForScan
    BY <2>2 DEF ReadForScan, Goto, TypeOK, Writers, EditStep, JobStep
  <2>3. CASE LockJob
    BY <2>3 DEF LockJob, Lock, Restored, Goto, TypeOK, Writers, EditStep, JobStep
  <2>4. CASE SaveFindings
    BY <2>4 DEF SaveFindings, Goto, TypeOK, Writers, EditStep, JobStep
  <2>5. CASE FailSave
    BY <2>5 DEF FailSave, EndJob, Unlock, Goto, TypeOK, Writers, EditStep, JobStep
  <2>6. CASE DropAndEnd \/ DropAfterSave
    BY <2>6 DEF DropAndEnd, DropAfterSave, EndJob, Unlock, Goto, TypeOK, Writers, EditStep, JobStep
  <2>7. CASE PageForJob
    BY <2>7 DEF PageForJob, ReadLedger, Goto, TypeOK, Writers, EditStep, JobStep
  <2>8. CASE LogJob
    <3>1. JobEvent(runs, stage) \in Events
      BY <2>8 DEF LogJob, JobEvent, Events, TypeOK, AnyKind
    <3>2. ledger' \subseteq Events
      BY <2>8, <3>1 DEF LogJob, Append, TypeOK, Writers
    <3> QED
      BY <2>8, <3>2 DEF LogJob, AfterLog, EndJob, Unlock, Goto, TypeOK, Writers, EditStep, JobStep
  <2>9. CASE Ask
    BY <2>9 DEF Ask, EndJob, Unlock, Goto, TypeOK, Writers, EditStep, JobStep, AnyKind
  <2> QED
    BY <1>5, <2>1, <2>2, <2>3, <2>4, <2>5, <2>6, <2>7, <2>8, <2>9 DEF JobSteps
<1>6. ASSUME NEW r \in Readers, Look(r) \/ Store(r) PROVE TypeOK'
  BY <1>6 DEF Look, Store, Cached, Entries, TypeOK
<1>7. CASE Forget
  BY <1>7 DEF Forget, TypeOK
<1> QED
  BY <1>2, <1>3, <1>4, <1>5, <1>6, <1>7 DEF Next

-----------------------------------------------------------------------------
(* The guard and the copies *)

LEMMA GuardStep == Inv /\ [Next]_vars => GuardInv'
<1> SUFFICES ASSUME Inv, [Next]_vars PROVE GuardInv'
  OBVIOUS
<1> USE JobIsNoEdit DEF EditBusy, Writers, file, views, jobVars
<1>1. TypeOK /\ GuardInv
  BY DEF Inv
<1>2. CASE UNCHANGED vars
  BY <1>1, <1>2 DEF vars, GuardInv
<1>3. ASSUME NEW e \in Edits, Request(e) \/ EditStepOf(e) PROVE GuardInv'
  <2>1. CASE Request(e)
    BY <2>1, <1>1 DEF Request, Lock, Goto, TypeOK, GuardInv
  <2>2. CASE Load(e) \/ SaveEdit(e) \/ DropAfterEdit(e) \/ PageForEdit(e) \/ LogEdit(e)
    BY <2>2, <1>1
       DEF Load, SaveEdit, DropAfterEdit, PageForEdit, ReadLedger, LogEdit, Goto, TypeOK, GuardInv
  <2>3. CASE FailEdit(e) \/ Answer(e)
    BY <2>3, <1>1 DEF FailEdit, Answer, Goto, Unlock, TypeOK, GuardInv
  <2> QED
    BY <1>3, <2>1, <2>2, <2>3 DEF EditStepOf
<1>4. ASSUME NEW k \in Kinds, StartJob(k) PROVE GuardInv'
  BY <1>4, <1>1 DEF StartJob, FirstStep, Goto, TypeOK, GuardInv
<1>5. CASE JobSteps
  <2>1. CASE GiveUp \/ DropAndEnd
    BY <2>1, <1>1 DEF GiveUp, DropAndEnd, EndJob, Goto, Unlock, TypeOK, GuardInv
  <2>2. CASE ReadForScan \/ LockJob \/ SaveFindings
    BY <2>2, <1>1 DEF ReadForScan, LockJob, Lock, SaveFindings, Goto, TypeOK, GuardInv
  <2>3. CASE FailSave
    BY <2>3, <1>1 DEF FailSave, EndJob, Goto, Unlock, TypeOK, GuardInv
  <2>4. CASE DropAfterSave \/ PageForJob
    BY <2>4, <1>1 DEF DropAfterSave, PageForJob, ReadLedger, Goto, TypeOK, GuardInv
  <2>5. CASE LogJob
    BY <2>5, <1>1 DEF LogJob, AfterLog, EndJob, Goto, Unlock, TypeOK, GuardInv
  <2>6. CASE Ask
    BY <2>6, <1>1 DEF Ask, EndJob, Goto, Unlock, TypeOK, GuardInv
  <2> QED
    BY <1>5, <2>1, <2>2, <2>3, <2>4, <2>5, <2>6 DEF JobSteps
<1>6. ASSUME NEW r \in Readers, Look(r) \/ Store(r) PROVE GuardInv'
  BY <1>6, <1>1 DEF Look, Store, GuardInv
<1>7. CASE Forget
  BY <1>7, <1>1 DEF Forget, GuardInv
<1> QED
  BY <1>2, <1>3, <1>4, <1>5, <1>6, <1>7 DEF Next

LEMMA CopyStep == Inv /\ [Next]_vars => CopyInv' /\ CacheInv'
<1> SUFFICES ASSUME Inv, [Next]_vars PROVE CopyInv' /\ CacheInv'
  OBVIOUS
<1> USE JobIsNoEdit DEF EditBusy, Writers, Quiet, file, views, jobVars
<1>1. TypeOK /\ GuardInv /\ CopyInv /\ CacheInv
  BY DEF Inv
<1>2. CASE UNCHANGED vars
  BY <1>1, <1>2 DEF vars, CopyInv, CacheInv
<1>3. cache # Nothing /\ Quiet => findings \ Through.edits \subseteq overtaken
  BY <1>1 DEF Through, CacheInv
<1>4. cache = Nothing => Through.edits = findings
  BY DEF Through, Cached
<1>5. ASSUME NEW e \in Edits, Request(e) \/ EditStepOf(e) PROVE CopyInv' /\ CacheInv'
  <2>1. CASE Request(e)
    BY <2>1, <1>1 DEF Request, Goto, TypeOK, CopyInv, CacheInv
  <2>2. CASE Load(e)
    <3>1. lock = e /\ Quiet
      BY <2>2, <1>1 DEF Load, GuardInv
    <3>2. findings \ Through.edits \subseteq overtaken
      BY <3>1, <1>3, <1>4
    <3> QED
      BY <2>2, <3>2, <1>1 DEF Load, Goto, TypeOK, CopyInv, CacheInv
  <2>3. CASE SaveEdit(e)
    <3>1. pc["job"] # "write" /\ \A d \in Edits : pc[d] = "write" => d = e
      BY <2>3, <1>1 DEF SaveEdit, GuardInv
    <3> QED
      BY <2>3, <3>1, <1>1 DEF SaveEdit, Goto, TypeOK, CopyInv, CacheInv
  <2>4. CASE FailEdit(e)
    BY <2>4, <1>1 DEF FailEdit, Goto, Unlock, TypeOK, CopyInv, CacheInv
  <2>5. CASE DropAfterEdit(e)
    BY <2>5, <1>1 DEF DropAfterEdit, Goto, TypeOK, CopyInv, CacheInv
  <2>6. CASE PageForEdit(e) \/ LogEdit(e)
    BY <2>6, <1>1 DEF PageForEdit, ReadLedger, LogEdit, Goto, TypeOK, CopyInv, CacheInv
  <2>7. CASE Answer(e)
    <3>1. findings \ cache'.edits \subseteq overtaken' \/ ~Quiet'
      BY <2>7, <1>1, <1>3, <1>4 DEF Answer, Goto, TypeOK
    <3> QED
      BY <2>7, <3>1, <1>1 DEF Answer, Goto, Unlock, TypeOK, CopyInv, CacheInv
  <2> QED
    BY <1>5, <2>1, <2>2, <2>3, <2>4, <2>5, <2>6, <2>7 DEF EditStepOf
<1>6. ASSUME NEW k \in Kinds, StartJob(k) PROVE CopyInv' /\ CacheInv'
  BY <1>6, <1>1 DEF StartJob, FirstStep, Goto, TypeOK, CopyInv, CacheInv
<1>7. CASE JobSteps
  <2>1. CASE GiveUp
    BY <2>1, <1>1 DEF GiveUp, EndJob, Goto, Unlock, TypeOK, CopyInv, CacheInv
  <2>2. CASE ReadForScan
    BY <2>2, <1>1 DEF ReadForScan, Goto, TypeOK, CopyInv, CacheInv
  <2>3. CASE LockJob
    <3>1. ASSUME NEW e \in findings \ copy'["job"] PROVE stage = "scan" /\ e \in doubled
      BY <3>1, <2>3, <1>1 DEF LockJob, Restored, TypeOK
    <3>2. \A e \in Edits : copy'[e] = copy[e]
      BY <2>3, <1>1 DEF LockJob, TypeOK
    <3> QED
      BY <3>1, <3>2, <2>3, <1>1 DEF LockJob, Goto, TypeOK, CopyInv, CacheInv
  <2>4. CASE SaveFindings
    <3>1. \A d \in Edits : pc[d] # "write"
      BY <2>4, <1>1 DEF SaveFindings, GuardInv
    <3> QED
      BY <2>4, <3>1, <1>1 DEF SaveFindings, Goto, TypeOK, CopyInv, CacheInv
  <2>5. CASE FailSave
    BY <2>5, <1>1 DEF FailSave, EndJob, Goto, Unlock, TypeOK, CopyInv, CacheInv
  <2>6. CASE DropAndEnd \/ DropAfterSave
    BY <2>6, <1>1 DEF DropAndEnd, DropAfterSave, EndJob, Goto, Unlock, TypeOK, CopyInv, CacheInv
  <2>7. CASE PageForJob
    BY <2>7, <1>1 DEF PageForJob, ReadLedger, Goto, TypeOK, CopyInv, CacheInv
  <2>8. CASE LogJob
    BY <2>8, <1>1 DEF LogJob, AfterLog, EndJob, Goto, Unlock, TypeOK, CopyInv, CacheInv
  <2>9. CASE Ask
    BY <2>9, <1>1 DEF Ask, EndJob, Goto, Unlock, TypeOK, CopyInv, CacheInv
  <2> QED
    BY <1>7, <2>1, <2>2, <2>3, <2>4, <2>5, <2>6, <2>7, <2>8, <2>9 DEF JobSteps
<1>8. ASSUME NEW r \in Readers, Look(r) \/ Store(r) PROVE CopyInv' /\ CacheInv'
  BY <1>8, <1>1 DEF Look, Store, CopyInv, CacheInv
<1>9. CASE Forget
  BY <1>9, <1>1 DEF Forget, CopyInv, CacheInv
<1> QED
  BY <1>2, <1>5, <1>6, <1>7, <1>8, <1>9 DEF Next

-----------------------------------------------------------------------------
(* The history *)

LEMMA PageStep == Inv /\ [Next]_vars => PageInv' /\ LooseInv'
<1> SUFFICES ASSUME Inv, [Next]_vars PROVE PageInv' /\ LooseInv'
  OBVIOUS
<1> USE JobIsNoEdit DEF EditBusy, Writers, OnlyGrades, file, views, jobVars
<1>1. TypeOK /\ GuardInv /\ PageInv /\ LooseInv
  BY DEF Inv
<1>2. CASE UNCHANGED vars
  BY <1>1, <1>2 DEF vars, PageInv, LooseInv, LooseAppend
<1>3. ASSUME NEW e \in Edits, Request(e) \/ EditStepOf(e) PROVE PageInv' /\ LooseInv'
  <2>1. CASE Request(e)
    BY <2>1, <1>1 DEF Request, Lock, Goto, TypeOK, GuardInv, PageInv, LooseInv, LooseAppend
  <2>2. CASE Load(e) \/ SaveEdit(e) \/ DropAfterEdit(e)
    BY <2>2, <1>1
       DEF Load, SaveEdit, DropAfterEdit, Goto, TypeOK, PageInv, LooseInv, LooseAppend
  <2>3. CASE PageForEdit(e)
    BY <2>3, <1>1
       DEF PageForEdit, ReadLedger, Goto, TypeOK, PageInv, LooseInv, LooseAppend
  <2>4. CASE LogEdit(e)
    <3>1. lock = e /\ \A d \in Edits : pc[d] = "log" => d = e
      BY <2>4, <1>1 DEF LogEdit, GuardInv
    <3>2. pc'["job"] = "log" => LooseAppend
      BY <2>4, <3>1, <1>1 DEF LogEdit, Goto, TypeOK, GuardInv, LooseAppend
    <3>3. \A d \in Edits : pc'[d] # "log"
      BY <2>4, <3>1, <1>1 DEF LogEdit, Goto, TypeOK
    <3>4. pc'["job"] = "log" => OnlyGrades(page["job"] \ ledger')
      BY <2>4, <1>1 DEF LogEdit, Append, Goto, TypeOK, LooseInv
    <3> QED
      BY <2>4, <3>2, <3>3, <3>4 DEF LogEdit, PageInv, LooseInv, LooseAppend
  <2>5. CASE FailEdit(e) \/ Answer(e)
    <3>1. lock = e /\ pc'[e] # "log" /\ ledger' = ledger /\ stage' = stage
          /\ \A p \in Writers \ {e} : pc'[p] = pc[p] /\ page'[p] = page[p]
      BY <2>5, <1>1 DEF FailEdit, Answer, Goto, Unlock, TypeOK, GuardInv
    <3>2. lock' = Free
      BY <2>5, <3>1 DEF FailEdit, Answer, Unlock
    <3> QED
      BY <3>1, <3>2, <1>1 DEF PageInv, LooseInv, LooseAppend
  <2> QED
    BY <1>3, <2>1, <2>2, <2>3, <2>4, <2>5 DEF EditStepOf
<1>4. ASSUME NEW k \in Kinds, StartJob(k) PROVE PageInv' /\ LooseInv'
  BY <1>4, <1>1 DEF StartJob, FirstStep, Goto, TypeOK, PageInv, LooseInv
<1>5. CASE JobSteps
  <2>1. CASE GiveUp \/ DropAndEnd
    BY <2>1, <1>1 DEF GiveUp, DropAndEnd, EndJob, Goto, Unlock, TypeOK, PageInv, LooseInv
  <2>2. CASE ReadForScan \/ LockJob
    BY <2>2, <1>1 DEF ReadForScan, LockJob, Goto, TypeOK, PageInv, LooseInv
  <2>3. CASE SaveFindings \/ DropAfterSave
    BY <2>3, <1>1 DEF SaveFindings, DropAfterSave, Goto, TypeOK, PageInv, LooseInv
  <2>4. CASE FailSave
    BY <2>4, <1>1 DEF FailSave, EndJob, Goto, Unlock, TypeOK, PageInv, LooseInv
  <2>5. CASE PageForJob
    BY <2>5, <1>1 DEF PageForJob, ReadLedger, Goto, TypeOK, PageInv, LooseInv
  <2>6. CASE LogJob
    <3>1. pc'["job"] # "log" /\ \A e \in Edits : pc'[e] = pc[e] /\ page'[e] = page[e]
      BY <2>6, <1>1 DEF LogJob, AfterLog, EndJob, Goto, Unlock, TypeOK
    <3>2. ASSUME NEW e \in Edits, pc[e] = "log" PROVE OnlyGrades(ledger' \ page[e])
      <4>1. lock = e /\ stage = "grade"
        BY <3>2, <2>6, <1>1 DEF LogJob, GuardInv
      <4> QED
        BY <4>1, <3>2, <2>6, <1>1 DEF LogJob, Append, JobEvent, PageInv, LooseInv
    <3> QED
      BY <3>1, <3>2 DEF PageInv, LooseInv
  <2>7. CASE Ask
    BY <2>7, <1>1 DEF Ask, EndJob, Goto, Unlock, TypeOK, PageInv, LooseInv
  <2> QED
    BY <1>5, <2>1, <2>2, <2>3, <2>4, <2>5, <2>6, <2>7 DEF JobSteps
<1>6. ASSUME NEW r \in Readers, Look(r) \/ Store(r) PROVE PageInv' /\ LooseInv'
  BY <1>6, <1>1 DEF Look, Store, PageInv, LooseInv, LooseAppend
<1>7. CASE Forget
  BY <1>7, <1>1 DEF Forget, PageInv, LooseInv, LooseAppend
<1> QED
  BY <1>2, <1>3, <1>4, <1>5, <1>6, <1>7 DEF Next

-----------------------------------------------------------------------------
(* The theorems *)

\* Guard, copies and histories are related as the read-modify-writes need it.
THEOREM Invariance == Spec => []Inv
<1>1. Init => Inv
  BY InitInv
<1>2. Inv /\ [Next]_vars => Inv'
  <2> SUFFICES ASSUME Inv, [Next]_vars PROVE Inv'
    OBVIOUS
  <2>1. TypeOK'
    BY TypeStep DEF Inv
  <2> QED
    BY <2>1, GuardStep, CopyStep, PageStep DEF Inv
<1> QED
  BY <1>1, <1>2, PTL DEF Spec

\* Every variable stays within its type.
THEOREM TypeCorrect == Spec => []TypeOK
<1>1. Inv => TypeOK
  BY DEF Inv
<1> QED
  BY <1>1, Invariance, PTL

LEMMA FindingsStep ==
    ASSUME Inv, [Next]_vars, NEW e \in findings \ findings'
    PROVE  e \in overtaken \/ (e \in doubled /\ pc["job"] = "write" /\ stage = "scan")
<1> USE DEF file, views, jobVars
<1>1. CASE UNCHANGED vars
  BY <1>1 DEF vars
<1>2. ASSUME NEW d \in Edits, Request(d) \/ EditStepOf(d) PROVE e \in overtaken
  <2>1. CASE SaveEdit(d)
    BY <2>1 DEF SaveEdit, Inv, CopyInv
  <2> QED
    BY <1>2, <2>1 DEF Request, EditStepOf, Load, FailEdit, DropAfterEdit, PageForEdit, LogEdit,
                      Answer
<1>3. ASSUME NEW k \in Kinds, StartJob(k) PROVE FALSE
  BY <1>3 DEF StartJob
<1>4. CASE JobSteps
  <2>1. CASE SaveFindings
    BY <2>1 DEF SaveFindings, Inv, CopyInv
  <2> QED
    BY <1>4, <2>1 DEF JobSteps, GiveUp, ReadForScan, LockJob, FailSave, DropAndEnd,
                      DropAfterSave, PageForJob, LogJob, Ask
<1>5. ASSUME NEW r \in Readers, Look(r) \/ Store(r) PROVE FALSE
  BY <1>5 DEF Look, Store
<1>6. CASE Forget
  BY <1>6 DEF Forget
<1> QED
  BY <1>1, <1>2, <1>3, <1>4, <1>5, <1>6 DEF Next

\* An edit that is in the file stays there, whether requests write from the cache or
\* jobs from what they read long before, but for the two cases EditsKept names.
THEOREM EditsStay == Spec => EditsKept
<1>1. Inv /\ [Next]_vars =>
        [\A e \in findings \ findings' :
           e \in overtaken \/ (e \in doubled /\ pc["job"] = "write" /\ stage = "scan")]_vars
  BY FindingsStep
<1> QED
  BY <1>1, Invariance, PTL DEF Spec, EditsKept

\* The history loses an event only to a grading that appends without the guard,
\* or the event of a grading.
LEMMA LedgerStep ==
    ASSUME Inv, [Next]_vars, NEW ev \in ledger \ ledger'
    PROVE  \/ pc["job"] = "log" /\ LooseAppend
           \/ "job" \in DOMAIN ev /\ ev.stage = "grade"
<1> USE DEF file, views, jobVars
<1>1. CASE UNCHANGED vars
  BY <1>1 DEF vars
<1>2. ASSUME NEW e \in Edits, Request(e) \/ EditStepOf(e)
      PROVE  "job" \in DOMAIN ev /\ ev.stage = "grade"
  <2>1. CASE LogEdit(e)
    BY <2>1 DEF LogEdit, Append, Inv, PageInv, OnlyGrades
  <2> QED
    BY <1>2, <2>1 DEF Request, EditStepOf, Load, SaveEdit, FailEdit, DropAfterEdit, PageForEdit,
                      Answer
<1>3. ASSUME NEW k \in Kinds, StartJob(k) PROVE FALSE
  BY <1>3 DEF StartJob
<1>4. CASE JobSteps
  <2>1. CASE LogJob
    BY <2>1 DEF LogJob, Append, Inv, PageInv
  <2> QED
    BY <1>4, <2>1 DEF JobSteps, GiveUp, ReadForScan, LockJob, SaveFindings, FailSave, DropAndEnd,
                      DropAfterSave, PageForJob, Ask
<1>5. ASSUME NEW r \in Readers, Look(r) \/ Store(r) PROVE FALSE
  BY <1>5 DEF Look, Store
<1>6. CASE Forget
  BY <1>6 DEF Forget
<1> QED
  BY <1>1, <1>2, <1>3, <1>4, <1>5, <1>6 DEF Next

\* What is in the history stays there, but for the gradings that do not hold the
\* guard and their events.
THEOREM HistoryStays == Spec => EventsKept
<1>1. Inv /\ [Next]_vars =>
        [\A ev \in ledger \ ledger' :
           \/ pc["job"] = "log" /\ LooseAppend
           \/ "job" \in DOMAIN ev /\ ev.stage = "grade"]_vars
  BY LedgerStep
<1> QED
  BY <1>1, Invariance, PTL DEF Spec, EventsKept
=============================================================================
