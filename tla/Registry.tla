------------------------------ MODULE Registry ------------------------------
(***************************************************************************)
(* The registry of organizations in app/main.py: registration, the domains *)
(* of an organization and its OpenHack configuration.  orgs.json is read,  *)
(* changed and replaced under _registry_lock.  The copy in memory, REGISTRY*)
(* of app/cti_correlation.py, is loaded again after the lock was released, *)
(* and the empty files of a new organization are written after that,       *)
(* without its lock, when its first job may already be at work.            *)
(*                                                                         *)
(* The model of Orgs is the promise.  Bounds: each request is made once,   *)
(* one job per organization, MaxRestarts.                                  *)
(***************************************************************************)
EXTENDS Naturals, FiniteSets

CONSTANTS
    Slugs, Domains, Models, MaxDomains, Requests,   \* as in Orgs
    Queries,      \* what the requests may ask for
    Faults,       \* whether reads and writes may fail
    MaxRestarts   \* bound on the restarts

VARIABLES
    file,      \* orgs.json
    registry,  \* REGISTRY
    lock,      \* _registry_lock: the request that holds it, if any
    pc,        \* what each request does next
    ask,       \* what it asks for
    copy,      \* the registry it read under the lock
    loaded,    \* the one it read to replace REGISTRY
    baseline,  \* baseline.txt of each organization
    findings,  \* findings.json of each organization
    job,       \* the first job of each organization
    restarts,  \* restarts so far
    kept,      \* history: what the job wrote with no registration to write it after
    late,      \* history: the file was replaced after the request read it, or not read
    behind     \* history: what REGISTRY was replaced by last was late

requestVars == <<lock, pc, ask, copy, loaded>>

orgVars == <<baseline, findings, job, kept>>

reloadVars == <<late, behind>>

vars == <<file, registry, requestVars, orgVars, restarts, reloadVars>>

Phase == {"new", "asked", "read", "written", "loaded", "made", "based", "done", "refused", "lost"}

State(r) ==
    CASE pc[r] \in {"asked", "read"} -> "open"
      [] pc[r] \in {"written", "loaded", "made", "based"} -> "effective"
      [] pc[r] = "done" -> "answered"
      [] OTHER -> pc[r]

Promise == INSTANCE Orgs WITH orgs <- file, state <- [r \in Requests |-> State(r)]

\* What the requests of an instance ask for.
Asked == Queries \cap Promise!Query

Book == [Slugs -> Promise!Entry]

Empty == Promise!NoOrgs

TypeOK ==
    /\ file \in Book /\ registry \in Book
    /\ lock \in SUBSET Requests
    /\ pc \in [Requests -> Phase] /\ ask \in [Requests -> Asked]
    /\ copy \in [Requests -> Book] /\ loaded \in [Requests -> Book]
    /\ baseline \in [Slugs -> {"none", "empty", "scan"}]
    /\ findings \in [Slugs -> {"none", "empty", "scan"}]
    /\ job \in [Slugs -> {"none", "scanning", "half", "done"}]
    /\ restarts \in Nat
    /\ kept \in [Slugs -> SUBSET {"baseline", "findings"}]
    /\ late \in [Requests -> BOOLEAN] /\ behind \in BOOLEAN

Init ==
    /\ file = Empty /\ registry = Empty
    /\ lock = {} /\ pc = [r \in Requests |-> "new"]
    /\ ask \in [Requests -> Asked]
    /\ copy = [r \in Requests |-> Empty] /\ loaded = [r \in Requests |-> Empty]
    /\ baseline = [s \in Slugs |-> "none"] /\ findings = [s \in Slugs |-> "none"]
    /\ job = [s \in Slugs |-> "none"]
    /\ restarts = 0
    /\ kept = [s \in Slugs |-> {}]
    /\ late = [r \in Requests |-> FALSE] /\ behind = FALSE

-----------------------------------------------------------------------------
(* The requests *)

Goes(r, from, to) == pc[r] = from /\ pc' = [pc EXCEPT ![r] = to]

\* What memory says of the organization before the lock is asked for; the
\* OpenHack configuration does not look.
Admitted(q) ==
    CASE q.op = "register" -> ~registry[q.slug].there /\ Cardinality(q.domains) <= MaxDomains
      [] q.op = "config"   -> TRUE
      [] OTHER             -> registry[q.slug].there

Call(r) ==
    /\ Goes(r, "new", IF Admitted(ask[r]) THEN "asked" ELSE "refused")
    /\ UNCHANGED <<file, registry, lock, ask, copy, loaded, orgVars, restarts, reloadVars>>

\* Mutant of Read: the file is read without the lock.
MutRead(r) ==
    \/ /\ Promise!Fits(file, ask[r])
       /\ Goes(r, "asked", "read")
       /\ lock' = {r} /\ copy' = [copy EXCEPT ![r] = file]
       /\ UNCHANGED <<file, registry, ask, loaded, orgVars, restarts, reloadVars>>
    \/ /\ ~Promise!Fits(file, ask[r])
       /\ Goes(r, "asked", "refused")
       /\ UNCHANGED <<file, registry, lock, ask, copy, loaded, orgVars, restarts, reloadVars>>

\* Mutant of Read: that the slug is new is not looked at again under the lock.
MutReadOnce(r) ==
    \/ /\ lock = {} /\ (Promise!Fits(file, ask[r]) \/ ask[r].op = "register")
       /\ Goes(r, "asked", "read")
       /\ lock' = {r} /\ copy' = [copy EXCEPT ![r] = file]
       /\ UNCHANGED <<file, registry, ask, loaded, orgVars, restarts, reloadVars>>
    \/ /\ lock = {} /\ ~Promise!Fits(file, ask[r]) /\ ask[r].op # "register"
       /\ Goes(r, "asked", "refused")
       /\ UNCHANGED <<file, registry, lock, ask, copy, loaded, orgVars, restarts, reloadVars>>

\* The lock is taken and the file read; the request is refused, and the lock
\* released, when the file cannot be read or does not allow it.
Read(r) ==
    \/ /\ lock = {} /\ Promise!Fits(file, ask[r])
       /\ Goes(r, "asked", "read")
       /\ lock' = {r} /\ copy' = [copy EXCEPT ![r] = file]
       /\ UNCHANGED <<file, registry, ask, loaded, orgVars, restarts, reloadVars>>
    \/ /\ lock = {} /\ (Faults \/ ~Promise!Fits(file, ask[r]))
       /\ Goes(r, "asked", "refused")
       /\ UNCHANGED <<file, registry, lock, ask, copy, loaded, orgVars, restarts, reloadVars>>

\* Requests between the replacement of the file and that of REGISTRY.
Reloading == {r \in Requests : pc[r] \in {"written", "loaded"}}

\* The changed copy replaces the file and the lock is released; or the write
\* fails and the request ends in an error.
Write(r) ==
    \/ /\ Goes(r, "read", "written") /\ lock' = {}
       /\ file' = Promise!Edited(copy[r], ask[r])
       /\ late' = [x \in Requests |-> late[x] \/ pc[x] = "loaded"]
       /\ copy' = [copy EXCEPT ![r] = Empty]
       /\ UNCHANGED <<registry, ask, loaded, orgVars, restarts, behind>>
    \/ /\ Faults
       /\ Goes(r, "read", "refused") /\ lock' = {}
       /\ copy' = [copy EXCEPT ![r] = Empty]
       /\ UNCHANGED <<file, registry, ask, loaded, orgVars, restarts, reloadVars>>

\* _load_registry: a file that cannot be read is taken for an empty one.
Load(r) ==
    /\ Goes(r, "written", "loaded")
    /\ \/ loaded' = [loaded EXCEPT ![r] = file] /\ UNCHANGED late
       \/ Faults /\ loaded' = [loaded EXCEPT ![r] = Empty] /\ late' = [late EXCEPT ![r] = TRUE]
    /\ UNCHANGED <<file, registry, lock, ask, copy, orgVars, restarts, behind>>

\* Mutant of Replace: a change of the configuration does not reload.
MutReplace(r) ==
    /\ Goes(r, "loaded", IF ask[r].op = "register" THEN "made" ELSE "done")
    /\ registry' = IF ask[r].op = "config" THEN registry ELSE loaded[r]
    /\ loaded' = [loaded EXCEPT ![r] = Empty]
    /\ behind' = late[r] /\ late' = [late EXCEPT ![r] = FALSE]
    /\ UNCHANGED <<file, lock, ask, copy, orgVars, restarts>>

\* What was loaded replaces REGISTRY.
Replace(r) ==
    /\ Goes(r, "loaded", IF ask[r].op = "register" THEN "made" ELSE "done")
    /\ registry' = loaded[r]
    /\ loaded' = [loaded EXCEPT ![r] = Empty]
    /\ behind' = late[r] /\ late' = [late EXCEPT ![r] = FALSE]
    /\ UNCHANGED <<file, lock, ask, copy, orgVars, restarts>>

\* A registration leaves an empty baseline, then empty findings, and goes on when
\* either cannot be written.
MakeBaseline(r) ==
    /\ \/ Goes(r, "made", "based") /\ baseline' = [baseline EXCEPT ![ask[r].slug] = "empty"]
       \/ Faults /\ Goes(r, "made", "done") /\ UNCHANGED baseline
    /\ UNCHANGED <<file, registry, lock, ask, copy, loaded, findings, job, kept, restarts, reloadVars>>

MakeFindings(r) ==
    /\ Goes(r, "based", "done")
    /\ \/ findings' = [findings EXCEPT ![ask[r].slug] = "empty"]
       \/ Faults /\ UNCHANGED findings
    /\ UNCHANGED <<file, registry, lock, ask, copy, loaded, baseline, job, kept, restarts, reloadVars>>

-----------------------------------------------------------------------------
(* The first job of an organization, and a restart *)

Registering(r, s) ==
    ask[r].op = "register" /\ ask[r].slug = s /\ State(r) = "effective"

\* A job is accepted when memory knows the organization.
StartJob(s) ==
    /\ job[s] = "none" /\ registry[s].there
    /\ job' = [job EXCEPT ![s] = "scanning"]
    /\ UNCHANGED <<file, registry, requestVars, baseline, findings, kept, restarts, reloadVars>>

\* It replaces baseline and findings under the lock of the organization.
JobBaseline(s) ==
    /\ job[s] = "scanning" /\ job' = [job EXCEPT ![s] = "half"]
    /\ baseline' = [baseline EXCEPT ![s] = "scan"]
    /\ kept' = [kept EXCEPT ![s] =
                  IF \E r \in Requests : Registering(r, s) /\ pc[r] # "based" THEN @
                  ELSE @ \cup {"baseline"}]
    /\ UNCHANGED <<file, registry, requestVars, findings, restarts, reloadVars>>

JobFindings(s) ==
    /\ job[s] = "half" /\ job' = [job EXCEPT ![s] = "done"]
    /\ findings' = [findings EXCEPT ![s] = "scan"]
    /\ kept' = [kept EXCEPT ![s] =
                  IF \E r \in Requests : Registering(r, s) THEN @ ELSE @ \cup {"findings"}]
    /\ UNCHANGED <<file, registry, requestVars, baseline, restarts, reloadVars>>

\* Requests and jobs under way are gone, the registry is loaded from its file.
Restart ==
    /\ restarts < MaxRestarts /\ restarts' = restarts + 1
    /\ pc' = [r \in Requests |-> IF State(r) \in {"open", "effective"} THEN "lost" ELSE pc[r]]
    /\ lock' = {}
    /\ copy' = [r \in Requests |-> Empty] /\ loaded' = [r \in Requests |-> Empty]
    /\ late' = [r \in Requests |-> FALSE]
    /\ \/ registry' = file /\ behind' = FALSE
       \/ Faults /\ registry' = Empty /\ behind' = TRUE
    /\ job' = [s \in Slugs |-> IF job[s] = "done" THEN "done" ELSE "none"]
    /\ UNCHANGED <<file, ask, baseline, findings, kept>>

Next ==
    \/ \E r \in Requests : \/ Call(r) \/ Read(r) \/ Write(r) \/ Load(r) \/ Replace(r)
                           \/ MakeBaseline(r) \/ MakeFindings(r)
    \/ \E s \in Slugs : StartJob(s) \/ JobBaseline(s) \/ JobFindings(s)
    \/ Restart

Spec == Init /\ [][Next]_vars

-----------------------------------------------------------------------------
(* Properties *)

\* "locked registry read-check-write (prevents concurrent registrations losing
\* each other)" (app/main.py:1091): whatever requests overlap, fail or are cut
\* off, the registry is what the accepted ones make of it, each at once, and an
\* answer follows only a request that took effect.
ImplementsOrgs == Promise!Spec

\* When no reload is under way, memory holds what the file holds, however reloads
\* overlapped: unless the one that came last put in what it had read before the file
\* was replaced, or could not read it.
MemoryCatchesUp == Reloading = {} /\ ~behind => registry = file

\* What the first job of an organization writes stays, though it may begin while the
\* organization is being registered, others may try to register the same slug, and
\* the process may restart: the empty files of the registration replace only what the
\* job wrote when they were still to come.
ResultsStay ==
    \A s \in Slugs :
      /\ "baseline" \in kept[s] => baseline[s] = "scan"
      /\ "findings" \in kept[s] => findings[s] = "scan"
=============================================================================
