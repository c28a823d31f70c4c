--------------------------- MODULE RegistryProofs ---------------------------
(***************************************************************************)
(* Proofs about Registry, for any number of organizations, domains and     *)
(* overlapping requests, with faults or without, and any number of         *)
(* restarts.                                                               *)
(***************************************************************************)
EXTENDS Registry, TLAPS

USE DEF reloadVars

-----------------------------------------------------------------------------
(* Entries *)

LEMMA EmptyType == Empty \in Book /\ \A s \in Slugs : ~Empty[s].there
BY DEF Empty, Book, Promise!NoOrgs, Promise!Missing, Promise!Entry

LEMMA AskedType ==
    ASSUME NEW q \in Asked
    PROVE  /\ q \in Promise!Query /\ q.slug \in Slugs
           /\ q.op \in {"register", "add", "remove", "set", "config"}
           /\ q.op # "config" => q.domains \in SUBSET Domains
           /\ q.op = "config" => q.enabled \in {"keep", "on", "off"}
                                   /\ q.model \in Models \cup {"keep", "default"}
BY DEF Asked, Promise!Query

\* A request leaves an entry, and takes none away.
LEMMA EditedType ==
    ASSUME NEW m \in Book, NEW q \in Asked, Promise!Fits(m, q)
    PROVE  /\ Promise!Edited(m, q) \in Book
           /\ \A s \in Slugs : m[s].there => Promise!Edited(m, q)[s].there
<1>1. PICK e : e = m[q.slug]
  OBVIOUS
<1>2. PICK n : n = Promise!NewEntry(e, q)
  OBVIOUS
<1>3. e \in Promise!Entry /\ q.slug \in Slugs
  BY <1>1, AskedType DEF Book
<1>4. n \in Promise!Entry /\ (e.there => n.there)
  <2>1. CASE q.op = "config"
    <3>1. q.enabled \in {"keep", "on", "off"} /\ q.model \in Models \cup {"keep", "default"}
      BY <2>1, AskedType
    <3>2. n = [e EXCEPT !.enabled = IF q.enabled = "keep" THEN @ ELSE q.enabled = "on",
                        !.model = IF q.model = "keep" THEN @ ELSE q.model]
      BY <1>2, <2>1 DEF Promise!NewEntry
    <3>3. PICK on \in BOOLEAN, model \in Models \cup {"default"} :
            n = [e EXCEPT !.enabled = on, !.model = model]
      <4>1. (IF q.enabled = "keep" THEN e.enabled ELSE q.enabled = "on") \in BOOLEAN
        BY <1>3 DEF Promise!Entry
      <4>2. (IF q.model = "keep" THEN e.model ELSE q.model) \in Models \cup {"default"}
        BY <1>3, <3>1 DEF Promise!Entry
      <4> QED  BY <3>2, <4>1, <4>2
    <3> QED  BY <1>3, <3>3 DEF Promise!Entry
  <2>2. CASE q.op # "config"
    <3>1. Promise!NewDomains(e, q) \in SUBSET Domains
      BY <1>3, <2>2, AskedType DEF Promise!NewDomains, Promise!Entry
    <3>2. PICK d \in SUBSET Domains : n = [e EXCEPT !.there = TRUE, !.domains = d]
      BY <1>2, <2>2, <3>1 DEF Promise!NewEntry
    <3> QED  BY <1>3, <3>2 DEF Promise!Entry
  <2> QED  BY <2>1, <2>2
<1>5. Promise!Edited(m, q) = [m EXCEPT ![q.slug] = n]
  BY <1>1, <1>2 DEF Promise!Edited
<1> QED  BY <1>1, <1>3, <1>4, <1>5 DEF Book

-----------------------------------------------------------------------------
(* The invariant *)

\* What a request holds: the lock and the file while it is between reading and
\* writing, and nothing that the file does not have.
Holding(r) ==
    /\ lock = {r} <=> pc[r] = "read"
    /\ pc[r] = "read" => copy[r] = file /\ Promise!Fits(file, ask[r])
    /\ pc[r] \in {"made", "based"} => ask[r].op = "register"
    /\ \A s \in Slugs : loaded[r][s].there => file[s].there

\* A reload that was not overtaken has what the file has, and the last one to
\* replace memory, if it was none of the late ones, left that there.
Fresh ==
    /\ \A r \in Requests : pc[r] = "loaded" /\ ~late[r] => loaded[r] = file
    /\ Reloading = {} /\ ~behind => registry = file

\* An organization with a job or results is in the file, so that no registration
\* of it begins; one under way has passed the files that are kept.
Undisturbed(s) ==
    /\ registry[s].there \/ job[s] # "none" \/ kept[s] # {} => file[s].there
    /\ "baseline" \in kept[s] =>
         baseline[s] = "scan" /\ \A r \in Requests : Registering(r, s) => pc[r] = "based"
    /\ "findings" \in kept[s] =>
         findings[s] = "scan" /\ \A r \in Requests : ~Registering(r, s)

Inv ==
    /\ TypeOK
    /\ \A r \in Requests : Holding(r)
    /\ Fresh
    /\ \A s \in Slugs : Undisturbed(s)

LEMMA InitInv == Init => Inv
<1> SUFFICES ASSUME Init PROVE Inv
  OBVIOUS
<1>1. TypeOK
  BY EmptyType DEF Init, TypeOK, Phase
<1>2. ASSUME NEW r \in Requests PROVE Holding(r)
  BY EmptyType DEF Init, Holding
<1>3. Fresh
  BY DEF Init, Fresh, Reloading
<1>4. ASSUME NEW s \in Slugs PROVE Undisturbed(s)
  BY EmptyType DEF Init, Undisturbed
<1> QED  BY <1>1, <1>2, <1>3, <1>4 DEF Inv

\* What a step of one request that leaves file and memory alone must keep.
LEMMA MoveInv ==
    ASSUME Inv, NEW r \in Requests, NEW to \in Phase,
           pc' = [pc EXCEPT ![r] = to],
           pc[r] \notin {"read", "written", "loaded"},
           to \in {"asked", "based", "done", "refused"},
           to = "based" => pc[r] = "made",
           UNCHANGED <<file, registry, lock, ask, copy, loaded, job, kept, restarts, reloadVars>>,
           baseline' \in [Slugs -> {"none", "empty", "scan"}],
           findings' \in [Slugs -> {"none", "empty", "scan"}],
           \A s \in Slugs : ~Registering(r, s) => baseline'[s] = baseline[s] /\ findings'[s] = findings[s],
           pc[r] = "based" => UNCHANGED baseline
    PROVE  Inv'
<1>1. TypeOK'
  BY DEF Inv, TypeOK
<1>2. pc'[r] = to /\ \A x \in Requests \ {r} : pc'[x] = pc[x]
  BY DEF Inv, TypeOK
<1>3. ASSUME NEW x \in Requests PROVE Holding(x)'
  <2>1. Promise!Fits(file, ask[x])' <=> Promise!Fits(file, ask[x])
    BY DEF Promise!Fits, Promise!NewDomains
  <2> QED  BY <1>2, <2>1 DEF Inv, Holding
<1>4. Fresh'
  <2>1. Reloading' = Reloading
    BY <1>2 DEF Reloading
  <2> QED  BY <1>2, <2>1 DEF Inv, Fresh
<1>5. ASSUME NEW s \in Slugs PROVE Undisturbed(s)'
  <2>1. Undisturbed(s)
    BY DEF Inv
  <2>2. \A x \in Requests : Registering(x, s)' => /\ Registering(x, s)
                                                  /\ pc[x] = "based" => pc'[x] = "based"
    BY <1>2 DEF Registering, State
  <2>3. "baseline" \in kept[s] => baseline'[s] = baseline[s]
    BY <2>1 DEF Undisturbed
  <2>4. "findings" \in kept[s] => findings'[s] = findings[s]
    BY <2>1 DEF Undisturbed
  <2> QED  BY <2>1, <2>2, <2>3, <2>4 DEF Undisturbed
<1> QED  BY <1>1, <1>3, <1>4, <1>5 DEF Inv

LEMMA CallInv ==
    ASSUME Inv, NEW r \in Requests, Call(r)
    PROVE  Inv'
<1>1. PICK to \in {"asked", "refused"} : pc' = [pc EXCEPT ![r] = to]
  BY DEF Call, Goes
<1> QED  BY <1>1, MoveInv DEF Call, Goes, orgVars, Inv, TypeOK, Phase

LEMMA ReadInv ==
    ASSUME Inv, NEW r \in Requests, Read(r)
    PROVE  Inv'
<1>1. CASE Goes(r, "asked", "refused") /\ UNCHANGED <<file, registry, lock, ask, copy, loaded, orgVars, restarts, reloadVars>>
  BY <1>1, MoveInv DEF Goes, orgVars, Inv, TypeOK, Phase
<1>2. CASE /\ lock = {} /\ Promise!Fits(file, ask[r])
           /\ Goes(r, "asked", "read")
           /\ lock' = {r} /\ copy' = [copy EXCEPT ![r] = file]
           /\ UNCHANGED <<file, registry, ask, loaded, orgVars, restarts, reloadVars>>
  <2>1. /\ pc[r] = "asked" /\ pc'[r] = "read" /\ copy'[r] = file
        /\ \A x \in Requests \ {r} : pc'[x] = pc[x] /\ copy'[x] = copy[x]
    BY <1>2 DEF Goes, Inv, TypeOK
  <2>2. TypeOK'
    BY <1>2 DEF Goes, Inv, TypeOK, Phase, orgVars
  <2>3. ASSUME NEW x \in Requests PROVE Holding(x)'
    <3>1. Promise!Fits(file, ask[x])' <=> Promise!Fits(file, ask[x])
      BY <1>2 DEF Promise!Fits, Promise!NewDomains
    <3>2. x # r => pc[x] # "read"
      BY <1>2 DEF Inv, Holding
    <3> QED  BY <1>2, <2>1, <3>1, <3>2 DEF Inv, Holding
  <2>4. Fresh'
    <3>1. Reloading' = Reloading
      BY <2>1 DEF Reloading
    <3> QED  BY <1>2, <2>1, <3>1 DEF Inv, Fresh
  <2>5. ASSUME NEW s \in Slugs PROVE Undisturbed(s)'
    <3>1. \A x \in Requests :
            Registering(x, s)' => Registering(x, s) /\ (pc[x] = "based" => pc'[x] = "based")
      BY <1>2, <2>1 DEF Registering, State
    <3> QED  BY <1>2, <3>1 DEF Inv, Undisturbed, orgVars
  <2> QED  BY <2>2, <2>3, <2>4, <2>5 DEF Inv
<1> QED  BY <1>1, <1>2 DEF Read

LEMMA WriteInv ==
    ASSUME Inv, NEW r \in Requests, Write(r)
    PROVE  Inv'
<1>0. /\ pc[r] = "read" /\ lock = {r} /\ copy[r] = file /\ Promise!Fits(file, ask[r])
      /\ file \in Book /\ ask[r] \in Asked
  BY DEF Write, Goes, Inv, Holding, TypeOK
<1>1. CASE /\ Goes(r, "read", "written") /\ lock' = {}
           /\ file' = Promise!Edited(copy[r], ask[r])
           /\ late' = [x \in Requests |-> late[x] \/ pc[x] = "loaded"]
           /\ copy' = [copy EXCEPT ![r] = Empty]
           /\ UNCHANGED <<registry, ask, loaded, orgVars, restarts, behind>>
  <2>1. /\ pc'[r] = "written"
        /\ \A x \in Requests \ {r} : pc'[x] = pc[x] /\ copy'[x] = copy[x]
    BY <1>1 DEF Goes, Inv, TypeOK
  <2>2. file' \in Book /\ \A s \in Slugs : file[s].there => file'[s].there
    BY <1>0, <1>1, EditedType
  <2>3. TypeOK'
    BY <1>1, <2>2, EmptyType DEF Goes, Inv, TypeOK, Phase, orgVars
  <2>4. ASSUME NEW x \in Requests PROVE Holding(x)'
    <3>1. x # r => pc[x] # "read"
      BY <1>0 DEF Inv, Holding
    <3> QED  BY <1>1, <2>1, <2>2, <3>1 DEF Inv, Holding
  <2>5. Fresh'
    <3>1. Reloading' = Reloading \cup {r}
      BY <1>0, <2>1 DEF Reloading
    <3> QED  BY <1>1, <2>1, <3>1 DEF Fresh, Reloading
  <2>6. ASSUME NEW s \in Slugs PROVE Undisturbed(s)'
    <3>1. Undisturbed(s)
      BY DEF Inv
    <3>2. ASSUME NEW x \in Requests, Registering(x, s)'
          PROVE  \/ kept[s] = {}
                 \/ Registering(x, s) /\ (pc[x] = "based" => pc'[x] = "based")
      <4>1. CASE x = r
        <5>1. ask[r].op = "register" /\ ask[r].slug = s
          BY <1>1, <3>2, <4>1 DEF Registering
        <5>2. ~file[s].there
          BY <1>0, <5>1 DEF Promise!Fits
        <5> QED  BY <3>1, <5>2 DEF Undisturbed
      <4>2. CASE x # r
        BY <1>1, <2>1, <3>2, <4>2 DEF Registering, State
      <4> QED  BY <4>1, <4>2
    <3> QED  BY <1>1, <2>2, <3>1, <3>2 DEF Undisturbed, orgVars
  <2> QED  BY <2>3, <2>4, <2>5, <2>6 DEF Inv
<1>2. CASE /\ Goes(r, "read", "refused") /\ lock' = {}
           /\ copy' = [copy EXCEPT ![r] = Empty]
           /\ UNCHANGED <<file, registry, ask, loaded, orgVars, restarts, reloadVars>>
  <2>1. /\ pc'[r] = "refused"
        /\ \A x \in Requests \ {r} : pc'[x] = pc[x] /\ copy'[x] = copy[x]
    BY <1>2 DEF Goes, Inv, TypeOK
  <2>2. TypeOK'
    BY <1>2, EmptyType DEF Goes, Inv, TypeOK, Phase, orgVars
  <2>3. ASSUME NEW x \in Requests PROVE Holding(x)'
    <3>1. x # r => pc[x] # "read"
      BY <1>0 DEF Inv, Holding
    <3> QED  BY <1>2, <2>1, <3>1 DEF Inv, Holding
  <2>4. Fresh'
    <3>1. Reloading' = Reloading
      BY <1>0, <2>1 DEF Reloading
    <3> QED  BY <1>2, <2>1, <3>1 DEF Inv, Fresh
  <2>5. ASSUME NEW s \in Slugs PROVE Undisturbed(s)'
    <3>1. \A x \in Requests :
            Registering(x, s)' => Registering(x, s) /\ (pc[x] = "based" => pc'[x] = "based")
      BY <1>2, <2>1 DEF Registering, State
    <3> QED  BY <1>2, <3>1 DEF Inv, Undisturbed, orgVars
  <2> QED  BY <2>2, <2>3, <2>4, <2>5 DEF Inv
<1> QED  BY <1>1, <1>2 DEF Write

-----------------------------------------------------------------------------
(* Reloads, and the files of a new organization *)

LEMMA LoadInv ==
    ASSUME Inv, NEW r \in Requests, Load(r)
    PROVE  Inv'
<1>0. TypeOK
  BY DEF Inv
<1>1. /\ pc[r] = "written" /\ pc'[r] = "loaded"
      /\ \A x \in Requests \ {r} : pc'[x] = pc[x] /\ loaded'[x] = loaded[x]
      /\ UNCHANGED <<file, registry, lock, ask, copy, baseline, findings, job, kept, restarts>>
  <2>1. pc[r] = "written" /\ pc' = [pc EXCEPT ![r] = "loaded"]
    BY DEF Load, Goes
  <2>2. \E m : loaded' = [loaded EXCEPT ![r] = m]
    BY DEF Load
  <2>3. UNCHANGED <<file, registry, lock, ask, copy, baseline, findings, job, kept, restarts>>
    BY DEF Load, orgVars
  <2> QED  BY <1>0, <2>1, <2>2, <2>3 DEF TypeOK
<1>2. /\ behind' = behind
      /\ \/ loaded' = [loaded EXCEPT ![r] = file] /\ late' = late
         \/ loaded' = [loaded EXCEPT ![r] = Empty] /\ late' = [late EXCEPT ![r] = TRUE]
  BY DEF Load
<1>3. TypeOK'
  <2>1. pc' \in [Requests -> Phase]
    BY <1>0 DEF Load, Goes, TypeOK, Phase
  <2>2. loaded' \in [Requests -> Book]
    BY <1>0, <1>2, EmptyType DEF TypeOK
  <2>3. late' \in [Requests -> BOOLEAN]
    BY <1>0, <1>2 DEF TypeOK
  <2> QED  BY <1>0, <1>1, <1>2, <2>1, <2>2, <2>3 DEF TypeOK
<1>4. ASSUME NEW x \in Requests PROVE Holding(x)'
  <2>1. Promise!Fits(file, ask[x])' <=> Promise!Fits(file, ask[x])
    BY <1>1 DEF Promise!Fits, Promise!NewDomains
  <2>2. \A s \in Slugs : loaded'[x][s].there => file[s].there
    BY <1>0, <1>2, EmptyType DEF TypeOK, Inv, Holding
  <2> QED  BY <1>1, <2>1, <2>2 DEF Inv, Holding
<1>5. Fresh'
  <2>1. Reloading' = Reloading /\ r \in Reloading
    BY <1>1 DEF Reloading
  <2>2. /\ loaded'[r] = file \/ late'[r]
        /\ \A x \in Requests \ {r} : late'[x] = late[x]
    <3>1. CASE late' = late
      BY <1>0, <1>2, <3>1 DEF TypeOK
    <3>2. CASE late' # late
      BY <1>0, <1>2, <3>2 DEF TypeOK
    <3> QED  BY <3>1, <3>2
  <2> QED  BY <1>1, <1>2, <2>1, <2>2 DEF Inv, Fresh
<1>6. ASSUME NEW s \in Slugs PROVE Undisturbed(s)'
  <2>1. \A x \in Requests :
          Registering(x, s)' => Registering(x, s) /\ (pc[x] = "based" => pc'[x] = "based")
    BY <1>1 DEF Registering, State
  <2> QED  BY <1>1, <2>1 DEF Inv, Undisturbed
<1> QED  BY <1>3, <1>4, <1>5, <1>6 DEF Inv

LEMMA ReplaceInv ==
    ASSUME Inv, NEW r \in Requests, Replace(r)
    PROVE  Inv'
<1>1. /\ pc[r] = "loaded" /\ pc'[r] \in {"made", "done"}
      /\ pc'[r] = "made" => ask[r].op = "register"
      /\ loaded'[r] = Empty /\ registry' = loaded[r]
      /\ \A x \in Requests \ {r} : pc'[x] = pc[x] /\ loaded'[x] = loaded[x]
      /\ behind' = late[r] /\ \A x \in Requests \ {r} : late'[x] = late[x]
      /\ UNCHANGED <<file, lock, ask, copy, baseline, findings, job, kept, restarts>>
  BY DEF Replace, Goes, Inv, TypeOK, orgVars
<1>2. TypeOK'
  BY EmptyType DEF Replace, Goes, Inv, TypeOK, Phase, orgVars
<1>3. ASSUME NEW x \in Requests PROVE Holding(x)'
  <2>1. Promise!Fits(file, ask[x])' <=> Promise!Fits(file, ask[x])
    BY <1>1 DEF Promise!Fits, Promise!NewDomains
  <2>2. \A s \in Slugs : loaded'[x][s].there => file[s].there
    BY <1>1, EmptyType DEF Inv, Holding
  <2> QED  BY <1>1, <2>1, <2>2 DEF Inv, Holding
<1>4. Fresh'
  <2>1. Reloading' = Reloading \ {r} /\ r \in Reloading
    BY <1>1 DEF Reloading
  <2> QED  BY <1>1, <2>1 DEF Inv, Fresh
<1>5. ASSUME NEW s \in Slugs PROVE Undisturbed(s)'
  <2>1. \A x \in Requests :
          Registering(x, s)' => Registering(x, s) /\ (pc[x] = "based" => pc'[x] = "based")
    BY <1>1 DEF Registering, State
  <2>2. registry'[s].there => file[s].there
    BY <1>1 DEF Inv, Holding
  <2> QED  BY <1>1, <2>1, <2>2 DEF Inv, Undisturbed
<1> QED  BY <1>2, <1>3, <1>4, <1>5 DEF Inv

LEMMA MakeBaselineInv ==
    ASSUME Inv, NEW r \in Requests, MakeBaseline(r)
    PROVE  Inv'
<1>1. PICK to \in {"based", "done"} : pc' = [pc EXCEPT ![r] = to]
  BY DEF MakeBaseline, Goes
<1>2. /\ pc[r] = "made" /\ ask[r].op = "register" /\ State(r) = "effective"
      /\ UNCHANGED <<file, registry, lock, ask, copy, loaded, findings, job, kept, restarts, reloadVars>>
  BY DEF MakeBaseline, Goes, Inv, Holding, State
<1>3. /\ baseline' \in [Slugs -> {"none", "empty", "scan"}]
      /\ \A s \in Slugs : ~Registering(r, s) => baseline'[s] = baseline[s]
  BY <1>2 DEF MakeBaseline, Registering, Inv, TypeOK
<1> QED  BY <1>1, <1>2, <1>3, MoveInv DEF Inv, TypeOK, Phase

LEMMA MakeFindingsInv ==
    ASSUME Inv, NEW r \in Requests, MakeFindings(r)
    PROVE  Inv'
<1>1. /\ pc' = [pc EXCEPT ![r] = "done"]
      /\ pc[r] = "based" /\ ask[r].op = "register" /\ State(r) = "effective"
      /\ UNCHANGED <<file, registry, lock, ask, copy, loaded, baseline, job, kept, restarts, reloadVars>>
  BY DEF MakeFindings, Goes, Inv, Holding, State
<1>2. /\ findings' \in [Slugs -> {"none", "empty", "scan"}]
      /\ \A s \in Slugs : ~Registering(r, s) => findings'[s] = findings[s]
  BY <1>1 DEF MakeFindings, Registering, Inv, TypeOK
<1> QED  BY <1>1, <1>2, MoveInv DEF Inv, TypeOK, Phase

-----------------------------------------------------------------------------
(* Jobs, and a restart *)

\* A job leaves requests, file and memory alone.
LEMMA JobInv ==
    ASSUME Inv, NEW s \in Slugs, StartJob(s) \/ JobBaseline(s) \/ JobFindings(s)
    PROVE  Inv'
<1>1. UNCHANGED <<file, registry, lock, pc, ask, copy, loaded, restarts, reloadVars>>
  BY DEF StartJob, JobBaseline, JobFindings, requestVars
<1>2. TypeOK'
  BY DEF StartJob, JobBaseline, JobFindings, requestVars, Inv, TypeOK
<1>3. ASSUME NEW x \in Requests PROVE Holding(x)'
  <2>1. Promise!Fits(file, ask[x])' <=> Promise!Fits(file, ask[x])
    BY <1>1 DEF Promise!Fits, Promise!NewDomains
  <2> QED  BY <1>1, <2>1 DEF Inv, Holding
<1>4. Fresh'
  BY <1>1 DEF Inv, Fresh, Reloading
<1>5. ASSUME NEW z \in Slugs PROVE Undisturbed(z)'
  <2>1. \A x \in Requests : Registering(x, z)' <=> Registering(x, z)
    BY <1>1 DEF Registering, State
  <2>2. CASE z # s
    BY <1>1, <2>1, <2>2 DEF StartJob, JobBaseline, JobFindings, Inv, TypeOK, Undisturbed
  <2>3. CASE z = s /\ StartJob(s)
    BY <1>1, <2>1, <2>3 DEF StartJob, Inv, TypeOK, Undisturbed
  <2>4. CASE z = s /\ JobBaseline(s)
    BY <1>1, <2>1, <2>4 DEF JobBaseline, Inv, TypeOK, Undisturbed
  <2>5. CASE z = s /\ JobFindings(s)
    BY <1>1, <2>1, <2>5 DEF JobFindings, Inv, TypeOK, Undisturbed
  <2> QED  BY <2>2, <2>3, <2>4, <2>5
<1> QED  BY <1>2, <1>3, <1>4, <1>5 DEF Inv

LEMMA RestartInv == Inv /\ Restart => Inv'
<1> SUFFICES ASSUME Inv, Restart PROVE Inv'
  OBVIOUS
<1>1. /\ pc' = [r \in Requests |-> IF State(r) \in {"open", "effective"} THEN "lost" ELSE pc[r]]
      /\ lock' = {} /\ loaded' = [r \in Requests |-> Empty] /\ copy' = [r \in Requests |-> Empty]
      /\ job' = [s \in Slugs |-> IF job[s] = "done" THEN "done" ELSE "none"]
      /\ UNCHANGED <<file, ask, baseline, findings, kept>>
  BY DEF Restart
<1>2. \/ registry' = file /\ behind' = FALSE
      \/ registry' = Empty /\ behind' = TRUE
  BY DEF Restart
<1>3. \A r \in Requests : pc'[r] \in {"new", "done", "refused", "lost"}
  BY <1>1 DEF State, Inv, TypeOK, Phase
<1>4. TypeOK'
  <2>1. pc' \in [Requests -> Phase]
    BY <1>1, <1>3 DEF Phase
  <2>2. job' \in [Slugs -> {"none", "scanning", "half", "done"}]
    BY <1>1
  <2>3. restarts' \in Nat
    BY DEF Inv, TypeOK, Restart
  <2>4. registry' \in Book /\ copy' \in [Requests -> Book] /\ loaded' \in [Requests -> Book]
    BY <1>1, <1>2, EmptyType DEF Inv, TypeOK
  <2>5. behind' \in BOOLEAN /\ late' \in [Requests -> BOOLEAN]
    BY <1>2 DEF Restart
  <2> QED  BY <1>1, <2>1, <2>2, <2>3, <2>4, <2>5 DEF Inv, TypeOK
<1>5. ASSUME NEW r \in Requests PROVE Holding(r)'
  BY <1>1, <1>3, EmptyType DEF Holding
<1>6. Fresh'
  BY <1>2, <1>3, <1>1 DEF Fresh, Reloading
<1>7. ASSUME NEW s \in Slugs PROVE Undisturbed(s)'
  <2>1. \A r \in Requests : ~Registering(r, s)'
    BY <1>3 DEF Registering, State
  <2> QED  BY <1>1, <1>2, <2>1, EmptyType DEF Inv, Undisturbed
<1> QED  BY <1>4, <1>5, <1>6, <1>7 DEF Inv

LEMMA StepInv == Inv /\ [Next]_vars => Inv'
<1> SUFFICES ASSUME Inv, [Next]_vars PROVE Inv'
  OBVIOUS
<1>1. CASE UNCHANGED vars
  <2>1. TypeOK' /\ Fresh'
    BY <1>1 DEF vars, requestVars, orgVars, Inv, TypeOK, Fresh, Reloading
  <2>2. ASSUME NEW r \in Requests PROVE Holding(r)'
    <3>1. Promise!Fits(file, ask[r])' <=> Promise!Fits(file, ask[r])
      BY <1>1 DEF vars, requestVars, Promise!Fits, Promise!NewDomains
    <3> QED  BY <1>1, <3>1 DEF vars, requestVars, Inv, Holding
  <2>3. ASSUME NEW s \in Slugs PROVE Undisturbed(s)'
    BY <1>1 DEF vars, requestVars, orgVars, Inv, Undisturbed, Registering, State
  <2> QED  BY <2>1, <2>2, <2>3 DEF Inv
<1> QED  BY <1>1, CallInv, ReadInv, WriteInv, LoadInv, ReplaceInv, MakeBaselineInv, MakeFindingsInv,
            JobInv, RestartInv DEF Next

\* Lock, copies, file and memory are related as requests, jobs and restarts need it.
THEOREM Invariance == Spec => []Inv
BY InitInv, StepInv, PTL DEF Spec

\* The variables of the registry stay within their types.
THEOREM Typed == Spec => []TypeOK
<1>1. Inv => TypeOK
  BY DEF Inv
<1> QED  BY <1>1, Invariance, PTL

\* Memory holds what the file holds whenever no reload is under way, however many
\* overlapped, unless the last was overtaken by a change or failed.
THEOREM MemoryFollowsFile == Spec => []MemoryCatchesUp
<1>1. Inv => MemoryCatchesUp
  BY DEF Inv, Fresh, MemoryCatchesUp
<1> QED  BY <1>1, Invariance, PTL

\* What the first job of an organization writes when its registration has passed
\* that file is never replaced by an empty one.
THEOREM FirstResultsStay == Spec => []ResultsStay
<1>1. Inv => ResultsStay
  BY DEF Inv, Undisturbed, ResultsStay
<1> QED  BY <1>1, Invariance, PTL

-----------------------------------------------------------------------------
(* The refinement *)

\* How far a request is, in Orgs.
Stage(p) ==
    CASE p \in {"asked", "read"} -> "open"
      [] p \in {"written", "loaded", "made", "based"} -> "effective"
      [] p = "done" -> "answered"
      [] OTHER -> p

Stages == [r \in Requests |-> State(r)]

LEMMA OneMoves ==
    ASSUME TypeOK, NEW r \in Requests, NEW to \in Phase, pc' = [pc EXCEPT ![r] = to]
    PROVE  /\ Stages' = [Stages EXCEPT ![r] = Stage(to)]
           /\ Stages[r] = Stage(pc[r])
           /\ Stage(to) = Stage(pc[r]) => Stages' = Stages
<1>1. \A x \in Requests : State(x) = Stage(pc[x]) /\ State(x)' = Stage(pc'[x])
  BY DEF State, Stage
<1>2. pc'[r] = to /\ \A x \in Requests \ {r} : pc'[x] = pc[x]
  BY DEF TypeOK
<1>3. Stages' = [x \in Requests |-> State(x)']
  BY DEF Stages
<1> QED  BY <1>1, <1>2, <1>3 DEF Stages

\* One request that moves makes the step of Orgs its stage says, or none.
LEMMA MoveRefines ==
    ASSUME TypeOK, NEW r \in Requests, NEW to \in Phase, pc' = [pc EXCEPT ![r] = to],
           UNCHANGED <<file, ask>>,
           \/ Stage(to) = Stage(pc[r])
           \/ Stage(pc[r]) = "new" /\ Stage(to) = "open"
           \/ Stage(pc[r]) \in {"new", "open"} /\ Stage(to) = "refused"
           \/ Stage(pc[r]) = "effective" /\ Stage(to) = "answered"
    PROVE  [Promise!Next]_(Promise!vars)
<1>1. CASE Stage(to) = Stage(pc[r])
  BY <1>1, OneMoves DEF Promise!vars, Stages
<1>2. CASE Stage(pc[r]) = "new" /\ Stage(to) = "open"
  <2>1. Promise!Open(r)
    BY <1>2, OneMoves DEF Promise!Open, Promise!Goes, Stages
  <2> QED  BY <2>1 DEF Promise!Next
<1>3. CASE Stage(pc[r]) \in {"new", "open"} /\ Stage(to) = "refused"
  <2>1. Promise!Refuse(r)
    BY <1>3, OneMoves DEF Promise!Refuse, Promise!Goes, Stages
  <2> QED  BY <2>1 DEF Promise!Next
<1>4. CASE Stage(pc[r]) = "effective" /\ Stage(to) = "answered"
  <2>1. Promise!Answer(r)
    BY <1>4, OneMoves DEF Promise!Answer, Promise!Goes, Stages
  <2> QED  BY <2>1 DEF Promise!Next
<1> QED  BY <1>1, <1>2, <1>3, <1>4

LEMMA RequestRefines ==
    ASSUME Inv, NEW r \in Requests,
           Call(r) \/ Read(r) \/ Load(r) \/ Replace(r) \/ MakeBaseline(r) \/ MakeFindings(r)
    PROVE  [Promise!Next]_(Promise!vars)
<1>1. UNCHANGED <<file, ask>> /\ TypeOK
  BY DEF Call, Read, Load, Replace, MakeBaseline, MakeFindings, Inv
<1>2. \E to \in Phase :
        /\ pc' = [pc EXCEPT ![r] = to]
        /\ \/ Stage(to) = Stage(pc[r])
           \/ Stage(pc[r]) = "new" /\ Stage(to) = "open"
           \/ Stage(pc[r]) \in {"new", "open"} /\ Stage(to) = "refused"
           \/ Stage(pc[r]) = "effective" /\ Stage(to) = "answered"
  <2>1. CASE Call(r)
    BY <2>1 DEF Call, Goes, Stage, Phase
  <2>2. CASE Read(r)
    BY <2>2 DEF Read, Goes, Stage, Phase
  <2>3. CASE Load(r)
    BY <2>3 DEF Load, Goes, Stage, Phase
  <2>4. CASE Replace(r)
    BY <2>4 DEF Replace, Goes, Stage, Phase
  <2>5. CASE MakeBaseline(r)
    BY <2>5 DEF MakeBaseline, Goes, Stage, Phase
  <2>6. CASE MakeFindings(r)
    BY <2>6 DEF MakeFindings, Goes, Stage, Phase
  <2> QED  BY <2>1, <2>2, <2>3, <2>4, <2>5, <2>6
<1> QED  BY <1>1, <1>2, MoveRefines

LEMMA WriteRefines ==
    ASSUME Inv, NEW r \in Requests, Write(r)
    PROVE  [Promise!Next]_(Promise!vars)
<1>1. TypeOK /\ pc[r] = "read" /\ copy[r] = file /\ Promise!Fits(file, ask[r])
  BY DEF Write, Goes, Inv, Holding
<1>2. CASE Goes(r, "read", "refused") /\ UNCHANGED <<file, ask>>
  BY <1>1, <1>2, MoveRefines DEF Goes, Stage, Phase
<1>3. CASE /\ Goes(r, "read", "written") /\ UNCHANGED ask
           /\ file' = Promise!Edited(copy[r], ask[r])
  <2>1. Stages[r] = "open" /\ Stages' = [Stages EXCEPT ![r] = "effective"]
    BY <1>1, <1>3, OneMoves DEF Goes, Stage, Phase
  <2>2. Promise!TakeEffect(r)
    BY <1>1, <1>3, <2>1 DEF Promise!TakeEffect, Promise!Goes, Stages
  <2> QED  BY <2>2 DEF Promise!Next
<1> QED  BY <1>2, <1>3 DEF Write

LEMMA RestartRefines == Inv /\ Restart => Promise!Restart
<1> SUFFICES ASSUME Inv, Restart PROVE Promise!Restart
  OBVIOUS
<1>1. Stages' = [r \in Requests |-> State(r)']
  BY DEF Stages
<1>2. ASSUME NEW r \in Requests
      PROVE  State(r)' = IF State(r) \in {"open", "effective"} THEN "lost" ELSE State(r)
  <2>1. pc'[r] = IF State(r) \in {"open", "effective"} THEN "lost" ELSE pc[r]
    BY DEF Restart
  <2> QED  BY <2>1 DEF State
<1>3. Stages' = [r \in Requests |-> IF Stages[r] \in {"open", "effective"} THEN "lost" ELSE Stages[r]]
  BY <1>1, <1>2 DEF Stages
<1> QED  BY <1>3 DEF Promise!Restart, Restart, Stages

LEMMA AsideRefines ==
    ASSUME UNCHANGED <<file, pc, ask>>
    PROVE  UNCHANGED Promise!vars
<1>1. \A r \in Requests : State(r)' = State(r)
  BY DEF State
<1> QED  BY <1>1 DEF Promise!vars

\* The registry is one map, and each accepted request changes it once, at one
\* moment between its call and its answer: no two lose each other's change.
THEOREM RegistryImplementsOrgs == Spec => ImplementsOrgs
<1>1. Init => Promise!Init
  BY DEF Init, Promise!Init, Empty, Asked, State
<1>2. Inv /\ [Next]_vars => [Promise!Next]_(Promise!vars)
  <2> SUFFICES ASSUME Inv, [Next]_vars PROVE [Promise!Next]_(Promise!vars)
    OBVIOUS
  <2>1. ASSUME NEW s \in Slugs, StartJob(s) \/ JobBaseline(s) \/ JobFindings(s)
        PROVE  UNCHANGED Promise!vars
    BY <2>1, AsideRefines DEF StartJob, JobBaseline, JobFindings, requestVars
  <2>2. CASE UNCHANGED vars
    BY <2>2, AsideRefines DEF vars, requestVars
  <2>3. CASE Restart
    BY <2>3, RestartRefines DEF Promise!Next
  <2> QED  BY <2>1, <2>2, <2>3, RequestRefines, WriteRefines DEF Next
<1> QED  BY <1>1, <1>2, Invariance, PTL DEF Spec, ImplementsOrgs, Promise!Spec
=============================================================================
