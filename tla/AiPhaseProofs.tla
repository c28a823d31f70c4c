---------------------------- MODULE AiPhaseProofs ----------------------------
(***************************************************************************)
(* Proofs about Profiles and AiPhase: first the profiles by themselves,    *)
(* for any number of profiles, organizations and overlapping requests,     *)
(* with reads and writes that fail or not; then an AI stage beside the     *)
(* requests, for any number of batches and threads, any deadline and caps. *)
(***************************************************************************)
EXTENDS AiPhase, FiniteSetTheorems, TLAPS

\* A request names what its operation needs.
LEMMA AskedType ==
    ASSUME NEW q \in Asked
    PROVE  /\ q \in Query
           /\ q.op \in {"save", "delete", "default", "choose"}
           /\ q.op \in {"save", "delete", "default"} => q.name \in Names
           /\ q.op = "save" => q.text \in Texts
           /\ q.op = "choose" => q.names \in SUBSET Names /\ q.org \in Orgs
BY DEF Asked, Query

\* What may be written after a sound configuration was read is one, and is sound.
LEMMA ChangedSound ==
    ASSUME NEW c \in Config, Sound(c), NEW q \in Asked, q.op # "choose", Allowed(c, q),
           NEW e \in Changed(c, q)
    PROVE  e \in Config /\ Sound(e)
<1>1. q.op \in {"save", "delete", "default"} /\ q.name \in Names
  BY AskedType
<1>2. CASE q.op = "save"
  <2>1. q.text \in Texts
    BY <1>2, AskedType
  <2>2. e = Saved(c, q)
    BY <1>2 DEF Changed
  <2>3. e \in Config
    BY <1>1, <2>1, <2>2 DEF Saved, Config
  <2>4. Named(e) = Named(c) \cup {q.name}
    BY <1>1, <2>1, <2>2 DEF Saved, Named, Config
  <2>5. \E n \in Named(e) : e.default = {n}
    BY <2>2, <2>4 DEF Saved, Sound, Config
  <2> QED  BY <2>3, <2>5 DEF Sound
<1>3. CASE q.op = "delete"
  <2> DEFINE n == q.name
  <2>1. n \in Named(c) /\ Cardinality(Named(c)) > 1
    BY <1>3 DEF Allowed, Deletable
  <2>2. PICK d \in IF c.default = {n} THEN {{x} : x \in Named(c) \ {n}} ELSE {c.default} :
          e = [profiles |-> Without(c, n), default |-> d]
    BY <1>3 DEF Changed, Deleted
  <2>3. Named(e) = Named(c) \ {n}
    BY <1>1, <2>2 DEF Named, Without, Config
  <2>4. Named(c) # {n}
    <3>1. SUFFICES ASSUME Named(c) = {n} PROVE FALSE
      OBVIOUS
    <3>2. Cardinality({n}) = 1
      BY FS_Singleton
    <3> QED  BY <2>1, <3>1, <3>2
  <2>5. \E x \in Named(c) \ {n} : d = {x}
    <3>1. CASE c.default = {n}
      BY <2>2, <3>1
    <3>2. CASE c.default # {n}
      <4>1. PICK m \in Named(c) : c.default = {m}
        BY <2>1 DEF Sound
      <4> QED  BY <2>2, <3>2, <4>1
    <3> QED  BY <3>1, <3>2
  <2>6. d \in SUBSET Names
    BY <2>5 DEF Named
  <2>7. e \in Config
    BY <1>1, <2>2, <2>6 DEF Without, Config
  <2> QED  BY <2>2, <2>3, <2>5, <2>7 DEF Sound
<1>4. CASE q.op = "default"
  <2>1. q.name \in Named(c) /\ e = [c EXCEPT !.default = {q.name}]
    BY <1>4 DEF Allowed, Changed
  <2> QED  BY <1>1, <2>1 DEF Sound, Named, Config
<1> QED  BY <1>1, <1>2, <1>3, <1>4

LEMMA NoConfigSound == NoConfig \in Config /\ Sound(NoConfig)
<1>1. NoConfig \in Config
  BY DEF NoConfig, Config
<1>2. Named(NoConfig) = {}
  BY DEF NoConfig, Named
<1> QED  BY <1>1, <1>2 DEF Sound, NoConfig

-----------------------------------------------------------------------------
(* The invariant *)

\* Who holds the lock is between reading and writing the choices; what was read is
\* sound, allows what was asked for, and is still there but for what others changed.
Reading(r) ==
    /\ lock = {r} <=> pc[r] = "read" /\ ask[r].op = "choose"
    /\ pc[r] = "checked" => ask[r].op = "choose"
    /\ pc[r] = "read" /\ ask[r].op # "choose" =>
         /\ Sound(copy[r]) /\ Allowed(copy[r], ask[r])
         /\ \A n \in Names \ crossed[r] : copy[r].profiles[n] = config.profiles[n]
         /\ r \notin moved => copy[r].default = config.default
    /\ pc[r] = "read" /\ ask[r].op = "choose" /\ r \notin moved => choices[r] = chosen

Inv ==
    /\ TypeOK
    /\ Sound(config)
    /\ \A r \in Requests : Reading(r)

LEMMA InitInv == Init => Inv
<1> SUFFICES ASSUME Init PROVE Inv
  OBVIOUS
<1>1. TypeOK
  BY DEF Init, TypeOK, NoConfig, NoChoices, Config
<1> QED  BY <1>1 DEF Init, Inv, Reading

\* What a request read is still sound, and still allows it, when it still has it.
LEMMA StillRead ==
    ASSUME NEW x \in Requests, copy'[x] = copy[x], ask' = ask
    PROVE  Sound(copy[x])' = Sound(copy[x]) /\ Allowed(copy[x], ask[x])' = Allowed(copy[x], ask[x])
BY DEF Sound, Allowed, Deletable, Named

\* A step that leaves alone what a request looks at.
LEMMA StillReading ==
    ASSUME NEW x \in Requests, Reading(x), pc'[x] = pc[x], copy'[x] = copy[x], ask' = ask,
           choices'[x] = choices[x], lock' = {x} <=> lock = {x},
           crossed'[x] = crossed[x], x \in moved' <=> x \in moved,
           pc[x] = "read" /\ ask[x].op # "choose" => config' = config,
           pc[x] = "read" /\ ask[x].op = "choose" => chosen' = chosen
    PROVE  Reading(x)'
BY StillRead DEF Reading

\* A refusal only moves the request on.
LEMMA RefuseInv ==
    ASSUME Inv, NEW r \in Requests, Refuse(r, "new")
    PROVE  Inv'
<1>1. TypeOK'
  BY DEF Inv, TypeOK, Refuse, Goes, historyVars
<1>2. ASSUME NEW x \in Requests PROVE Reading(x)'
  BY DEF Inv, TypeOK, Refuse, Goes, Reading, historyVars
<1> QED  BY <1>1, <1>2 DEF Inv, Refuse, Sound, Named

LEMMA TakeInv ==
    ASSUME Inv, NEW r \in Requests, NEW c \in Config, Sound(c), ask[r].op # "choose",
           Take(r, c),
           \/ c = config /\ UNCHANGED historyVars
           \/ crossed' = [crossed EXCEPT ![r] = Names] /\ moved' = moved \cup {r}
    PROVE  Inv'
<1>1. TypeOK'
  BY DEF Inv, TypeOK, Take, Goes, historyVars
<1>2. ASSUME NEW x \in Requests PROVE Reading(x)'
  <2>1. /\ pc' = [pc EXCEPT ![r] = "read"] /\ pc[r] = "new"
        /\ copy' = [copy EXCEPT ![r] = c] /\ Allowed(c, ask[r])
        /\ UNCHANGED <<config, chosen, lock, ask, choices>>
    BY DEF Take, Goes
  <2>2. CASE x = r
    <3>1. copy'[x] = c /\ pc'[x] = "read"
      BY <2>1, <2>2 DEF Inv, TypeOK
    <3>2. lock # {x}
      BY <2>1, <2>2 DEF Inv, Reading
    <3>3. c = config \/ (crossed'[x] = Names /\ x \in moved')
      BY <2>2 DEF Inv, TypeOK
    <3>4. Sound(copy'[x]) /\ Allowed(copy'[x], ask[x])
      BY <2>1, <2>2, <3>1
    <3> QED  BY <2>1, <2>2, <3>1, <3>2, <3>3, <3>4 DEF Reading, Sound, Named, Allowed, Deletable
  <2>3. CASE x # r
    <3>1. /\ pc'[x] = pc[x] /\ copy'[x] = copy[x] /\ crossed'[x] = crossed[x]
          /\ x \in moved' <=> x \in moved
      BY <2>1, <2>3 DEF Inv, TypeOK, historyVars
    <3> QED  BY <2>1, <3>1, StillReading DEF Inv
  <2> QED  BY <2>2, <2>3
<1> QED  BY <1>1, <1>2 DEF Inv, Take, Sound, Named

LEMMA ReadConfigInv ==
    ASSUME Inv, NEW r \in Requests, ReadConfig(r)
    PROVE  Inv'
<1>1. CASE Take(r, config) /\ UNCHANGED historyVars
  BY <1>1, TakeInv DEF Inv, TypeOK, ReadConfig
<1>2. CASE Take(r, NoConfig) /\ crossed' = [crossed EXCEPT ![r] = Names] /\ moved' = moved \cup {r}
  BY <1>2, TakeInv, NoConfigSound DEF ReadConfig
<1>3. CASE Refuse(r, "new")
  BY <1>3, RefuseInv
<1> QED  BY <1>1, <1>2, <1>3 DEF ReadConfig

LEMMA WriteConfigInv ==
    ASSUME Inv, NEW r \in Requests, WriteConfig(r)
    PROVE  Inv'
<1> DEFINE q == ask[r]
<1>1. /\ pc[r] = "read" /\ ask[r].op # "choose"
      /\ copy' = [copy EXCEPT ![r] = NoConfig]
      /\ UNCHANGED <<chosen, lock, ask, choices>>
      /\ pc' = [pc EXCEPT ![r] = pc'[r]] /\ pc'[r] \in {"done", "refused"}
  BY DEF WriteConfig, Goes, Inv, TypeOK
<1>2. config' \in Config /\ Sound(config)'
  <2>1. CASE config' \in Changed(copy[r], ask[r])
    <3>1. copy[r] \in Config /\ ask[r] \in Asked
      BY DEF Inv, TypeOK
    <3>2. Sound(copy[r]) /\ Allowed(copy[r], ask[r])
      BY <1>1 DEF Inv, Reading
    <3>3. PICK e \in Changed(copy[r], ask[r]) : config' = e
      BY <2>1
    <3>4. e \in Config /\ Sound(e)
      BY <1>1, <3>1, <3>2, ChangedSound
    <3> QED  BY <3>3, <3>4 DEF Sound, Named
  <2>2. CASE UNCHANGED config
    BY <2>2 DEF Inv, TypeOK, Sound, Named
  <2> QED  BY <2>1, <2>2 DEF WriteConfig
<1>3. /\ crossed' \in [Requests -> SUBSET Names] /\ moved' \in SUBSET Requests
      /\ \A x \in Requests \ {r} : x \in moved => x \in moved'
      /\ \A x \in Requests \ {r} : pc[x] = "read" /\ ask[x].op # "choose" =>
           /\ crossed[x] \subseteq crossed'[x]
           /\ \A n \in Names \ crossed'[x] : config'.profiles[n] = config.profiles[n]
           /\ x \notin moved' => config'.default = config.default
      /\ \A x \in Requests \ {r} : ask[x].op = "choose" => (x \in moved' <=> x \in moved)
  BY DEF WriteConfig, Overtake, Inv, TypeOK
<1>4. TypeOK'
  BY <1>1, <1>2, <1>3, NoConfigSound DEF Inv, TypeOK
<1>5. ASSUME NEW x \in Requests PROVE Reading(x)'
  <2>1. CASE x = r
    BY <1>1, <2>1 DEF Inv, Reading
  <2>2. CASE x # r
    <3>1. pc'[x] = pc[x] /\ copy'[x] = copy[x]
      BY <1>1, <2>2 DEF Inv, TypeOK
    <3>2. CASE pc[x] = "read" /\ ask[x].op # "choose"
      <4>1. /\ Sound(copy[x]) /\ Allowed(copy[x], ask[x])
            /\ \A n \in Names \ crossed[x] : copy[x].profiles[n] = config.profiles[n]
            /\ x \notin moved => copy[x].default = config.default
        BY <3>2 DEF Inv, Reading
      <4>2. /\ \A n \in Names \ crossed'[x] : copy[x].profiles[n] = config'.profiles[n]
            /\ x \notin moved' => copy[x].default = config'.default
        BY <1>3, <2>2, <3>2, <4>1
      <4>3. lock # {x}
        BY <3>2 DEF Inv, Reading
      <4> QED  BY <1>1, <3>1, <3>2, <4>1, <4>2, <4>3 DEF Reading, Sound, Named, Allowed, Deletable
    <3>3. CASE ~(pc[x] = "read" /\ ask[x].op # "choose")
      BY <1>1, <1>3, <2>2, <3>1, <3>3 DEF Inv, Reading
    <3> QED  BY <3>2, <3>3
  <2> QED  BY <2>1, <2>2
<1> QED  BY <1>2, <1>4, <1>5 DEF Inv

LEMMA CheckChoiceInv ==
    ASSUME Inv, NEW r \in Requests, CheckChoice(r)
    PROVE  Inv'
<1>1. CASE Goes(r, "new", "checked") /\ UNCHANGED <<config, chosen, lock, ask, copy, choices, historyVars>>
  <2>1. TypeOK'
    BY <1>1 DEF Inv, TypeOK, Goes, historyVars
  <2>2. ASSUME NEW x \in Requests PROVE Reading(x)'
    <3>1. CASE x = r
      BY <1>1, <3>1 DEF Inv, TypeOK, Goes, historyVars, Reading, CheckChoice
    <3>2. CASE x # r
      BY <1>1, <3>2, StillReading DEF Inv, TypeOK, Goes, historyVars
    <3> QED  BY <3>1, <3>2
  <2> QED  BY <1>1, <2>1, <2>2 DEF Inv, Sound, Named
<1>2. CASE Refuse(r, "new")
  BY <1>2, RefuseInv
<1> QED  BY <1>1, <1>2 DEF CheckChoice

LEMMA ReadChoicesInv ==
    ASSUME Inv, NEW r \in Requests, ReadChoices(r)
    PROVE  Inv'
<1>1. /\ lock = {} /\ lock' = {r} /\ pc[r] = "checked" /\ pc' = [pc EXCEPT ![r] = "read"]
      /\ UNCHANGED <<config, chosen, ask, copy>>
  BY DEF ReadChoices, Goes
<1>2. /\ choices' \in [Requests -> [Orgs -> SUBSET Names]] /\ moved' \in SUBSET Requests
      /\ r \notin moved' => choices'[r] = chosen
      /\ \A x \in Requests \ {r} : choices'[x] = choices[x] /\ (x \in moved' <=> x \in moved)
      /\ crossed' = crossed
  BY DEF ReadChoices, Inv, TypeOK, NoChoices
<1>3. TypeOK'
  BY <1>1, <1>2 DEF Inv, TypeOK
<1>4. ask[r].op = "choose"
  BY <1>1 DEF Inv, Reading
<1>5. ASSUME NEW x \in Requests PROVE Reading(x)'
  <2>1. CASE x = r
    BY <1>1, <1>2, <1>4, <2>1 DEF Inv, TypeOK, Reading
  <2>2. CASE x # r
    <3>1. pc'[x] = pc[x] /\ lock' # {x} /\ ~(pc[x] = "read" /\ ask[x].op = "choose")
      BY <1>1, <2>2 DEF Inv, TypeOK, Reading
    <3>2. lock # {x}
      BY <1>1
    <3> QED  BY <1>1, <1>2, <2>2, <3>1, <3>2, StillReading DEF Inv
  <2> QED  BY <2>1, <2>2
<1> QED  BY <1>1, <1>3, <1>5 DEF Inv, Sound, Named

LEMMA WriteChoicesInv ==
    ASSUME Inv, NEW r \in Requests, WriteChoices(r)
    PROVE  Inv'
<1>1. /\ ask[r].op = "choose" /\ lock' = {} /\ pc[r] = "read"
      /\ pc' = [pc EXCEPT ![r] = pc'[r]] /\ pc'[r] \in {"done", "refused"}
      /\ choices' = [choices EXCEPT ![r] = NoChoices]
      /\ moved' = moved \ {r} /\ UNCHANGED <<config, ask, copy, crossed>>
  BY DEF WriteChoices, Goes, Inv, TypeOK
<1>2. chosen' \in [Orgs -> SUBSET Names]
  <2>1. ask[r].names \in SUBSET Names
    BY <1>1, AskedType DEF Inv, TypeOK
  <2> QED  BY <2>1 DEF WriteChoices, Inv, TypeOK
<1>3. TypeOK'
  BY <1>1, <1>2 DEF Inv, TypeOK, NoChoices
<1>4. lock = {r}
  BY <1>1 DEF Inv, Reading
<1>5. ASSUME NEW x \in Requests PROVE Reading(x)'
  <2>1. CASE x = r
    BY <1>1, <2>1 DEF Inv, Reading
  <2>2. CASE x # r
    <3>1. lock # {x} /\ lock' # {x}
      BY <1>1, <1>4, <2>2
    <3>2. pc'[x] = pc[x] /\ choices'[x] = choices[x]
      BY <1>1, <2>2 DEF Inv, TypeOK, WriteChoices, Goes
    <3>3. Reading(x) /\ ~(pc[x] = "read" /\ ask[x].op = "choose")
      BY <3>1 DEF Inv, Reading
    <3> QED  BY <1>1, <3>1, <3>2, <3>3, StillReading
  <2> QED  BY <2>1, <2>2
<1> QED  BY <1>1, <1>3, <1>5 DEF Inv, Sound, Named

LEMMA StepInv == Inv /\ [Next]_vars => Inv'
<1> SUFFICES ASSUME Inv, [Next]_vars PROVE Inv'
  OBVIOUS
<1>1. CASE UNCHANGED vars
  <2>1. TypeOK' /\ Sound(config)'
    BY <1>1 DEF vars, historyVars, Inv, TypeOK, Sound, Named
  <2>2. ASSUME NEW x \in Requests PROVE Reading(x)'
    BY <1>1 DEF vars, historyVars, Inv, Reading, Sound, Named, Allowed, Deletable
  <2> QED  BY <2>1, <2>2 DEF Inv
<1>2. ASSUME NEW r \in Requests, ReadConfig(r) PROVE Inv'
  BY <1>2, ReadConfigInv
<1>3. ASSUME NEW r \in Requests, WriteConfig(r) PROVE Inv'
  BY <1>3, WriteConfigInv
<1>4. ASSUME NEW r \in Requests, CheckChoice(r) PROVE Inv'
  BY <1>4, CheckChoiceInv
<1>5. ASSUME NEW r \in Requests, ReadChoices(r) PROVE Inv'
  BY <1>5, ReadChoicesInv
<1>6. ASSUME NEW r \in Requests, WriteChoices(r) PROVE Inv'
  BY <1>6, WriteChoicesInv
<1> QED  BY <1>1, <1>2, <1>3, <1>4, <1>5, <1>6 DEF Next

\* Lock, copies and files are related as the read-modify-writes need it.
THEOREM Invariance == Spec => []Inv
BY InitInv, StepInv, PTL DEF Spec

\* The variables of the profiles stay within their types.
THEOREM Typed == Spec => []TypeOK
<1>1. Inv => TypeOK
  BY DEF Inv
<1> QED  BY <1>1, Invariance, PTL

\* The default is always one of the file's own profiles, though requests overlap,
\* reads fail and are taken for an empty file, and profiles are deleted.
THEOREM DefaultStands == Spec => []DefaultExists
<1>1. Inv => DefaultExists
  BY DEF Inv, DefaultExists
<1> QED  BY <1>1, Invariance, PTL

-----------------------------------------------------------------------------
(* What a request leaves alone *)

\* A change changes one profile, and the default only where it is concerned.
LEMMA ChangedNarrow ==
    ASSUME NEW c \in Config, Sound(c), NEW q \in Asked, q.op # "choose", NEW e \in Changed(c, q)
    PROVE  /\ \A n \in Names : e.profiles[n] # c.profiles[n] =>
                q.op \in {"save", "delete"} /\ n = q.name
           /\ e.default # c.default =>
                q.op = "default" \/ (q.op \in {"save", "delete"} /\ c.default \subseteq {q.name})
<1>1. q.op \in {"save", "delete", "default"} /\ q.name \in Names
  BY AskedType
<1>2. CASE q.op = "save"
  BY <1>1, <1>2 DEF Changed, Saved, Config
<1>3. CASE q.op = "delete"
  BY <1>1, <1>3 DEF Changed, Deleted, Without, Config
<1>4. CASE q.op = "default"
  BY <1>1, <1>4 DEF Changed, Config
<1> QED  BY <1>1, <1>2, <1>3, <1>4

\* What OthersKept says of the write of one request.
Narrow(r) ==
    /\ \A n \in Names \ crossed[r] : config'.profiles[n] # config.profiles[n] =>
         ask[r].op \in {"save", "delete"} /\ n = ask[r].name
    /\ config'.default # config.default =>
         \/ r \in moved \/ ask[r].op = "default"
         \/ ask[r].op \in {"save", "delete"} /\ config.default \subseteq {ask[r].name}
    /\ \A o \in Orgs : chosen'[o] # chosen[o] =>
         ask[r].op = "choose" /\ (o = ask[r].org \/ r \in moved)

LEMMA StepKept ==
    ASSUME Inv, Next, NEW r \in Requests, pc[r] = "read", pc'[r] = "done"
    PROVE  Narrow(r)
<1>1. PICK x \in Requests : \/ ReadConfig(x) \/ WriteConfig(x)
                            \/ CheckChoice(x) \/ ReadChoices(x) \/ WriteChoices(x)
  BY DEF Next
<1>2. x = r /\ (WriteConfig(r) \/ WriteChoices(r))
  BY <1>1 DEF ReadConfig, Take, Refuse, WriteConfig, CheckChoice, ReadChoices, WriteChoices,
              Goes, Inv, TypeOK
<1>3. CASE WriteConfig(r)
  <2>1. config' \in Changed(copy[r], ask[r]) /\ chosen' = chosen /\ ask[r].op # "choose"
    BY <1>3 DEF WriteConfig, Goes, Inv, TypeOK
  <2>2. /\ Sound(copy[r]) /\ copy[r] \in Config /\ ask[r] \in Asked
        /\ \A n \in Names \ crossed[r] : copy[r].profiles[n] = config.profiles[n]
        /\ r \notin moved => copy[r].default = config.default
    BY <2>1 DEF Inv, Reading, TypeOK
  <2>3. PICK e \in Changed(copy[r], ask[r]) : config' = e
    BY <2>1
  <2>4. /\ \A n \in Names : e.profiles[n] # copy[r].profiles[n] =>
              ask[r].op \in {"save", "delete"} /\ n = ask[r].name
        /\ e.default # copy[r].default =>
              ask[r].op = "default"
                \/ (ask[r].op \in {"save", "delete"} /\ copy[r].default \subseteq {ask[r].name})
    BY <2>1, <2>2, ChangedNarrow
  <2> QED  BY <2>1, <2>2, <2>3, <2>4 DEF Narrow
<1>4. CASE WriteChoices(r)
  <2>1. /\ chosen' = [choices[r] EXCEPT ![ask[r].org] = ask[r].names]
        /\ config' = config /\ ask[r].op = "choose"
    BY <1>4 DEF WriteChoices, Goes, Inv, TypeOK
  <2>2. r \notin moved => choices[r] = chosen
    BY <2>1 DEF Inv, Reading
  <2>3. chosen \in [Orgs -> SUBSET Names]
    BY DEF Inv, TypeOK
  <2> QED  BY <2>1, <2>2, <2>3 DEF Narrow
<1> QED  BY <1>2, <1>3, <1>4

\* However requests overlap, each changes no profile, no default and no choice but its
\* own, except back from what others made of it after it had read.
THEOREM NothingElseChanges == Spec => OthersKept
<1> DEFINE Kept == \A r \in Requests : pc[r] = "read" /\ pc'[r] = "done" => Narrow(r)
<1>1. Inv /\ [Next]_vars => [Kept]_vars
  BY StepKept
<1>2. [][Kept]_vars => OthersKept
  BY PTL DEF OthersKept, Narrow
<1> QED  BY <1>1, <1>2, Invariance, PTL DEF Spec

-----------------------------------------------------------------------------
(* The stage leaves the profiles to the requests *)

\* Beside the AI stage the requests do what they do without it, so that what is
\* proved of the profiles holds here too.
THEOREM StageOnlyReads == PhaseSpec => Spec
<1>1. PhaseInit => Init
  BY DEF PhaseInit
<1>2. [PhaseNext]_<<vars, phaseVars>> => [Next]_vars
  BY DEF PhaseNext, Resolve, Start, Submit, Begin, Reply, Repair, Collect, Conclude, Tick
<1> QED  BY <1>1, <1>2, PTL DEF PhaseSpec, Spec

-----------------------------------------------------------------------------
(* The invariant *)

\* What a call may still cost when it asks for q with settings p.
Remaining(q, p) ==
    CASE q = "none" -> 0
      [] q \in {"format", "plain"} /\ MayRetry(p) -> Cap + RetryCap
      [] q \in {"retry format", "retry plain"} -> RetryCap
      [] OTHER -> Cap

\* A batch has called nobody before it began, and asks for what it may still cost.
Calling(b) ==
    /\ b >= at => stage[b] = "new"
    /\ stage[b] \in {"new", "queued"} => result[b] = "none"
    /\ result[b] = "list" => stage[b] \in {"ended", "merged"}
    /\ stage[b] = "working" => request[b] # "none" /\ Remaining(request[b], profile[b]) <= left[b]

\* The lists taken so far, and all of them once the stage is over.
Gathering ==
    /\ gathered = {b \in Batch : stage[b] = "merged" /\ result[b] = "list"}
    /\ outcome \in {"done", "failed"} =>
         /\ \A b \in Batch : stage[b] \in {"new", "merged", "skipped"}
         /\ outcome = "failed" <=> gathered = {}
    /\ outcome \in {"before", "resolved"} =>
         gathered = {} /\ \A b \in Batch : stage[b] = "new"

PhaseInv ==
    /\ PhaseTypeOK
    /\ \A b \in Batch : Calling(b)
    /\ SpendBounded
    /\ Gathering

LEMMA CapsType == Cap \in Nat /\ Ceiling \in Nat /\ RetryCap \in Nat /\ Workers \in Nat
BY AiPhaseAssumption DEF RetryCap, Workers

LEMMA FirstType ==
    ASSUME NEW s
    PROVE  First(s) \in {"format", "plain only", "none"}
BY DEF First

LEMMA RemainingType ==
    ASSUME NEW p, NEW q \in Asking \cup {"none"}
    PROVE  /\ Remaining(q, p) \in Nat /\ Allowance(p) \in Nat
           /\ q = First(p) => Remaining(q, p) = Allowance(p)
<1>1. Remaining(q, p) \in {0, Cap, RetryCap, Cap + RetryCap}
  BY DEF Remaining
<1>2. Allowance(p) \in {0, Cap, Cap + RetryCap}
  BY DEF Allowance
<1>3. ASSUME q = First(p) PROVE Remaining(q, p) = Allowance(p)
  <2>1. CASE First(p) = "format"
    BY <1>3, <2>1 DEF Remaining, Allowance
  <2>2. CASE First(p) = "plain only"
    BY <1>3, <2>2 DEF Remaining, Allowance
  <2>3. CASE First(p) = "none"
    BY <1>3, <2>3 DEF Remaining, Allowance
  <2> QED  BY <2>1, <2>2, <2>3, FirstType
<1> QED  BY <1>1, <1>2, <1>3, CapsType

LEMMA SameRemaining ==
    ASSUME NEW b, NEW p, NEW q, profile'[b] = p, request'[b] = q
    PROVE  Remaining(request[b], profile[b])' = Remaining(q, p)
<1>1. MayRetry(profile[b])' = MayRetry(p)
  BY DEF MayRetry
<1> QED  BY <1>1 DEF Remaining

LEMMA PhaseInitInv == PhaseInit /\ TypeOK => PhaseInv
<1> SUFFICES ASSUME PhaseInit, TypeOK PROVE PhaseInv
  OBVIOUS
<1>1. PhaseTypeOK
  <2>1. overdrawn \in BOOLEAN
    BY DEF PhaseInit
  <2> QED  BY <2>1, AiPhaseAssumption DEF PhaseInit, PhaseTypeOK, Batch
<1>2. ASSUME NEW b \in Batch PROVE Calling(b)
  BY DEF PhaseInit, Calling
<1> QED  BY <1>1, <1>2 DEF PhaseInv, SpendBounded, Gathering, PhaseInit

\* A step of the requests, or one of the stage that concerns no batch.
LEMMA AsideInv ==
    ASSUME PhaseInv, TypeOK',
           UNCHANGED <<stage, callVars, gathered>>,
           effective' \in SUBSET Names, at' = at, now' \in 0..MaxTime,
           \/ outcome' = outcome
           \/ outcome \in {"before", "resolved"} /\ outcome' \in {"resolved", "running", "failed"}
    PROVE  PhaseInv'
<1>1. PhaseTypeOK'
  BY DEF PhaseInv, PhaseTypeOK, callVars
<1>2. ASSUME NEW b \in Batch PROVE Calling(b)'
  BY SameRemaining DEF PhaseInv, Calling, callVars
<1>3. SpendBounded'
  BY DEF PhaseInv, SpendBounded, callVars
<1>4. Gathering'
  BY DEF PhaseInv, Gathering, callVars
<1> QED  BY <1>1, <1>2, <1>3, <1>4 DEF PhaseInv

LEMMA ResolveInv == PhaseInv /\ TypeOK' /\ Resolve => PhaseInv'
<1> SUFFICES ASSUME PhaseInv, TypeOK', Resolve PROVE PhaseInv'
  OBVIOUS
<1>1. effective' \in SUBSET Names
  <2>1. PICK o \in Orgs, asked \in Wish, legacy \in Wish, loaded \in Loadable :
          effective' \in Effective(o, asked, legacy, loaded)
    BY DEF Resolve
  <2>2. chosen[o] \in SUBSET Names /\ config.default \in SUBSET Names
    BY DEF PhaseInv, PhaseTypeOK, TypeOK, Config
  <2>3. asked \in SUBSET Names /\ legacy \in SUBSET Names /\ loaded \in SUBSET Names
    BY DEF Wish, Loadable, Named
  <2>4. \/ effective' \in {asked, legacy, chosen[o], config.default, {}}
        \/ \E n \in loaded : effective' = {n}
    BY <2>1 DEF Effective
  <2> QED  BY <2>2, <2>3, <2>4
<1> QED  BY <1>1, AsideInv DEF Resolve, PhaseInv, PhaseTypeOK

LEMMA StartInv == PhaseInv /\ TypeOK' /\ Start => PhaseInv'
<1> SUFFICES ASSUME PhaseInv, TypeOK', Start PROVE PhaseInv'
  OBVIOUS
<1>1. outcome = "resolved" /\ outcome' \in {"resolved", "running", "failed"}
  BY DEF Start
<1> QED  BY <1>1, AsideInv DEF Start, PhaseInv, PhaseTypeOK

LEMMA SubmitInv == PhaseInv /\ TypeOK' /\ Submit => PhaseInv'
<1> SUFFICES ASSUME PhaseInv, TypeOK', Submit PROVE PhaseInv'
  OBVIOUS
<1>1. PICK s \in {"skipped", "queued"} : stage' = [stage EXCEPT ![at] = s]
  BY DEF Submit
<1>2. /\ at \in Batch /\ at' = at + 1 /\ outcome = "running"
      /\ UNCHANGED <<effective, callVars, gathered, outcome, now>>
  BY AiPhaseAssumption DEF Submit, PhaseInv, PhaseTypeOK, Batch
<1>3. PhaseTypeOK'
  BY <1>1, <1>2, AiPhaseAssumption DEF PhaseInv, PhaseTypeOK, callVars, Batch
<1>4. ASSUME NEW b \in Batch PROVE Calling(b)'
  <2>1. Calling(b) /\ b \in Nat /\ at \in Nat
    BY <1>2 DEF PhaseInv, Batch
  <2>2. UNCHANGED <<profile, request, left, result>>
    BY <1>2 DEF callVars
  <2>3. CASE b = at
    <3>1. stage[b] = "new"
      <4>1. b >= at
        BY <2>1, <2>3
      <4> QED  BY <2>1, <4>1 DEF Calling
    <3>2. stage'[b] = s
      BY <1>1, <1>2, <2>3 DEF PhaseInv, PhaseTypeOK
    <3>3. ~(b >= at')
      BY <1>2, <2>1, <2>3
    <3> QED  BY <2>1, <2>2, <3>1, <3>2, <3>3, SameRemaining DEF Calling
  <2>4. CASE b # at
    <3>1. stage'[b] = stage[b] /\ (b >= at' => b >= at)
      BY <1>1, <1>2, <2>1, <2>4 DEF PhaseInv, PhaseTypeOK
    <3> QED  BY <2>1, <2>2, <3>1, SameRemaining DEF Calling
  <2> QED  BY <2>3, <2>4
<1>5. SpendBounded'
  BY <1>2 DEF PhaseInv, SpendBounded, callVars
<1>6. Gathering'
  <2>1. stage[at] = "new"
    <3>1. Calling(at) /\ at >= at
      BY <1>2 DEF PhaseInv, Batch
    <3> QED  BY <3>1 DEF Calling
  <2>2. stage'[at] = s /\ \A b \in Batch \ {at} : stage'[b] = stage[b]
    BY <1>1, <1>2 DEF PhaseInv, PhaseTypeOK
  <2>3. gathered = {b \in Batch : stage'[b] = "merged" /\ result[b] = "list"}
    BY <2>1, <2>2 DEF PhaseInv, Gathering
  <2> QED  BY <1>2, <2>3 DEF Gathering, callVars
<1> QED  BY <1>3, <1>4, <1>5, <1>6 DEF PhaseInv

-----------------------------------------------------------------------------
(* Calls *)

\* A batch that goes on asks for what it may still cost; the others stay.
LEMMA AsksInv ==
    ASSUME PhaseInv, TypeOK', NEW b \in Batch, stage[b] \in {"queued", "working"},
           result[b] = "none",
           NEW q \in Asking, NEW p \in SUBSET Texts, NEW n \in 0..2, NEW limit \in Nat,
           Asks(b, q, p, n, limit), Remaining(q, p) <= limit,
           overdrawn' = overdrawn, result' = result,
           UNCHANGED <<effective, at, gathered, outcome, now>>
    PROVE  PhaseInv'
<1>1. PhaseTypeOK'
  BY DEF PhaseInv, PhaseTypeOK, Asks
<1>2. /\ stage'[b] = "working" /\ profile'[b] = p /\ request'[b] = q /\ left'[b] = limit
      /\ \A c \in Batch \ {b} : /\ stage'[c] = stage[c] /\ profile'[c] = profile[c]
                                /\ request'[c] = request[c] /\ left'[c] = left[c]
  BY DEF PhaseInv, PhaseTypeOK, Asks
<1>3. ASSUME NEW c \in Batch PROVE Calling(c)'
  <2>1. CASE c = b
    <3>1. ~(c >= at')
      BY <2>1 DEF PhaseInv, Calling
    <3>2. q # "none"
      BY DEF Asking
    <3> QED  BY <1>2, <2>1, <3>1, <3>2, SameRemaining DEF Calling
  <2>2. CASE c # b
    <3>1. Calling(c) /\ c \in Batch \ {b}
      BY <2>2 DEF PhaseInv
    <3> QED  BY <1>2, <3>1, SameRemaining DEF Calling
  <2> QED  BY <2>1, <2>2
<1>4. Gathering'
  BY <1>2 DEF PhaseInv, Gathering
<1> QED  BY <1>1, <1>3, <1>4 DEF PhaseInv, SpendBounded

\* A batch that ends leaves what is gathered alone, and its list is new.
LEMMA EndsInv ==
    ASSUME PhaseInv, TypeOK', NEW b \in Batch, stage[b] \in {"queued", "working"},
           Ends(b), overdrawn' = overdrawn,
           NEW l \in {"none", "list"}, result' = [result EXCEPT ![b] = l],
           UNCHANGED <<effective, at, gathered, outcome, now>>
    PROVE  PhaseInv'
<1>1. PhaseTypeOK'
  BY DEF PhaseInv, PhaseTypeOK, Ends
<1>2. /\ stage'[b] = "ended"
      /\ \A c \in Batch \ {b} :
           /\ stage'[c] = stage[c] /\ profile'[c] = profile[c] /\ result'[c] = result[c]
           /\ request'[c] = request[c] /\ left'[c] = left[c]
  BY DEF PhaseInv, PhaseTypeOK, Ends
<1>3. ASSUME NEW c \in Batch PROVE Calling(c)'
  <2>1. CASE c = b
    <3>1. ~(c >= at')
      BY <2>1 DEF PhaseInv, Calling
    <3> QED  BY <1>2, <2>1, <3>1 DEF Calling
  <2>2. CASE c # b
    <3>1. Calling(c) /\ c \in Batch \ {b}
      BY <2>2 DEF PhaseInv
    <3> QED  BY <1>2, <3>1, SameRemaining DEF Calling
  <2> QED  BY <2>1, <2>2
<1>4. Gathering'
  BY <1>2 DEF PhaseInv, Gathering
<1> QED  BY <1>1, <1>3, <1>4 DEF PhaseInv, SpendBounded

\* Where a call begins it may cost what the profile it finds allows.
LEMMA CallInv ==
    ASSUME PhaseInv, TypeOK', NEW b \in Batch, stage[b] \in {"queued", "working"},
           result[b] = "none", NEW n \in 0..2, Call(b, n),
           overdrawn' = overdrawn, result' = result,
           UNCHANGED <<effective, at, gathered, outcome, now>>
    PROVE  PhaseInv'
<1>0. PICK loaded \in Loadable :
        LET found == UNION {config.profiles[x] : x \in effective \cap loaded}
        IN  IF First(found) = "none" THEN Ends(b)
            ELSE Asks(b, First(found), found, n, Allowance(found))
  BY DEF Call
<1>1. PICK p, q :
        /\ p = UNION {config.profiles[x] : x \in effective \cap loaded} /\ q = First(p)
        /\ IF q = "none" THEN Ends(b) ELSE Asks(b, q, p, n, Allowance(p))
  BY <1>0
<1>2. p \in SUBSET Texts
  <2>1. SUFFICES ASSUME NEW x \in effective PROVE config.profiles[x] \in SUBSET Texts
    BY <1>1
  <2> QED  BY DEF PhaseInv, PhaseTypeOK, TypeOK, Config
<1>3. CASE q = "none"
  <2>1. result' = [result EXCEPT ![b] = "none"]
    BY DEF PhaseInv, PhaseTypeOK
  <2> QED  BY <1>1, <1>3, <2>1, EndsInv
<1>4. CASE q # "none"
  <2>1. q \in Asking
    BY <1>1, <1>4, FirstType DEF Asking
  <2>2. Allowance(p) \in Nat /\ Remaining(q, p) = Allowance(p)
    BY <1>1, <2>1, RemainingType
  <2>3. Remaining(q, p) <= Allowance(p)
    BY <2>2
  <2> QED  BY <1>1, <1>2, <1>4, <2>1, <2>2, <2>3, AsksInv
<1> QED  BY <1>3, <1>4

LEMMA BeginInv ==
    ASSUME PhaseInv, TypeOK', NEW b \in Batch, Begin(b)
    PROVE  PhaseInv'
<1>1. stage[b] = "queued" /\ result[b] = "none" /\ 1 \in 0..2
  BY DEF Begin, PhaseInv, Calling
<1> QED  BY <1>1, CallInv DEF Begin

\* No request costs more than what the call may still cost, and what follows keeps to that.
LEMMA AskBounded ==
    ASSUME NEW q \in Asking, NEW reply \in Replies, NEW p
    PROVE  /\ Ask(q, reply, p) \in Asking \cup {"none"}
           /\ reply = "list" => Ask(q, reply, p) = "none"
           /\ Cost(q, reply) \in Nat /\ Cost(q, reply) <= Remaining(q, p)
           /\ Ask(q, reply, p) # "none" /\ reply = "faulted" =>
                Remaining(Ask(q, reply, p), p) <= Remaining(q, p)
           /\ Ask(q, reply, p) # "none" /\ reply # "faulted" =>
                Remaining(Ask(q, reply, p), p) + Cost(q, reply) <= Remaining(q, p)
<1>0. PICK more, cost, rest :
        more = Ask(q, reply, p) /\ cost = Cost(q, reply) /\ rest = Remaining(q, p)
  OBVIOUS
<1>1. reply = "list" => more = "none"
  BY <1>0 DEF Ask, Refused
<1>2. cost \in Nat /\ rest \in Nat /\ cost <= rest
  <2>1. CASE q \in {"plain only", "format", "plain"}
    <3>1. cost \in {0, Cap} /\ rest \in {Cap, Cap + RetryCap}
      BY <1>0, <2>1 DEF Cost, Remaining
    <3> QED  BY <3>1, CapsType
  <2>2. CASE q \in {"retry format", "retry plain"}
    <3>1. cost \in {0, RetryCap} /\ rest = RetryCap
      BY <1>0, <2>2 DEF Cost, Remaining
    <3> QED  BY <3>1, CapsType
  <2> QED  BY <2>1, <2>2 DEF Asking
<1>3. CASE more = "none"
  BY <1>0, <1>1, <1>2, <1>3
<1>4. CASE more # "none" /\ reply \in Refused
  <2>1. Remaining(more, p) = rest /\ more \in Asking /\ (reply = "rejected" => cost = 0)
    <3>1. \/ q = "format" /\ more = "plain"
          \/ q = "retry format" /\ more = "retry plain"
      BY <1>0, <1>4 DEF Ask, Refused
    <3>2. Remaining("plain", p) = Remaining("format", p)
      BY DEF Remaining
    <3>3. Remaining("retry plain", p) = Remaining("retry format", p)
      BY DEF Remaining
    <3>4. reply = "rejected" => cost = 0
      BY <1>0 DEF Cost
    <3> QED  BY <1>0, <3>1, <3>2, <3>3, <3>4 DEF Asking
  <2>2. reply # "faulted" => reply = "rejected"
    BY <1>4 DEF Refused
  <2> QED  BY <1>0, <1>1, <1>2, <1>4, <2>1, <2>2
<1>5. CASE more # "none" /\ reply \notin Refused
  <2>1. /\ q \in {"format", "plain"} /\ MayRetry(p) /\ reply = "exhausted"
        /\ more = "retry format"
    BY <1>0, <1>5 DEF Ask
  <2>2. rest = Cap + RetryCap /\ Remaining(more, p) = RetryCap /\ cost = Cap
    BY <1>0, <2>1 DEF Remaining, Cost
  <2>3. more \in Asking /\ reply # "faulted"
    BY <2>1 DEF Asking
  <2>4. Remaining(more, p) + cost <= rest
    BY <2>2, CapsType
  <2> QED  BY <1>0, <1>1, <1>2, <1>5, <2>3, <2>4
<1> QED  BY <1>3, <1>4, <1>5

LEMMA RepairInv ==
    ASSUME PhaseInv, TypeOK', NEW b \in Batch, Repair(b)
    PROVE  PhaseInv'
<1>1. /\ stage[b] = "working" /\ result[b] = "none" /\ 2 \in 0..2 /\ request[b] \in Asking
      /\ Remaining(request[b], profile[b]) <= left[b] /\ left[b] \in Nat
  BY DEF Repair, PhaseInv, PhaseTypeOK, Calling
<1>2. overdrawn' = overdrawn
  <2>1. PICK q, p, cost : /\ q = request[b] /\ p = profile[b] /\ cost = Cost(q, "garbled")
    OBVIOUS
  <2>2. "garbled" \in Replies
    BY DEF Replies
  <2>3. cost \in Nat /\ cost <= Remaining(q, p)
    BY <1>1, <2>1, <2>2, AskBounded
  <2>4. Remaining(q, p) \in Nat
    BY <1>1, <2>1, RemainingType
  <2>5. ~(cost > left[b])
    BY <1>1, <2>1, <2>3, <2>4
  <2> QED  BY <2>1, <2>5 DEF Repair, PhaseInv, PhaseTypeOK
<1>3. result' = result /\ UNCHANGED <<effective, at, gathered, outcome, now>> /\ Call(b, 2)
  BY DEF Repair
<1> QED  BY <1>1, <1>2, <1>3, CallInv

LEMMA ReplyInv ==
    ASSUME PhaseInv, TypeOK', NEW b \in Batch, NEW reply \in Replies, Reply(b, reply)
    PROVE  PhaseInv'
<1>1. /\ stage[b] = "working" /\ result[b] = "none" /\ request[b] \in Asking
      /\ Remaining(request[b], profile[b]) <= left[b] /\ left[b] \in Nat
      /\ profile[b] \in SUBSET Texts /\ attempt[b] \in 0..2
      /\ UNCHANGED <<effective, at, gathered, outcome, now>>
  BY DEF Reply, PhaseInv, PhaseTypeOK, Calling
<1>2. PICK q, p, more, price, cost :
        /\ q = request[b] /\ p = profile[b] /\ more = Ask(q, reply, p) /\ price = Cost(q, reply)
        /\ cost = IF reply = "faulted" /\ more # "none" THEN 0 ELSE price
  OBVIOUS
<1>3. /\ IF more = "none" THEN Ends(b) ELSE Asks(b, more, p, attempt[b], Left(b, cost))
      /\ overdrawn' = (overdrawn \/ cost > left[b])
      /\ result' = [result EXCEPT ![b] = IF reply = "list" THEN "list" ELSE @]
  BY <1>2 DEF Reply
<1>4. /\ more \in Asking \cup {"none"} /\ (reply = "list" => more = "none")
      /\ price \in Nat /\ price <= Remaining(q, p) /\ Remaining(q, p) \in Nat
      /\ more # "none" /\ reply = "faulted" => Remaining(more, p) <= Remaining(q, p)
      /\ more # "none" /\ reply # "faulted" => Remaining(more, p) + price <= Remaining(q, p)
  BY <1>1, <1>2, AskBounded, RemainingType
<1>5. cost \in Nat /\ cost <= left[b] /\ Left(b, cost) = left[b] - cost /\ left[b] - cost \in Nat
  BY <1>1, <1>2, <1>4 DEF Left
<1>6. overdrawn' = overdrawn
  <2>1. ~(cost > left[b])
    BY <1>1, <1>5
  <2> QED  BY <1>3, <2>1 DEF PhaseInv, PhaseTypeOK
<1>7. CASE more = "none"
  <2>1. result' = [result EXCEPT ![b] = IF reply = "list" THEN "list" ELSE "none"]
    BY <1>1, <1>3
  <2> QED  BY <1>1, <1>3, <1>6, <1>7, <2>1, EndsInv
<1>8. CASE more # "none"
  <2>1. result' = result
    BY <1>3, <1>4, <1>8 DEF PhaseInv, PhaseTypeOK
  <2>2. Remaining(more, p) <= left[b] - cost
    <3>1. Remaining(more, p) \in Nat
      BY <1>4, RemainingType
    <3> QED  BY <1>1, <1>2, <1>4, <1>8, <3>1
  <2> QED  BY <1>1, <1>2, <1>3, <1>4, <1>5, <1>6, <1>8, <2>1, <2>2, AsksInv
<1> QED  BY <1>7, <1>8

-----------------------------------------------------------------------------
(* The end of the stage *)

LEMMA CollectInv ==
    ASSUME PhaseInv, TypeOK', NEW b \in Batch, Collect(b)
    PROVE  PhaseInv'
<1>1. /\ stage[b] = "ended" /\ stage' = [stage EXCEPT ![b] = "merged"]
      /\ UNCHANGED <<effective, at, callVars, outcome, now>>
  BY DEF Collect
<1>2. stage'[b] = "merged" /\ \A c \in Batch \ {b} : stage'[c] = stage[c]
  BY <1>1 DEF PhaseInv, PhaseTypeOK
<1>3. PhaseTypeOK'
  BY <1>1 DEF Collect, PhaseInv, PhaseTypeOK, callVars
<1>4. ASSUME NEW c \in Batch PROVE Calling(c)'
  <2>1. Calling(c) /\ Calling(b)
    BY DEF PhaseInv
  <2>2. ~(b >= at)
    BY <1>1, <2>1 DEF Calling
  <2> QED  BY <1>1, <1>2, <2>1, <2>2, SameRemaining DEF Calling, callVars
<1>5. SpendBounded'
  BY <1>1 DEF PhaseInv, SpendBounded, callVars
<1>6. Gathering'
  <2>1. gathered' = {c \in Batch : stage'[c] = "merged" /\ result'[c] = "list"}
    BY <1>1, <1>2 DEF Collect, PhaseInv, Gathering, PhaseTypeOK, callVars
  <2>2. outcome' \notin {"done", "failed", "before", "resolved"}
    BY <1>1 DEF PhaseInv, Gathering
  <2> QED  BY <2>1, <2>2 DEF Gathering
<1> QED  BY <1>3, <1>4, <1>5, <1>6 DEF PhaseInv

LEMMA ConcludeInv == PhaseInv /\ TypeOK' /\ Conclude => PhaseInv'
<1> SUFFICES ASSUME PhaseInv, TypeOK', Conclude PROVE PhaseInv'
  OBVIOUS
<1>1. /\ UNCHANGED <<effective, at, stage, callVars, gathered, now>>
      /\ outcome' = IF gathered # {} THEN "done" ELSE "failed"
      /\ \A b \in Batch : stage[b] \in {"merged", "skipped"}
  BY DEF Conclude
<1>2. PhaseTypeOK'
  BY <1>1 DEF PhaseInv, PhaseTypeOK, callVars
<1>3. ASSUME NEW b \in Batch PROVE Calling(b)'
  BY <1>1, SameRemaining DEF PhaseInv, Calling, callVars
<1>4. SpendBounded'
  BY <1>1 DEF PhaseInv, SpendBounded, callVars
<1>5. Gathering'
  BY <1>1 DEF PhaseInv, Gathering, callVars
<1> QED  BY <1>2, <1>3, <1>4, <1>5 DEF PhaseInv

LEMMA PhaseStepInv == PhaseInv /\ TypeOK' /\ [PhaseNext]_<<vars, phaseVars>> => PhaseInv'
<1> SUFFICES ASSUME PhaseInv, TypeOK', [PhaseNext]_<<vars, phaseVars>> PROVE PhaseInv'
  OBVIOUS
<1>1. CASE UNCHANGED phaseVars
  BY <1>1, AsideInv DEF phaseVars, callVars, PhaseInv, PhaseTypeOK
<1>2. CASE Tick
  BY <1>2, AsideInv, AiPhaseAssumption DEF Tick, PhaseInv, PhaseTypeOK
<1>3. ASSUME NEW b \in Batch, NEW reply \in Replies, Reply(b, reply) PROVE PhaseInv'
  BY <1>3, ReplyInv
<1> QED  BY <1>1, <1>2, <1>3, ResolveInv, StartInv, SubmitInv, ConcludeInv, BeginInv, RepairInv, CollectInv
         DEF PhaseNext

\* What each batch has asked for and may still cost agrees, and the lists are all there.
THEOREM PhaseInvariance == PhaseSpec => []PhaseInv
BY StageOnlyReads, Typed, PhaseInitInv, PhaseStepInv, PTL DEF PhaseSpec

\* The variables of the stage stay within their types: in particular there are at
\* most two calls for a batch, however its answers come out.
THEOREM PhaseTyped == PhaseSpec => []PhaseTypeOK
<1>1. PhaseInv => PhaseTypeOK
  BY DEF PhaseInv
<1> QED  BY <1>1, PhaseInvariance, PTL

\* No call costs more than one request and one retry, whatever the provider does,
\* beside what is asked for again after it broke off; nor does the one that repairs
\* an answer.
THEOREM SpendStaysBounded == PhaseSpec => []SpendBounded
<1>1. PhaseInv => SpendBounded
  BY DEF PhaseInv
<1> QED  BY <1>1, PhaseInvariance, PTL

\* The stage ends with the lists of all batches that have one, and fails only
\* when none has.
THEOREM NoBatchIsLost == PhaseSpec => []BatchesKept
<1>1. PhaseInv => BatchesKept
  <2> SUFFICES ASSUME PhaseInv, outcome \in {"done", "failed"}
               PROVE  /\ gathered = {b \in Batch : result[b] = "list"}
                      /\ outcome = "failed" <=> gathered = {}
    BY DEF BatchesKept
  <2>1. ASSUME NEW b \in Batch, result[b] = "list" PROVE stage[b] = "merged"
    BY <2>1 DEF PhaseInv, Calling, Gathering
  <2> QED  BY <2>1 DEF PhaseInv, Gathering
<1> QED  BY <1>1, PhaseInvariance, PTL

\* With the stage beside them, the requests still leave the file a default that exists.
THEOREM DefaultStandsInPhase == PhaseSpec => []DefaultExists
BY StageOnlyReads, DefaultStands, PTL

\* With the stage beside them, the requests still change nothing but their own.
THEOREM NothingElseChangesInPhase == PhaseSpec => OthersKept
BY StageOnlyReads, NothingElseChanges, PTL
=============================================================================
