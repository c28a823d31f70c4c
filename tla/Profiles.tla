------------------------------ MODULE Profiles ------------------------------
(***************************************************************************)
(* The AI profiles of app/ai_providers.py: the configuration file with the *)
(* profiles and the name of the default one, which is read, changed and    *)
(* replaced without a lock, and the file with the profile chosen for each  *)
(* organization, which has one (_org_profiles_lock).                       *)
(*                                                                         *)
(* What a profile says is one of Texts.  A name is refused now and then    *)
(* though the file has it: a profile is checked whenever it is loaded, its *)
(* host is looked up, and an override in the environment refuses every     *)
(* change.  Bounds: each request is made once.                             *)
(***************************************************************************)
EXTENDS Naturals, FiniteSets

CONSTANTS
    Names, Texts,  \* of profiles
    Orgs,
    Requests,      \* the HTTP requests, each made once
    Queries,       \* what they may ask for
    Configs,       \* what the configuration may be at the start
    Faults         \* whether reads and writes may fail

VARIABLES
    config,   \* ai_config.json
    chosen,   \* ai_org_profiles.json
    lock,     \* _org_profiles_lock: the request that holds it, if any
    pc,       \* what each request does next
    ask,      \* what it asks for
    copy,     \* the configuration it read
    choices,  \* the choices it read
    crossed,  \* history: the profiles others changed since it read, all if it could not
    moved     \* history: the requests since whose read the default changed, or that could
              \* not read their file

historyVars == <<crossed, moved>>

vars == <<config, chosen, lock, pc, ask, copy, choices, historyVars>>

\* What a request asks for: to save a profile, to delete one, to make one the
\* default, or to choose one for an organization; no name is no choice.
Query ==
    [op : {"save"}, name : Names, text : Texts]
      \cup [op : {"delete", "default"}, name : Names]
      \cup [op : {"choose"}, names : SUBSET Names, org : Orgs]

\* What the requests of an instance ask for.
Asked == {q \in Queries \cap Query : q.op = "choose" => Cardinality(q.names) <= 1}

\* A profile the file does not hold, a default or a choice that is not made, is {}.
Config == [profiles : [Names -> SUBSET Texts], default : SUBSET Names]

NoConfig == [profiles |-> [n \in Names |-> {}], default |-> {}]

NoChoices == [o \in Orgs |-> {}]

Named(c) == {n \in Names : c.profiles[n] # {}}

\* A configuration that names one of its profiles as the default, or has none.
Sound(c) == IF Named(c) = {} THEN c.default = {} ELSE \E n \in Named(c) : c.default = {n}

TypeOK ==
    /\ config \in Config
    /\ chosen \in [Orgs -> SUBSET Names]
    /\ lock \in SUBSET Requests
    /\ pc \in [Requests -> {"new", "checked", "read", "done", "refused"}]
    /\ ask \in [Requests -> Asked]
    /\ copy \in [Requests -> Config]
    /\ choices \in [Requests -> [Orgs -> SUBSET Names]]
    /\ crossed \in [Requests -> SUBSET Names] /\ moved \in SUBSET Requests

Init ==
    /\ config \in Configs \cap Config /\ Sound(config)
    /\ chosen = NoChoices
    /\ lock = {}
    /\ pc = [r \in Requests |-> "new"]
    /\ ask \in [Requests -> Asked]
    /\ copy = [r \in Requests |-> NoConfig]
    /\ choices = [r \in Requests |-> NoChoices]
    /\ crossed = [r \in Requests |-> {}] /\ moved = {}

Goes(r, from, to) == pc[r] = from /\ pc' = [pc EXCEPT ![r] = to]

Refuse(r, from) ==
    /\ Goes(r, from, "refused")
    /\ UNCHANGED <<config, chosen, lock, ask, copy, choices, historyVars>>

-----------------------------------------------------------------------------
(* The configuration *)

\* save_profile adds or replaces one profile; the default is set when there is none.
Saved(c, q) ==
    [profiles |-> [c.profiles EXCEPT ![q.name] = {q.text}],
     default |-> IF c.default = {} THEN {q.name} ELSE c.default]

\* delete_profile removes one, and not the last; if it was the default, the first
\* of the others is, in the order of the file.
Deletable(c, n) == n \in Named(c) /\ Cardinality(Named(c)) > 1

Without(c, n) == [c.profiles EXCEPT ![n] = {}]

\* Mutant of Deleted: the default stays what it was.
MutDeleted(c, n) == {[profiles |-> Without(c, n), default |-> c.default]}

Deleted(c, n) ==
    {[profiles |-> Without(c, n), default |-> d] :
       d \in IF c.default = {n} THEN {{x} : x \in Named(c) \ {n}} ELSE {c.default}}

\* set_default_profile takes a profile of the file.
Allowed(c, q) ==
    CASE q.op = "save" -> TRUE
      [] q.op = "delete" -> Deletable(c, q.name)
      [] OTHER -> q.name \in Named(c)

\* What the request may write after it read c.
Changed(c, q) ==
    CASE q.op = "save" -> {Saved(c, q)}
      [] q.op = "delete" -> Deleted(c, q.name)
      [] OTHER -> {[c EXCEPT !.default = {q.name}]}

\* The file is read; one that cannot be read is taken for an empty one.
Take(r, c) ==
    /\ Allowed(c, ask[r])
    /\ Goes(r, "new", "read")
    /\ copy' = [copy EXCEPT ![r] = c]
    /\ UNCHANGED <<config, chosen, lock, ask, choices>>

ReadConfig(r) ==
    /\ ask[r].op # "choose"
    /\ \/ Take(r, config) /\ UNCHANGED historyVars
       \/ /\ Faults /\ Take(r, NoConfig)
          /\ crossed' = [crossed EXCEPT ![r] = Names] /\ moved' = moved \cup {r}
       \/ (Faults \/ ~Allowed(config, ask[r])) /\ Refuse(r, "new")

\* A write overtakes whoever has read and not yet written.
Overtake(r) ==
    LET readers == {x \in Requests \ {r} : pc[x] = "read" /\ ask[x].op # "choose"}
        changed == {n \in Names : config'.profiles[n] # config.profiles[n]}
    IN  /\ crossed' = [x \in Requests |-> IF x \in readers THEN crossed[x] \cup changed ELSE {}]
        /\ moved' = (moved \cup IF config'.default = config.default THEN {} ELSE readers) \ {r}

\* Mutant of WriteConfig: the profile that is saved replaces all others.
MutWriteConfig(r) ==
    /\ ask[r].op # "choose"
    /\ \/ /\ Goes(r, "read", "done")
          /\ config' \in IF ask[r].op = "save" THEN {Saved(NoConfig, ask[r])} ELSE Changed(copy[r], ask[r])
       \/ Faults /\ Goes(r, "read", "refused") /\ UNCHANGED config
    /\ Overtake(r)
    /\ copy' = [copy EXCEPT ![r] = NoConfig]
    /\ UNCHANGED <<chosen, lock, ask, choices>>

\* The changed copy replaces the file, or the write fails.
WriteConfig(r) ==
    /\ ask[r].op # "choose"
    /\ \/ /\ Goes(r, "read", "done")
          /\ config' \in Changed(copy[r], ask[r])
       \/ Faults /\ Goes(r, "read", "refused") /\ UNCHANGED config
    /\ Overtake(r)
    /\ copy' = [copy EXCEPT ![r] = NoConfig]
    /\ UNCHANGED <<chosen, lock, ask, choices>>

-----------------------------------------------------------------------------
(* The choice of an organization *)

\* The name must be that of a profile that loads; no lock is held.
CheckChoice(r) ==
    /\ ask[r].op = "choose"
    /\ \/ /\ ask[r].names \subseteq Named(config)
          /\ Goes(r, "new", "checked")
          /\ UNCHANGED <<config, chosen, lock, ask, copy, choices, historyVars>>
       \/ /\ ask[r].names # {} /\ (Faults \/ ~(ask[r].names \subseteq Named(config)))
          /\ Refuse(r, "new")

\* Mutant of ReadChoices: the lock is not waited for.
MutReadChoices(r) ==
    /\ Goes(r, "checked", "read") /\ lock' = {r}
    /\ \/ choices' = [choices EXCEPT ![r] = chosen] /\ UNCHANGED moved
       \/ Faults /\ choices' = [choices EXCEPT ![r] = NoChoices] /\ moved' = moved \cup {r}
    /\ UNCHANGED <<config, chosen, ask, copy, crossed>>

\* set_org_profile: under the lock the choices are read, as none when they cannot be.
ReadChoices(r) ==
    /\ lock = {}
    /\ Goes(r, "checked", "read") /\ lock' = {r}
    /\ \/ choices' = [choices EXCEPT ![r] = chosen] /\ UNCHANGED moved
       \/ Faults /\ choices' = [choices EXCEPT ![r] = NoChoices] /\ moved' = moved \cup {r}
    /\ UNCHANGED <<config, chosen, ask, copy, crossed>>

WriteChoices(r) ==
    /\ ask[r].op = "choose" /\ lock' = {}
    /\ \/ /\ Goes(r, "read", "done")
          /\ chosen' = [choices[r] EXCEPT ![ask[r].org] = ask[r].names]
       \/ Faults /\ Goes(r, "read", "refused") /\ UNCHANGED chosen
    /\ choices' = [choices EXCEPT ![r] = NoChoices]
    /\ moved' = moved \ {r}
    /\ UNCHANGED <<config, ask, copy, crossed>>

Next ==
    \E r \in Requests : \/ ReadConfig(r) \/ WriteConfig(r)
                        \/ CheckChoice(r) \/ ReadChoices(r) \/ WriteChoices(r)

Spec == Init /\ [][Next]_vars

-----------------------------------------------------------------------------
(* Properties *)

\* Whatever requests overlap, fail or cannot read it, the file names one of its own
\* profiles as the default, or has neither a profile nor a default: one that is
\* gone would be replaced in silence by whichever profile comes first.
DefaultExists == Sound(config)

\* "Additive merge of one profile into the file config" (app/ai_providers.py:1080),
\* "never steal default" (1096), however requests overlap: one changes no profile but
\* its own, except back from what others made of it after it had read; it changes the
\* default only if that is what it is about, or is the profile it deletes, or was
\* changed after it had read; and it changes no choice but its own organization's.
\* A request that could not read the file and took it for an empty one is bound by
\* nothing.
OthersKept ==
    [][\A r \in Requests :
         pc[r] = "read" /\ pc'[r] = "done" =>
           /\ \A n \in Names \ crossed[r] : config'.profiles[n] # config.profiles[n] =>
                ask[r].op \in {"save", "delete"} /\ n = ask[r].name
           /\ config'.default # config.default =>
                \/ r \in moved \/ ask[r].op = "default"
                \/ ask[r].op \in {"save", "delete"} /\ config.default \subseteq {ask[r].name}
           /\ \A o \in Orgs : chosen'[o] # chosen[o] =>
                ask[r].op = "choose" /\ (o = ask[r].org \/ r \in moved)]_vars
=============================================================================
