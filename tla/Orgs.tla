-------------------------------- MODULE Orgs --------------------------------
(***************************************************************************)
(* What the registry of organizations promises: it is one map from slugs   *)
(* to entries, and every request that is accepted changes it once, at one  *)
(* moment between its call and its answer.                                 *)
(***************************************************************************)
EXTENDS Naturals, FiniteSets

CONSTANTS
    Slugs,       \* names of organizations
    Domains,     \* valid domains
    Models,      \* models an organization may pin for OpenHack, not "default" or "keep"
    MaxDomains,  \* domains of an organization at most: 20
    Requests     \* the HTTP requests, each made once

VARIABLES
    orgs,   \* the map
    ask,    \* what each request asks for
    state   \* how far each request is

vars == <<orgs, ask, state>>

Entry == [there : BOOLEAN, domains : SUBSET Domains,
          enabled : BOOLEAN, model : Models \cup {"default"}]

Missing == [there |-> FALSE, domains |-> {}, enabled |-> FALSE, model |-> "default"]

\* What a request asks for: an organization; more, fewer or other domains; the
\* opt-in to OpenHack and its model, either of which may be left as it is.
Query ==
    [op : {"register", "add", "remove", "set"}, slug : Slugs, domains : SUBSET Domains]
      \cup [op : {"config"}, slug : Slugs, enabled : {"keep", "on", "off"},
            model : Models \cup {"keep", "default"}]

\* The domains of the organization once q is done.
NewDomains(e, q) ==
    CASE q.op = "add" -> e.domains \cup q.domains
      [] q.op = "remove" -> e.domains \ q.domains
      [] OTHER -> q.domains

\* Whether q fits what the map m holds: a registration a new slug, all others an
\* old one, and not too many domains.
Fits(m, q) ==
    /\ m[q.slug].there <=> q.op # "register"
    /\ q.op # "config" => Cardinality(NewDomains(m[q.slug], q)) <= MaxDomains

\* Mutant of NewEntry: that the model is to be kept is taken for a model.
MutNewEntry(e, q) ==
    IF q.op = "config"
      THEN [e EXCEPT !.enabled = IF q.enabled = "keep" THEN @ ELSE q.enabled = "on",
                     !.model = q.model]
      ELSE [e EXCEPT !.there = TRUE, !.domains = NewDomains(e, q)]

\* The entry a fitting q leaves.
NewEntry(e, q) ==
    IF q.op = "config"
      THEN [e EXCEPT !.enabled = IF q.enabled = "keep" THEN @ ELSE q.enabled = "on",
                     !.model = IF q.model = "keep" THEN @ ELSE q.model]
      ELSE [e EXCEPT !.there = TRUE, !.domains = NewDomains(e, q)]

Edited(m, q) == [m EXCEPT ![q.slug] = NewEntry(@, q)]

NoOrgs == [s \in Slugs |-> Missing]

Init ==
    /\ orgs = NoOrgs
    /\ ask \in [Requests -> Query]
    /\ state = [r \in Requests |-> "new"]

Goes(r, from, to) == state[r] \in from /\ state' = [state EXCEPT ![r] = to]

Open(r) == Goes(r, {"new"}, "open") /\ UNCHANGED <<orgs, ask>>

TakeEffect(r) ==
    /\ Goes(r, {"open"}, "effective") /\ Fits(orgs, ask[r])
    /\ orgs' = Edited(orgs, ask[r])
    /\ UNCHANGED ask

\* Only a request that took effect is answered, and only one that did not is refused.
Answer(r) == Goes(r, {"effective"}, "answered") /\ UNCHANGED <<orgs, ask>>

Refuse(r) == Goes(r, {"new", "open"}, "refused") /\ UNCHANGED <<orgs, ask>>

\* A restart leaves the requests that were under way without an answer.
Restart ==
    /\ state' = [r \in Requests |-> IF state[r] \in {"open", "effective"} THEN "lost" ELSE state[r]]
    /\ UNCHANGED <<orgs, ask>>

Next == Restart \/ \E r \in Requests : Open(r) \/ TakeEffect(r) \/ Answer(r) \/ Refuse(r)

Spec == Init /\ [][Next]_vars
=============================================================================
