------------------------------- MODULE AiPhase -------------------------------
(***************************************************************************)
(* The AI stage of a scan beside the requests that change the profiles:    *)
(* ai_assess_org of app/scanner.py resolves the profile of the             *)
(* organization, cuts the hosts it selected into batches and hands these   *)
(* to a pool of threads.  A thread asks the provider with call_ai of       *)
(* app/ai_providers.py, which reads the profiles again, and calls once     *)
(* more when it cannot read the answer.                                    *)
(*                                                                         *)
(* A request to the provider is one step, its outcome is any of Replies.   *)
(* What becomes of the assessed hosts in findings.json is in Correlation   *)
(* and FindingStore.  Bounds: Batches, MaxTime.                            *)
(***************************************************************************)
EXTENDS Profiles

CONSTANTS
    Batches,   \* number of batches
    Parallel,  \* AI_PARALLEL_BATCHES
    Budget,    \* AI_PHASE_BUDGET, in ticks of the clock
    MaxTime,   \* bound on the clock
    Cap,       \* max_tokens of every profile
    Ceiling    \* the most a request may ask for: 8192

\* What a profile says; the key of one that is keyless is not in the environment.
Profile == [provider : {"ollama", "openai", "keyless"}, capRetry : BOOLEAN]

ASSUME AiPhaseAssumption ==
    /\ Texts \subseteq Profile
    /\ Batches \in Nat \ {0} /\ Parallel \in Nat \ {0}
    /\ Budget \in Nat /\ MaxTime \in Nat
    /\ Cap \in Nat \ {0} /\ Ceiling \in Nat /\ Cap <= Ceiling

VARIABLES
    effective,  \* the name of the profile the stage resolved, if there is one
    at,         \* the batch the loop is at
    stage,      \* of each batch
    profile,    \* what the call of a batch at work found in the profile
    request,    \* what it has asked the provider for
    attempt,    \* which of the two calls it is
    result,     \* of each batch: a list, maybe empty, or none
    gathered,   \* the batches whose lists are in arr_all
    outcome,    \* what ai_assess_org goes on with
    now,        \* the clock, zero until the stage begins
    left,       \* history: what the call of a batch may still cost, in tokens
    overdrawn   \* history: a call cost more

callVars == <<profile, request, attempt, result, left, overdrawn>>

phaseVars == <<effective, at, stage, callVars, gathered, outcome, now>>

Batch == 1..Batches

Workers == IF Parallel < Batches THEN Parallel ELSE Batches

\* The cap of the request that follows an exhausted one.
RetryCap == IF 2 * Cap < Ceiling THEN 2 * Cap ELSE Ceiling

Asking == {"plain only", "format", "plain", "retry format", "retry plain"}

PhaseTypeOK ==
    /\ TypeOK
    /\ effective \in SUBSET Names
    /\ at \in 1..(Batches + 1)
    /\ stage \in [Batch -> {"new", "queued", "working", "ended", "merged", "skipped"}]
    /\ profile \in [Batch -> SUBSET Texts]
    /\ request \in [Batch -> Asking \cup {"none"}]
    /\ attempt \in [Batch -> 0..2]
    /\ result \in [Batch -> {"none", "list"}]
    /\ gathered \in SUBSET Batch
    /\ outcome \in {"before", "resolved", "running", "done", "failed"}
    /\ now \in 0..MaxTime
    /\ left \in [Batch -> Nat] /\ overdrawn \in BOOLEAN

PhaseInit ==
    /\ Init
    /\ effective = {}
    /\ at = 1 /\ stage = [b \in Batch |-> "new"]
    /\ profile = [b \in Batch |-> {}] /\ request = [b \in Batch |-> "none"]
    /\ attempt = [b \in Batch |-> 0] /\ result = [b \in Batch |-> "none"]
    /\ gathered = {} /\ outcome = "before"
    /\ now = 0
    /\ left = [b \in Batch |-> 0] /\ overdrawn = FALSE

-----------------------------------------------------------------------------
(* The loop and the pool *)

\* The profiles load_profiles may return: some of the file's may fail their checks.
Loadable == IF Faults THEN SUBSET Named(config) ELSE {Named(config)}

\* resolve_profile_for_org: the profile asked for if it loads, else the one chosen for
\* the organization, else the one orgs.json names, else the default of the file, else any.
Effective(o, asked, legacy, loaded) ==
    LET loads(n) == n # {} /\ n \subseteq loaded
    IN  IF loads(asked) THEN {asked}
        ELSE IF loads(chosen[o]) THEN {chosen[o]}
        ELSE IF loads(legacy) THEN {legacy}
        ELSE IF loads(config.default) THEN {config.default}
        ELSE IF loaded = {} THEN {{}} ELSE {{n} : n \in loaded}

\* A name, or none.
Wish == {n \in SUBSET Names : Cardinality(n) <= 1}

\* The stage resolves its profile, and then loads the profiles again: without that
\* one it has failed.
Resolve ==
    /\ outcome = "before" /\ outcome' = "resolved"
    /\ \E o \in Orgs, asked \in Wish, legacy \in Wish, loaded \in Loadable :
         effective' \in Effective(o, asked, legacy, loaded)
    /\ UNCHANGED <<at, stage, callVars, gathered, now, vars>>

Start ==
    /\ outcome = "resolved"
    /\ \E loaded \in Loadable :
         outcome' = IF effective \cap loaded = {} THEN "failed" ELSE "running"
    /\ UNCHANGED <<effective, at, stage, callVars, gathered, now, vars>>

\* The loop submits one batch after the other, and skips those it comes to after
\* the deadline, except for as many as there are threads.
Submit ==
    /\ outcome = "running" /\ at <= Batches /\ at' = at + 1
    /\ stage' = [stage EXCEPT ![at] =
                   IF at > Workers /\ now > Budget THEN "skipped" ELSE "queued"]
    /\ UNCHANGED <<effective, callVars, gathered, outcome, now, vars>>

\* What a call asks for first, given what it finds in the profile: nothing, when the
\* profile is gone or does not load, or its key is not set.
First(settings) ==
    IF \E s \in settings : s.provider = "openai" THEN "format"
    ELSE IF \E s \in settings : s.provider = "ollama" THEN "plain only" ELSE "none"

\* The cap grows, and the profile wants the retry.
MayRetry(settings) == RetryCap > Cap /\ \E s \in settings : s.capRetry

\* What a call may cost: one request, and one retry if its profile has one.
Allowance(settings) ==
    CASE First(settings) = "none" -> 0
      [] First(settings) = "format" /\ MayRetry(settings) -> Cap + RetryCap
      [] OTHER -> Cap

\* Batch b asks for q, by call n with these settings, which may cost limit from here.
Asks(b, q, settings, n, limit) ==
    /\ stage' = [stage EXCEPT ![b] = "working"]
    /\ request' = [request EXCEPT ![b] = q]
    /\ profile' = [profile EXCEPT ![b] = settings]
    /\ attempt' = [attempt EXCEPT ![b] = n]
    /\ left' = [left EXCEPT ![b] = limit]

\* It ends, and what its call knew is gone.
Ends(b) ==
    /\ stage' = [stage EXCEPT ![b] = "ended"]
    /\ request' = [request EXCEPT ![b] = "none"]
    /\ profile' = [profile EXCEPT ![b] = {}]
    /\ attempt' = [attempt EXCEPT ![b] = 0]
    /\ left' = [left EXCEPT ![b] = 0]

\* call_ai loads the profiles once more, and begins with what it finds.
Call(b, n) ==
    \E loaded \in Loadable :
      LET found == UNION {config.profiles[x] : x \in effective \cap loaded}
      IN  IF First(found) = "none" THEN Ends(b)
          ELSE Asks(b, First(found), found, n, Allowance(found))

\* A free thread takes the oldest batch.
Begin(b) ==
    /\ stage[b] = "queued" /\ \A a \in Batch : stage[a] = "queued" => b <= a
    /\ Cardinality({a \in Batch : stage[a] = "working"}) < Workers
    /\ Call(b, 1)
    /\ UNCHANGED <<effective, at, result, overdrawn, gathered, outcome, now, vars>>

-----------------------------------------------------------------------------
(* A request to the provider *)

\* The provider rejects the request with one of the codes that lead to another one,
\* or breaks off with 500 or 501, which do so too; it fails otherwise or does not
\* answer in time; the tokens were used up by hidden reasoning; the content is empty;
\* it cannot be read; or it can.
Replies == {"rejected", "faulted", "failed", "exhausted", "empty", "garbled", "list"}

Refused == {"rejected", "faulted"}

\* Mutant of Ask: the retry is made again while the tokens are used up.
MutAsk(q, reply, settings) ==
    CASE reply \in Refused /\ q = "format" -> "plain"
      [] reply \in Refused /\ q = "retry format" -> "retry plain"
      [] reply = "exhausted" /\ q # "plain only" /\ MayRetry(settings) -> "retry format"
      [] OTHER -> "none"

\* The request that follows request q, if any: without the format where that was
\* rejected; and once with the larger cap, where the profile allows it and the cap grows.
Ask(q, reply, settings) ==
    CASE reply \in Refused /\ q = "format" -> "plain"
      [] reply \in Refused /\ q = "retry format" -> "retry plain"
      [] reply = "exhausted" /\ q \in {"format", "plain"} /\ MayRetry(settings) -> "retry format"
      [] OTHER -> "none"

\* What a call may still cost after a request that cost so much.
Left(b, cost) == IF cost <= left[b] THEN left[b] - cost ELSE 0

\* What a request may cost; one that is rejected costs nothing.
Cost(q, reply) ==
    CASE reply = "rejected" -> 0
      [] reply # "rejected" /\ q \in {"retry format", "retry plain"} -> RetryCap
      [] OTHER -> Cap

\* The call goes on with another request, or it is over and the batch ends; what is
\* asked for again after the provider broke off is not counted twice.
Reply(b, reply) ==
    LET more == Ask(request[b], reply, profile[b])
        cost == IF reply = "faulted" /\ more # "none" THEN 0 ELSE Cost(request[b], reply)
    IN  /\ stage[b] = "working" /\ ~(reply = "garbled" /\ attempt[b] = 1)
        /\ IF more = "none" THEN Ends(b)
           ELSE Asks(b, more, profile[b], attempt[b], Left(b, cost))
        /\ overdrawn' = (overdrawn \/ cost > left[b])
        /\ result' = [result EXCEPT ![b] = IF reply = "list" THEN "list" ELSE @]
        /\ UNCHANGED <<effective, at, gathered, outcome, now, vars>>

\* Mutant of Repair: an answer that cannot be read is asked for again and again.
MutRepair(b) ==
    /\ stage[b] = "working"
    /\ Call(b, attempt[b] + 1)
    /\ overdrawn' = (overdrawn \/ Cost(request[b], "garbled") > left[b])
    /\ UNCHANGED <<effective, at, result, gathered, outcome, now, vars>>

\* The answer of the first call cannot be read: another call asks for it.
Repair(b) ==
    /\ stage[b] = "working" /\ attempt[b] = 1
    /\ Call(b, 2)
    /\ overdrawn' = (overdrawn \/ Cost(request[b], "garbled") > left[b])
    /\ UNCHANGED <<effective, at, result, gathered, outcome, now, vars>>

-----------------------------------------------------------------------------
(* The results *)

\* Mutant of Collect: a batch that failed undoes what the others found.
MutCollect(b) ==
    /\ at > Batches
    /\ stage[b] = "ended" /\ stage' = [stage EXCEPT ![b] = "merged"]
    /\ gathered' = IF result[b] = "list" THEN gathered \cup {b} ELSE {}
    /\ UNCHANGED <<effective, at, callVars, outcome, now, vars>>

\* Once all are submitted, results are taken as they come.
Collect(b) ==
    /\ at > Batches
    /\ stage[b] = "ended" /\ stage' = [stage EXCEPT ![b] = "merged"]
    /\ gathered' = IF result[b] = "list" THEN gathered \cup {b} ELSE gathered
    /\ UNCHANGED <<effective, at, callVars, outcome, now, vars>>

\* The pool is left; the stage failed if no batch has a list.
Conclude ==
    /\ outcome = "running" /\ at > Batches
    /\ \A b \in Batch : stage[b] \in {"merged", "skipped"}
    /\ outcome' = IF gathered # {} THEN "done" ELSE "failed"
    /\ UNCHANGED <<effective, at, stage, callVars, gathered, now, vars>>

Tick ==
    /\ outcome = "running" /\ now < MaxTime /\ now' = now + 1
    /\ UNCHANGED <<effective, at, stage, callVars, gathered, outcome, vars>>

PhaseNext ==
    \/ Next /\ UNCHANGED phaseVars
    \/ Resolve \/ Start \/ Submit \/ Conclude \/ Tick
    \/ \E b \in Batch : Begin(b) \/ Repair(b) \/ Collect(b)
    \/ \E b \in Batch, reply \in Replies : Reply(b, reply)

PhaseSpec == PhaseInit /\ [][PhaseNext]_<<vars, phaseVars>>

-----------------------------------------------------------------------------
(* Properties *)

\* "max_tokens is the PER-REQUEST cap; this retry is the only place total spend
\* can exceed it, by at most one request" (app/ai_providers.py:525-526): whatever the
\* provider rejects, loses or uses up, and whoever changes the profile meanwhile, each
\* of the two calls of a batch costs one request and one retry at most, and only the
\* request when the profile it read has no retry; beside a request that is made again
\* because the provider broke off.
SpendBounded == ~overdrawn

\* "[] is still a successful classification" (app/scanner.py:1557): a batch that
\* is skipped, fails or answers nonsense takes nothing from the others; the stage
\* ends with all lists there are, and fails only when there is none.
BatchesKept ==
    outcome \in {"done", "failed"} =>
      /\ gathered = {b \in Batch : result[b] = "list"}
      /\ outcome = "failed" <=> gathered = {}
=============================================================================
