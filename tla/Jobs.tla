-------------------------------- MODULE Jobs --------------------------------
(***************************************************************************)
(* The in-memory job table of app/main.py and the thread pool that runs    *)
(* the jobs.                                                               *)
(*                                                                         *)
(* A mutating request first takes the table slot of its (org, kind) under  *)
(* _jobs_lock, then, in a later step of the handler, submits the wrapper   *)
(* to a pool of Workers threads with a FIFO queue.  The wrapper releases   *)
(* the slot when its work returns or raises, and only then writes its last *)
(* log line and gives the thread back.  The table and the pool are thus    *)
(* two records of what is going on; the properties relate them.            *)
(*                                                                         *)
(* A job is named by its id "<slug>-<kind>-<uuid>": a record of org, kind  *)
(* and a serial number in place of the uuid.  Bounds: MaxJobs ids, MaxTime *)
(* clock ticks.                                                            *)
(***************************************************************************)
EXTENDS Naturals, Sequences, FiniteSets

CONSTANTS
    Orgs,          \* slugs of the registered organizations
    Kinds,         \* "scan", "recheck", "correlate", "vuln", "grade", "ohack"
    MaxActive,     \* _MAX_ACTIVE_JOBS
    Workers,       \* max_workers of the executor
    JobTTL,        \* _JOB_TTL
    MaxJobs,       \* bound on the ids handed out
    MaxTime        \* bound on the clock

ASSUME JobsAssumption ==
    /\ MaxActive \in Nat \ {0}
    /\ Workers \in Nat \ {0}
    /\ JobTTL \in Nat
    /\ MaxJobs \in Nat
    /\ MaxTime \in Nat

VARIABLES
    table,         \* _jobs: table[o][k] is the entry stored at key "o:k"
    phase,         \* how far the handler or the wrapper of a job has come
    queue,         \* submitted wrappers that wait for a thread
    nextId,        \* the serial number of the next id
    now            \* time.time()

vars == <<table, phase, queue, nextId, now>>

Job == [org : Orgs, kind : Kinds, n : 1..MaxJobs]

NoEntry == [status |-> "none"]

Entry == [id : Job, status : {"running", "done", "failed"},
          stage : {"queued", "work", "done"}, finished : 0..MaxTime]

Phase == {"unused", "accepted", "queued", "working", "draining", "ended", "lost"}

TypeOK ==
    /\ table \in [Orgs -> [Kinds -> Entry \cup {NoEntry}]]
    /\ phase \in [Job -> Phase]
    /\ queue \in Seq(Job)
    /\ nextId \in 1..(MaxJobs + 1)
    /\ now \in 0..MaxTime

-----------------------------------------------------------------------------
(* What the table says. *)

EntryOf(j) == table[j.org][j.kind]

Holds(j) == EntryOf(j).status # "none" /\ EntryOf(j).id = j

\* The jobs the table counts as running.
Running == {j \in Job : Holds(j) /\ EntryOf(j).status = "running"}

\* "any running job for this org blocks new mutations"
OrgBusy(o) == \E k \in Kinds : table[o][k].status = "running"

\* What _job_status answers to a client that asks for job j.
StatusOf(j) == IF Holds(j) THEN EntryOf(j).status ELSE "unknown"

\* What the pool knows: jobs whose work is still to be done or in hand, and
\* jobs that occupy a thread.
Live == {j \in Job : phase[j] \in {"accepted", "queued", "working"}}

OnThread == {j \in Job : phase[j] \in {"working", "draining"}}

-----------------------------------------------------------------------------
Init ==
    /\ table = [o \in Orgs |-> [k \in Kinds |-> NoEntry]]
    /\ phase = [j \in Job |-> "unused"]
    /\ queue = <<>>
    /\ nextId = 1
    /\ now = 0

\* The new entry of key "o:k" replaces whatever the key held before.
Acquired(o, k, n) ==
    LET j == [org |-> o, kind |-> k, n |-> n]
    IN  /\ table' = [table EXCEPT ![o][k] =
                        [id |-> j, status |-> "running", stage |-> "queued",
                         finished |-> 0]]
        /\ phase' = [phase EXCEPT ![j] = "accepted"]
        /\ UNCHANGED <<queue, now>>

\* Mutants of TryAcquire: one job too many passes the cap; the id says nothing
\* but org and kind, and so is used again.
MutTryAcquireCap(o, k) ==
    /\ nextId <= MaxJobs
    /\ ~OrgBusy(o)
    /\ Cardinality(Running) <= MaxActive
    /\ Acquired(o, k, nextId)
    /\ nextId' = nextId + 1

MutTryAcquireSameId(o, k) ==
    /\ ~OrgBusy(o)
    /\ Cardinality(Running) < MaxActive
    /\ Acquired(o, k, 1)
    /\ UNCHANGED nextId

\* The answers 409 (the org is busy) and 429 (the cap is reached) change
\* nothing: they are the requests this guard refuses.
TryAcquire(o, k) ==
    /\ nextId <= MaxJobs
    /\ ~OrgBusy(o)
    /\ Cardinality(Running) < MaxActive
    /\ Acquired(o, k, nextId)
    /\ nextId' = nextId + 1

\* The rest of the handler: _executor.submit.
Submit(j) ==
    /\ phase[j] = "accepted"
    /\ phase' = [phase EXCEPT ![j] = "queued"]
    /\ queue' = Append(queue, j)
    /\ UNCHANGED <<table, nextId, now>>

\* A free thread takes the oldest wrapper.
Start ==
    /\ queue # <<>>
    /\ Cardinality(OnThread) < Workers
    /\ phase' = [phase EXCEPT ![Head(queue)] = "working"]
    /\ queue' = Tail(queue)
    /\ UNCHANGED <<table, nextId, now>>

\* _job_progress: only the entry that still carries the id is touched.
Progress(j) ==
    /\ phase[j] = "working"
    /\ Holds(j)
    /\ table' = [table EXCEPT ![j.org][j.kind].stage = "work"]
    /\ UNCHANGED <<phase, queue, nextId, now>>

\* Mutant of Expired: a running entry is reclaimed by its age.
MutExpiredRunning(e) ==
    /\ e.status # "none"
    /\ now - e.finished > JobTTL

Expired(e) ==
    /\ e.status \in {"done", "failed"}
    /\ now - e.finished > JobTTL

\* _prune_jobs: drop what finished more than JobTTL ago.
Prune(t) ==
    [o \in Orgs |-> [k \in Kinds |-> IF Expired(t[o][k]) THEN NoEntry ELSE t[o][k]]]

\* Mutant of Closed: the entry holds the time it expires at.
MutClosedDeadline(e, ok) ==
    [e EXCEPT !.status = IF ok THEN "done" ELSE "failed",
              !.finished = now + JobTTL]

\* The entry after _release_job: the stage of a failed job is left as it was.
Closed(e, ok) ==
    [e EXCEPT !.status = IF ok THEN "done" ELSE "failed",
              !.stage = IF ok THEN "done" ELSE @,
              !.finished = now]

\* _release_job of job j: nothing unless the slot still carries the id.
Released(j, ok) ==
    IF Holds(j)
      THEN Prune([table EXCEPT ![j.org][j.kind] = Closed(@, ok)])
      ELSE table

\* Mutant of Finish: the path of an exception forgets to release.
MutFinishLeak(j, ok) ==
    /\ phase[j] = "working"
    /\ table' = IF ok THEN Released(j, ok) ELSE table
    /\ phase' = [phase EXCEPT ![j] = "draining"]
    /\ UNCHANGED <<queue, nextId, now>>

\* The work returns (ok), or raises or reports an error (~ok): both paths of
\* the wrapper release the slot.
Finish(j, ok) ==
    /\ phase[j] = "working"
    /\ table' = Released(j, ok)
    /\ phase' = [phase EXCEPT ![j] = "draining"]
    /\ UNCHANGED <<queue, nextId, now>>

\* The wrapper has written its last log line and returns its thread.
Leave(j) ==
    /\ phase[j] = "draining"
    /\ phase' = [phase EXCEPT ![j] = "ended"]
    /\ UNCHANGED <<table, queue, nextId, now>>

Tick ==
    /\ now < MaxTime
    /\ now' = now + 1
    /\ UNCHANGED <<table, phase, queue, nextId>>

\* The process restarts: table, queue and threads are gone.
Restart ==
    /\ table' = [o \in Orgs |-> [k \in Kinds |-> NoEntry]]
    /\ phase' = [j \in Job |->
                   IF phase[j] \in {"unused", "ended"} THEN phase[j] ELSE "lost"]
    /\ queue' = <<>>
    /\ UNCHANGED <<nextId, now>>

Next ==
    \/ \E o \in Orgs, k \in Kinds : TryAcquire(o, k)
    \/ \E j \in Job : Submit(j) \/ Progress(j) \/ Leave(j)
    \/ \E j \in Job, ok \in BOOLEAN : Finish(j, ok)
    \/ Start
    \/ Tick
    \/ Restart

Spec == Init /\ [][Next]_vars

\* A handler that has taken a slot goes on to submit, a free thread takes the
\* next wrapper, and the work of a job ends: every network call it makes has
\* a timeout and every loop a bound.  No fairness on requests, on the clock
\* or on restarts.
Fairness ==
    /\ WF_vars(Start)
    /\ \A j \in Job : /\ WF_vars(Submit(j))
                      /\ WF_vars(\E ok \in BOOLEAN : Finish(j, ok))
                      /\ WF_vars(Leave(j))

FairSpec == Spec /\ Fairness

-----------------------------------------------------------------------------
(* Properties *)

\* The slots that are marked running are those of the jobs whose work is still
\* to be done or in hand, no more (a slot nobody will release blocks its
\* organization until a restart) and no less (a second job could get in).
LiveIsRunning == Live = Running

\* Two jobs of one organization are never both waiting or at work: the files
\* of an organization are rewritten as a whole by one background writer.
OneJobPerOrg == \A i, j \in Live : i.org = j.org => i = j

\* What a client that polls a job has been told last holds: done or failed is
\* never taken back for running or for the other, and an id that is no longer
\* known (dropped, replaced, or of an earlier process) stays unknown.
TerminalIsFinal ==
    [][\A j \in Job :
         /\ StatusOf(j) \in {"done", "failed"} => StatusOf(j)' \in {StatusOf(j), "unknown"}
         /\ StatusOf(j) = "unknown" /\ phase[j] # "unused" => StatusOf(j)' = "unknown"]_vars

\* A client that polls the job it was given stops seeing "running": the pool
\* comes to every accepted job and every path of its wrapper releases.
EveryJobEnds ==
    \A j \in Job : phase[j] = "accepted" ~> StatusOf(j) # "running"

\* The table and the pool together keep the promise of JobFence.
past == {j \in Job : phase[j] \in {"draining", "ended", "lost"}}

JobOrg(j) == j.org

Promise == INSTANCE JobFence WITH Jobs <- Job, OrgOf <- JobOrg, live <- Live

ImplementsFence == Promise!FenceSpec
=============================================================================
