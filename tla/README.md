# CTI Radar in TLA+

CTI Radar watches the external surface of a set of organizations: it enumerates
names, probes hosts, turns what it sees into findings, and lets analysts and
graders work on them.  There are two servers that are to behave alike: the Rust
one under `rust/src/`, which the repository's README calls canonical, and the
FastAPI one under `app/`, its parity reference.  This directory holds the
specifications of the program's own logic, their TLC runs and their TLAPS proofs.
Job table, files and findings are modelled from the Python server; the files of the
Rust server, whose locks and cache work differently, have a module of their own.

## The system

| Part | State | Operations | Modules |
|---|---|---|---|
| Job table and pool (`main.py`) | `_jobs`, keyed `slug:kind`; an executor with a FIFO queue | take a slot, submit, progress, release and prune, poll | `JobFence`, `Jobs` |
| Files of an organization (`cti_correlation.py`, `scanner.py`, `openhack_source.py`, `vuln_scan.py`) | `findings.json`, `baseline.txt`, `history.json`; the org lock; `_DATA_CACHE` and its lock | status and comment requests; six kinds of jobs; cached reads | `AtomicEdits`, `FindingStore` |
| One finding (`scanner.py`, `cti_correlation.py`, `openhack_source.py`) | status, severity, streaks, graders' anchors, `status_history` | set status, reconcile, recheck, AI grade, OpenHack quick and deep | `Lifecycle` |
| Exposure diff and synthesis (`scanner.py`) | old and new baseline, services, findings by identity | reconcile, one synthesizer per kind of evidence, diff with a cap | `Exposure` |
| Registry (`main.py`, `cti_correlation.py`) | `orgs.json`, `REGISTRY` | register, domains, OpenHack configuration, reload | `Orgs`, `Registry` |
| Correlation engine (`scanner.py`, `cti_correlation.py`) | none, a pass over findings and baseline | three rules, two filters, merge | `Correlation` |
| AI profiles (`ai_providers.py`) | `ai_config.json`, `ai_org_profiles.json` | save, delete, default, choose | `Profiles` |
| AI stage of a scan (`scanner.py`, `ai_providers.py`) | batches in a pool, retries, a deadline | resolve, submit, ask, collect | `AiPhase` |
| OpenHack integration (`openhack_source.py`) | report, manifest | severity mapping, ingest | in `Lifecycle`, `FindingStore` |
| Passive vulnerability lookup (`vuln_scan.py`) | fingerprints in `meta` | match, persist | its persistence in `FindingStore` |
| Rust server (`rust/src`): files | the same files; async locks with guards, `DATA_CACHE` | the same requests, five kinds of jobs | `RustStore` |
| Sessions and login limiter (`main.py`) | two in-memory tables | log in, expire, evict | planned |
| CVE matching (`cve_match.py`) | NVD cache | range matching | planned as a function |
| Scores and graph (`cti_correlation.py`) | none, functions of the findings | render | no |
| Nuclei wrapper, AI set-up, dashboard, PDF, logs | - | external tool, CLI, rendering | no |
| Rust server: job table, registry, rest | as above | as above | planned |

How they interact.  A mutating request takes the organization's slot in the job
table and submits a wrapper to the pool; the wrapper runs one job and releases
the slot.  The job works on the organization's files: it reads the findings, talks
to the network or to a provider for seconds or minutes, takes the org lock,
reads the findings again, applies what it learnt and writes them back, and
appends to the history.  Analysts change statuses and leave comments at any
time, under the same lock and without a slot.  Readers take neither: they go
through a cache with a lock of its own.  Registrations and the profiles of the
AI providers have files of their own; what is in the registry's file is also in
memory, and a job is accepted for what memory knows.  All of it lives in one process
(DEPLOYMENT.md); after a restart the files are all that is left.

What is hard.  The table and the pool are two records of what runs and must agree
at every point, whichever way a job ends.  Jobs hold results for minutes while
analysts edit.  The org lock is not reentrant and the history takes it again.
Readers see two files that are written one after the other.  A process may die
between any two writes.  And the life of a finding is shared by five authors who
read its status and severity at one time and change them at another, each
with counters and anchors of its own.  A scan tells what is new by comparing with a
baseline it has just replaced.  The passes of the correlation engine read what the
passes before them wrote.

What makes the parts correct:

- table and pool: one job per organization, a cap, a slot for exactly the jobs
  that are to be worked off, outcomes that are final;
- files: no answered edit is lost, the history tells of it, readers are fresh and
  never pair new findings with an older baseline, a finding is new once, nobody
  waits for ever;
- finding: nothing resolves without the misses it takes, nothing takes back what
  the analyst decided, the history ends at the status, severities stay near
  the deterministic ones;
- exposure: no new host enters the baseline in silence, what listens has a live
  finding, and nothing is recorded twice;
- registry: accepted requests take effect once and at one moment, memory catches up
  with the file, and a registration does not undo a first scan;
- correlation: one finding per key, and passes that come to an end;
- profiles and AI stage: the default exists, nobody's profile or choice changes but
  the one asked for, retries do not multiply, and no batch takes another's results.

## The modules

`JobFence` is the promise of the job table with neither table nor pool: a set of
live jobs, a set of past ones, `Begin`, `End` and `Crash`.

`Jobs` is `_jobs` and the executor.  `table[o][k]` is the entry at key `"o:k"`;
`phase` is how far the handler or the wrapper of a job is: *accepted* between
`_try_acquire_job` and `_executor.submit`, *queued*, *working*, *draining* after
`_release_job` while the last log line is written and the thread is still
taken, *ended*, or *lost* in a restart.  `TryAcquire`, `Submit`, `Start`,
`Progress`, `Finish` (release and prune, on both paths of the wrapper), `Leave`,
`Tick` and `Restart` are the actions.  A refused request (409, 429) changes
nothing and is the negation of `TryAcquire`'s guard.  An id is a record with a
serial number in the place of the uuid.

`AtomicEdits` is the promise of the files, with no file, lock or cache: one set of
edits that only grows and one history that loses nothing.  `Make` is an edit taking
effect, `Answer` its answer, which comes after effect and event; `Fail` answers that
it could not be made; `Note` is an event, of an edit made before or of a job.

`FindingStore` interleaves the threads that touch one organization's files at the
grain of a lock operation, a file read, a file replaced, a cache entry dropped.
An analyst's request goes *new, write, drop, page, log, done* (`pc[e]`), as
`set_finding_status` and `add_finding_comment` do.  The job goes through stages:
a scan is *apply, baseline, write*, then `record_scan_event` (*record, snapshot*)
and `append_history` (*append, log*), and in AI mode goes on to the stages
`reply`, `ai`, `snap` and `grade` of `Follow`; the other kinds are one stage each.
`copy[p]` and `page[p]` are what p has read, so a lost update is one that is
written from a copy.  `GiveUp` covers every way to have nothing to apply,
`FailEdit` and `FailJob` a write that fails, each going on where the code does.
`AiRuns` is the scans that may be in AI mode, `unsaved` a history variable: findings that
were announced with a snapshot that could not be written.
One job runs at a time: that is what `JobsProofs!Serialized` gives.  Readers take
the cache lock, read the findings, then the baseline, and store the pair.

`Lifecycle` is one finding and everything that may change it.  A job has a
beginning (`Begin`, which records whether it selected the finding) and a locked
apply step (`Scan`, `Recheck`, `AiGrade`, `QuickGrade`, `Ingest`,
`ReportMisses`); `SetStatus` may come between.  That each apply step is atomic is
the org lock's doing, checked in `FindingStore`.  `graders` is what grades in the
organization the finding is of: an AI profile, OpenHack, both or neither; it is
one of `Setups` and does not change.  `missRun`, `closedRun`, `detSev`, `exploited`
and `seen` are history variables.  Severities are 0..4.

`RustStore` is `FindingStore` for the Rust server.  There is no thread: tasks
interleave at every `await`, and on several workers between them, so the grain is
the same.  `lock` is the org lock, whose guard lives to the end of its function,
and so is dropped by `Unlock` wherever the function returns.  Requests start from
`Through`, the cache or what a miss puts there; a reader that misses reads (`Look`)
and stores (`Store`) in two steps, with the view in `held`.  A scan goes *read* (the
findings, without the lock), *lock* (and `Restored`: what the analysts changed
meanwhile), *write, drop, page, log*, and in AI mode *ask* with the guard still
held; from there it is `ai_grade_org`, which is also a job of its own.  `Ask` has
that function's three outcomes: nothing to do, a failure that goes to the history
without a guard, and grades to be applied under one.

What a scan restores it looks up by id in maps that keep the last of equal ids
(`scanner.rs:2052`, 2136), while a request edits the first (`handlers_mut.rs:436`, 636).
Ids are equal where a correlation has numbered its findings from 1 again (3268) and
added again what was there (3479-3497).  `Reissued` is the edits of findings that this
may happen to, and `doubled` those it has happened to: a scan does not see that they
were made meanwhile.  `overtaken` is a history variable, the edits that a view which
was stored in the cache came too late to have.

`Exposure` is what one scan after the other makes of what it sees.  `Probe` is the
network part, which takes no lock and may see anything that `Possible` allows: a name,
whether it resolves, a fingerprint, open ports, marks.  Then come the two writes of
`_generate_org_inner` under the lock, `SaveBaseline` and `SaveFindings`; `Cut` ends the
scan before the first or between them.  `SaveFindings` is the whole of it: `Reconciled`
(`_reconcile_findings`), the synthesizers (`Surface`), the diff against the baseline
and services of the scan before (`Diff`, with its cap), the merge.  A finding is its
identity, a triple of family, host and signature; `Marks` stands for the synthesizers
that add one finding per host and category (login pages, versions, CVEs, headers),
which work alike.  `untold` is a history variable: hosts of which no scan was to tell,
because there was nothing to compare with, because as many as the cap allows were added
ahead of them (`Passed`), or because the scan was cut between its writes.  A streak is
any number, as in the code.  `SetStatus` may come at any time the lock is free.

`Orgs` is the promise of the registry: one map, requests that take effect at one
moment between call and answer.  `Registry` is `main.py`: a look at memory without the
lock (`Call`), the lock and the file (`Read`, which looks again), `Write`, then
without the lock the reload in two steps (`Load`, `Replace`) and, for a registration,
the two empty files (`MakeBaseline`, `MakeFindings`).  A first job of each organization
writes the same two files under another lock.  Reads and writes may fail: the file
that cannot be read refuses a request, but is an empty registry to the reload.  Three
history variables: `late`, the requests whose load was overtaken by a write or could
not read; `behind`, that what REGISTRY was replaced by last was late; and `kept`, which
files of an organization its job wrote when no registration had them still to write.

`Profiles` has the requests of the AI settings.  `ReadConfig` and `WriteConfig` take
no lock; a choice for an organization is checked without one (`CheckChoice`) and
stored under one (`ReadChoices`, `WriteChoices`).  A file that cannot be read is
taken for an empty one in both.  Two history variables say what a
request may put back: `crossed[r]`, the profiles that others changed after r had read,
and `moved`, the requests since whose read the default changed.  One that took a file
it could not read for an empty one has all profiles in `crossed` and is in `moved`.

`AiPhase` extends `Profiles` with the AI stage of a scan (`ai_assess_org` and
`call_ai`), which reads the profiles while requests change them.  `Resolve` finds the
profile: the one asked for, the one chosen for the organization, the one `orgs.json`
names, or the default (`Effective`).  `Start` loads the profiles again and fails when
that one does not load any more (`Loadable`: any of the file's may fail its checks).
Then come one `Submit` per batch, `Begin` by a free thread, `Reply` for each answer of
the provider with the request that follows it (`Ask`), `Repair`, the second call for an
answer that cannot be read, `Collect` and `Conclude`.  The clock runs against the
budget.  `left` is what the call of a batch may still cost, from the `Allowance` of the
profile it read; a request that costs more makes the stage `overdrawn`.

`Correlation` has one step per pass: `Correlate` sees any network, enriches the
findings, applies the three rules in their order (`Shares`, `CoResidents`, `Backed`),
filters the candidates (`Taken`: by CVE and key over what it knows; `Fresh`: by key over
the file), gives them ids and stores (`Stored`, by id).  `Scan` and `Assess` add
findings between passes.  A pass is one step because jobs of an organization do not
overlap (`Jobs`) and an analyst changes nothing it reads.

`MCJobs`, `MCFindingStore`, `MCRegistry`, `MCAiPhase` and `MCCorrelation` define
symmetries, operators and inputs for the runs; `Lifecycle`, `RustStore` and `Exposure`
are run as they are.  The proofs are in `JobsProofs`, `FindingStoreProofs`,
`LifecycleProofs`, `RustStoreProofs`, `ExposureProofs`, `RegistryProofs`,
`CorrelationProofs` and `AiPhaseProofs`, which has those about `Profiles` too.

## The runs

| Run | Shows | Bounds and why they are enough |
|---|---|---|
| `jobs` | table and pool agree, one job per organization, final outcomes, retention, `JobFence` | 3 organizations, 2 kinds, cap 2, 1 thread: the cap refuses, a job waits in the queue, kinds compete; 3 ids: a slot is replaced while the old job drains; clock to 2 with `JobTTL` 1: entries at, below and beyond the limit |
| `jobs_live` | every accepted job stops running | 2 organizations for 1 thread, 3 ids, one expiry |
| `store` | edits, history, cache, baseline, announcements, `AtomicEdits` | 2 edits, so that they meet each other and the job; 1 reader; 2 jobs of any of 5 kinds, the first of them in AI mode when it is a scan, so that one finds what the other left; 1 crash anywhere; writes that fail |
| `store_live` | requests are answered, jobs end | 1 edit; 2 jobs, a scan in AI mode or a vuln job first, and either next; writes that fail |
| `vuln_lost_edit` | **violated**: no answered edit is lost, with vuln jobs | 2 edits, vuln jobs only |
| `lifecycle` | resolution, ownership, history, clamp, mitigation, with AI or with OpenHack as the grader | all three families; `ResolveAfter` 2 and 3 misses: below, at and beyond the threshold; every severity |
| `rust_store` | what may be lost of edits and of the history, requests and jobs end | 2 edits, one of a finding whose id may be given out again, 1 reader, 2 jobs of any kind, so that a grading meets what another job and the edits log, and a scan what a correlation added; writes that fail |
| `rust_self_deadlock` | **violated**: a scan in its AI stages ends | 1 scan in AI mode |
| `exposure` | nothing is recorded twice, no host enters the baseline in silence, what listens has a live finding | 2 hosts, one of them infrastructure, 1 web port, 1 scheme, 1 mark; a cap of 1, so that it is reached; 3 scans, each of which may be cut: the first has nothing to compare with, the second compares, the third meets what a cut one left; 1 decision |
| `registry` | `Orgs`, memory, first results | 3 requests that register two organizations, add a domain or change a configuration, so that two register the same slug; 1 restart anywhere; reads and writes that fail; a first job each |
| `correlation` | one finding per key, nothing is taken, passes settle | 2 hosts at one address or none, 1 CVE, three listings; 3 passes: one that derives, one that feeds on it, one that must add nothing; 1 scan and 1 assessment between any two |
| `assistant` | default, others' profiles, spending, batches | 2 requests, 2 profiles, 2 organizations; 3 batches on 2 threads, so that two are at work at once and the third waits in the queue, past the deadline too, while a profile changes; a cap of 2 that may grow to 3, so that it does not double |

The code's default is three misses; two reach every branch, and the proof is for any
number.  A run may deadlock only where the bounds stop it: in `exposure`,
`registry`, `correlation` and `assistant`, when requests, scans and passes are used up.
`exposure` has `ResolveAfter` 1, which with three scans is enough to resolve, to reopen
and to resolve again; `Lifecycle` has the longer streaks.

Two properties are quotations of the repository that the code does not keep, and
each is a finding in `PROJECT.json` with the run that shows it:

1. DEPLOYMENT.md says that the org lock guards the files; `vuln_scan_org` reads
   (`vuln_scan.py:416`) and rewrites findings.json without it and may take an
   analyst's answered edit back.  (The Rust server takes the lock.)
2. README.md:39 says that AI never fails a scan; the Rust `generate_org` has the
   org lock (`scanner.rs:2130`) when it calls `ai_grade_org` (2206), which locks
   again (3611) as soon as the provider answers with grades.

Other places where code and text disagree, or where the models had to follow the code
into something its authors may not want, without a run of their own; the properties
are stated so that they hold of the code as it is:

- `scanner.py:2561` says that a good certificate resolves its finding; the next scan
  enters the branch for recurrences (2599) before it looks at the certificate and
  reopens it, the one after resolves it again.
- `scanner.py:1724` clamps to one step of the deterministic baseline; AI and
  OpenHack graders each keep an anchor of their own (`openhack_source.py:573`) and
  take the other's result for the baseline.  `GradeWithinOneStep` is for one grader.
- `openhack_source.py:10` caps unverified results at HIGH; a well-formed `ref` lifts
  the cap (270).
- `correlation.rs:72` says that parallel mutations cannot lose updates; a reader of
  the Rust cache reads the file (1046) before it locks the cache (1048) and may store
  what is from before a write, and the next status change starts from the cache
  (`handlers_mut.rs:435`).  `EditsKept` excepts the edits such a view lacks (`overtaken`).
- `scanner.rs:2048` says that the analyst wins and 2124 that a parallel status or comment
  is not lost; of a finding that shares its id with one further down it is (see
  `Restored` above).  `EditsKept` excepts it, for the write of a scan and no other.
- Of two overlapping changes of profiles one may be lost, with what it changed
  (`ai_providers.py:1087`), although 1080 calls the save additive.  `OthersKept` excepts
  what others changed after a request had read, and nothing that was there before.
- Of two overlapping reloads the older file may be loaded last (`main.py:1114`), and the
  empty files of a registration may replace what a first job wrote (1122).
  `MemoryCatchesUp` and `ResultsStay` except these.
- `main.py:89` retains finished jobs for an hour, but the next job of the same
  organization and kind overwrites the entry (126).
- `scanner.py:1527` bounds the AI stage by a deadline that is looked at only when a
  batch is submitted (1543), and batches are submitted at once: one that waits in the
  queue begins after it.  `AiPhase` lets it.
- `ai_providers.py:521` speaks of one extra request; the retry itself may be
  repeated without the format.  A rejected request costs nothing; one that ends in 500 or
  501, which lead to another as well (498), may have been counted by the provider:
  `SpendBounded` bounds what is spent beside these.
- `ai_providers.py:1012` and `786` take a file that cannot be read for an empty
  one, and the next change replaces it.  So does `_load_registry` for memory; orgs.json
  itself is not rewritten from it.
- Ids of correlated findings start at 1 in every pass (`scanner.py:3882`), those of
  assessed ones are made of a count (1671): two findings may have one id, and enrichment
  and edits by id go to one of them.
- Rule 1 of the engine takes every finding for a source (`scanner.py:3904`), correlated
  ones too, though the comment at 3897 and `tests/test_cve_match.py:172` speak of
  findings of its own; Rule 3 passes over a host whenever enrichment has given it
  the listed CVEs.
- `scanner.py:2942` speaks of new services; a new version on a host that has the mark
  already is not reported (2959).  A host that comes back is not new, and ports it
  comes back with are not reported.  A scan that resolves nothing empties the baseline.
- `main.py:298` speaks of twelve hours of idleness; the expiry of a session is not
  refreshed by use.

## Fairness

`Jobs!FairSpec`: weak fairness of `Submit` (the handler goes on after it took the
slot), `Start` (the pool is FIFO and hands a free thread the next wrapper), the
end of the work (`Finish` with either outcome: every network call has a timeout,
every loop a bound) and `Leave`.  None on requests, the clock or restarts.

`FindingStore!FairSpec`: threads run, so each writer is given strong fairness: it
waits for a lock that is free again and again, and `threading.Lock` does not
starve a waiter for ever in practice; weak fairness would only say something of
a lock that stays free.  Readers hold the cache lock for two reads, weakly fair.
Nobody has to look, and the cache need not age.

`RustStore!FairSpec`: tokio's mutex is fair (first come, first served), and the
runtime polls every task that is ready; each request and the job are strongly fair at
their lock and weakly fair elsewhere.  Calls to a provider have a timeout.

The other modules state safety only: nothing in them is assumed to be fair.

## The proofs

All are for every value of the constants, from the assumptions of the modules
(`JobsAssumption`, `StoreAssumption`, `LifecycleAssumption`, `ExposureAssumption`,
`AiPhaseAssumption`, `CorrelationAssumption` and their like, which say no more than that
bounds are numbers and hosts, CVEs and seeds finite sets of what they are).

*Jobs.*  `LiveIsRunning` is not inductive: it needs that the queue holds every
queued job once (`QueueInv`), that ids beyond `nextId` are unused (`IdInv`), that an
entry carries its own key (`KeyInv`) and that a held entry belongs to a job that
was accepted (`HeldInv`).  Their conjunction `Inv` is `Invariance`; from it
follow `FenceHolds`, `Serialized` (a slot of the organization is running, so the
guard refuses), `Refinement` (each step begins, ends or loses live jobs, or
leaves them) and `FinalStays`.

*FindingStore.*  Edits survive because of one relation: while p holds the org lock
to write, its copy has every edit the file has (`CopyInv`), and the edits whose
requests are past their write are in the file (`SavedInv`); `LockInv` says who
may be between locking and leaving, `PageInv` and `LedgerInv` say the same for the
history.  `EditInv` is their conjunction; `EditsSurvive` and `HistoryTellsEdits`
assume `"vuln" \notin Kinds`, the kind that breaks it.  `ReadersAreFresh` adds
`CacheInv`: an edit that is past its write but not past the invalidation may be
missing from the cache, no other may, and whoever reads holds the cache lock.
`BaselineIsThere` needs no lock of the writers: `BaseInv` says that a scan about to
write findings has written its baseline, and that no copy is younger than the
baseline; it holds with vuln jobs as well.  So does `NewOnce`,
whatever writes fail: `SnapInv` says that whoever is about to write the findings has the
snapshot there is, and only under the lock may change it, and `ToldInv` that whatever was
announced, or is in the pages of those who append to the history, is in the snapshot, or
in `unsaved`, and disjoint from what the job is about to announce.

`StoreImplementsAtomicEdits` is the refinement, without vuln jobs.  The mapping takes the
edits in the file, the events in the history and the phases of the requests.  Every
step is one of four: `Calm` (nothing of that moves), `Saves` (one edit comes in, by
`CopyInv` none goes), `Tells` (one event comes in, by `PageInv` none goes) or
`Answers`.  `EditMoves`, `JobMoves` and `CrashMoves` sort the actions, `MovesRefine` maps
the four.

*Lifecycle.*  `StreakIsHonest`, `streak <= missRun`, makes `AutoResolveNeedsMisses`
follow from each step.  `GradesStayNear` is for organizations with one grader,
whichever it is (`OneGrader`).  `AloneInv` says that the other grader never left an
anchor, and `AnchoredSev` that the anchor there is is the deterministic severity,
and where there is none the severity still is; `ClampNear` does the arithmetic
once for both clamps.  `ClosedAgree`, that the streak of closed probes counts those
there were, gives `MitigationIsFounded`.

*RustStore.*  `GuardInv` says who has the guard, and `CopyInv` what whoever is about to
write may lack of the file: a scan edits that are `doubled`, any other job nothing, a
request what was `overtaken`.  A request starts from the cache, of which `CacheInv`
says that it lacks no more than that once nobody is about to drop the entry.  From
these follows `EditsStay`, in AI mode as well.  `HistoryStays` is harder, because a
grading that failed appends without the guard while a request or nobody has it.
`PageInv`: what a writer with the guard has read lacks at most events of gradings.  It
is kept by `LooseInv`: what the grading is about to put back has, but for events of
gradings, nothing that the history or the page of a request lacks.

*Exposure.*  `HostsReported` speaks of the time between scans.  While a scan is between
its two writes the new baseline holds hosts nobody has reported; `ToldInv` says what
holds then: the old baseline, which the scan still has, was accounted for, and the new
one is what it saw.  Each new host is then reported, beyond the cap, or has its
finding already; `CapInOrder` shows that one beyond the cap is behind as many hosts that
were added as the cap allows, by the least host it leaves out.  `Typed` bounds the streaks
by the scans there were: `CountInv` says that a scan that has begun found each of them
with room for one more.  `NothingRepeated` holds since every synthesizer leaves out what is
there, and `ServicesTracked` because reconciliation reopens exactly what the
synthesizers leave out.

*Registry.*  Its `Inv`: who has read the file holds the lock, and what was read is
what the file still holds and fits the request, so `Write` is `TakeEffect` of `Orgs`
and the rest of a request is between its effect and its answer
(`RegistryImplementsOrgs`).  For memory (`Fresh`) it says that a reload that is not late
has read what the file holds, and that memory does too when none is under way and the
last was not late.  For first results (`Undisturbed`): an organization that memory knows
or a job works for is in the file, so that no other registration of it gets past the
lock; and the one that is under way has passed each file in `kept`.

*Profiles.*  What a request has read is itself sound (its default is one of its
profiles) and still allows the request, whatever became of the file; each change of a
sound file is sound.  That is all `DefaultStands` needs, and why it needs no lock.
`NothingElseChanges` adds that what a request has read still is what the file holds, but
for the profiles in its `crossed` and, if it is in `moved`, the default.

*AiPhase.*  `StageOnlyReads`: every step of the stage leaves the profiles as they are,
so a behaviour of both is one of `Profiles`, and what was proved there holds here.
`SpendStaysBounded`: a call at a request of some kind may still cost what `Remaining` says
of it and of the settings the call has read, the larger request only after one
that had the profile's permission (`Calling`).  `NoBatchIsLost` relates results, stages
and what was gathered.

*Correlation.*  `KeysStayUnique` and `Typed` are inductive together; the work is in the
operators.  Sets are put in order by the place of each element, a count of those ahead
of it, and `InPlaces` shows that places are a bijection with `1..n` for any strict
order.  The filter over the candidates is a recursive function, of which tlapm knows
nothing until it has a solution: `TurnsExist` constructs one for every length, since
from the one before the least length without one it could be extended, and by
`TurnsTaken` nothing that was taken is blocked by what was taken before.  `TakenApart`
then says that no two candidates that are taken have one key, `FreshKeys` that none has
a key of the file, `Joined` that lists like that may be appended.  `NothingIsTaken`
follows from what enrichment and storing do to each finding (`EnrichedRicher`,
`StoredRicher`): whichever of the findings with its id one is, it gets its own record
back.  In the run's instance all that have one id also have one address; the theorem is
for any.  `EngineEnds` counts: findings are an injection into hosts, subjects and
sources, so they are never more than these allow, and none goes.

*Model-checked only.*  The liveness properties (`EveryJobEnds`, `AllAnswered` of both
servers): the prover has neither fairness nor ENABLED.  And `Settles`, which belongs to
its instance: with more hosts and addresses one pass may feed on another more than
twice before they settle.  What holds for any is `EngineEnds`.

## What the models leave out

- Contents: names, addresses, evidence, titles, wording.  A finding is named by
  the job and stage that added it; the ids the code makes of a count
  (`scanner.py:1671`) are in `Correlation`; findings are not removed anywhere.
- `AnnouncedOnce` excepts findings of a scan whose snapshot could not be written:
  `record_scan_event` goes on (`scanner.py:1076`) and the next scan announces the same
  again.
- The fifty-entry cap of histories and comments, the log ring.
- Reachability and the certificate are whatever the network says; a scan that fails
  altogether is `Abort` and `GiveUp`.
- Merging AI-assessed findings and comments changes no field of `Lifecycle` for the
  families it looks at.
- What a failed server call costs is the provider's affair: `AiPhase` counts a request
  that is made again after a 500 or 501 once.  The batches ask for one cap, that of the
  profile, which is the same for all profiles of the instance and of the theorem.
- `RustStore` has no baseline, no restart and no file that cannot be read, and its
  requests run to their end, though a client that goes away may stop one at an
  `await`.  `meta`, which a request reads through the cache a second time, goes
  with the findings.
- `Exposure` names a mark by what it says and does not follow what later scans would
  write into a finding that is there; the migration of findings without an identity
  (2323-2406), the refresh of evidence and the NVD look-ups of a scan
  (3582-3592), which decorate findings and fail open, are left out, as are the caches
  of the process for wildcard names and InternetDB answers.
- `Correlation` leaves out wording, severities and scores: the rules and filters do not
  look at them.  Assessed findings name no CVE, are known by host, and are not
  rewritten by the next assessment, which in the code may change the CVEs they name
  (1688).
- `Registry` has no crash in the middle of a file's replacement (files are replaced
  by a rename), and its requests are valid: validation has no state.  The profile a
  registration may name (`main.py:1085`, 1127) goes to the file that `Profiles` has.
- `FindingStore` has no files that cannot be read.
- Sessions and login limiter: tables changed under one lock each.  CVE ranges: a
  pure function.  The Rust job table and registry.  Scores and graph, dashboard, PDF,
  logs, Nuclei: rendering and external tools.
- Two server processes on one directory: DEPLOYMENT.md rules them out.

## The plan

Done: `JobFence` and `Jobs`; `Lifecycle`; `AtomicEdits` and `FindingStore`; `RustStore`;
`Exposure`; `Orgs` and `Registry`; `Profiles` and `AiPhase`; `Correlation`; and the
proofs of all of them.

Left, in this order:

1. The composition of `Jobs` with `FindingStore` that discharges "one job at a time",
   and of `FindingStore` with `Lifecycle` that does so for atomic apply steps.
2. Files that cannot be read, in `FindingStore` and `RustStore`, and Rust requests
   that are stopped at an `await`.
3. `Registry` for the Rust server, with a lock per slug around one file.
4. `Sessions`: limiter and sessions at their caps.  `CveMatch`: version ranges
   against a reference order.  The Rust job table as a variant of `Jobs`.
