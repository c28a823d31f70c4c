----------------------------- MODULE JobsProofs -----------------------------
(***************************************************************************)
(* The safety properties of Jobs for any organizations, kinds, cap, pool   *)
(* size, time to live and bounds.                                          *)
(*                                                                         *)
(* LiveIsRunning is not inductive by itself: a wrapper could sit in the    *)
(* queue without being in phase "queued", or a fresh id could turn out to  *)
(* be in use.  QueueInv, IdInv, KeyInv and HeldInv rule that out.          *)
(***************************************************************************)
EXTENDS Jobs, TLAPS

\* What waits in the pool's queue has been submitted, once.
QueueInv ==
    /\ \A i \in 1..Len(queue) : phase[queue[i]] = "queued"
    /\ \A i, m \in 1..Len(queue) : queue[i] = queue[m] => i = m

\* An id that has not been handed out belongs to no job.
IdInv == \A j \in Job : j.n >= nextId => phase[j] = "unused"

\* The entry of a key is of that organization and kind.
KeyInv ==
    \A o \in Orgs, k \in Kinds :
        table[o][k] # NoEntry => table[o][k].id.org = o /\ table[o][k].id.kind = k

\* The table speaks of no job before it is accepted.
HeldInv == \A j \in Job : Holds(j) => phase[j] # "unused"

Inv == TypeOK /\ QueueInv /\ IdInv /\ KeyInv /\ HeldInv /\ LiveIsRunning

-----------------------------------------------------------------------------
(* Each step preserves the types. *)

LEMMA NoEntryApart == NoEntry \notin Entry
BY DEF NoEntry, Entry

LEMMA TypeInit == Init => TypeOK
BY JobsAssumption DEF Init, TypeOK, Phase, Job

LEMMA PruneType ==
    ASSUME NEW t \in [Orgs -> [Kinds -> Entry \cup {NoEntry}]]
    PROVE  Prune(t) \in [Orgs -> [Kinds -> Entry \cup {NoEntry}]]
BY DEF Prune

LEMMA ReleasedType ==
    ASSUME TypeOK, NEW j \in Job, NEW ok \in BOOLEAN
    PROVE  Released(j, ok) \in [Orgs -> [Kinds -> Entry \cup {NoEntry}]]
<1>1. CASE ~Holds(j)
  BY <1>1 DEF Released, TypeOK
<1>2. CASE Holds(j)
  <2> DEFINE e == table[j.org][j.kind]
  <2>1. j.org \in Orgs /\ j.kind \in Kinds
    BY DEF Job
  <2>2. e \in Entry
    BY <1>2, <2>1 DEF TypeOK, Holds, EntryOf, NoEntry
  <2>3. Closed(e, ok) \in Entry
    BY <2>2 DEF Closed, Entry, TypeOK
  <2>4. [table EXCEPT ![j.org][j.kind] = Closed(@, ok)]
           \in [Orgs -> [Kinds -> Entry \cup {NoEntry}]]
    BY <2>1, <2>3 DEF TypeOK
  <2>5. QED
    BY <1>2, <2>4, PruneType DEF Released
<1>3. QED
  BY <1>1, <1>2

LEMMA TypeStep == TypeOK /\ [Next]_vars => TypeOK'
<1> SUFFICES ASSUME TypeOK, [Next]_vars
             PROVE  TypeOK'
  OBVIOUS
<1>1. ASSUME NEW o \in Orgs, NEW k \in Kinds, TryAcquire(o, k)
      PROVE  TypeOK'
  <2> DEFINE j == [org |-> o, kind |-> k, n |-> nextId]
  <2>1. j \in Job
    BY <1>1, JobsAssumption DEF TryAcquire, TypeOK, Job
  <2>2. [id |-> j, status |-> "running", stage |-> "queued", finished |-> 0] \in Entry
    BY <2>1, JobsAssumption DEF Entry
  <2>3. table' \in [Orgs -> [Kinds -> Entry \cup {NoEntry}]]
    BY <1>1, <2>2 DEF TryAcquire, Acquired, TypeOK
  <2>4. phase' \in [Job -> Phase]
    BY <1>1, <2>1 DEF TryAcquire, Acquired, TypeOK, Phase
  <2>5. nextId' \in 1..(MaxJobs + 1)
    BY <1>1, JobsAssumption DEF TryAcquire, TypeOK
  <2>6. QED
    BY <1>1, <2>3, <2>4, <2>5 DEF TryAcquire, Acquired, TypeOK
<1>2. ASSUME NEW j \in Job, Submit(j)
      PROVE  TypeOK'
  BY <1>2 DEF Submit, TypeOK, Phase
<1>3. ASSUME NEW j \in Job, Progress(j)
      PROVE  TypeOK'
  <2>1. j.org \in Orgs /\ j.kind \in Kinds
    BY DEF Job
  <2>2. table[j.org][j.kind] \in Entry
    BY <1>3, <2>1 DEF Progress, TypeOK, Holds, EntryOf, NoEntry
  <2>3. [table[j.org][j.kind] EXCEPT !.stage = "work"] \in Entry
    BY <2>2 DEF Entry
  <2>4. QED
    BY <1>3, <2>1, <2>3 DEF Progress, TypeOK
<1>4. ASSUME NEW j \in Job, Leave(j)
      PROVE  TypeOK'
  BY <1>4 DEF Leave, TypeOK, Phase
<1>5. ASSUME NEW j \in Job, NEW ok \in BOOLEAN, Finish(j, ok)
      PROVE  TypeOK'
  BY <1>5, ReleasedType DEF Finish, TypeOK, Phase
<1>6. CASE Start
  <2>1. Head(queue) \in Job /\ Tail(queue) \in Seq(Job)
    BY <1>6 DEF Start, TypeOK
  <2>2. QED
    BY <1>6, <2>1 DEF Start, TypeOK, Phase
<1>7. CASE Tick
  BY <1>7, JobsAssumption DEF Tick, TypeOK
<1>8. CASE Restart
  BY <1>8 DEF Restart, TypeOK, Phase
<1>9. CASE UNCHANGED vars
  BY <1>9 DEF vars, TypeOK
<1>10. QED
  BY <1>1, <1>2, <1>3, <1>4, <1>5, <1>6, <1>7, <1>8, <1>9 DEF Next

\* Every variable stays within its type.
THEOREM TypeCorrect == Spec => []TypeOK
<1>1. QED
  BY TypeInit, TypeStep, PTL DEF Spec

-----------------------------------------------------------------------------
(* Queue, ids and keys. *)

LEMMA FreshJob ==
    ASSUME TypeOK, IdInv, nextId <= MaxJobs, NEW o \in Orgs, NEW k \in Kinds
    PROVE  LET j == [org |-> o, kind |-> k, n |-> nextId]
           IN  j \in Job /\ phase[j] = "unused"
<1> DEFINE j == [org |-> o, kind |-> k, n |-> nextId]
<1>1. nextId \in 1..MaxJobs
  BY JobsAssumption DEF TypeOK
<1>2. j \in Job /\ j.n = nextId
  BY <1>1 DEF Job
<1>3. phase[j] = "unused"
  BY <1>1, <1>2 DEF IdInv
<1>4. QED
  BY <1>2, <1>3

LEMMA QueueStep == TypeOK /\ QueueInv /\ IdInv /\ [Next]_vars => QueueInv'
<1> SUFFICES ASSUME TypeOK, QueueInv, IdInv, [Next]_vars
             PROVE  QueueInv'
  OBVIOUS
<1>1. ASSUME NEW o \in Orgs, NEW k \in Kinds, TryAcquire(o, k)
      PROVE  QueueInv'
  <2> DEFINE j == [org |-> o, kind |-> k, n |-> nextId]
  <2>1. j \in Job /\ phase[j] = "unused"
    BY <1>1, FreshJob DEF TryAcquire
  <2>2. \A i \in 1..Len(queue) : queue[i] \in Job /\ queue[i] # j
    BY <2>1 DEF QueueInv, TypeOK
  <2>3. phase' = [phase EXCEPT ![j] = "accepted"] /\ queue' = queue
    BY <1>1 DEF TryAcquire, Acquired
  <2>4. QED
    BY <2>1, <2>2, <2>3 DEF QueueInv, TypeOK
<1>2. ASSUME NEW j \in Job, Submit(j)
      PROVE  QueueInv'
  <2>1. \A i \in 1..Len(queue) : queue[i] \in Job /\ queue[i] # j
    BY <1>2 DEF QueueInv, TypeOK, Submit
  <2>2. /\ Len(queue') = Len(queue) + 1
        /\ queue'[Len(queue) + 1] = j
        /\ \A i \in 1..Len(queue) : queue'[i] = queue[i]
    BY <1>2 DEF Submit, TypeOK
  <2>3. Len(queue) \in Nat
    BY DEF TypeOK
  <2>4. \A i \in 1..Len(queue') : i \in 1..Len(queue) \/ i = Len(queue) + 1
    BY <2>2, <2>3
  <2>5. phase'[j] = "queued" /\ \A i \in Job : i # j => phase'[i] = phase[i]
    BY <1>2 DEF Submit, TypeOK
  <2>6. \A i \in 1..Len(queue') : phase'[queue'[i]] = "queued"
    BY <2>1, <2>2, <2>4, <2>5 DEF QueueInv
  <2>7. \A i, m \in 1..Len(queue') : queue'[i] = queue'[m] => i = m
    BY <2>1, <2>2, <2>4 DEF QueueInv
  <2>8. QED
    BY <2>6, <2>7 DEF QueueInv
<1>3. ASSUME NEW j \in Job, Progress(j)
      PROVE  QueueInv'
  BY <1>3 DEF Progress, QueueInv
<1>4. ASSUME NEW j \in Job, Leave(j)
      PROVE  QueueInv'
  <2>1. \A i \in 1..Len(queue) : queue[i] \in Job /\ queue[i] # j
    BY <1>4 DEF QueueInv, TypeOK, Leave
  <2>2. QED
    BY <1>4, <2>1 DEF Leave, QueueInv, TypeOK
<1>5. ASSUME NEW j \in Job, NEW ok \in BOOLEAN, Finish(j, ok)
      PROVE  QueueInv'
  <2>1. \A i \in 1..Len(queue) : queue[i] \in Job /\ queue[i] # j
    BY <1>5 DEF QueueInv, TypeOK, Finish
  <2>2. QED
    BY <1>5, <2>1 DEF Finish, QueueInv, TypeOK
<1>6. CASE Start
  <2>1. queue # <<>> /\ queue \in Seq(Job)
    BY <1>6 DEF Start, TypeOK
  <2>2. /\ Len(queue) \in Nat
        /\ Len(queue) > 0
        /\ Len(queue') = Len(queue) - 1
        /\ Head(queue) = queue[1]
        /\ \A i \in 1..Len(queue') : queue'[i] = queue[i + 1]
    BY <1>6, <2>1 DEF Start
  <2>3. \A i \in 1..Len(queue') : i + 1 \in 1..Len(queue) /\ i + 1 # 1
    BY <2>2
  <2>4. \A i \in 1..Len(queue') : queue'[i] \in Job /\ queue'[i] # Head(queue)
    BY <2>1, <2>2, <2>3 DEF QueueInv
  <2>5. \A i \in 1..Len(queue') : phase'[queue'[i]] = "queued"
    <3>1. phase' = [phase EXCEPT ![Head(queue)] = "working"]
      BY <1>6 DEF Start
    <3>2. \A i \in 1..Len(queue') : phase'[queue'[i]] = phase[queue'[i]]
      BY <3>1, <2>4 DEF TypeOK
    <3>3. \A i \in 1..Len(queue') : phase[queue'[i]] = "queued"
      BY <2>2, <2>3 DEF QueueInv
    <3>4. QED
      BY <3>2, <3>3
  <2>6. \A i, m \in 1..Len(queue') : queue'[i] = queue'[m] => i = m
    <3>1. TAKE i, m \in 1..Len(queue')
    <3>2. HAVE queue'[i] = queue'[m]
    <3>3. queue[i + 1] = queue[m + 1]
      BY <3>2, <2>2
    <3>4. i + 1 = m + 1
      BY <3>3, <2>3 DEF QueueInv
    <3>5. QED
      BY <3>4
  <2>7. QED
    BY <2>5, <2>6 DEF QueueInv
<1>7. CASE Tick
  BY <1>7 DEF Tick, QueueInv
<1>8. CASE Restart
  BY <1>8 DEF Restart, QueueInv
<1>9. CASE UNCHANGED vars
  BY <1>9 DEF vars, QueueInv
<1>10. QED
  BY <1>1, <1>2, <1>3, <1>4, <1>5, <1>6, <1>7, <1>8, <1>9 DEF Next

LEMMA IdStep == TypeOK /\ QueueInv /\ IdInv /\ [Next]_vars => IdInv'
<1> SUFFICES ASSUME TypeOK, QueueInv, IdInv, [Next]_vars
             PROVE  IdInv'
  OBVIOUS
<1> USE DEF IdInv
<1>1. ASSUME NEW o \in Orgs, NEW k \in Kinds, TryAcquire(o, k)
      PROVE  IdInv'
  <2> DEFINE j == [org |-> o, kind |-> k, n |-> nextId]
  <2>1. /\ phase' = [phase EXCEPT ![j] = "accepted"]
        /\ nextId' = nextId + 1
        /\ nextId \in Nat
    BY <1>1, JobsAssumption DEF TryAcquire, Acquired, TypeOK
  <2>2. ASSUME NEW i \in Job, i.n >= nextId'
        PROVE  phase'[i] = "unused"
    <3>1. i.n \in Nat /\ i.n >= nextId /\ i.n # nextId
      BY <2>1, <2>2, JobsAssumption DEF Job
    <3>2. i # j
      BY <3>1
    <3>3. QED
      BY <2>1, <3>1, <3>2 DEF TypeOK
  <2>3. QED
    BY <2>2
<1>2. ASSUME NEW j \in Job, Submit(j)
      PROVE  IdInv'
  BY <1>2 DEF Submit, TypeOK
<1>3. ASSUME NEW j \in Job, Progress(j)
      PROVE  IdInv'
  BY <1>3 DEF Progress
<1>4. ASSUME NEW j \in Job, Leave(j)
      PROVE  IdInv'
  BY <1>4 DEF Leave, TypeOK
<1>5. ASSUME NEW j \in Job, NEW ok \in BOOLEAN, Finish(j, ok)
      PROVE  IdInv'
  BY <1>5 DEF Finish, TypeOK
<1>6. CASE Start
  <2>1. Head(queue) \in Job /\ phase[Head(queue)] = "queued"
    BY <1>6 DEF Start, TypeOK, QueueInv
  <2>2. QED
    BY <1>6, <2>1 DEF Start, TypeOK
<1>7. CASE Tick
  BY <1>7 DEF Tick
<1>8. CASE Restart
  BY <1>8 DEF Restart, TypeOK
<1>9. CASE UNCHANGED vars
  BY <1>9 DEF vars
<1>10. QED
  BY <1>1, <1>2, <1>3, <1>4, <1>5, <1>6, <1>7, <1>8, <1>9 DEF Next

-----------------------------------------------------------------------------
(* The table. *)

\* Pruning drops finished entries and touches no other.
LEMMA PruneEntry ==
    ASSUME NEW t \in [Orgs -> [Kinds -> Entry \cup {NoEntry}]],
           NEW o \in Orgs, NEW k \in Kinds
    PROVE  /\ Prune(t)[o][k] \in {t[o][k], NoEntry}
           /\ t[o][k].status = "running" => Prune(t)[o][k] = t[o][k]
           /\ t[o][k].status \in {"done", "failed"} \/ Prune(t)[o][k] = t[o][k]
<1>1. Prune(t)[o][k] = IF Expired(t[o][k]) THEN NoEntry ELSE t[o][k]
  BY DEF Prune
<1>2. Expired(t[o][k]) => t[o][k].status \in {"done", "failed"}
  BY DEF Expired
<1>3. QED
  BY <1>1, <1>2

\* The members of Live and Running, one by one.
LEMMA Pointwise ==
    LiveIsRunning <=>
      \A j \in Job : phase[j] \in {"accepted", "queued", "working"}
                      <=> Holds(j) /\ EntryOf(j).status = "running"
BY DEF LiveIsRunning, Live, Running

\* What releasing a slot does to the table: the entry of j is finished or
\* gone, and no other key sees more than finished entries dropped.
LEMMA ReleasedEntry ==
    ASSUME TypeOK, NEW j \in Job, Holds(j), NEW ok \in BOOLEAN,
           NEW o \in Orgs, NEW k \in Kinds
    PROVE  LET e == Released(j, ok)[o][k]
           IN  /\ <<o, k>> = <<j.org, j.kind>> =>
                     e = NoEntry \/ (e.status \in {"done", "failed"} /\ e.id = j)
               /\ <<o, k>> # <<j.org, j.kind>> =>
                     /\ e \in {table[o][k], NoEntry}
                     /\ table[o][k].status = "running" => e = table[o][k]
                     /\ e = NoEntry => table[o][k].status \in {"none", "done", "failed"}
<1> DEFINE t == [table EXCEPT ![j.org][j.kind] = Closed(@, ok)]
           c == Closed(table[j.org][j.kind], ok)
<1>1. j.org \in Orgs /\ j.kind \in Kinds
  BY DEF Job
<1>2. table[j.org][j.kind] \in Entry /\ table[j.org][j.kind].id = j
  BY <1>1 DEF TypeOK, Holds, EntryOf, NoEntry
<1>3. c \in Entry /\ c.status \in {"done", "failed"} /\ c.id = j
  BY <1>2 DEF Closed, Entry, TypeOK
<1>4. t \in [Orgs -> [Kinds -> Entry \cup {NoEntry}]]
  BY <1>1, <1>3 DEF TypeOK
<1>5. t[j.org][j.kind] = c
  BY <1>1 DEF TypeOK
<1>6. <<o, k>> # <<j.org, j.kind>> => t[o][k] = table[o][k]
  BY <1>1 DEF TypeOK
<1>7. Released(j, ok) = Prune(t)
  BY DEF Released
<1> HIDE DEF t, c
<1>8. ASSUME <<o, k>> = <<j.org, j.kind>>
      PROVE  Released(j, ok)[o][k] \in {c, NoEntry}
  BY <1>8, <1>4, <1>5, <1>7, PruneEntry
<1>9. ASSUME <<o, k>> # <<j.org, j.kind>>
      PROVE  LET e == Released(j, ok)[o][k]
             IN  /\ e \in {table[o][k], NoEntry}
                 /\ table[o][k].status = "running" => e = table[o][k]
                 /\ e = NoEntry => table[o][k].status \in {"none", "done", "failed"}
  <2> DEFINE e == Released(j, ok)[o][k]
  <2>1. /\ e \in {t[o][k], NoEntry}
        /\ t[o][k].status = "running" => e = t[o][k]
        /\ t[o][k].status \in {"done", "failed"} \/ e = t[o][k]
    BY <1>4, <1>7, PruneEntry
  <2>2. NoEntry.status = "none"
    BY DEF NoEntry
  <2>3. QED
    BY <2>1, <2>2, <1>6, <1>9
<1>10. CASE <<o, k>> = <<j.org, j.kind>>
  BY <1>3, <1>8, <1>10
<1>11. CASE <<o, k>> # <<j.org, j.kind>>
  BY <1>9, <1>11
<1>12. QED
  BY <1>10, <1>11

LEMMA KeyStep == TypeOK /\ KeyInv /\ LiveIsRunning /\ [Next]_vars => KeyInv'
<1> SUFFICES ASSUME TypeOK, KeyInv, LiveIsRunning, [Next]_vars
             PROVE  KeyInv'
  OBVIOUS
<1>1. ASSUME NEW o \in Orgs, NEW k \in Kinds, TryAcquire(o, k)
      PROVE  KeyInv'
  BY <1>1 DEF TryAcquire, Acquired, KeyInv, TypeOK
<1>2. ASSUME NEW j \in Job, Submit(j)
      PROVE  KeyInv'
  BY <1>2 DEF Submit, KeyInv
<1>3. ASSUME NEW j \in Job, Progress(j)
      PROVE  KeyInv'
  <2>1. /\ j.org \in Orgs /\ j.kind \in Kinds
        /\ table[j.org][j.kind] \in Entry /\ table[j.org][j.kind].id = j
    BY <1>3 DEF Progress, TypeOK, Holds, EntryOf, NoEntry, Job
  <2>2. table' = [table EXCEPT ![j.org][j.kind].stage = "work"]
    BY <1>3 DEF Progress
  <2>3. [table[j.org][j.kind] EXCEPT !.stage = "work"].id = j
    BY <2>1 DEF Entry
  <2>4. table'[j.org][j.kind].id = j
    BY <2>1, <2>2, <2>3 DEF TypeOK
  <2>5. \A o \in Orgs, k \in Kinds :
          <<o, k>> # <<j.org, j.kind>> => table'[o][k] = table[o][k]
    BY <2>1, <2>2 DEF TypeOK
  <2>6. QED
    BY <2>4, <2>5 DEF KeyInv
<1>4. ASSUME NEW j \in Job, Leave(j)
      PROVE  KeyInv'
  BY <1>4 DEF Leave, KeyInv
<1>5. ASSUME NEW j \in Job, NEW ok \in BOOLEAN, Finish(j, ok)
      PROVE  KeyInv'
  <2>1. Holds(j)
    BY <1>5, Pointwise DEF Finish
  <2>2. table' = Released(j, ok)
    BY <1>5 DEF Finish
  <2>3. ASSUME NEW o \in Orgs, NEW k \in Kinds, table'[o][k] # NoEntry
        PROVE  table'[o][k].id.org = o /\ table'[o][k].id.kind = k
    BY <2>1, <2>2, <2>3, ReleasedEntry DEF KeyInv
  <2>4. QED
    BY <2>3 DEF KeyInv
<1>6. CASE Start
  BY <1>6 DEF Start, KeyInv
<1>7. CASE Tick
  BY <1>7 DEF Tick, KeyInv
<1>8. CASE Restart
  BY <1>8 DEF Restart, KeyInv
<1>9. CASE UNCHANGED vars
  BY <1>9 DEF vars, KeyInv
<1>10. QED
  BY <1>1, <1>2, <1>3, <1>4, <1>5, <1>6, <1>7, <1>8, <1>9 DEF Next

-----------------------------------------------------------------------------
(* The table and the pool agree. *)

\* The job an entry of the table is about, seen from the entry.
LEMMA HoldsEntry ==
    ASSUME TypeOK, NEW j \in Job
    PROVE  /\ j.org \in Orgs /\ j.kind \in Kinds
           /\ Holds(j) <=> table[j.org][j.kind] # NoEntry /\ table[j.org][j.kind].id = j
<1>1. j.org \in Orgs /\ j.kind \in Kinds
  BY DEF Job
<1>2. table[j.org][j.kind].status = "none" <=> table[j.org][j.kind] = NoEntry
  BY <1>1 DEF TypeOK, Entry, NoEntry
<1>3. QED
  BY <1>1, <1>2 DEF Holds, EntryOf

LEMMA AcquireLive ==
    ASSUME TypeOK, IdInv, LiveIsRunning,
           NEW o \in Orgs, NEW k \in Kinds, TryAcquire(o, k)
    PROVE  LET j == [org |-> o, kind |-> k, n |-> nextId]
           IN  /\ j \in Job /\ phase[j] = "unused"
               /\ Live' = Live \cup {j}
               /\ Running' = Running \cup {j}
<1> DEFINE j == [org |-> o, kind |-> k, n |-> nextId]
           e == [id |-> j, status |-> "running", stage |-> "queued", finished |-> 0]
<1>1. j \in Job /\ phase[j] = "unused" /\ j.org = o /\ j.kind = k
  BY FreshJob DEF TryAcquire
<1>2. /\ phase' = [phase EXCEPT ![j] = "accepted"]
      /\ table' = [table EXCEPT ![o][k] = e]
      /\ e.id = j /\ e.status = "running"
  BY DEF TryAcquire, Acquired
<1>3. table[o][k].status # "running"
  BY DEF TryAcquire, OrgBusy
<1> HIDE DEF j, e
<1>4. Live' = Live \cup {j}
  BY <1>1, <1>2 DEF Live, TypeOK
<1>5. table'[o][k] = e
  BY <1>2 DEF TypeOK
<1>6. ASSUME NEW i \in Job
      PROVE  i \in Running' <=> i \in Running \/ i = j
  <2>1. i.org \in Orgs /\ i.kind \in Kinds
    BY DEF Job
  <2>2. CASE i.org = o /\ i.kind = k
    BY <2>2, <1>1, <1>2, <1>3, <1>5 DEF Running, Holds, EntryOf
  <2>3. CASE ~(i.org = o /\ i.kind = k)
    <3>1. table'[i.org][i.kind] = table[i.org][i.kind]
      BY <2>1, <2>3, <1>2 DEF TypeOK
    <3>2. i # j
      BY <2>3, <1>1
    <3>3. QED
      BY <3>1, <3>2 DEF Running, Holds, EntryOf
  <2>4. QED
    BY <2>2, <2>3
<1>7. Running' = Running \cup {j}
  BY <1>1, <1>6 DEF Running
<1>8. QED
  BY <1>1, <1>4, <1>7 DEF j

LEMMA FinishLive ==
    ASSUME TypeOK, LiveIsRunning, NEW j \in Job, NEW ok \in BOOLEAN, Finish(j, ok)
    PROVE  /\ Live' = Live \ {j}
           /\ Running' = Running \ {j}
<1>1. phase[j] = "working" /\ phase' = [phase EXCEPT ![j] = "draining"]
      /\ table' = Released(j, ok)
  BY DEF Finish
<1>2. Holds(j)
  BY <1>1, Pointwise
<1>3. Live' = Live \ {j}
  BY <1>1 DEF Live, TypeOK
<1>4. ASSUME NEW i \in Job
      PROVE  i \in Running' <=> i \in Running /\ i # j
  <2> DEFINE e == Released(j, ok)[i.org][i.kind]
  <2>1. i.org \in Orgs /\ i.kind \in Kinds
    BY DEF Job
  <2>2. NoEntry.status = "none"
    BY DEF NoEntry
  <2>3. CASE <<i.org, i.kind>> = <<j.org, j.kind>>
    <3>1. e = NoEntry \/ (e.status \in {"done", "failed"} /\ e.id = j)
      BY <2>1, <2>3, <1>2, ReleasedEntry
    <3>2. i \notin Running'
      BY <3>1, <2>2, <1>1 DEF Running, Holds, EntryOf
    <3>3. i \in Running => i = j
      BY <2>3, <1>2 DEF Running, Holds, EntryOf
    <3>4. QED
      BY <3>2, <3>3
  <2>4. CASE <<i.org, i.kind>> # <<j.org, j.kind>>
    <3>1. /\ e \in {table[i.org][i.kind], NoEntry}
          /\ table[i.org][i.kind].status = "running" => e = table[i.org][i.kind]
      BY <2>1, <2>4, <1>2, ReleasedEntry
    <3>2. i # j
      BY <2>4
    <3>3. QED
      BY <3>1, <3>2, <2>2, <1>1 DEF Running, Holds, EntryOf
  <2>5. QED
    BY <2>3, <2>4
<1>5. Running' = Running \ {j}
  BY <1>4 DEF Running
<1>6. QED
  BY <1>3, <1>5

LEMMA ProgressLive ==
    ASSUME TypeOK, NEW j \in Job, Progress(j)
    PROVE  /\ Live' = Live /\ Running' = Running
           /\ \A i \in Job : StatusOf(i)' = StatusOf(i) /\ (Holds(i) <=> Holds(i)')
<1>1. /\ j.org \in Orgs /\ j.kind \in Kinds
      /\ table[j.org][j.kind] \in Entry
  BY DEF Progress, TypeOK, Holds, EntryOf, NoEntry, Job
<1>2. table' = [table EXCEPT ![j.org][j.kind].stage = "work"] /\ phase' = phase
  BY DEF Progress
<1>3. ASSUME NEW o \in Orgs, NEW k \in Kinds
      PROVE  /\ table'[o][k].status = table[o][k].status
             /\ table'[o][k].status # "none" => table'[o][k].id = table[o][k].id
  <2> DEFINE w == [table[j.org][j.kind] EXCEPT !.stage = "work"]
  <2>1. /\ w.status = table[j.org][j.kind].status
        /\ w.id = table[j.org][j.kind].id
    BY <1>1 DEF Entry
  <2>2. table'[o][k] = IF o = j.org /\ k = j.kind THEN w ELSE table[o][k]
    BY <1>1, <1>2 DEF TypeOK
  <2>3. QED
    BY <2>1, <2>2
<1>4. \A i \in Job : i.org \in Orgs /\ i.kind \in Kinds
  BY DEF Job
<1>5. \A i \in Job : /\ Holds(i)' <=> Holds(i)
                     /\ EntryOf(i)'.status = EntryOf(i).status
  BY <1>3, <1>4 DEF Holds, EntryOf
<1>6. QED
  BY <1>2, <1>5 DEF Live, Running, StatusOf

\* Live is Running in every state.
LEMMA LiveStep ==
    TypeOK /\ QueueInv /\ IdInv /\ LiveIsRunning /\ [Next]_vars => LiveIsRunning'
<1> SUFFICES ASSUME TypeOK, QueueInv, IdInv, LiveIsRunning, [Next]_vars
             PROVE  LiveIsRunning'
  OBVIOUS
<1>1. ASSUME NEW o \in Orgs, NEW k \in Kinds, TryAcquire(o, k)
      PROVE  LiveIsRunning'
  BY <1>1, AcquireLive DEF LiveIsRunning
<1>2. ASSUME NEW j \in Job, Submit(j)
      PROVE  LiveIsRunning'
  BY <1>2 DEF Submit, LiveIsRunning, Live, Running, Holds, EntryOf, TypeOK
<1>3. ASSUME NEW j \in Job, Progress(j)
      PROVE  LiveIsRunning'
  BY <1>3, ProgressLive DEF LiveIsRunning
<1>4. ASSUME NEW j \in Job, Leave(j)
      PROVE  LiveIsRunning'
  BY <1>4 DEF Leave, LiveIsRunning, Live, Running, Holds, EntryOf, TypeOK
<1>5. ASSUME NEW j \in Job, NEW ok \in BOOLEAN, Finish(j, ok)
      PROVE  LiveIsRunning'
  BY <1>5, FinishLive DEF LiveIsRunning
<1>6. CASE Start
  <2>1. Head(queue) \in Job /\ phase[Head(queue)] = "queued"
    BY <1>6 DEF Start, TypeOK, QueueInv
  <2>2. QED
    BY <1>6, <2>1 DEF Start, LiveIsRunning, Live, Running, Holds, EntryOf, TypeOK
<1>7. CASE Tick
  BY <1>7 DEF Tick, LiveIsRunning, Live, Running, Holds, EntryOf
<1>8. CASE Restart
  <2>1. \A j \in Job : table'[j.org][j.kind] = NoEntry
    BY <1>8 DEF Restart, Job
  <2>2. \A j \in Job : phase'[j] \notin {"accepted", "queued", "working"}
    BY <1>8 DEF Restart
  <2>3. QED
    BY <2>1, <2>2 DEF LiveIsRunning, Live, Running, Holds, EntryOf, NoEntry
<1>9. CASE UNCHANGED vars
  BY <1>9 DEF vars, LiveIsRunning, Live, Running, Holds, EntryOf
<1>10. QED
  BY <1>1, <1>2, <1>3, <1>4, <1>5, <1>6, <1>7, <1>8, <1>9 DEF Next

\* What an accepted job finds and leaves in the table.
LEMMA AcquireEntries ==
    ASSUME TypeOK, IdInv, NEW o \in Orgs, NEW k \in Kinds, TryAcquire(o, k)
    PROVE  \E j \in Job :
             /\ phase[j] = "unused" /\ phase' = [phase EXCEPT ![j] = "accepted"]
             /\ \A i \in Job : i # j /\ Holds(i)' => Holds(i) /\ StatusOf(i)' = StatusOf(i)
<1> DEFINE j == [org |-> o, kind |-> k, n |-> nextId]
           e == [id |-> j, status |-> "running", stage |-> "queued", finished |-> 0]
<1>1. j \in Job /\ phase[j] = "unused"
  BY FreshJob DEF TryAcquire
<1>2. /\ phase' = [phase EXCEPT ![j] = "accepted"]
      /\ table' = [table EXCEPT ![o][k] = e]
      /\ e.id = j
  BY DEF TryAcquire, Acquired
<1> HIDE DEF j, e
<1>3. ASSUME NEW i \in Job, i # j, Holds(i)'
      PROVE  Holds(i) /\ StatusOf(i)' = StatusOf(i)
  <2>1. i.org \in Orgs /\ i.kind \in Kinds
    BY DEF Job
  <2>2. table'[i.org][i.kind] = IF i.org = o /\ i.kind = k THEN e ELSE table[i.org][i.kind]
    BY <1>2, <2>1 DEF TypeOK
  <2>3. table'[i.org][i.kind] = table[i.org][i.kind]
    BY <2>2, <1>3, <1>2 DEF Holds, EntryOf
  <2>4. QED
    BY <1>3, <2>3 DEF Holds, EntryOf, StatusOf
<1>4. QED
  BY <1>1, <1>2, <1>3

\* What a released job leaves in the table.
LEMMA FinishEntries ==
    ASSUME TypeOK, LiveIsRunning, NEW j \in Job, NEW ok \in BOOLEAN, Finish(j, ok),
           NEW i \in Job
    PROVE  /\ Holds(i)' => Holds(i)
           /\ i # j => StatusOf(i)' \in {StatusOf(i), "unknown"}
           /\ i = j => StatusOf(i) = "running"
<1> DEFINE e == Released(j, ok)[i.org][i.kind]
<1>1. Holds(j) /\ EntryOf(j).status = "running" /\ table' = Released(j, ok)
  BY Pointwise DEF Finish
<1>2. /\ i.org \in Orgs /\ i.kind \in Kinds
      /\ NoEntry.status = "none"
  BY DEF Job, NoEntry
<1>3. table'[i.org][i.kind] = e
  BY <1>1
<1>4. CASE <<i.org, i.kind>> = <<j.org, j.kind>>
  <2>1. e = NoEntry \/ (e.status \in {"done", "failed"} /\ e.id = j)
    BY <1>1, <1>2, <1>4, ReleasedEntry
  <2> HIDE DEF e
  <2>2. Holds(i)' => i = j
    BY <2>1, <1>2, <1>3 DEF Holds, EntryOf
  <2>3. QED
    BY <2>2, <1>1 DEF StatusOf
<1>5. CASE <<i.org, i.kind>> # <<j.org, j.kind>>
  <2>1. e \in {table[i.org][i.kind], NoEntry}
    BY <1>1, <1>2, <1>5, ReleasedEntry
  <2> HIDE DEF e
  <2>2. i # j
    BY <1>5
  <2>3. QED
    BY <2>1, <2>2, <1>2, <1>3 DEF Holds, EntryOf, StatusOf
<1>6. QED
  BY <1>4, <1>5

LEMMA HeldStep ==
    TypeOK /\ QueueInv /\ IdInv /\ HeldInv /\ LiveIsRunning /\ [Next]_vars => HeldInv'
<1> SUFFICES ASSUME TypeOK, QueueInv, IdInv, HeldInv, LiveIsRunning, [Next]_vars
             PROVE  HeldInv'
  OBVIOUS
<1>1. ASSUME NEW o \in Orgs, NEW k \in Kinds, TryAcquire(o, k)
      PROVE  HeldInv'
  BY <1>1, AcquireEntries DEF HeldInv, TypeOK
<1>2. ASSUME NEW j \in Job, Submit(j)
      PROVE  HeldInv'
  BY <1>2 DEF Submit, HeldInv, Holds, EntryOf, TypeOK
<1>3. ASSUME NEW j \in Job, Progress(j)
      PROVE  HeldInv'
  <2>1. \A i \in Job : StatusOf(i)' = StatusOf(i) /\ (Holds(i) <=> Holds(i)')
    BY <1>3, ProgressLive
  <2>2. QED
    BY <1>3, <2>1 DEF Progress, HeldInv
<1>4. ASSUME NEW j \in Job, Leave(j)
      PROVE  HeldInv'
  BY <1>4 DEF Leave, HeldInv, Holds, EntryOf, TypeOK
<1>5. ASSUME NEW j \in Job, NEW ok \in BOOLEAN, Finish(j, ok)
      PROVE  HeldInv'
  <2>1. \A i \in Job : Holds(i)' => Holds(i)
    BY <1>5, FinishEntries
  <2>2. \A i \in Job : phase[i] # "unused" => phase'[i] # "unused"
    BY <1>5 DEF Finish, TypeOK
  <2>3. QED
    BY <2>1, <2>2 DEF HeldInv
<1>6. CASE Start
  <2>1. Head(queue) \in Job
    BY <1>6 DEF Start, TypeOK
  <2>2. QED
    BY <1>6, <2>1 DEF Start, HeldInv, Holds, EntryOf, TypeOK
<1>7. CASE Tick
  BY <1>7 DEF Tick, HeldInv, Holds, EntryOf
<1>8. CASE Restart
  <2>1. \A j \in Job : ~Holds(j)'
    BY <1>8 DEF Restart, Holds, EntryOf, NoEntry, Job
  <2>2. QED
    BY <2>1 DEF HeldInv
<1>9. CASE UNCHANGED vars
  BY <1>9 DEF vars, HeldInv, Holds, EntryOf
<1>10. QED
  BY <1>1, <1>2, <1>3, <1>4, <1>5, <1>6, <1>7, <1>8, <1>9 DEF Next

LEMMA InvInit == Init => Inv
<1> SUFFICES ASSUME Init
             PROVE  Inv
  OBVIOUS
<1>1. TypeOK
  BY TypeInit
<1>2. \A j \in Job : ~Holds(j) /\ phase[j] = "unused"
  BY DEF Init, Holds, EntryOf, NoEntry, Job
<1>3. QueueInv
  BY DEF Init, QueueInv
<1>4. IdInv /\ HeldInv /\ LiveIsRunning
  BY <1>2 DEF IdInv, HeldInv, LiveIsRunning, Live, Running
<1>5. KeyInv
  BY DEF Init, KeyInv
<1>6. QED
  BY <1>1, <1>3, <1>4, <1>5 DEF Inv

LEMMA InvStep == Inv /\ [Next]_vars => Inv'
BY TypeStep, QueueStep, IdStep, KeyStep, HeldStep, LiveStep DEF Inv

\* The inductive invariant holds in every reachable state.
THEOREM Invariance == Spec => []Inv
<1>1. QED
  BY InvInit, InvStep, PTL DEF Spec

\* The slots marked running are those of the jobs still to be worked off.
THEOREM FenceHolds == Spec => []LiveIsRunning
<1>1. Inv => LiveIsRunning
  BY DEF Inv
<1>2. QED
  BY <1>1, Invariance, PTL

-----------------------------------------------------------------------------
(* What rests on the fence. *)

\* An organization with a live job is busy.
LEMMA LiveBusy ==
    ASSUME LiveIsRunning, NEW i \in Live
    PROVE  i \in Job /\ OrgBusy(i.org)
<1>1. i \in Job /\ EntryOf(i).status = "running"
  BY DEF LiveIsRunning, Running, Live
<1>2. QED
  BY <1>1 DEF OrgBusy, EntryOf, Job

\* How a step changes the jobs that are live and those that are over.
Accepts(j) ==
    /\ j \notin Live \cup past
    /\ \A i \in Live : i.org # j.org
    /\ Cardinality(Live) < MaxActive
    /\ Live' = Live \cup {j}
    /\ past' = past

Ends(j) ==
    /\ j \in Live
    /\ Live' = Live \ {j}
    /\ past' = past \cup {j}

Loses == Live' = {} /\ past' = past \cup Live

Keeps == Live' = Live /\ past' = past

LEMMA LiveChange ==
    ASSUME Inv, [Next]_vars
    PROVE  Loses \/ Keeps \/ \E j \in Job : Accepts(j) \/ Ends(j)
<1> USE DEF Inv
<1>1. ASSUME NEW o \in Orgs, NEW k \in Kinds, TryAcquire(o, k)
      PROVE  \E j \in Job : Accepts(j)
  <2> DEFINE j == [org |-> o, kind |-> k, n |-> nextId]
  <2>1. j \in Job /\ phase[j] = "unused" /\ Live' = Live \cup {j}
    BY <1>1, AcquireLive
  <2>2. j.org = o /\ phase' = [phase EXCEPT ![j] = "accepted"]
        /\ ~OrgBusy(o) /\ Cardinality(Running) < MaxActive
    BY <1>1 DEF TryAcquire, Acquired
  <2> HIDE DEF j
  <2>3. \A i \in Live : i.org # j.org
    BY <2>2, LiveBusy
  <2>4. past' = past
    BY <2>1, <2>2 DEF past, TypeOK
  <2>5. Cardinality(Live) < MaxActive
    BY <2>2 DEF LiveIsRunning
  <2>6. j \notin Live \cup past
    BY <2>1 DEF Live, past
  <2>7. QED
    BY <2>1, <2>3, <2>4, <2>5, <2>6 DEF Accepts
<1>2. ASSUME NEW j \in Job, Submit(j)
      PROVE  Keeps
  BY <1>2 DEF Submit, Keeps, Live, past, TypeOK
<1>3. ASSUME NEW j \in Job, Progress(j)
      PROVE  Keeps
  BY <1>3 DEF Progress, Keeps, Live, past
<1>4. ASSUME NEW j \in Job, Leave(j)
      PROVE  Keeps
  BY <1>4 DEF Leave, Keeps, Live, past, TypeOK
<1>5. ASSUME NEW j \in Job, NEW ok \in BOOLEAN, Finish(j, ok)
      PROVE  Ends(j)
  <2>1. Live' = Live \ {j}
    BY <1>5, FinishLive
  <2>2. j \in Live
    BY <1>5 DEF Finish, Live
  <2>3. past' = past \cup {j}
    BY <1>5 DEF Finish, past, TypeOK
  <2>4. QED
    BY <2>1, <2>2, <2>3 DEF Ends
<1>6. CASE Start
  <2>1. Head(queue) \in Job /\ phase[Head(queue)] = "queued"
    BY <1>6 DEF Start, TypeOK, QueueInv
  <2>2. Live' = Live /\ past' = past
    BY <1>6, <2>1 DEF Start, Live, past, TypeOK
  <2>3. QED
    BY <2>2 DEF Keeps
<1>7. CASE Tick
  BY <1>7 DEF Tick, Keeps, Live, past
<1>8. CASE Restart
  <2>1. \A j \in Job : phase'[j] = IF phase[j] \in {"unused", "ended"}
                                  THEN phase[j] ELSE "lost"
    BY <1>8 DEF Restart
  <2>2. \A j \in Job : phase[j] \in Phase
    BY DEF TypeOK
  <2>3. Live' = {}
    BY <2>1 DEF Live
  <2>4. past' = past \cup Live
    BY <2>1, <2>2 DEF past, Live, Phase
  <2>5. QED
    BY <2>3, <2>4 DEF Loses
<1>9. CASE UNCHANGED vars
  BY <1>9 DEF vars, Keeps, Live, past
<1>10. QED
  BY <1>1, <1>2, <1>3, <1>4, <1>5, <1>6, <1>7, <1>8, <1>9 DEF Next

\* Two jobs of one organization are never both waiting or at work.
THEOREM Serialized == Spec => []OneJobPerOrg
<1>1. Init => OneJobPerOrg
  BY DEF Init, OneJobPerOrg, Live
<1>2. Inv /\ OneJobPerOrg /\ [Next]_vars => OneJobPerOrg'
  <2> SUFFICES ASSUME Inv, OneJobPerOrg, [Next]_vars
               PROVE  OneJobPerOrg'
    OBVIOUS
  <2>1. ASSUME NEW j \in Job, Accepts(j)
        PROVE  OneJobPerOrg'
    BY <2>1 DEF Accepts, OneJobPerOrg
  <2>2. ASSUME NEW j \in Job, Ends(j)
        PROVE  OneJobPerOrg'
    BY <2>2 DEF Ends, OneJobPerOrg
  <2>3. CASE Loses \/ Keeps
    BY <2>3 DEF Loses, Keeps, OneJobPerOrg
  <2>4. QED
    BY <2>1, <2>2, <2>3, LiveChange
<1>3. QED
  BY <1>1, <1>2, Invariance, PTL DEF Spec

\* The table and the pool implement the promise of JobFence.
THEOREM Refinement == Spec => ImplementsFence
<1>1. Init => Promise!FenceInit
  BY DEF Init, Promise!FenceInit, Live, past
<1>2. Inv /\ [Next]_vars => [Promise!FenceNext]_(Promise!fenceVars)
  <2> SUFFICES ASSUME Inv, [Next]_vars
               PROVE  Promise!FenceNext \/ UNCHANGED Promise!fenceVars
    BY DEF Promise!fenceVars
  <2>1. ASSUME NEW j \in Job, Accepts(j)
        PROVE  Promise!Begin(j)
    <3>1. Promise!Cardinality(Live) = Cardinality(Live)
      BY DEF Promise!Cardinality, Cardinality
    <3>2. QED
      BY <2>1, <3>1 DEF Accepts, Promise!Begin, JobOrg
  <2>2. ASSUME NEW j \in Job, Ends(j)
        PROVE  Promise!End(j)
    BY <2>2 DEF Ends, Promise!End
  <2>3. Loses => Promise!Crash
    BY DEF Loses, Promise!Crash
  <2>4. Keeps => UNCHANGED Promise!fenceVars
    BY DEF Keeps, Promise!fenceVars
  <2>5. QED
    BY <2>1, <2>2, <2>3, <2>4, LiveChange DEF Promise!FenceNext
<1>3. QED
  BY <1>1, <1>2, Invariance, PTL DEF Spec, ImplementsFence, Promise!FenceSpec

\* One step never takes back what a client was told.
StatusKept(j) ==
    /\ StatusOf(j) \in {"done", "failed"} => StatusOf(j)' \in {StatusOf(j), "unknown"}
    /\ StatusOf(j) = "unknown" /\ phase[j] # "unused" => StatusOf(j)' = "unknown"

LEMMA StatusStep ==
    ASSUME Inv, [Next]_vars, NEW i \in Job
    PROVE  StatusKept(i)
<1> USE DEF Inv
<1>1. ~Holds(i) <=> StatusOf(i) = "unknown"
  <2>1. i.org \in Orgs /\ i.kind \in Kinds
    BY DEF Job
  <2>2. Holds(i) => EntryOf(i) \in Entry
    BY <2>1 DEF TypeOK, Holds, EntryOf, NoEntry
  <2>3. QED
    BY <2>2 DEF StatusOf, Entry
<1>2. ASSUME NEW o \in Orgs, NEW k \in Kinds, TryAcquire(o, k)
      PROVE  StatusKept(i)
  <2>1. PICK j \in Job :
               /\ phase[j] = "unused"
               /\ i # j /\ Holds(i)' => Holds(i) /\ StatusOf(i)' = StatusOf(i)
    BY <1>2, AcquireEntries
  <2>2. CASE i = j
    BY <2>1, <2>2, <1>1 DEF HeldInv, StatusKept
  <2>3. CASE i # j
    BY <2>1, <2>3, <1>1 DEF StatusKept, StatusOf
  <2>4. QED
    BY <2>2, <2>3
<1>3. ASSUME NEW j \in Job, Progress(j)
      PROVE  StatusKept(i)
  BY <1>3, ProgressLive DEF StatusKept
<1>4. ASSUME NEW j \in Job, NEW ok \in BOOLEAN, Finish(j, ok)
      PROVE  StatusKept(i)
  <2>1. /\ i # j => StatusOf(i)' \in {StatusOf(i), "unknown"}
        /\ i = j => StatusOf(i) = "running"
    BY <1>4, FinishEntries
  <2>2. QED
    BY <2>1 DEF StatusKept
<1>5. CASE Restart
  <2>1. StatusOf(i)' = "unknown"
    BY <1>5 DEF Restart, StatusOf, Holds, EntryOf, NoEntry, Job
  <2>2. QED
    BY <2>1 DEF StatusKept
<1>6. ASSUME table' = table
      PROVE  StatusKept(i)
  BY <1>6 DEF StatusKept, StatusOf, Holds, EntryOf
<1>7. QED
  BY <1>2, <1>3, <1>4, <1>5, <1>6
     DEF Next, Submit, Leave, Start, Tick, vars

\* A finished job never runs again and never changes its outcome, and an id
\* that is no longer known never comes back.
THEOREM FinalStays == Spec => TerminalIsFinal
<1>1. Inv /\ [Next]_vars => [\A j \in Job : StatusKept(j)]_vars
  BY StatusStep
<1>2. QED
  BY <1>1, Invariance, PTL DEF Spec, TerminalIsFinal, StatusKept
=============================================================================
