------------------------- MODULE IngestionQueueProofs -------------------------
(***************************************************************************)
(* Proofs about IngestionQueue, for every number of workers, jobs, sources *)
(* and attempts.  A table step replaces rows by rows that Evolve from them  *)
(* and leaves every working dict alone; TableStep shows that it keeps the  *)
(* invariant.  Only Submit, which adds a row, and ReadBack, which adds a   *)
(* dict, are something else.                                               *)
(***************************************************************************)
EXTENDS IngestionQueue, TLAPS

(* What may become of row r in one step: nothing, its deletion, a change   *)
(* under the same lease, or a new lease.                                   *)
Evolves(r, q) ==
    \/ q = r
    \/ q = AbsentJob
    \/ /\ r.state # "absent"
       /\ q.state # "absent"
       /\ q.key = r.key
       /\ \/ q.generation > r.generation
          \/ /\ q.generation = r.generation
             /\ q.attempts = r.attempts
             /\ q.owner \in {r.owner, NoOwner}

RowsInv(js) == js \in [JobIds -> JobRows] /\ \A j \in JobIds : RowInv(js[j])

LEMMA AbsentJobType == AbsentJob \in JobRows /\ RowInv(AbsentJob)
BY DEF AbsentJob, JobRows, JobStates, RowInv

(* A dict stays behind the row it was read from.                           *)
LEMMA DictFollows ==
    ASSUME NEW w \in Workers, NEW d \in Dicts, NEW r \in JobRows, NEW q \in JobRows,
           Evolves(r, q), DictInv(w, d, r), RowInv(r)
    PROVE  DictInv(w, d, q)
<1>1. /\ r.generation \in Nat /\ q.generation \in Nat /\ d.generation \in Nat
      /\ AbsentJob.state = "absent"
  BY DEF JobRows, Dicts, AbsentJob
<1> QED
  BY <1>1 DEF Evolves, DictInv

(* The table changes row by row; workers may drop their dict, or claim.    *)
LEMMA TableStep ==
    ASSUME QueueInv, RowsInv(jobs'), submitted' = submitted, upsets' \in 0..MaxUpsets,
           \A j \in JobIds : Evolves(jobs[j], jobs'[j]),
           held' \in [Workers -> Dicts],
           \A w \in Workers : \/ held'[w] = held[w]
                              \/ held'[w].phase = "claimed" /\ held'[w].job \in 1..submitted
                              \/ held'[w].phase \in {"free", "ended", "down"}
    PROVE  QueueInv'
<1>0. /\ MaxJobs \in Nat /\ submitted \in 0..MaxJobs /\ JobIds = 1..MaxJobs
      /\ jobs \in [JobIds -> JobRows] /\ jobs' \in [JobIds -> JobRows]
      /\ held \in [Workers -> Dicts] /\ AbsentJob.state = "absent"
  BY QueueBounds DEF QueueInv, QueueTypeOK, JobIds, RowsInv, AbsentJob
<1>1. QueueTypeOK'
  BY DEF QueueInv, QueueTypeOK, RowsInv
<1>2. \A j \in JobIds : RowInv(jobs'[j])
  BY DEF RowsInv
<1>3. \A j \in JobIds : jobs'[j].state # "absent" =>
            jobs[j].state # "absent" /\ jobs'[j].key = jobs[j].key
  BY <1>0 DEF Evolves
<1>4. \A j \in JobIds : j > submitted' => jobs'[j].state = "absent"
  BY <1>3 DEF QueueInv
<1>5. OneJobPerKey'
  BY <1>3 DEF QueueInv, OneJobPerKey, Present
<1>6. \A w \in Workers : held'[w].phase = "working" => held'[w] = held[w]
  OBVIOUS
<1>7. GenerationsAreExclusive'
  BY <1>6 DEF QueueInv, GenerationsAreExclusive, HonestHolder
<1>8. \A w \in Workers : held'[w].phase \in {"claimed", "working"} =>
            held'[w].job \in 1..submitted'
  BY DEF QueueInv
<1>9. ASSUME NEW w \in Workers, held'[w].phase = "working"
      PROVE  DictInv(w, held'[w], jobs'[held'[w].job])
  <2>1. held'[w] = held[w] /\ held[w].job \in JobIds /\ held[w] \in Dicts
    BY <1>0, <1>6, <1>9 DEF QueueInv
  <2>2. DictInv(w, held[w], jobs[held[w].job])
    BY <1>9, <2>1 DEF QueueInv
  <2>3. /\ jobs[held[w].job] \in JobRows /\ jobs'[held[w].job] \in JobRows
        /\ RowInv(jobs[held[w].job])
    BY <1>0, <2>1 DEF QueueInv
  <2> QED
    BY <2>1, <2>2, <2>3, DictFollows
<1> QED
  BY <1>1, <1>2, <1>4, <1>5, <1>7, <1>8, <1>9 DEF QueueInv

(* _reclaim_locked: the rows stay rows, under the lease they had.          *)
LEMMA ReclaimedRows ==
    ASSUME NEW js, RowsInv(js)
    PROVE  /\ RowsInv(Reclaimed(js))
           /\ \A j \in JobIds : Evolves(js[j], Reclaimed(js)[j])
           /\ \A j \in JobIds : \/ Reclaimed(js)[j] = js[j]
                                \/ /\ js[j].state = "running"
                                   /\ Reclaimed(js)[j].state = "queued"
                                   /\ Reclaimed(js)[j].key = js[j].key
                                   /\ Reclaimed(js)[j].generation = js[j].generation
<1>1. ASSUME NEW j \in JobIds
      PROVE  /\ Reclaimed(js)[j] \in JobRows
             /\ RowInv(Reclaimed(js)[j])
             /\ Evolves(js[j], Reclaimed(js)[j])
             /\ \/ Reclaimed(js)[j] = js[j]
                \/ /\ js[j].state = "running"
                   /\ Reclaimed(js)[j].state = "queued"
                   /\ Reclaimed(js)[j].key = js[j].key
                   /\ Reclaimed(js)[j].generation = js[j].generation
  <2> DEFINE r == js[j]
             q == [r EXCEPT !.state = "queued", !.owner = NoOwner,
                            !.lapsed = FALSE, !.due = TRUE]
  <2>1. r \in JobRows /\ RowInv(r)
    BY DEF RowsInv
  <2>2. /\ q \in JobRows /\ q.state = "queued" /\ q.key = r.key
        /\ q.generation = r.generation /\ q.attempts = r.attempts /\ q.owner = NoOwner
    BY <2>1 DEF JobRows, JobStates, ActiveStates
  <2>3. Reclaimed(js)[j] = IF r.state = "running" /\ r.lapsed THEN q ELSE r
    BY DEF Reclaimed
  <2> HIDE DEF q
  <2>4. CASE r.state = "running" /\ r.lapsed
    <3>1. RowInv(q) /\ Evolves(r, q)
      BY <2>1, <2>2, <2>4 DEF RowInv, Evolves
    <3> QED
      BY <2>2, <2>3, <2>4, <3>1
  <2>5. CASE ~(r.state = "running" /\ r.lapsed)
    BY <2>1, <2>3, <2>5 DEF Evolves
  <2> QED
    BY <2>4, <2>5
<1>2. Reclaimed(js) = [j \in JobIds |-> Reclaimed(js)[j]]
  BY DEF Reclaimed
<1> QED
  BY <1>1, <1>2 DEF RowsInv

(* finish, fail and block_for_password keep the row's lease and attempts.  *)
LEMMA SettledRow ==
    ASSUME NEW r \in JobRows, r.state = "running", RowInv(r),
           NEW state \in {"completed", "partial", "failed", "awaiting-unlock", "retryable-failure"},
           state = "retryable-failure" => r.attempts < MaxAttempts, NEW due \in BOOLEAN
    PROVE  /\ Settled(r, state, due) \in JobRows
           /\ RowInv(Settled(r, state, due))
           /\ Evolves(r, Settled(r, state, due))
           /\ Settled(r, state, due).state = state
<1> DEFINE q == Settled(r, state, due)
<1>1. /\ q \in JobRows /\ q.state = state /\ q.key = r.key /\ q.generation = r.generation
      /\ q.attempts = r.attempts /\ q.owner = NoOwner
  BY DEF Settled, JobRows, JobStates, ActiveStates, RestingStates
<1> HIDE DEF q
<1>2. RowInv(q) /\ Evolves(r, q)
  BY <1>1 DEF RowInv, Evolves
<1> QED
  BY <1>1, <1>2 DEF q

LEMMA DictTypes ==
    /\ \A phase \in Phases : NoDict(phase) \in Dicts /\ NoDict(phase).phase = phase
    /\ \A j \in JobIds : LET d == [NoDict("claimed") EXCEPT !.job = j]
                         IN  d \in Dicts /\ d.phase = "claimed" /\ d.job = j
BY DEF NoDict, Dicts, Phases

-----------------------------------------------------------------------------
LEMMA InitKeeps == QueueInit => QueueInv
<1> SUFFICES ASSUME QueueInit PROVE QueueInv
  OBVIOUS
<1>1. /\ \A j \in JobIds : jobs[j] = AbsentJob /\ jobs[j].state = "absent"
      /\ \A w \in Workers : held[w] = NoDict("free") /\ held[w].phase = "free"
  BY DictTypes DEF QueueInit, AbsentJob, Phases
<1>2. QueueTypeOK
  BY <1>1, QueueBounds, AbsentJobType, DictTypes DEF QueueInit, QueueTypeOK, Phases
<1>3. OneJobPerKey /\ GenerationsAreExclusive
  BY <1>1 DEF OneJobPerKey, GenerationsAreExclusive, Present, HonestHolder
<1> QED
  BY <1>1, <1>2, <1>3, AbsentJobType DEF QueueInv

LEMMA SubmitKeeps ==
    ASSUME QueueInv, NEW k \in Keys, NEW s \in Sources, NEW v \in Versions, Submit(k, s, v)
    PROVE  QueueInv'
<1> DEFINE n == NewJob(k, s, v)
<1>0. /\ MaxJobs \in Nat /\ submitted \in 0..MaxJobs /\ JobIds = 1..MaxJobs
      /\ jobs \in [JobIds -> JobRows] /\ held \in [Workers -> Dicts]
      /\ submitted < MaxJobs /\ submitted' = submitted + 1
      /\ held' = held /\ upsets' = upsets
  BY QueueBounds DEF QueueInv, QueueTypeOK, JobIds, Submit
<1>1. PICK t \in JobIds : t = submitted + 1
  BY <1>0
<1>2. n \in JobRows /\ n.state = "queued" /\ n.key = k
  BY DEF NewJob, AbsentJob, JobRows, JobStates, ActiveStates
<1>3. jobs' = [jobs EXCEPT ![t] = n]
  BY <1>1 DEF Submit
<1> HIDE DEF n
<1>4. /\ jobs'[t] = n /\ jobs[t].state = "absent"
      /\ \A j \in JobIds : j # t => jobs'[j] = jobs[j]
  BY <1>0, <1>1, <1>3 DEF QueueInv
<1>5. QueueTypeOK'
  BY <1>0, <1>1, <1>2, <1>3 DEF QueueInv, QueueTypeOK
<1>6. \A j \in JobIds : RowInv(jobs'[j])
  BY <1>2, <1>4 DEF QueueInv, RowInv
<1>7. \A j \in JobIds : j > submitted' => jobs'[j].state = "absent"
  BY <1>0, <1>1, <1>4 DEF QueueInv
<1>8. OneJobPerKey'
  BY <1>2, <1>4 DEF QueueInv, OneJobPerKey, Present, Submit
<1>9. GenerationsAreExclusive'
  BY <1>0 DEF QueueInv, GenerationsAreExclusive, HonestHolder
<1>10. \A w \in Workers : held'[w].phase \in {"claimed", "working"} =>
            held'[w].job \in 1..submitted' /\ held'[w].job # t /\ held'[w].job \in JobIds
  BY <1>0, <1>1 DEF QueueInv
<1>11. \A w \in Workers : held'[w].phase = "working" =>
            DictInv(w, held'[w], jobs'[held'[w].job])
  BY <1>0, <1>4, <1>10 DEF QueueInv
<1> QED
  BY <1>5, <1>6, <1>7, <1>8, <1>9, <1>10, <1>11 DEF QueueInv

LEMMA ReadBackKeeps ==
    ASSUME QueueInv, NEW w \in Workers, ReadBack(w)
    PROVE  QueueInv'
<1> DEFINE j == held[w].job
           row == jobs[j]
           d == [phase |-> "working", job |-> j, owner |-> row.owner,
                 generation |-> row.generation, attempts |-> row.attempts]
<1>0. /\ MaxJobs \in Nat /\ submitted \in 0..MaxJobs /\ JobIds = 1..MaxJobs
      /\ jobs \in [JobIds -> JobRows] /\ held \in [Workers -> Dicts]
      /\ jobs' = jobs /\ submitted' = submitted /\ upsets' = upsets
      /\ held[w].phase = "claimed"
  BY QueueBounds DEF QueueInv, QueueTypeOK, JobIds, ReadBack
<1>1. j \in JobIds /\ j \in 1..submitted
  BY <1>0 DEF QueueInv
<1>2. CASE ~Present(j)
  <2>1. held' = [held EXCEPT ![w] = NoDict("ended")]
    BY <1>2 DEF ReadBack
  <2>2. NoDict("ended") \in Dicts /\ NoDict("ended").phase = "ended"
    BY DictTypes DEF Phases
  <2>3. held' \in [Workers -> Dicts]
    BY <1>0, <2>1, <2>2
  <2>4. \A x \in Workers : held'[x] = held[x] \/ held'[x].phase = "ended"
    BY <1>0, <2>1, <2>2
  <2>5. RowsInv(jobs') /\ upsets' \in 0..MaxUpsets
        /\ \A i \in JobIds : Evolves(jobs[i], jobs'[i])
    BY <1>0 DEF QueueInv, QueueTypeOK, RowsInv, Evolves
  <2> QED
    BY <1>0, <2>3, <2>4, <2>5, TableStep
<1>3. CASE Present(j)
  <2>1. held' = [held EXCEPT ![w] = d]
    BY <1>3 DEF ReadBack
  <2>2. row \in JobRows /\ row.state # "absent" /\ row.generation \in Nat
    BY <1>0, <1>1, <1>3 DEF Present, JobRows
  <2>3. /\ d \in Dicts /\ d.phase = "working" /\ d.job = j /\ d.owner = row.owner
        /\ d.generation = row.generation /\ d.attempts = row.attempts
    BY <1>1, <2>2 DEF Dicts, Phases, JobRows
  <2> HIDE DEF d
  <2>4. held'[w] = d /\ \A x \in Workers : x # w => held'[x] = held[x]
    BY <1>0, <2>1
  <2>5. QueueTypeOK'
    BY <1>0, <2>1, <2>3 DEF QueueInv, QueueTypeOK
  <2>6. DictInv(w, d, row)
    BY <2>2, <2>3 DEF DictInv
  <2>7. \A x \in Workers : held'[x].phase = "working" =>
            DictInv(x, held'[x], jobs'[held'[x].job])
    BY <1>0, <2>3, <2>4, <2>6 DEF QueueInv
  <2>8. \A x \in Workers : held'[x].phase \in {"claimed", "working"} =>
            held'[x].job \in 1..submitted'
    BY <1>0, <1>1, <2>3, <2>4 DEF QueueInv
  <2>9. ASSUME NEW x \in Workers, x # w, HonestHolder(x), held[x].job = j,
               held[x].generation = row.generation
        PROVE  d.owner # w
    <3>1. DictInv(x, held[x], row)
      BY <2>9 DEF QueueInv, HonestHolder
    <3>2. row.owner \in {x, NoOwner}
      BY <2>2, <2>9, <3>1 DEF DictInv, HonestHolder
    <3> QED
      BY <2>3, <2>9, <3>2, QueueNames
  <2>10. GenerationsAreExclusive'
    <3> SUFFICES ASSUME NEW x \in Workers, NEW y \in Workers, x # y,
                        held'[x].phase = "working", held'[x].owner = x,
                        held'[y].phase = "working", held'[y].owner = y,
                        held'[x].job = held'[y].job,
                        held'[x].generation = held'[y].generation
                 PROVE  FALSE
      BY DEF GenerationsAreExclusive, HonestHolder
    <3>1. CASE x = w
      BY <2>3, <2>4, <2>9, <3>1 DEF HonestHolder
    <3>2. CASE y = w
      BY <2>3, <2>4, <2>9, <3>2 DEF HonestHolder
    <3>3. CASE x # w /\ y # w
      BY <2>4, <3>3 DEF QueueInv, GenerationsAreExclusive, HonestHolder
    <3> QED
      BY <3>1, <3>2, <3>3
  <2> QED
    BY <1>0, <2>5, <2>7, <2>8, <2>10 DEF QueueInv, OneJobPerKey, Present
<1> QED
  BY <1>2, <1>3

LEMMA ClaimKeeps ==
    ASSUME QueueInv, NEW w \in Workers, Claim(w)
    PROVE  QueueInv'
<1> DEFINE js == Reclaimed(jobs)
<1>0. /\ MaxJobs \in Nat /\ submitted \in 0..MaxJobs /\ JobIds = 1..MaxJobs
      /\ held \in [Workers -> Dicts] /\ RowsInv(jobs)
      /\ submitted' = submitted /\ upsets' = upsets /\ upsets \in 0..MaxUpsets
  BY QueueBounds DEF QueueInv, QueueTypeOK, JobIds, Claim, RowsInv
<1>1. PICK j \in JobIds :
            /\ IsOldest(j, Claimable(js))
            /\ jobs' = [js EXCEPT ![j] = Leased(js[j], w)]
            /\ held' = [held EXCEPT ![w] = [NoDict("claimed") EXCEPT !.job = j]]
  BY DEF Claim
<1>2. /\ RowsInv(js)
      /\ \A i \in JobIds : Evolves(jobs[i], js[i])
      /\ js[j].key = jobs[j].key /\ js[j].generation = jobs[j].generation
      /\ js[j].state = jobs[j].state \/ jobs[j].state = "running"
  BY <1>0, ReclaimedRows
<1>3. js[j].state \in {"queued", "retryable-failure"}
  BY <1>1 DEF IsOldest, Claimable
<1> DEFINE r == js[j]
           q == Leased(r, w)
<1>4. r \in JobRows /\ r.generation \in Nat /\ r.attempts \in Nat /\ RowInv(r)
  BY <1>2 DEF RowsInv, JobRows
<1>5. /\ q \in JobRows /\ q.state = "running" /\ q.key = r.key
      /\ q.generation = r.generation + 1
  <2>1. \A a, g \in Nat :
            LET z == [r EXCEPT !.state = "running", !.attempts = a, !.owner = w,
                               !.generation = g, !.lapsed = FALSE]
            IN  z \in JobRows /\ z.state = "running" /\ z.key = r.key /\ z.generation = g
    BY <1>4 DEF JobRows, JobStates, ActiveStates
  <2>2. r.attempts + 1 \in Nat /\ r.generation + 1 \in Nat
    BY <1>4
  <2> HIDE DEF r
  <2> QED
    BY <2>1, <2>2 DEF Leased
<1>6. jobs' = [js EXCEPT ![j] = q]
  BY <1>1
<1> HIDE DEF q, js
<1>7. RowInv(q)
  BY <1>3, <1>4, <1>5 DEF RowInv
<1>8. jobs'[j] = q /\ \A i \in JobIds : i # j => jobs'[i] = js[i]
  BY <1>2, <1>6 DEF RowsInv
<1>9. RowsInv(jobs')
  BY <1>2, <1>5, <1>6, <1>7, <1>8 DEF RowsInv
<1>10. Evolves(jobs[j], q)
  BY <1>2, <1>3, <1>4, <1>5 DEF Evolves
<1>11. \A i \in JobIds : Evolves(jobs[i], jobs'[i])
  BY <1>2, <1>8, <1>10
<1>12. j \in 1..submitted
  <2>1. jobs[j].state # "absent"
    BY <1>2, <1>3
  <2> QED
    BY <1>0, <2>1 DEF QueueInv
<1>13. /\ held' \in [Workers -> Dicts]
       /\ \A x \in Workers : \/ held'[x] = held[x]
                             \/ held'[x].phase = "claimed" /\ held'[x].job = j
  BY <1>0, <1>1, DictTypes
<1> QED
  BY <1>0, <1>9, <1>11, <1>12, <1>13, TableStep

(* Every way a worker is done with a job.                                  *)
LEMMA SettleKeeps ==
    ASSUME QueueInv, NEW w \in Workers, NEW due \in BOOLEAN,
           NEW state \in {"completed", "partial", "failed", "awaiting-unlock", "retryable-failure"},
           state = "retryable-failure" => held[w].attempts < MaxAttempts,
           Settle(w, state, due)
    PROVE  QueueInv'
<1> DEFINE d == held[w]
<1>0. /\ MaxJobs \in Nat /\ submitted \in 0..MaxJobs /\ JobIds = 1..MaxJobs
      /\ held \in [Workers -> Dicts] /\ jobs \in [JobIds -> JobRows] /\ RowsInv(jobs)
      /\ submitted' = submitted /\ upsets' = upsets /\ upsets \in 0..MaxUpsets
      /\ d.phase = "working" /\ held' = [held EXCEPT ![w] = NoDict("free")]
  BY QueueBounds DEF QueueInv, QueueTypeOK, JobIds, Settle, RowsInv
<1>1. d.job \in JobIds /\ DictInv(w, d, jobs[d.job]) /\ RowInv(jobs[d.job])
      /\ jobs[d.job] \in JobRows
  BY <1>0 DEF QueueInv
<1>2. /\ held' \in [Workers -> Dicts]
      /\ \A x \in Workers : held'[x] = held[x] \/ held'[x].phase = "free"
  BY <1>0, DictTypes DEF Phases
<1>3. RowsInv(jobs') /\ \A i \in JobIds : Evolves(jobs[i], jobs'[i])
  <2>1. CASE Matches(d)
    <3> DEFINE q == Settled(jobs[d.job], state, due)
    <3>1. jobs' = [jobs EXCEPT ![d.job] = q]
      BY <2>1 DEF Settle
    <3>2. jobs[d.job].state = "running" /\ jobs[d.job].attempts = d.attempts
      BY <1>1, <2>1 DEF Matches, DictInv
    <3>3. q \in JobRows /\ RowInv(q) /\ Evolves(jobs[d.job], q)
      BY <1>1, <3>2, SettledRow
    <3> HIDE DEF q, d
    <3>4. \A i \in JobIds : jobs'[i] = IF i = d.job THEN q ELSE jobs[i]
      BY <1>0, <1>1, <3>1
    <3>5. jobs' \in [JobIds -> JobRows]
      BY <1>0, <1>1, <3>1, <3>3
    <3> QED
      BY <1>0, <3>3, <3>4, <3>5 DEF RowsInv, Evolves
  <2>2. CASE ~Matches(d)
    BY <1>0, <2>2 DEF Settle, Evolves
  <2> QED
    BY <2>1, <2>2
<1> QED
  BY <1>0, <1>2, <1>3, TableStep

(* The steps that leave the dicts alone, but for a process that goes down. *)
TableOnly ==
    \/ \E w \in Workers : Heartbeat(w) \/ Crash(w) \/ Restart(w)
    \/ \E j \in JobIds : Requeue(j) \/ ComeDue(j) \/ Lapse(j)
    \/ Recover
    \/ \E s \in Sources : CancelProcessing(s) \/ DeleteSourceJobs(s)
    \/ \E s \in Sources, v \in Versions : CancelSourceJobs(s, v) \/ DeleteVersionJobs(s, v)

(* One row changes its state, its due time or its lease time.              *)
LEMMA RowTouched ==
    ASSUME NEW r \in JobRows, RowInv(r), r.state # "absent",
           NEW state \in {r.state, "queued", "cancelled"}, NEW l \in BOOLEAN, NEW d \in BOOLEAN
    PROVE  /\ [r EXCEPT !.state = state, !.lapsed = l, !.due = d] \in JobRows
           /\ RowInv([r EXCEPT !.state = state, !.lapsed = l, !.due = d])
           /\ Evolves(r, [r EXCEPT !.state = state, !.lapsed = l, !.due = d])
<1> DEFINE q == [r EXCEPT !.state = state, !.lapsed = l, !.due = d]
<1>1. /\ q \in JobRows /\ q.state = state /\ q.key = r.key /\ q.generation = r.generation
      /\ q.attempts = r.attempts /\ q.owner = r.owner
  BY DEF JobRows, JobStates, ActiveStates, RestingStates
<1> HIDE DEF q
<1>2. RowInv(q) /\ Evolves(r, q)
  BY <1>1 DEF RowInv, Evolves
<1> QED
  BY <1>1, <1>2 DEF q

LEMMA TableOnlyRows ==
    ASSUME QueueInv, TableOnly
    PROVE  RowsInv(jobs') /\ \A j \in JobIds : Evolves(jobs[j], jobs'[j])
<1>0. RowsInv(jobs) /\ \A j \in JobIds : jobs[j] \in JobRows /\ RowInv(jobs[j])
  BY DEF QueueInv, QueueTypeOK, RowsInv
<1>1. ASSUME NEW j \in JobIds, jobs[j].state # "absent",
             NEW state \in {jobs[j].state, "queued", "cancelled"},
             NEW l \in BOOLEAN, NEW d \in BOOLEAN,
             jobs' = [jobs EXCEPT ![j] = [@ EXCEPT !.state = state, !.lapsed = l, !.due = d]]
      PROVE  RowsInv(jobs') /\ \A i \in JobIds : Evolves(jobs[i], jobs'[i])
  <2> DEFINE q == [jobs[j] EXCEPT !.state = state, !.lapsed = l, !.due = d]
  <2>1. q \in JobRows /\ RowInv(q) /\ Evolves(jobs[j], q)
    BY <1>0, <1>1, RowTouched
  <2>2. jobs' = [jobs EXCEPT ![j] = q]
    BY <1>1
  <2> HIDE DEF q
  <2> QED
    BY <1>0, <2>1, <2>2 DEF RowsInv, Evolves
<1>2. ASSUME NEW w \in Workers, Heartbeat(w)
      PROVE  RowsInv(jobs') /\ \A i \in JobIds : Evolves(jobs[i], jobs'[i])
  <2> DEFINE j == held[w].job
  <2>1. j \in JobIds /\ jobs[j].state = "running"
    <3>1. submitted \in 0..MaxJobs /\ MaxJobs \in Nat
      BY QueueBounds DEF QueueInv, QueueTypeOK
    <3> QED
      BY <1>2, <3>1 DEF QueueInv, Heartbeat, Owns, JobIds
  <2>2. jobs' = [jobs EXCEPT ![j].lapsed = FALSE]
    BY <1>2 DEF Heartbeat
  <2> HIDE DEF j
  <2>3. jobs' = [jobs EXCEPT ![j] = [@ EXCEPT !.state = jobs[j].state, !.lapsed = FALSE,
                                             !.due = jobs[j].due]]
    BY <1>0, <2>1, <2>2 DEF RowsInv, JobRows
  <2>4. jobs[j].due \in BOOLEAN
    BY <1>0, <2>1 DEF JobRows
  <2> QED
    BY <1>1, <2>1, <2>3, <2>4
<1>3. ASSUME NEW j \in JobIds, Requeue(j)
      PROVE  RowsInv(jobs') /\ \A i \in JobIds : Evolves(jobs[i], jobs'[i])
  <2>1. jobs[j].state # "absent" /\ jobs[j].lapsed \in BOOLEAN
    BY <1>0, <1>3 DEF Requeue, RestingStates, JobRows
  <2>2. jobs' = [jobs EXCEPT ![j] = [@ EXCEPT !.state = "queued", !.lapsed = jobs[j].lapsed,
                                             !.due = TRUE]]
    BY <1>0, <1>3 DEF Requeue, RowsInv, JobRows
  <2> QED
    BY <1>1, <2>1, <2>2
<1>4. ASSUME NEW j \in JobIds, ComeDue(j)
      PROVE  RowsInv(jobs') /\ \A i \in JobIds : Evolves(jobs[i], jobs'[i])
  <2>1. jobs[j].state # "absent" /\ jobs[j].lapsed \in BOOLEAN
    BY <1>0, <1>4 DEF ComeDue, Present, JobRows
  <2>2. jobs' = [jobs EXCEPT ![j] = [@ EXCEPT !.state = jobs[j].state, !.lapsed = jobs[j].lapsed,
                                             !.due = TRUE]]
    BY <1>0, <1>4 DEF ComeDue, RowsInv, JobRows
  <2> QED
    BY <1>1, <2>1, <2>2
<1>5. ASSUME NEW j \in JobIds, Lapse(j)
      PROVE  RowsInv(jobs') /\ \A i \in JobIds : Evolves(jobs[i], jobs'[i])
  <2>1. jobs[j].state # "absent" /\ jobs[j].due \in BOOLEAN
    BY <1>0, <1>5 DEF Lapse, JobRows
  <2>2. jobs' = [jobs EXCEPT ![j] = [@ EXCEPT !.state = jobs[j].state, !.lapsed = TRUE,
                                             !.due = jobs[j].due]]
    BY <1>0, <1>5 DEF Lapse, RowsInv, JobRows
  <2> QED
    BY <1>1, <2>1, <2>2
<1>6. ASSUME jobs' = Reclaimed(jobs)
      PROVE  RowsInv(jobs') /\ \A i \in JobIds : Evolves(jobs[i], jobs'[i])
  BY <1>0, <1>6, ReclaimedRows
<1>7. ASSUME NEW S, jobs' = DeleteJobs(S)
      PROVE  RowsInv(jobs') /\ \A i \in JobIds : Evolves(jobs[i], jobs'[i])
  BY <1>0, <1>7, AbsentJobType DEF DeleteJobs, RowsInv, Evolves
<1>8. ASSUME NEW s \in Sources, CancelProcessing(s)
      PROVE  RowsInv(jobs') /\ \A i \in JobIds : Evolves(jobs[i], jobs'[i])
  <2>1. ASSUME NEW i \in JobIds
        PROVE  jobs'[i] \in JobRows /\ RowInv(jobs'[i]) /\ Evolves(jobs[i], jobs'[i])
    <3>1. CASE jobs[i].source = s /\ jobs[i].state \in ActiveStates
      <4>1. jobs[i].state # "absent" /\ jobs[i].lapsed \in BOOLEAN /\ jobs[i].due \in BOOLEAN
        BY <1>0, <3>1 DEF ActiveStates, JobRows
      <4>2. jobs'[i] = [jobs[i] EXCEPT !.state = "cancelled", !.lapsed = jobs[i].lapsed,
                                       !.due = jobs[i].due]
        BY <1>0, <1>8, <3>1 DEF CancelProcessing, JobRows
      <4>3. ASSUME NEW l \in BOOLEAN, NEW d \in BOOLEAN
            PROVE  LET q == [jobs[i] EXCEPT !.state = "cancelled", !.lapsed = l, !.due = d]
                   IN  q \in JobRows /\ RowInv(q) /\ Evolves(jobs[i], q)
        <5>1. /\ jobs[i] \in JobRows /\ RowInv(jobs[i])
              /\ "cancelled" \in {jobs[i].state, "queued", "cancelled"}
          BY <1>0
        <5> QED
          BY <4>1, <5>1, RowTouched
      <4> QED
        BY <4>1, <4>2, <4>3
    <3>2. CASE ~(jobs[i].source = s /\ jobs[i].state \in ActiveStates)
      BY <1>0, <1>8, <3>2 DEF CancelProcessing, Evolves
    <3> QED
      BY <3>1, <3>2
  <2>2. jobs' = [i \in JobIds |-> jobs'[i]]
    BY <1>8 DEF CancelProcessing
  <2> QED
    BY <2>1, <2>2 DEF RowsInv
<1>9. ASSUME NEW w \in Workers, Crash(w)
      PROVE  RowsInv(jobs') /\ \A i \in JobIds : Evolves(jobs[i], jobs'[i])
  BY <1>0, <1>9 DEF Crash, Evolves
<1> QED
  BY <1>2, <1>3, <1>4, <1>5, <1>6, <1>7, <1>8, <1>9
     DEF TableOnly, Restart, Recover, DeleteSourceJobs, CancelSourceJobs, DeleteVersionJobs

LEMMA TableOnlyKeeps ==
    ASSUME QueueInv, TableOnly
    PROVE  QueueInv'
<1>0. held \in [Workers -> Dicts] /\ upsets \in 0..MaxUpsets /\ MaxUpsets \in Nat
  BY QueueBounds DEF QueueInv, QueueTypeOK
<1>1. submitted' = submitted /\ upsets' \in 0..MaxUpsets
  <2>1. /\ submitted' = submitted
        /\ upsets' = upsets \/ (upsets < MaxUpsets /\ upsets' = upsets + 1)
    BY DEF TableOnly, Heartbeat, Crash, Restart, Requeue, ComeDue, Lapse, Recover,
           CancelProcessing, DeleteSourceJobs, CancelSourceJobs, DeleteVersionJobs
  <2> QED
    BY <1>0, <2>1
<1>2. \/ held' = held
      \/ \E w \in Workers, phase \in {"free", "down"} :
            held' = [held EXCEPT ![w] = NoDict(phase)]
  BY DEF TableOnly, Heartbeat, Crash, Restart, Requeue, ComeDue, Lapse, Recover,
         CancelProcessing, DeleteSourceJobs, CancelSourceJobs, DeleteVersionJobs
<1>3. /\ held' \in [Workers -> Dicts]
      /\ \A w \in Workers : held'[w] = held[w] \/ held'[w].phase \in {"free", "down"}
  BY <1>0, <1>2, DictTypes DEF Phases
<1> QED
  BY <1>1, <1>3, TableOnlyRows, TableStep

-----------------------------------------------------------------------------
LEMMA NextKeeps == QueueInv /\ [QueueNext]_queueVars => QueueInv'
<1> SUFFICES ASSUME QueueInv, [QueueNext]_queueVars PROVE QueueInv'
  OBVIOUS
<1>1. ASSUME NEW k \in Keys, NEW s \in Sources, NEW v \in Versions, Submit(k, s, v)
      PROVE  QueueInv'
  BY <1>1, SubmitKeeps
<1>2. ASSUME NEW w \in Workers, Claim(w) \/ ReadBack(w) PROVE QueueInv'
  BY <1>2, ClaimKeeps, ReadBackKeeps
<1>3. ASSUME NEW w \in Workers, BlockForPassword(w) PROVE QueueInv'
  BY <1>3, SettleKeeps DEF BlockForPassword
<1>4. ASSUME NEW w \in Workers, NEW outcome \in {"completed", "partial"}, Finish(w, outcome)
      PROVE  QueueInv'
  BY <1>4, SettleKeeps DEF Finish
<1>5. ASSUME NEW w \in Workers, NEW retryable \in BOOLEAN, Fail(w, retryable)
      PROVE  QueueInv'
  <2>1. CASE ShouldRetry(held[w], retryable)
    <3>1. Settle(w, "retryable-failure", FALSE) /\ held[w].attempts < MaxAttempts
      BY <1>5, <2>1 DEF Fail, ShouldRetry
    <3> QED
      BY <3>1, SettleKeeps
  <2>2. CASE ~ShouldRetry(held[w], retryable)
    <3>1. Settle(w, "failed", TRUE)
      BY <1>5, <2>2 DEF Fail
    <3> QED
      BY <3>1, SettleKeeps
  <2> QED
    BY <2>1, <2>2
<1>6. CASE TableOnly
  BY <1>6, TableOnlyKeeps
<1>7. CASE UNCHANGED queueVars
  BY <1>7 DEF queueVars, QueueInv, QueueTypeOK, OneJobPerKey, Present,
              GenerationsAreExclusive, HonestHolder
<1> QED
  BY <1>1, <1>2, <1>3, <1>4, <1>5, <1>6, <1>7 DEF QueueNext, TableOnly

(* The invariant holds after every method of the queue.                    *)
THEOREM QueueInvariantHolds == QueueSpec => []QueueInv
BY InitKeeps, NextKeeps, PTL DEF QueueSpec

(* Every column and every dict keeps its type.                             *)
THEOREM QueueTypeCorrect == QueueSpec => []QueueTypeOK
<1>1. QueueInv => QueueTypeOK
  BY DEF QueueInv
<1> QED
  BY <1>1, QueueInvariantHolds, PTL

(* An idempotency key has one job.                                         *)
THEOREM SubmitIdempotent == QueueSpec => []OneJobPerKey
<1>1. QueueInv => OneJobPerKey
  BY DEF QueueInv
<1> QED
  BY <1>1, QueueInvariantHolds, PTL

(* Automatic retries respect MAX_ATTEMPTS.                                 *)
THEOREM RetriesStop == QueueSpec => []RetriesBounded
<1>1. QueueInv => RetriesBounded
  BY DEF QueueInv, RetriesBounded, RowInv
<1> QED
  BY <1>1, QueueInvariantHolds, PTL

(* No lease generation is two workers' own.                                *)
THEOREM LeasesAreExclusive == QueueSpec => []GenerationsAreExclusive
<1>1. QueueInv => GenerationsAreExclusive
  BY DEF QueueInv
<1> QED
  BY <1>1, QueueInvariantHolds, PTL

-----------------------------------------------------------------------------
(* A settling step is finish, fail or block_for_password, and changes a    *)
(* row only if that is under the lease of the dict.                        *)
LEMMA SettlesIsSettle ==
    ASSUME QueueInv, QueueNext, NEW w \in Workers, SettlesBy(w)
    PROVE  \E state \in JobStates, due \in BOOLEAN : Settle(w, state, due)
<1>0. held \in [Workers -> Dicts]
  BY DEF QueueInv, QueueTypeOK
<1>1. ASSUME NEW x \in Workers, NEW d \in Dicts, held' = [held EXCEPT ![x] = d],
             d.phase # "free" \/ held[x].phase # "working"
      PROVE  FALSE
  BY <1>0, <1>1 DEF SettlesBy
<1>2. held' # held
  BY DEF SettlesBy
<1>3. ASSUME NEW x \in Workers, NEW state \in JobStates, NEW due \in BOOLEAN,
             Settle(x, state, due)
      PROVE  Settle(w, state, due)
  BY <1>0, <1>3 DEF Settle, SettlesBy
<1>4. ASSUME NEW x \in Workers, Claim(x) PROVE FALSE
  <2>1. PICK j \in JobIds : held' = [held EXCEPT ![x] = [NoDict("claimed") EXCEPT !.job = j]]
    BY <1>4 DEF Claim
  <2>2. /\ [NoDict("claimed") EXCEPT !.job = j] \in Dicts
        /\ [NoDict("claimed") EXCEPT !.job = j].phase = "claimed"
    BY DictTypes
  <2> QED
    BY <1>1, <2>1, <2>2
<1>5. ASSUME NEW x \in Workers, ReadBack(x) PROVE FALSE
  <2>1. held[x].phase = "claimed" /\ \A y \in Workers : y # x => held'[y] = held[y]
    BY <1>0, <1>5 DEF ReadBack
  <2> QED
    BY <2>1 DEF SettlesBy
<1>6. ASSUME NEW x \in Workers, Crash(x) \/ Restart(x) PROVE FALSE
  <2>1. NoDict("down").phase = "down" /\ NoDict("down") \in Dicts /\ NoDict("free") \in Dicts
    BY DictTypes DEF Phases
  <2> QED
    BY <1>1, <1>6, <2>1 DEF Crash, Restart
<1>7. ASSUME NEW x \in Workers, BlockForPassword(x) PROVE Settle(w, "awaiting-unlock", TRUE)
  BY <1>3, <1>7 DEF BlockForPassword, JobStates, ActiveStates
<1>8. ASSUME NEW x \in Workers, NEW outcome \in {"completed", "partial"}, Finish(x, outcome)
      PROVE  Settle(w, outcome, TRUE)
  BY <1>3, <1>8 DEF Finish, JobStates, RestingStates
<1>9. ASSUME NEW x \in Workers, NEW retryable \in BOOLEAN, Fail(x, retryable)
      PROVE  Settle(w, "retryable-failure", FALSE) \/ Settle(w, "failed", TRUE)
  BY <1>3, <1>9 DEF Fail, JobStates, ActiveStates, RestingStates
<1>10. {"awaiting-unlock", "completed", "partial", "failed", "retryable-failure"} \subseteq JobStates
  BY DEF JobStates, ActiveStates, RestingStates
<1> QED
  BY <1>2, <1>4, <1>5, <1>6, <1>7, <1>8, <1>9, <1>10
     DEF QueueNext, Submit, Heartbeat, Requeue, ComeDue, Lapse, Recover, CancelProcessing,
         DeleteSourceJobs, CancelSourceJobs, DeleteVersionJobs

(* What SupersededNeverSettles says of one step, and RestingJobsAreKept.   *)
StaleStepsAreVoid ==
    \A w, x \in Workers :
        /\ SettlesBy(w)
        /\ jobs'[held[w].job] # jobs[held[w].job]
        /\ held[x].phase = "working"
        /\ held[x].job = held[w].job
        => held[x].generation <= held[w].generation

RestIsLeft ==
    \A j \in JobIds :
        /\ jobs[j].state \in RestingStates
        /\ jobs'[j].state # jobs[j].state
        => /\ jobs'[j].state \in {"queued", "cancelled", "absent"}
           /\ held' = held

(* A superseded worker's finish, fail or block has no effect.              *)
LEMMA StaleStep == QueueInv /\ [QueueNext]_queueVars => [StaleStepsAreVoid]_queueVars
<1> SUFFICES ASSUME QueueInv, QueueNext,
                    NEW w \in Workers, NEW x \in Workers,
                    SettlesBy(w),
                    jobs'[held[w].job] # jobs[held[w].job],
                    held[x].phase = "working",
                    held[x].job = held[w].job
             PROVE  held[x].generation <= held[w].generation
  BY DEF StaleStepsAreVoid
<1>1. Matches(held[w])
  BY SettlesIsSettle DEF Settle
<1>2. DictInv(x, held[x], jobs[held[w].job])
  BY DEF QueueInv
<1> QED
  BY <1>1, <1>2 DEF Matches, DictInv

THEOREM StaleWorkersAreFenced == QueueSpec => SupersededNeverSettles
BY StaleStep, QueueInvariantHolds, PTL DEF QueueSpec, SupersededNeverSettles, StaleStepsAreVoid

(* Late workers leave a job at rest alone, cancelled ones included.        *)
LEMMA RestStep == QueueInv /\ [QueueNext]_queueVars => [RestIsLeft]_queueVars
<1> SUFFICES ASSUME QueueInv, QueueNext, NEW j \in JobIds,
                    jobs[j].state \in RestingStates,
                    jobs'[j].state # jobs[j].state
             PROVE  /\ jobs'[j].state \in {"queued", "cancelled", "absent"}
                    /\ held' = held
  BY DEF RestIsLeft
<1>0. /\ jobs \in [JobIds -> JobRows] /\ RowsInv(jobs)
      /\ jobs[j].state \notin {"absent", "queued", "running", "retryable-failure"}
      /\ AbsentJob.state = "absent" /\ MaxJobs \in Nat /\ submitted \in 0..MaxJobs
  BY QueueBounds DEF QueueInv, QueueTypeOK, RowsInv, RestingStates, AbsentJob
<1>1. Reclaimed(jobs)[j] = jobs[j]
  BY <1>0, ReclaimedRows
<1>2. ASSUME NEW k \in Keys, NEW s \in Sources, NEW v \in Versions, Submit(k, s, v)
      PROVE  FALSE
  <2>1. jobs[submitted + 1].state = "absent" /\ submitted + 1 \in JobIds
    BY <1>0, <1>2 DEF QueueInv, Submit, JobIds
  <2> QED
    BY <1>0, <1>2, <2>1 DEF Submit
<1>3. ASSUME NEW w \in Workers, Claim(w) PROVE FALSE
  <2>1. PICK i \in JobIds : /\ Reclaimed(jobs)[i].state \in {"queued", "retryable-failure"}
                            /\ jobs' = [Reclaimed(jobs) EXCEPT ![i] = Leased(Reclaimed(jobs)[i], w)]
    BY <1>3 DEF Claim, IsOldest, Claimable
  <2>2. i # j
    BY <1>0, <1>1, <2>1
  <2>3. jobs'[j] = Reclaimed(jobs)[j]
    BY <2>1, <2>2 DEF Reclaimed
  <2> QED
    BY <1>1, <2>3
<1>4. ASSUME NEW w \in Workers, NEW state, NEW due, Settle(w, state, due) PROVE FALSE
  <2>1. jobs[held[w].job].state = "running" \/ jobs' = jobs
    BY <1>4 DEF Settle, Matches
  <2> QED
    BY <1>0, <1>4, <2>1 DEF Settle
<1>5. ASSUME NEW w \in Workers, ReadBack(w) \/ Heartbeat(w) \/ Crash(w) \/ Restart(w)
      PROVE  FALSE
  <2>1. CASE ReadBack(w) \/ Crash(w) \/ Restart(w)
    BY <1>1, <2>1 DEF ReadBack, Crash, Restart
  <2>2. CASE Heartbeat(w)
    BY <1>0, <2>2 DEF Heartbeat, JobRows
  <2> QED
    BY <1>5, <2>1, <2>2
<1>6. ASSUME NEW i \in JobIds, Requeue(i) \/ ComeDue(i) \/ Lapse(i)
      PROVE  jobs'[j].state = "queued" /\ held' = held
  <2>1. CASE Requeue(i)
    BY <1>0, <2>1 DEF Requeue, JobRows
  <2>2. CASE ComeDue(i) \/ Lapse(i)
    BY <1>0, <2>2 DEF ComeDue, Lapse, JobRows
  <2> QED
    BY <1>6, <2>1, <2>2
<1>7. CASE Recover
  BY <1>1, <1>7 DEF Recover
<1>8. ASSUME NEW s \in Sources, CancelProcessing(s)
      PROVE  jobs'[j].state = "cancelled" /\ held' = held
  BY <1>0, <1>8 DEF CancelProcessing, JobRows
<1>9. ASSUME NEW S, jobs' = DeleteJobs(S)
      PROVE  jobs'[j].state = "absent"
  BY <1>0, <1>9 DEF DeleteJobs
<1>10. ASSUME NEW w \in Workers,
              \/ BlockForPassword(w)
              \/ \E outcome \in {"completed", "partial"} : Finish(w, outcome)
              \/ \E retryable \in BOOLEAN : Fail(w, retryable)
       PROVE  FALSE
  BY <1>4, <1>10 DEF BlockForPassword, Finish, Fail
<1> QED
  BY <1>2, <1>3, <1>5, <1>6, <1>7, <1>8, <1>9, <1>10
     DEF QueueNext, DeleteSourceJobs, CancelSourceJobs, DeleteVersionJobs

THEOREM RestIsKept == QueueSpec => RestingJobsAreKept
BY RestStep, QueueInvariantHolds, PTL DEF QueueSpec, RestingJobsAreKept, RestIsLeft
=============================================================================
