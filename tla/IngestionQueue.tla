---------------------------- MODULE IngestionQueue ----------------------------
(***************************************************************************)
(* The job queue of the openlia-ingestion plugin                           *)
(* (profile/plugins/openlia-ingestion/db.py, "Job Queue & Leases").        *)
(*                                                                         *)
(* Jobs are rows of one SQLite table.  Worker threads, of one or several   *)
(* processes, claim the oldest job that is due under a lease with a        *)
(* generation number, keep the lease alive with heartbeats while they work *)
(* and settle the job at the end; users cancel, retry and delete.  Every   *)
(* method is one transaction and so one step, with one exception: claim    *)
(* commits its update and then reads the row back in a second transaction, *)
(* so that what a worker takes to be its lease is what the row says then.  *)
(*                                                                         *)
(* Times are kept as what the queries ask of them: whether lease_expires_at *)
(* has passed (lapsed) and whether next_attempt_at has come (due).  A job  *)
(* is the number of its INSERT, which is also the order of created_at; a   *)
(* deleted row is "absent" and its number is not used again.  Errors,      *)
(* results, outputs and password profiles are data no query looks at.      *)
(***************************************************************************)
EXTENDS Integers

CONSTANTS Workers,      \* worker threads: the values of lease_owner
          Sources,      \* source_ids
          Versions,     \* version_ids
          Keys,         \* idempotency keys
          MaxAttempts,  \* MAX_ATTEMPTS
          MaxJobs,      \* bound: how many jobs are inserted
          MaxUpsets,    \* bound: crashes, stalls past a lease, and user retries
          NoOwner,      \* lease_owner NULL
          NoValue       \* a column of an absent row

ASSUME QueueBounds == MaxAttempts \in Nat /\ MaxJobs \in Nat /\ MaxUpsets \in Nat

ASSUME QueueNames == NoOwner \notin Workers /\ NoValue \notin Keys \cup Sources \cup Versions

JobIds == 1..MaxJobs

VARIABLES
    jobs,       \* the jobs table
    submitted,  \* how many rows were inserted
    held,       \* the job dict each worker works on, and how far it is with it
    upsets      \* how many crashes, stalls and retries happened

queueVars == <<jobs, submitted, held, upsets>>

-----------------------------------------------------------------------------
(* The table.  The first four states are the ones cancel calls active.     *)
ActiveStates == {"queued", "running", "retryable-failure", "awaiting-unlock"}
RestingStates == {"completed", "partial", "failed", "cancelled", "awaiting-unlock"}
JobStates == ActiveStates \cup RestingStates \cup {"absent"}

JobRows == [state : JobStates,
            key : Keys \cup {NoValue},
            source : Sources \cup {NoValue},
            version : Versions \cup {NoValue},
            attempts : Nat,
            owner : Workers \cup {NoOwner},
            generation : Nat,
            lapsed : BOOLEAN,
            due : BOOLEAN]

AbsentJob == [state |-> "absent", key |-> NoValue, source |-> NoValue,
              version |-> NoValue, attempts |-> 0, owner |-> NoOwner,
              generation |-> 0, lapsed |-> FALSE, due |-> FALSE]

NewJob(k, s, v) == [AbsentJob EXCEPT !.state = "queued", !.key = k, !.source = s,
                                     !.version = v, !.due = TRUE]

Present(j) == jobs[j].state # "absent"

(* _reclaim_locked: every running job whose lease has passed is queued.    *)
(* There is no limit on attempts here.                                     *)
ReclaimedAsError(js) ==
    [j \in JobIds |-> IF js[j].state = "running" /\ js[j].lapsed
                      THEN [js[j] EXCEPT !.state = "worker_lost", !.owner = NoOwner,
                                         !.lapsed = FALSE, !.due = TRUE]
                      ELSE js[j]]
Reclaimed(js) ==
    [j \in JobIds |-> IF js[j].state = "running" /\ js[j].lapsed
                      THEN [js[j] EXCEPT !.state = "queued", !.owner = NoOwner,
                                         !.lapsed = FALSE, !.due = TRUE]
                      ELSE js[j]]

(* The rows claim selects from, and the update it makes of the first one.  *)
Claimable(js) == {j \in JobIds : js[j].state \in {"queued", "retryable-failure"} /\ js[j].due}

IsOldest(j, S) == j \in S /\ \A k \in S : j <= k

LeasedSameGeneration(row, w) ==
    [row EXCEPT !.state = "running", !.attempts = @ + 1, !.owner = w, !.lapsed = FALSE]
Leased(row, w) ==
    [row EXCEPT !.state = "running", !.attempts = @ + 1, !.owner = w,
                !.generation = @ + 1, !.lapsed = FALSE]

(* The WHERE clause of finish, fail and block_for_password: the row is     *)
(* running under the lease the dict d names.                               *)
MatchesIfRunning(d) == jobs[d.job].state = "running"
MatchesWithoutState(d) ==
    /\ Present(d.job)
    /\ jobs[d.job].owner = d.owner
    /\ jobs[d.job].generation = d.generation
Matches(d) ==
    /\ jobs[d.job].state = "running"
    /\ jobs[d.job].owner = d.owner
    /\ jobs[d.job].generation = d.generation

(* What they set of a row that matches.                                    *)
Settled(row, state, due) ==
    [row EXCEPT !.state = state, !.owner = NoOwner, !.lapsed = FALSE, !.due = due]

(* heartbeat and owns ask the same with the worker's own name.             *)
Owns(w) ==
    /\ held[w].phase = "working"
    /\ jobs[held[w].job].state = "running"
    /\ jobs[held[w].job].owner = w
    /\ jobs[held[w].job].generation = held[w].generation

DeleteJobs(S) == [j \in JobIds |-> IF j \in S THEN AbsentJob ELSE jobs[j]]

-----------------------------------------------------------------------------
(* The workers.  free: in the loop, about to claim; claimed: claim has     *)
(* committed and not read the row back; working: run_claimed_job has the   *)
(* dict; ended: an exception ended the thread; down: its process is down.  *)
Phases == {"free", "claimed", "working", "ended", "down"}
Dicts == [phase : Phases,
          job : JobIds \cup {0},
          owner : Workers \cup {NoOwner},
          generation : Nat,
          attempts : Nat]

NoDict(phase) == [phase |-> phase, job |-> 0, owner |-> NoOwner,
                  generation |-> 0, attempts |-> 0]

(* The worker the row names is alive and has not settled the job.          *)
HolderAlive(j) == \E w \in Workers : /\ jobs[j].owner = w
                                     /\ held[w].job = j
                                     /\ held[w].phase \in {"claimed", "working"}

QueueInit ==
    /\ jobs = [j \in JobIds |-> AbsentJob]
    /\ submitted = 0
    /\ held = [w \in Workers |-> NoDict("free")]
    /\ upsets = 0

(* submit: the job that has the idempotency key, or a new one.             *)
SubmitUnlessActive(k, s, v) ==
    /\ ~\E j \in JobIds : jobs[j].key = k /\ jobs[j].state \in ActiveStates
    /\ submitted < MaxJobs
    /\ submitted' = submitted + 1
    /\ jobs' = [jobs EXCEPT ![submitted + 1] = NewJob(k, s, v)]
    /\ UNCHANGED <<held, upsets>>
Submit(k, s, v) ==
    /\ ~\E j \in JobIds : jobs[j].key = k
    /\ submitted < MaxJobs
    /\ submitted' = submitted + 1
    /\ jobs' = [jobs EXCEPT ![submitted + 1] = NewJob(k, s, v)]
    /\ UNCHANGED <<held, upsets>>

(* claim, up to its COMMIT.  (With nothing to claim it changes nothing: a  *)
(* job it reclaims is due at once.)                                        *)
Claim(w) ==
    LET js == Reclaimed(jobs)
    IN  \E j \in JobIds :
            /\ held[w].phase = "free"
            /\ IsOldest(j, Claimable(js))
            /\ jobs' = [js EXCEPT ![j] = Leased(js[j], w)]
            /\ held' = [held EXCEPT ![w] = [NoDict("claimed") EXCEPT !.job = j]]
            /\ UNCHANGED <<submitted, upsets>>

(* The rest of claim: self.get(job_id).  The row may have been deleted,    *)
(* and the KeyError ends the thread: _worker_loop does not catch it.       *)
ReadBack(w) ==
    LET j == held[w].job
    IN  /\ held[w].phase = "claimed"
        /\ held' = [held EXCEPT ![w] =
                IF Present(j)
                THEN [phase |-> "working", job |-> j, owner |-> jobs[j].owner,
                      generation |-> jobs[j].generation, attempts |-> jobs[j].attempts]
                ELSE NoDict("ended")]
        /\ UNCHANGED <<jobs, submitted, upsets>>

(* heartbeat, by the thread that runs beside the worker.                   *)
Heartbeat(w) ==
    /\ Owns(w)
    /\ jobs[held[w].job].lapsed
    /\ jobs' = [jobs EXCEPT ![held[w].job].lapsed = FALSE]
    /\ UNCHANGED <<submitted, held, upsets>>

(* The worker is done with the job it has a dict of: the row is settled if *)
(* it is still under the lease of the dict, and the worker moves on either *)
(* way.                                                                    *)
Settle(w, state, due) ==
    LET d == held[w]
    IN  /\ d.phase = "working"
        /\ jobs' = IF Matches(d)
                   THEN [jobs EXCEPT ![d.job] = Settled(@, state, due)]
                   ELSE jobs
        /\ held' = [held EXCEPT ![w] = NoDict("free")]
        /\ UNCHANGED <<submitted, upsets>>

Finish(w, outcome) == Settle(w, outcome, TRUE)

(* fail: retried after a delay while attempts are left, else given up.     *)
RetryAtLimit(d, retryable) == retryable /\ d.attempts <= MaxAttempts
ShouldRetry(d, retryable) == retryable /\ d.attempts < MaxAttempts
Fail(w, retryable) ==
    IF ShouldRetry(held[w], retryable)
    THEN Settle(w, "retryable-failure", FALSE)
    ELSE Settle(w, "failed", TRUE)

BlockForPassword(w) == Settle(w, "awaiting-unlock", TRUE)

(* requeue_job: a user retries.  attempts, generation and owner stay.      *)
RequeueAfresh(j) ==
    /\ upsets < MaxUpsets
    /\ jobs[j].state \in RestingStates \cup {"retryable-failure"}
    /\ jobs' = [jobs EXCEPT ![j].state = "queued", ![j].due = TRUE,
                            ![j].attempts = 0, ![j].generation = 0]
    /\ upsets' = upsets + 1
    /\ UNCHANGED <<submitted, held>>
Requeue(j) ==
    /\ upsets < MaxUpsets
    /\ jobs[j].state \in RestingStates \cup {"retryable-failure"}
    /\ jobs' = [jobs EXCEPT ![j].state = "queued", ![j].due = TRUE]
    /\ upsets' = upsets + 1
    /\ UNCHANGED <<submitted, held>>

(* recover, at start-up and on request.                                    *)
Recover ==
    /\ jobs' = Reclaimed(jobs)
    /\ UNCHANGED <<submitted, held, upsets>>

(* cancel_processing, what it does to the jobs of source s.  The lease     *)
(* columns stay as they are.                                               *)
CancelProcessing(s) ==
    /\ jobs' = [j \in JobIds |->
            IF jobs[j].source = s /\ jobs[j].state \in ActiveStates
            THEN [jobs[j] EXCEPT !.state = "cancelled"]
            ELSE jobs[j]]
    /\ UNCHANGED <<submitted, held, upsets>>

(* cancel_source_jobs, for the version v that supersedes the others.       *)
CancelSourceJobs(s, v) ==
    /\ jobs' = DeleteJobs({j \in JobIds : /\ jobs[j].source = s
                                          /\ jobs[j].version # v
                                          /\ jobs[j].state \in ActiveStates})
    /\ UNCHANGED <<submitted, held, upsets>>

(* delete_source_cascade and delete_version_cascade, as far as jobs go.    *)
DeleteSourceJobs(s) ==
    /\ jobs' = DeleteJobs({j \in JobIds : jobs[j].source = s})
    /\ UNCHANGED <<submitted, held, upsets>>

DeleteVersionJobs(s, v) ==
    /\ jobs' = DeleteJobs({j \in JobIds : jobs[j].source = s /\ jobs[j].version = v})
    /\ UNCHANGED <<submitted, held, upsets>>

(* Time passes: a retry comes due; a lease passes, when its holder is gone *)
(* or because its heartbeats stalled for LEASE_SECONDS.                    *)
ComeDue(j) ==
    /\ Present(j)
    /\ ~jobs[j].due
    /\ jobs' = [jobs EXCEPT ![j].due = TRUE]
    /\ UNCHANGED <<submitted, held, upsets>>

Lapse(j) ==
    /\ jobs[j].state = "running"
    /\ ~jobs[j].lapsed
    /\ HolderAlive(j) => upsets < MaxUpsets
    /\ jobs' = [jobs EXCEPT ![j].lapsed = TRUE]
    /\ upsets' = IF HolderAlive(j) THEN upsets + 1 ELSE upsets
    /\ UNCHANGED <<submitted, held>>

(* A worker's process dies, and is started again; start_workers recovers.  *)
Crash(w) ==
    /\ upsets < MaxUpsets
    /\ held[w].phase # "down"
    /\ held' = [held EXCEPT ![w] = NoDict("down")]
    /\ upsets' = upsets + 1
    /\ UNCHANGED <<jobs, submitted>>

Restart(w) ==
    /\ held[w].phase = "down"
    /\ held' = [held EXCEPT ![w] = NoDict("free")]
    /\ jobs' = Reclaimed(jobs)
    /\ UNCHANGED <<submitted, upsets>>

-----------------------------------------------------------------------------
QueueNext ==
    \/ \E k \in Keys, s \in Sources, v \in Versions : Submit(k, s, v)
    \/ \E w \in Workers :
        \/ Claim(w) \/ ReadBack(w) \/ Heartbeat(w) \/ BlockForPassword(w)
        \/ Crash(w) \/ Restart(w)
        \/ \E outcome \in {"completed", "partial"} : Finish(w, outcome)
        \/ \E retryable \in BOOLEAN : Fail(w, retryable)
    \/ \E j \in JobIds : Requeue(j) \/ ComeDue(j) \/ Lapse(j)
    \/ Recover
    \/ \E s \in Sources : CancelProcessing(s) \/ DeleteSourceJobs(s)
    \/ \E s \in Sources, v \in Versions : CancelSourceJobs(s, v) \/ DeleteVersionJobs(s, v)

QueueSpec == QueueInit /\ [][QueueNext]_queueVars

-----------------------------------------------------------------------------
QueueTypeOK ==
    /\ jobs \in [JobIds -> JobRows]
    /\ submitted \in 0..MaxJobs
    /\ held \in [Workers -> Dicts]
    /\ upsets \in 0..MaxUpsets

(* submit is idempotent: however requests interleave with cancellations,   *)
(* retries and completions, a key has one job (UNIQUE idempotency_key).    *)
OneJobPerKey ==
    \A j, k \in JobIds : Present(j) /\ Present(k) /\ jobs[j].key = jobs[k].key => j = k

(* MAX_ATTEMPTS: a job waits for an automatic retry only while attempts    *)
(* are left, whatever stale dict its failure was reported with.            *)
RetriesBounded ==
    \A j \in JobIds : jobs[j].state = "retryable-failure" => jobs[j].attempts < MaxAttempts

(* A lease generation is one worker's: two workers that both read back the *)
(* lease they claimed never hold the same job under the same generation,   *)
(* also when the first one stalled and its job was reclaimed.              *)
HonestHolder(w) == held[w].phase = "working" /\ held[w].owner = w
GenerationsAreExclusive ==
    \A w, x \in Workers :
        /\ HonestHolder(w)
        /\ HonestHolder(x)
        /\ held[w].job = held[x].job
        /\ held[w].generation = held[x].generation
        => w = x

(* A worker that is superseded never settles the job: when a worker's      *)
(* finish, fail or block takes effect, no worker holds the same job under  *)
(* a later lease.                                                          *)
SettlesBy(w) == held[w].phase = "working" /\ held'[w].phase = "free"
SupersededNeverSettles ==
    [][\A w, x \in Workers :
        /\ SettlesBy(w)
        /\ jobs'[held[w].job] # jobs[held[w].job]
        /\ held[x].phase = "working"
        /\ held[x].job = held[w].job
        => held[x].generation <= held[w].generation]_queueVars

(* A job at rest stays as it is until a user retries, cancels or deletes:  *)
(* no worker that comes late turns a cancelled job into a completed one.   *)
RestingJobsAreKept ==
    [][\A j \in JobIds :
        /\ jobs[j].state \in RestingStates
        /\ jobs'[j].state # jobs[j].state
        => /\ jobs'[j].state \in {"queued", "cancelled", "absent"}
           /\ held' = held]_queueVars

(* "lease_generation_fences_second_worker": only the worker whose lease    *)
(* the row is under settles the job.                                       *)
OnlyTheHolderSettles ==
    [][\A w \in Workers :
        SettlesBy(w) /\ jobs'[held[w].job] # jobs[held[w].job] =>
            jobs[held[w].job].owner = w]_queueVars

(* Every job comes to rest, through crashes, stalls and retries, unless    *)
(* every worker thread has been ended by a deletion that met its claim.    *)
EveryJobRests ==
    \A j \in JobIds :
        jobs[j].state \in {"queued", "running", "retryable-failure"} ~>
            \/ jobs[j].state \in RestingStates \cup {"absent"}
            \/ \A w \in Workers : held[w].phase = "ended"

-----------------------------------------------------------------------------
(* The inductive invariant.  Of a row: an absent one has no values, a      *)
(* present one has its key, and RetriesBounded.                            *)
RowInv(row) ==
    /\ row.state = "absent" => row = AbsentJob
    /\ row.state # "absent" => row.key \in Keys
    /\ row.state = "retryable-failure" => row.attempts < MaxAttempts

(* Of worker w's dict d and the row it was read from, unless that has been *)
(* deleted: the row's lease is never older than the dict's, and while it   *)
(* is the same lease the dict's attempts are right, and a lease that was   *)
(* read back as w's own is not another worker's.                           *)
DictInv(w, d, row) ==
    row.state # "absent" =>
        /\ d.generation <= row.generation
        /\ d.generation = row.generation =>
            /\ d.attempts = row.attempts
            /\ d.owner = w => row.owner \in {w, NoOwner}

(* What makes RetriesBounded, GenerationsAreExclusive and                  *)
(* SupersededNeverSettles hold after every method of the queue: the        *)
(* numbers of rows are used once, and dicts are never ahead of their rows. *)
QueueInv ==
    /\ QueueTypeOK
    /\ \A j \in JobIds : RowInv(jobs[j])
    /\ \A j \in JobIds : j > submitted => jobs[j].state = "absent"
    /\ OneJobPerKey
    /\ GenerationsAreExclusive
    /\ \A w \in Workers : held[w].phase \in {"claimed", "working"} =>
            held[w].job \in 1..submitted
    /\ \A w \in Workers : held[w].phase = "working" =>
            DictInv(w, held[w], jobs[held[w].job])
=============================================================================
