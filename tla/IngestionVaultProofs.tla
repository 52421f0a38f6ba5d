------------------------- MODULE IngestionVaultProofs -------------------------
(***************************************************************************)
(* Theorems about IngestionVault: its processes implement the queue, so    *)
(* that the queue's invariant holds in the vault, and a job that says it   *)
(* is done has its extraction.                                             *)
(***************************************************************************)
EXTENDS IngestionVault, IngestionQueueProofs

(* The types of what the vault adds to the queue.                          *)
RecordTypes ==
    /\ sources \in [Sources -> SourceRecords]
    /\ intakes \in [Captures -> Statuses]
    /\ extractions \subseteq Sources \X Versions
    /\ blobs \in [Sources -> [Versions -> Keys \cup {NoValue}]]
    /\ intakeOf \in [JobIds -> Captures \cup {NoValue}]
    /\ client \in [Captures -> Capturing]
    /\ work \in [Workers -> Working]
    /\ retry \in Retrying
    /\ recovery \in Recovering
    /\ asks \in 0..MaxAsks

(* A capture whose intake anything knows of has numbered its version.      *)
Numbered(c) == client[c].version \in Versions
VersionsNumbered ==
    /\ \A c \in Captures : client[c].stage \notin {"new", "read", "done"} => Numbered(c)
    /\ \A c \in Captures : intakes[c] # "absent" => Numbered(c)
    /\ \A j \in JobIds : intakeOf[j] # NoValue => Numbered(intakeOf[j])
    /\ \A w \in Workers : work[w].intake # NoValue => Numbered(work[w].intake)
    /\ retry.intake # NoValue => Numbered(retry.intake)
    /\ \A c \in recovery.todo : Numbered(c)
    /\ recovery.at # NoValue => Numbered(recovery.at)
    /\ recovery.stage \in {"submit", "submitted", "save"} => recovery.at # NoValue

(* A row names its source and version; so does who works on it.            *)
RowsNamed ==
    \A j \in JobIds : Present(j) => jobs[j].source \in Sources /\ jobs[j].version \in Versions
WorkNamed ==
    \A w \in Workers : work[w].stage # "idle" =>
        work[w].job \in JobIds /\ work[w].source \in Sources /\ work[w].version \in Versions
RetryNamed == retry.stage # "idle" => retry.source \in Sources

(* A worker works on the job of its dict, and on that row's version while  *)
(* the row is there; what it publishes is then in the extractions table.   *)
Unsettled == {"load", "markIntake", "markSource", "extract", "publish", "publishSource",
              "publishIntake", "doneIntake", "reload", "doneSource", "finish", "fail", "block"}
AfterPublish == {"publishSource", "publishIntake", "doneIntake", "reload", "doneSource", "finish"}
WorkerInv(w) ==
    work[w].stage \in Unsettled =>
        /\ held[w].phase = "working"
        /\ held[w].job = work[w].job
        /\ Present(work[w].job) =>
              /\ jobs[work[w].job].source = work[w].source
              /\ jobs[work[w].job].version = work[w].version
              /\ work[w].stage \in AfterPublish =>
                    <<work[w].source, work[w].version>> \in extractions

RecordsInv == RecordTypes /\ VersionsNumbered /\ RetryNamed

VaultInv ==
    /\ QueueInv
    /\ RecordsInv
    /\ RowsNamed
    /\ WorkNamed
    /\ \A w \in Workers : WorkerInv(w)
    /\ CompletedHasExtraction

-----------------------------------------------------------------------------
(* What a step may do to a row: delete it, leave its source and version    *)
(* alone and call it done only if it has its extraction, or insert it.     *)
Done == {"completed", "partial"}
HasExtraction(j) == <<jobs[j].source, jobs[j].version>> \in extractions
RowFollows(j) ==
    \/ jobs'[j].state = "absent"
    \/ /\ Present(j)
       /\ jobs'[j].source = jobs[j].source
       /\ jobs'[j].version = jobs[j].version
       /\ jobs'[j].state \in Done => jobs[j].state \in Done \/ HasExtraction(j)
    \/ /\ j > submitted
       /\ jobs'[j].state \notin Done
       /\ jobs'[j].source \in Sources
       /\ jobs'[j].version \in Versions

(* An extraction is removed only together with its jobs.                   *)
ExtractionStays(j) ==
    Present(j) /\ jobs'[j].state # "absent" /\ HasExtraction(j)
        => <<jobs[j].source, jobs[j].version>> \in extractions'

(* What a step may do to a worker: leave it alone, let it go on with what  *)
(* it works on, end what it works on, or give it a row that is there.      *)
SameJob(w) ==
    /\ work[w].stage # "idle"
    /\ work'[w].job = work[w].job
    /\ work'[w].source = work[w].source
    /\ work'[w].version = work[w].version
WorkFollows(w) ==
    \/ work'[w] = work[w] /\ (held'[w] = held[w] \/ held[w].phase # "working")
    \/ work'[w].stage = "idle"
    \/ work'[w].stage \notin Unsettled /\ SameJob(w)
    \/ /\ SameJob(w)
       /\ held'[w] = held[w]
       /\ work[w].stage \in Unsettled
       /\ work'[w].stage \in AfterPublish =>
            \/ work[w].stage \in AfterPublish
            \/ <<work[w].source, work[w].version>> \in extractions'
    \/ LET j == work'[w].job
       IN  /\ work'[w].stage = "load"
           /\ held'[w].phase = "working"
           /\ held'[w].job = j
           /\ j \in JobIds /\ j <= submitted /\ Present(j)
           /\ work'[w].source = jobs[j].source
           /\ work'[w].version = jobs[j].version

LEMMA StepFollows ==
    ASSUME VaultInv, QueueInv', RecordsInv',
           \A j \in JobIds : RowFollows(j) /\ ExtractionStays(j),
           \A w \in Workers : WorkFollows(w)
    PROVE  VaultInv'
<1>0. /\ \A j \in JobIds : jobs[j] \in JobRows /\ jobs'[j] \in JobRows
      /\ \A j \in JobIds : j > submitted => ~Present(j)
      /\ \A w \in Workers : held[w].phase = "working" => held[w].job \in 1..submitted
      /\ submitted \in 0..MaxJobs /\ MaxJobs \in Nat /\ JobIds = 1..MaxJobs
  BY QueueBounds DEF VaultInv, QueueInv, QueueTypeOK, JobIds, Present
<1>1. RowsNamed'
  BY <1>0 DEF VaultInv, RowsNamed, RowFollows, Present
<1>2. CompletedHasExtraction'
  BY <1>0 DEF VaultInv, CompletedHasExtraction, RowFollows, ExtractionStays, HasExtraction,
              Present, Done
<1>3. WorkNamed'
  BY <1>0 DEF VaultInv, WorkNamed, WorkFollows, SameJob, RowsNamed
<1>4. ASSUME NEW w \in Workers PROVE WorkerInv(w)'
  <2> DEFINE j == work'[w].job
  <2>0. WorkerInv(w) /\ WorkFollows(w)
    BY DEF VaultInv
  <2>1. CASE work'[w] = work[w]
    <3>1. SUFFICES ASSUME work[w].stage \in Unsettled PROVE WorkerInv(w)'
      BY <2>1 DEF WorkerInv
    <3>2. held[w].phase = "working" /\ held[w].job = j /\ j \in 1..submitted
      BY <1>0, <2>0, <2>1, <3>1 DEF WorkerInv
    <3>3. held'[w].phase = "working" /\ held'[w].job = j
      BY <2>0, <2>1, <3>1, <3>2 DEF WorkFollows, SameJob, Unsettled
    <3>4. j \in JobIds /\ ~(j > submitted) /\ RowFollows(j) /\ ExtractionStays(j)
      BY <1>0, <3>2
    <3> QED
      BY <2>0, <2>1, <3>1, <3>2, <3>3, <3>4
         DEF WorkerInv, RowFollows, ExtractionStays, HasExtraction, Present
  <2>2. CASE work'[w].stage \notin Unsettled
    BY <2>2 DEF WorkerInv
  <2>3. CASE /\ SameJob(w)
             /\ held'[w] = held[w]
             /\ work[w].stage \in Unsettled
             /\ work'[w].stage \in AfterPublish =>
                    \/ work[w].stage \in AfterPublish
                    \/ <<work[w].source, work[w].version>> \in extractions'
    <3>2. held[w].phase = "working" /\ held[w].job = j /\ j \in 1..submitted
      BY <1>0, <2>0, <2>3 DEF WorkerInv, SameJob
    <3>4. j \in JobIds /\ ~(j > submitted) /\ RowFollows(j) /\ ExtractionStays(j)
      BY <1>0, <3>2
    <3> QED
      BY <2>0, <2>3, <3>2, <3>4
         DEF WorkerInv, SameJob, RowFollows, ExtractionStays, HasExtraction, Present
  <2>4. CASE /\ work'[w].stage = "load"
             /\ held'[w].phase = "working"
             /\ held'[w].job = j
             /\ j \in JobIds /\ j <= submitted /\ Present(j)
             /\ work'[w].source = jobs[j].source
             /\ work'[w].version = jobs[j].version
    <3>1. ~(j > submitted) /\ RowFollows(j)
      BY <1>0, <2>4
    <3> QED
      BY <2>4, <3>1 DEF WorkerInv, RowFollows, Present, AfterPublish
  <2> QED
    BY <2>0, <2>1, <2>2, <2>3, <2>4 DEF WorkFollows, Unsettled
<1> QED
  BY <1>1, <1>2, <1>3, <1>4 DEF VaultInv

-----------------------------------------------------------------------------
(* The methods of the queue, as the vault calls them, do this to the rows. *)
LEMMA ReclaimedFollows ==
    ASSUME VaultInv, jobs' = Reclaimed(jobs)
    PROVE  \A j \in JobIds : RowFollows(j)
<1> SUFFICES ASSUME NEW j \in JobIds PROVE RowFollows(j)
  OBVIOUS
<1>1. jobs[j] \in JobRows
  BY DEF VaultInv, QueueInv, QueueTypeOK
<1>2. \/ jobs'[j] = jobs[j]
      \/ /\ jobs[j].state = "running"
         /\ jobs'[j] = [jobs[j] EXCEPT !.state = "queued", !.owner = NoOwner,
                                       !.lapsed = FALSE, !.due = TRUE]
  BY DEF Reclaimed
<1> QED
  BY <1>1, <1>2 DEF RowFollows, Present, JobRows, Done

LEMMA ClaimFollows ==
    ASSUME VaultInv, NEW w \in Workers, Claim(w)
    PROVE  \A j \in JobIds : RowFollows(j)
<1> DEFINE js == Reclaimed(jobs)
<1>1. PICK i \in JobIds : /\ IsOldest(i, Claimable(js))
                          /\ jobs' = [js EXCEPT ![i] = Leased(js[i], w)]
  BY DEF Claim
<1> SUFFICES ASSUME NEW j \in JobIds PROVE RowFollows(j)
  OBVIOUS
<1>2. jobs[j] \in JobRows
  BY DEF VaultInv, QueueInv, QueueTypeOK
<1>3. /\ js[j].source = jobs[j].source /\ js[j].version = jobs[j].version
      /\ js[j] = jobs[j] \/ (js[j].state = "queued" /\ jobs[j].state = "running")
      /\ js = [k \in JobIds |-> js[k]]
  <2>1. \/ js[j] = jobs[j]
        \/ /\ jobs[j].state = "running"
           /\ js[j] = [jobs[j] EXCEPT !.state = "queued", !.owner = NoOwner,
                                      !.lapsed = FALSE, !.due = TRUE]
    BY DEF Reclaimed
  <2>2. js = [k \in JobIds |-> js[k]]
    BY DEF Reclaimed
  <2> HIDE DEF js
  <2>3. CASE js[j] = jobs[j]
    BY <2>2, <2>3
  <2>4. CASE js[j] # jobs[j]
    BY <1>2, <2>1, <2>2, <2>4 DEF JobRows
  <2> QED
    BY <2>3, <2>4
<1>4. CASE j = i
  <2>1. js[j].state \in {"queued", "retryable-failure"}
    BY <1>1, <1>4 DEF IsOldest, Claimable
  <2>2. jobs'[j] = Leased(js[j], w)
    BY <1>1, <1>3, <1>4
  <2>3. js[j] \in JobRows
    BY <1>2 DEF Reclaimed, JobRows, JobStates, ActiveStates
  <2> HIDE DEF js
  <2>4. /\ jobs'[j].source = jobs[j].source /\ jobs'[j].version = jobs[j].version
        /\ jobs'[j].state = "running"
    BY <1>3, <2>2, <2>3 DEF Leased, JobRows
  <2> QED
    BY <1>3, <2>1, <2>4 DEF RowFollows, Present, Done
<1>5. CASE j # i
  <2>1. jobs'[j] = js[j]
    BY <1>1, <1>3, <1>5
  <2> HIDE DEF js
  <2> QED
    BY <1>3, <2>1 DEF RowFollows, Present, Done
<1> QED
  BY <1>4, <1>5

LEMMA SettleFollows ==
    ASSUME VaultInv, NEW w \in Workers, NEW state \in JobStates, NEW due \in BOOLEAN,
           Settle(w, state, due), state \in Done => HasExtraction(held[w].job) \/ ~Present(held[w].job)
    PROVE  \A j \in JobIds : RowFollows(j)
<1> SUFFICES ASSUME NEW j \in JobIds PROVE RowFollows(j)
  OBVIOUS
<1>1. jobs[j] \in JobRows /\ jobs \in [JobIds -> JobRows]
  BY DEF VaultInv, QueueInv, QueueTypeOK
<1>2. \/ jobs'[j] = jobs[j]
      \/ /\ held[w].job = j
         /\ jobs[j].state = "running"
         /\ jobs'[j] = [jobs[j] EXCEPT !.state = state, !.owner = NoOwner,
                                       !.lapsed = FALSE, !.due = due]
  BY <1>1 DEF Settle, Matches, Settled
<1> QED
  BY <1>1, <1>2 DEF RowFollows, Present, JobRows, Done

LEMMA SubmitFollows ==
    ASSUME VaultInv, NEW k \in Keys, NEW s \in Sources, NEW v \in Versions, Submit(k, s, v)
    PROVE  /\ \A j \in JobIds : RowFollows(j)
           /\ \A j \in JobIds : Present(j) => jobs'[j] = jobs[j]
           /\ submitted + 1 \in JobIds
<1>1. /\ \A j \in JobIds : jobs[j] \in JobRows
      /\ jobs \in [JobIds -> JobRows] /\ submitted \in 0..MaxJobs /\ MaxJobs \in Nat
      /\ JobIds = 1..MaxJobs
      /\ \A j \in JobIds : j > submitted => ~Present(j)
  BY QueueBounds DEF VaultInv, QueueInv, QueueTypeOK, JobIds, Present
<1>2. \A j \in JobIds : \/ jobs'[j] = jobs[j]
                        \/ j = submitted + 1 /\ jobs'[j] = NewJob(k, s, v)
  BY <1>1 DEF Submit
<1>3. /\ NewJob(k, s, v).state = "queued" /\ NewJob(k, s, v).source = s
      /\ NewJob(k, s, v).version = v
  BY DEF NewJob, AbsentJob
<1> QED
  BY <1>1, <1>2, <1>3 DEF RowFollows, Present, Done, Submit

LEMMA DeleteFollows ==
    ASSUME VaultInv, NEW S, jobs' = DeleteJobs(S)
    PROVE  \A j \in JobIds : RowFollows(j) /\ (j \in S => ~Present(j)')
BY DEF DeleteJobs, RowFollows, Present, AbsentJob, Done

(* One row that is there changes its state, lease or due time.             *)
LEMMA TouchFollows ==
    ASSUME VaultInv, NEW i \in JobIds, Present(i),
           NEW state, NEW lapsed, NEW due, state \in Done => jobs[i].state \in Done,
           jobs' = [jobs EXCEPT ![i].state = state, ![i].lapsed = lapsed, ![i].due = due]
    PROVE  \A j \in JobIds : RowFollows(j)
<1> SUFFICES ASSUME NEW j \in JobIds PROVE RowFollows(j)
  OBVIOUS
<1>1. jobs \in [JobIds -> JobRows]
  BY DEF VaultInv, QueueInv, QueueTypeOK
<1>2. /\ jobs'[j].source = jobs[j].source /\ jobs'[j].version = jobs[j].version
      /\ jobs'[j].state = IF j = i THEN state ELSE jobs[j].state
  BY <1>1 DEF JobRows
<1> QED
  BY <1>2 DEF RowFollows, Present

LEMMA TableFollows ==
    ASSUME VaultInv,
           \/ \E w \in Workers : Heartbeat(w) \/ Crash(w) \/ Restart(w)
           \/ \E j \in JobIds : Requeue(j) \/ ComeDue(j) \/ Lapse(j)
           \/ Recover
           \/ \E s \in Sources : CancelProcessing(s)
    PROVE  \A j \in JobIds : RowFollows(j)
<1>0. jobs \in [JobIds -> JobRows] /\ held \in [Workers -> Dicts]
  BY DEF VaultInv, QueueInv, QueueTypeOK
<1>1. ASSUME NEW w \in Workers, Heartbeat(w) PROVE \A j \in JobIds : RowFollows(j)
  <2> DEFINE i == held[w].job
  <2>1. i \in JobIds /\ jobs[i].state = "running"
    <3>1. held[w].phase = "working" /\ jobs[i].state = "running"
      BY <1>1 DEF Heartbeat, Owns
    <3>2. i \in 1..submitted /\ submitted \in 0..MaxJobs /\ MaxJobs \in Nat
      BY <3>1, QueueBounds DEF VaultInv, QueueInv, QueueTypeOK
    <3> QED
      BY <3>1, <3>2 DEF JobIds
  <2>2. jobs' = [jobs EXCEPT ![i].state = jobs[i].state, ![i].lapsed = FALSE,
                             ![i].due = jobs[i].due]
    BY <1>0, <1>1, <2>1 DEF Heartbeat, JobRows
  <2> QED
    BY <2>1, <2>2, TouchFollows DEF Present
<1>2. ASSUME NEW w \in Workers, Crash(w) PROVE \A j \in JobIds : RowFollows(j)
  BY <1>2 DEF Crash, RowFollows, Present
<1>3. ASSUME NEW w \in Workers, Restart(w) PROVE \A j \in JobIds : RowFollows(j)
  BY <1>3, ReclaimedFollows DEF Restart
<1>4. ASSUME NEW i \in JobIds, Requeue(i) PROVE \A j \in JobIds : RowFollows(j)
  <2>1. jobs' = [jobs EXCEPT ![i].state = "queued", ![i].lapsed = jobs[i].lapsed,
                             ![i].due = TRUE]
    BY <1>0, <1>4 DEF Requeue, JobRows
  <2>2. Present(i) /\ "queued" \notin Done
    BY <1>4 DEF Requeue, Present, RestingStates, Done
  <2> QED
    BY <2>1, <2>2, TouchFollows
<1>5. ASSUME NEW i \in JobIds, ComeDue(i) PROVE \A j \in JobIds : RowFollows(j)
  <2>1. jobs' = [jobs EXCEPT ![i].state = jobs[i].state, ![i].lapsed = jobs[i].lapsed,
                             ![i].due = TRUE]
    BY <1>0, <1>5 DEF ComeDue, JobRows
  <2>2. Present(i)
    BY <1>5 DEF ComeDue
  <2> QED
    BY <2>1, <2>2, TouchFollows
<1>6. ASSUME NEW i \in JobIds, Lapse(i) PROVE \A j \in JobIds : RowFollows(j)
  <2>1. jobs' = [jobs EXCEPT ![i].state = jobs[i].state, ![i].lapsed = TRUE,
                             ![i].due = jobs[i].due]
    BY <1>0, <1>6 DEF Lapse, JobRows
  <2>2. Present(i)
    BY <1>6 DEF Lapse, Present
  <2> QED
    BY <2>1, <2>2, TouchFollows
<1>7. ASSUME Recover PROVE \A j \in JobIds : RowFollows(j)
  BY <1>7, ReclaimedFollows DEF Recover
<1>8. ASSUME NEW s \in Sources, CancelProcessing(s), NEW j \in JobIds PROVE RowFollows(j)
  <2>1. \/ jobs'[j] = jobs[j]
        \/ Present(j) /\ jobs'[j] = [jobs[j] EXCEPT !.state = "cancelled"]
    <3>1. jobs[j].state \in ActiveStates => Present(j)
      BY DEF ActiveStates, Present
    <3> QED
      BY <1>8, <3>1 DEF CancelProcessing
  <2> QED
    BY <1>0, <2>1 DEF RowFollows, Present, JobRows, Done
<1> QED
  BY <1>1, <1>2, <1>3, <1>4, <1>5, <1>6, <1>7, <1>8

-----------------------------------------------------------------------------
(* The records.  First those of the captures.                              *)
LEMMA NoneTypes ==
    /\ NoSource \in SourceRecords
    /\ Idle \in Working /\ Idle.stage = "idle" /\ Idle.intake = NoValue
    /\ NoRetry \in Retrying /\ NoRetry.intake = NoValue /\ NoRetry.stage = "idle"
    /\ NoRecovery \in Recovering /\ NoRecovery.todo = {} /\ NoRecovery.at = NoValue
    /\ NoRecovery.stage = "idle"
BY DEF NoSource, SourceRecords, Statuses, Idle, Working, Stages, GuardedStages, NoRetry,
       Retrying, NoRecovery, Recovering

CaptureStages == {"read", "store", "purge", "cancel", "save", "submit", "submitted",
                  "queueIntake", "queueSource", "done"}
LEMMA AdvanceKeeps ==
    ASSUME client \in [Captures -> Capturing], NEW c \in Captures,
           NEW stage \in CaptureStages, Advance(c, stage)
    PROVE  /\ client' \in [Captures -> Capturing]
           /\ client'[c].stage = stage
           /\ \A d \in Captures : /\ client'[d].version = client[d].version
                                  /\ d # c => client'[d] = client[d]
BY NoneTypes DEF Advance, Capturing, CaptureStages

(* A capture that has its number may go on as it likes.                    *)
LEMMA CaptureRecords ==
    ASSUME RecordsInv, NEW c \in Captures,
           client' \in [Captures -> Capturing],
           \A d \in Captures : d # c => client'[d] = client[d],
           Numbered(c) => Numbered(c)',
           client'[c].stage \notin {"new", "read", "done"} => Numbered(c)',
           sources' \in [Sources -> SourceRecords],
           intakes' = intakes \/
              (Numbered(c) /\ \E status \in Statuses : intakes' = [intakes EXCEPT ![c] = status]),
           extractions' \subseteq extractions,
           blobs' \in [Sources -> [Versions -> Keys \cup {NoValue}]],
           intakeOf' = intakeOf \/
              (Numbered(c) /\ \E j \in JobIds : intakeOf' = [intakeOf EXCEPT ![j] = c]),
           UNCHANGED <<work, retry, recovery, asks>>
    PROVE  RecordsInv'
<1>1. RecordTypes'
  BY DEF RecordsInv, RecordTypes
<1>2. \A d \in Captures : Numbered(d) => Numbered(d)'
  BY DEF Numbered
<1>3. /\ work \in [Workers -> Working] /\ retry \in Retrying /\ recovery \in Recovering
      /\ intakes \in [Captures -> Statuses] /\ intakeOf \in [JobIds -> Captures \cup {NoValue}]
  BY DEF RecordsInv, RecordTypes
<1>4. /\ \A w \in Workers : work[w].intake \in Captures \cup {NoValue}
      /\ retry.intake \in Captures \cup {NoValue}
      /\ recovery.todo \subseteq Captures /\ recovery.at \in Captures \cup {NoValue}
  BY <1>3 DEF Working, Retrying, Recovering
<1>5. \A d \in Captures : client'[d].stage \notin {"new", "read", "done"} => Numbered(d)'
  BY DEF RecordsInv, VersionsNumbered, Numbered
<1>6. \A d \in Captures : intakes'[d] # "absent" => Numbered(d)'
  BY <1>2, <1>3 DEF RecordsInv, VersionsNumbered
<1>7. \A j \in JobIds : intakeOf'[j] # NoValue => client'[intakeOf'[j]].version \in Versions
  BY <1>2, <1>3 DEF RecordsInv, VersionsNumbered, Numbered
<1>8. /\ \A w \in Workers : work[w].intake # NoValue => client'[work[w].intake].version \in Versions
      /\ retry.intake # NoValue => client'[retry.intake].version \in Versions
      /\ \A d \in recovery.todo : client'[d].version \in Versions
      /\ recovery.at # NoValue => client'[recovery.at].version \in Versions
      /\ recovery.stage \in {"submit", "submitted", "save"} => recovery.at # NoValue
  BY <1>2, <1>4 DEF RecordsInv, VersionsNumbered, Numbered
<1>9. VersionsNumbered'
  BY <1>5, <1>6, <1>7, <1>8 DEF VersionsNumbered, Numbered
<1> QED
  BY <1>1, <1>9 DEF RecordsInv, RetryNamed

LEMMA QueueRests ==
    ASSUME VaultInv, UNCHANGED queueVars
    PROVE  [QueueNext]_queueVars /\ \A j \in JobIds : RowFollows(j)
BY DEF queueVars, RowFollows, Present

(* What a step of anyone but a worker has to show.                         *)
LEMMA OthersKeep ==
    ASSUME VaultInv, RecordsInv', [QueueNext]_queueVars,
           \A j \in JobIds : RowFollows(j) /\ ExtractionStays(j),
           UNCHANGED <<held, work>>
    PROVE  VaultInv'
<1>1. QueueInv'
  BY NextKeeps DEF VaultInv
<1>2. \A w \in Workers : WorkFollows(w)
  BY DEF WorkFollows
<1> QED
  BY <1>1, <1>2, StepFollows

(* The steps of a capture that leave the queue and the extractions alone.  *)
LEMMA QuietClient ==
    ASSUME VaultInv, NEW c \in Captures,
           \/ ClientLookup(c) \/ ClientRead(c) \/ ClientCheck(c) \/ ClientStore(c)
           \/ ClientSave(c) \/ ClientIntake(c) \/ ClientReadBack(c)
           \/ ClientQueueIntake(c) \/ ClientQueueSource(c) \/ ClientCrash(c)
    PROVE  RecordsInv' /\ UNCHANGED <<queueVars, extractions, work>>
<1>0. /\ RecordsInv /\ client \in [Captures -> Capturing]
      /\ sources \in [Sources -> SourceRecords] /\ intakes \in [Captures -> Statuses]
      /\ blobs \in [Sources -> [Versions -> Keys \cup {NoValue}]]
      /\ KeyOf(c) \in Keys /\ SourceOf(c) \in Sources
      /\ client[c].stage \notin {"new", "read", "done"} => Numbered(c)
      /\ client[c] \in Capturing
  BY VaultNames DEF VaultInv, RecordsInv, RecordTypes, VersionsNumbered, KeyOf, SourceOf
<1>1. CASE ClientLookup(c)
  <2>1. PICK stage \in {"read", "done"} : Advance(c, stage)
    BY <1>1 DEF ClientLookup
  <2>2. stage \in CaptureStages
    BY DEF CaptureStages
  <2> QED
    BY <1>0, <1>1, <2>1, <2>2, AdvanceKeeps, CaptureRecords DEF ClientLookup, Numbered
<1>2. CASE ClientRead(c)
  <2> DEFINE v == NextVersion(sources[SourceOf(c)].versions)
             new == [stage |-> "check", copy |-> sources[SourceOf(c)], version |-> v]
  <2>1. v \in Versions /\ client' = [client EXCEPT ![c] = new]
    BY <1>2 DEF ClientRead
  <2>2. new \in Capturing
    BY <1>0, <2>1 DEF Capturing
  <2>3. /\ client' \in [Captures -> Capturing] /\ client'[c].version = v
        /\ \A d \in Captures : d # c => client'[d] = client[d]
    BY <1>0, <2>1, <2>2
  <2>4. UNCHANGED <<queueVars, sources, intakes, extractions, blobs, intakeOf, work, retry, recovery, asks>>
    BY <1>2 DEF ClientRead
  <2> HIDE DEF v, new
  <2> QED
    BY <1>0, <2>1, <2>3, <2>4, CaptureRecords DEF Numbered
<1>3. CASE ClientCheck(c) \/ ClientStore(c)
  <2>1. PICK stage \in CaptureStages : Advance(c, stage)
    BY <1>3 DEF ClientCheck, ClientStore, AfterStore, CaptureStages
  <2>2. Numbered(c)
    BY <1>0, <1>3 DEF ClientCheck, ClientStore, At
  <2>3. blobs' \in [Sources -> [Versions -> Keys \cup {NoValue}]]
    BY <1>0, <1>3, <2>2 DEF ClientCheck, ClientStore, Numbered
  <2>4. UNCHANGED <<queueVars, sources, intakes, extractions, intakeOf, work, retry, recovery, asks>>
    BY <1>3 DEF ClientCheck, ClientStore
  <2> QED
    BY <1>0, <2>1, <2>2, <2>3, <2>4, AdvanceKeeps, CaptureRecords DEF Numbered
<1>4. CASE ClientSave(c)
  <2> DEFINE copy == client[c].copy
             record == [status |-> "captured", versions |-> copy.versions \cup {client[c].version},
                        listed |-> (copy.listed \cap copy.versions) \ {client[c].version}]
  <2>1. Numbered(c)
    BY <1>0, <1>4 DEF ClientSave, At
  <2>2. record \in SourceRecords
    BY <1>0, <2>1 DEF Capturing, SourceRecords, Statuses, Numbered
  <2>3. /\ client' = [client EXCEPT ![c].stage = "intake", ![c].copy = record]
        /\ sources' = [sources EXCEPT ![SourceOf(c)] = record]
        /\ UNCHANGED <<queueVars, intakes, extractions, blobs, intakeOf, work, retry, recovery, asks>>
    BY <1>4 DEF ClientSave, SaveSource
  <2> HIDE DEF copy, record
  <2>4. /\ client' \in [Captures -> Capturing] /\ client'[c].version = client[c].version
        /\ \A d \in Captures : d # c => client'[d] = client[d]
    BY <1>0, <2>2, <2>3 DEF Capturing
  <2>5. sources' \in [Sources -> SourceRecords]
    BY <1>0, <2>2, <2>3
  <2> QED
    BY <1>0, <2>1, <2>3, <2>4, <2>5, CaptureRecords DEF Numbered
<1>5. CASE ClientIntake(c) \/ ClientQueueIntake(c)
  <2>1. PICK stage \in CaptureStages : Advance(c, stage)
    BY <1>5 DEF ClientIntake, ClientQueueIntake, CaptureStages
  <2>2. Numbered(c)
    BY <1>0, <1>5 DEF ClientIntake, ClientQueueIntake, At
  <2>3. /\ \E status \in Statuses : intakes' = [intakes EXCEPT ![c] = status]
        /\ UNCHANGED <<queueVars, sources, extractions, blobs, intakeOf, work, retry, recovery, asks>>
    BY <1>5 DEF ClientIntake, ClientQueueIntake, SaveIntake, Statuses
  <2> QED
    BY <1>0, <2>1, <2>2, <2>3, AdvanceKeeps, CaptureRecords DEF Numbered
<1>6. CASE ClientReadBack(c) \/ ClientCrash(c)
  <2>1. PICK stage \in CaptureStages : Advance(c, stage) /\ (stage = "done" \/ Numbered(c))
    BY <1>0, <1>6 DEF ClientReadBack, ClientCrash, CaptureStages, At
  <2>3. UNCHANGED <<queueVars, sources, intakes, extractions, blobs, intakeOf, work, retry, recovery, asks>>
    BY <1>6 DEF ClientReadBack, ClientCrash
  <2> QED
    BY <1>0, <2>1, <2>3, AdvanceKeeps, CaptureRecords DEF Numbered
<1>7. CASE ClientQueueSource(c)
  <2> DEFINE record == [client[c].copy EXCEPT !.status = "queued"]
  <2>1. "done" \in CaptureStages /\ Advance(c, "done") /\ Numbered(c)
    BY <1>0, <1>7 DEF ClientQueueSource, CaptureStages, At
  <2>2. record \in SourceRecords
    BY <1>0 DEF Capturing, SourceRecords, Statuses
  <2>3. sources' \in [Sources -> SourceRecords]
    BY <1>0, <1>7, <2>2 DEF ClientQueueSource, SaveSource
  <2>4. UNCHANGED <<queueVars, intakes, extractions, blobs, intakeOf, work, retry, recovery, asks>>
    BY <1>7 DEF ClientQueueSource
  <2> QED
    BY <1>0, <2>1, <2>3, <2>4, AdvanceKeeps, CaptureRecords DEF Numbered
<1> QED
  BY <1>1, <1>2, <1>3, <1>4, <1>5, <1>6, <1>7

LEMMA ClientPurgeKeeps ==
    ASSUME VaultInv, NEW c \in Captures, ClientPurge(c)
    PROVE  VaultInv' /\ [QueueNext]_queueVars
<1> DEFINE s == SourceOf(c)
           Old == client[c].copy.versions
<1>0. /\ RecordsInv /\ client \in [Captures -> Capturing] /\ client[c] \in Capturing
      /\ sources \in [Sources -> SourceRecords]
      /\ blobs \in [Sources -> [Versions -> Keys \cup {NoValue}]]
      /\ s \in Sources /\ Numbered(c) /\ Old \subseteq Versions
  <2>1. /\ RecordsInv /\ client \in [Captures -> Capturing] /\ client[c] \in Capturing
        /\ sources \in [Sources -> SourceRecords] /\ s \in Sources
        /\ blobs \in [Sources -> [Versions -> Keys \cup {NoValue}]]
    BY VaultNames DEF VaultInv, RecordsInv, RecordTypes, SourceOf
  <2>2. Numbered(c)
    BY <2>1 DEF ClientPurge, At, RecordsInv, VersionsNumbered
  <2> QED
    BY <2>1, <2>2 DEF Capturing, SourceRecords
<1>1. ASSUME NEW v \in Old,
             DeleteVersionJobs(s, v),
             extractions' = extractions \ {<<s, v>>},
             blobs' = [blobs EXCEPT ![s][v] = NoValue],
             client' = [client EXCEPT ![c].copy.versions = @ \ {v}],
             UNCHANGED <<sources, intakes, intakeOf, work, retry, recovery, asks>>
      PROVE  VaultInv' /\ [QueueNext]_queueVars
  <2>1. QueueNext /\ v \in Versions /\ held' = held
    BY <1>0, <1>1 DEF QueueNext, DeleteVersionJobs
  <2>2. /\ client' \in [Captures -> Capturing] /\ client'[c].version = client[c].version
        /\ \A d \in Captures : d # c => client'[d] = client[d]
    <3>1. \A cap \in Capturing, V \in SUBSET Versions :
              /\ [cap EXCEPT !.copy.versions = V] \in Capturing
              /\ [cap EXCEPT !.copy.versions = V].version = cap.version
      BY DEF Capturing, SourceRecords
    <3>2. client' = [client EXCEPT ![c] = [client[c] EXCEPT !.copy.versions = Old \ {v}]]
      BY <1>0, <1>1 DEF Capturing, SourceRecords
    <3> QED
      BY <1>0, <3>1, <3>2
  <2>3. blobs' \in [Sources -> [Versions -> Keys \cup {NoValue}]]
    BY <1>0, <1>1
  <2>4. RecordsInv'
    BY <1>0, <1>1, <2>2, <2>3, CaptureRecords DEF Numbered
  <2> DEFINE S == {j \in JobIds : jobs[j].source = s /\ jobs[j].version = v}
  <2>5. jobs' = DeleteJobs(S)
    BY <1>1 DEF DeleteVersionJobs
  <2>6. \A j \in JobIds : RowFollows(j) /\ (j \in S => jobs'[j].state = "absent")
    BY <2>5, DeleteFollows DEF Present
  <2>7. \A j \in JobIds : ExtractionStays(j)
    BY <1>1, <2>6 DEF ExtractionStays, HasExtraction, Present
  <2> QED
    BY <1>1, <2>1, <2>4, <2>6, <2>7, OthersKeep
<1>2. ASSUME Advance(c, "save"),
             UNCHANGED <<queueVars, extractions, blobs>>,
             UNCHANGED <<sources, intakes, intakeOf, work, retry, recovery, asks>>
      PROVE  VaultInv' /\ [QueueNext]_queueVars
  <2>1. RecordsInv'
    <3>1. "save" \in CaptureStages
      BY DEF CaptureStages
    <3> QED
      BY <1>0, <1>2, <3>1, AdvanceKeeps, CaptureRecords DEF Numbered
  <2>2. \A j \in JobIds : ExtractionStays(j)
    BY <1>2 DEF ExtractionStays, HasExtraction
  <2>3. held' = held
    BY <1>2 DEF queueVars
  <2> QED
    BY <1>2, <2>1, <2>2, <2>3, QueueRests, OthersKeep
<1> QED
  BY <1>1, <1>2 DEF ClientPurge

LEMMA ClientCancelKeeps ==
    ASSUME VaultInv, NEW c \in Captures, ClientCancel(c)
    PROVE  VaultInv' /\ [QueueNext]_queueVars
<1> DEFINE s == SourceOf(c)
           v == client[c].version
<1>0. /\ RecordsInv /\ client \in [Captures -> Capturing]
      /\ sources \in [Sources -> SourceRecords]
      /\ blobs \in [Sources -> [Versions -> Keys \cup {NoValue}]]
      /\ s \in Sources /\ Numbered(c) /\ v \in Versions
  BY VaultNames DEF VaultInv, RecordsInv, RecordTypes, SourceOf, ClientCancel, At,
                    VersionsNumbered, Numbered
<1>1. /\ CancelSourceJobs(s, v) /\ Advance(c, "save") /\ "save" \in CaptureStages
      /\ UNCHANGED <<sources, intakes, extractions, blobs, intakeOf, work, retry, recovery, asks>>
  BY DEF ClientCancel, CaptureStages
<1>2. QueueNext /\ held' = held
  BY <1>0, <1>1 DEF QueueNext, CancelSourceJobs
<1>3. RecordsInv'
  BY <1>0, <1>1, AdvanceKeeps, CaptureRecords DEF Numbered
<1>4. \A j \in JobIds : RowFollows(j)
  BY <1>1, DeleteFollows DEF CancelSourceJobs
<1>5. \A j \in JobIds : ExtractionStays(j)
  BY <1>1 DEF ExtractionStays, HasExtraction
<1> QED
  BY <1>1, <1>2, <1>3, <1>4, <1>5, OthersKeep

LEMMA ClientSubmitKeeps ==
    ASSUME VaultInv, NEW c \in Captures, ClientSubmit(c)
    PROVE  VaultInv' /\ [QueueNext]_queueVars
<1> DEFINE k == KeyOf(c)
           s == SourceOf(c)
           v == client[c].version
<1>0. /\ RecordsInv /\ client \in [Captures -> Capturing]
      /\ sources \in [Sources -> SourceRecords]
      /\ blobs \in [Sources -> [Versions -> Keys \cup {NoValue}]]
      /\ k \in Keys /\ s \in Sources /\ Numbered(c) /\ v \in Versions
  BY VaultNames DEF VaultInv, RecordsInv, RecordTypes, SourceOf, KeyOf, ClientSubmit, At,
                    VersionsNumbered, Numbered
<1>1. /\ UNCHANGED <<sources, intakes, extractions, blobs, work, retry, recovery, asks>>
      /\ "queueIntake" \in CaptureStages /\ "submitted" \in CaptureStages
  BY DEF ClientSubmit, CaptureStages
<1>2. \A j \in JobIds : ExtractionStays(j)
  BY <1>1 DEF ExtractionStays, HasExtraction
<1>3. CASE Advance(c, "queueIntake") /\ UNCHANGED <<queueVars, intakeOf>>
  <2>1. RecordsInv'
    BY <1>0, <1>1, <1>3, AdvanceKeeps, CaptureRecords DEF Numbered
  <2>2. held' = held
    BY <1>3 DEF queueVars
  <2> QED
    BY <1>1, <1>2, <1>3, <2>1, <2>2, QueueRests, OthersKeep
<1>4. CASE /\ Submit(k, s, v)
           /\ intakeOf' = [intakeOf EXCEPT ![submitted + 1] = c]
           /\ Advance(c, "submitted")
  <2>1. QueueNext /\ held' = held
    BY <1>0, <1>4 DEF QueueNext, Submit
  <2>2. submitted + 1 \in JobIds /\ \A j \in JobIds : RowFollows(j)
    BY <1>0, <1>4, SubmitFollows
  <2>3. RecordsInv'
    BY <1>0, <1>1, <1>4, <2>2, AdvanceKeeps, CaptureRecords DEF Numbered
  <2> QED
    BY <1>1, <1>2, <2>1, <2>2, <2>3, OthersKeep
<1> QED
  BY <1>3, <1>4 DEF ClientSubmit

LEMMA ClientKeeps ==
    ASSUME VaultInv, NEW c \in Captures, ClientNext(c) \/ ClientCrash(c)
    PROVE  VaultInv' /\ [QueueNext]_queueVars
<1>1. CASE \/ ClientLookup(c) \/ ClientRead(c) \/ ClientCheck(c) \/ ClientStore(c)
           \/ ClientSave(c) \/ ClientIntake(c) \/ ClientReadBack(c)
           \/ ClientQueueIntake(c) \/ ClientQueueSource(c) \/ ClientCrash(c)
  <2>1. RecordsInv' /\ UNCHANGED <<queueVars, extractions, work>>
    BY <1>1, QuietClient
  <2>2. held' = held /\ \A j \in JobIds : ExtractionStays(j)
    BY <2>1 DEF queueVars, ExtractionStays, HasExtraction
  <2> QED
    BY <2>1, <2>2, QueueRests, OthersKeep
<1> QED
  BY <1>1, ClientPurgeKeeps, ClientCancelKeeps, ClientSubmitKeeps DEF ClientNext

-----------------------------------------------------------------------------
(* The workers.  A worker goes on with its job if only its own record      *)
(* changes, and of that not the job.                                       *)
GoesOn(w) ==
    /\ work' \in [Workers -> Working]
    /\ \A x \in Workers : x # w => work'[x] = work[x]
    /\ work'[w].job = work[w].job
    /\ work'[w].source = work[w].source
    /\ work'[w].version = work[w].version
    /\ work'[w].intake = work[w].intake

LEMMA RecordGoesOn ==
    ASSUME work \in [Workers -> Working], NEW w \in Workers, NEW r \in Working,
           r.job = work[w].job, r.source = work[w].source, r.version = work[w].version,
           r.intake = work[w].intake, work' = [work EXCEPT ![w] = r]
    PROVE  GoesOn(w) /\ work'[w] = r
BY DEF GoesOn

LEMMA GoesKeeps ==
    ASSUME work \in [Workers -> Working], NEW w \in Workers, NEW stage \in Stages,
           Goes(w, stage)
    PROVE  GoesOn(w) /\ work'[w].stage = stage
BY NoneTypes DEF Goes, Working, GoesOn

LEMMA FailsKeeps ==
    ASSUME work \in [Workers -> Working], NEW w \in Workers, NEW why \in {"fail", "block"},
           NEW retryable \in BOOLEAN, Fails(w, why, retryable)
    PROVE  GoesOn(w) /\ work'[w].stage = why
<1> DEFINE status == IF why = "block" THEN "awaiting-unlock" ELSE "failed"
           r == [work[w] EXCEPT !.stage = why, !.armed = FALSE, !.retryable = retryable,
                                !.copy = NoSource, !.status = status]
<1>1. status \in Statuses /\ why \in Stages /\ work[w] \in Working
  BY DEF Statuses, Stages
<1>2. work' = [work EXCEPT ![w] = r]
  BY DEF Fails
<1> HIDE DEF status
<1>3. /\ r \in Working /\ r.stage = why /\ r.job = work[w].job /\ r.source = work[w].source
      /\ r.version = work[w].version /\ r.intake = work[w].intake
  BY <1>1, NoneTypes DEF Working
<1> HIDE DEF r
<1> QED
  BY <1>2, <1>3, RecordGoesOn

LEMMA LoadsKeeps ==
    ASSUME work \in [Workers -> Working], NEW w \in Workers, NEW stage \in Stages,
           NEW copy \in SourceRecords,
           \/ work' = [work EXCEPT ![w].stage = stage, ![w].copy = copy]
           \/ work' = [work EXCEPT ![w] = [@ EXCEPT !.stage = stage, !.copy = copy]]
    PROVE  GoesOn(w) /\ work'[w].stage = stage
<1> DEFINE r == [work[w] EXCEPT !.stage = stage, !.copy = copy]
<1>1. work[w] \in Working /\ work' = [work EXCEPT ![w] = r]
  OBVIOUS
<1>2. /\ r \in Working /\ r.stage = stage /\ r.job = work[w].job /\ r.source = work[w].source
      /\ r.version = work[w].version /\ r.intake = work[w].intake
  BY <1>1 DEF Working
<1> HIDE DEF r
<1> QED
  BY <1>1, <1>2, RecordGoesOn

LEMMA StatusKeeps ==
    ASSUME work \in [Workers -> Working], NEW w \in Workers, NEW stage \in Stages,
           NEW status \in Statuses,
           \/ work' = [work EXCEPT ![w].stage = stage, ![w].status = status]
           \/ work' = [work EXCEPT ![w] = [@ EXCEPT !.stage = stage, !.status = status]]
    PROVE  GoesOn(w) /\ work'[w].stage = stage
<1> DEFINE r == [work[w] EXCEPT !.stage = stage, !.status = status]
<1>1. work[w] \in Working /\ work' = [work EXCEPT ![w] = r]
  OBVIOUS
<1>2. /\ r \in Working /\ r.stage = stage /\ r.job = work[w].job /\ r.source = work[w].source
      /\ r.version = work[w].version /\ r.intake = work[w].intake
  BY <1>1 DEF Working
<1> HIDE DEF r
<1> QED
  BY <1>1, <1>2, RecordGoesOn

LEMMA IdleKeeps ==
    ASSUME work \in [Workers -> Working], NEW w \in Workers, work' = [work EXCEPT ![w] = Idle]
    PROVE  /\ work' \in [Workers -> Working] /\ work'[w] = Idle
           /\ \A x \in Workers : x # w => work'[x] = work[x]
BY NoneTypes

(* What a worker writes keeps the records' types and numbers.              *)
LEMMA WorkRecords ==
    ASSUME VaultInv, NEW w \in Workers,
           work' \in [Workers -> Working],
           \A x \in Workers : x # w => work'[x] = work[x],
           \/ work'[w].intake \in {work[w].intake, NoValue}
           \/ \E j \in JobIds : work'[w].intake = intakeOf[j],
           sources' \in [Sources -> SourceRecords],
           intakes' = intakes \/
              \E status \in Statuses : intakes' = [intakes EXCEPT ![work[w].intake] = status],
           extractions' \subseteq Sources \X Versions,
           UNCHANGED <<blobs, intakeOf, client, retry, recovery, asks>>
    PROVE  RecordsInv'
<1>0. /\ work \in [Workers -> Working] /\ intakes \in [Captures -> Statuses]
      /\ intakeOf \in [JobIds -> Captures \cup {NoValue}]
      /\ work[w].intake \in Captures \cup {NoValue} /\ NoValue \notin Captures
      /\ RecordsInv
  BY VaultNames DEF VaultInv, RecordsInv, RecordTypes, Working
<1>1. intakes' \in [Captures -> Statuses]
  BY <1>0
<1>2. RecordTypes'
  BY <1>0, <1>1 DEF RecordsInv, RecordTypes
<1>3. \A c \in Captures : intakes'[c] # "absent" => Numbered(c)
  BY <1>0 DEF RecordsInv, VersionsNumbered
<1>4. \A x \in Workers : work'[x].intake # NoValue => client[work'[x].intake].version \in Versions
  BY <1>0 DEF RecordsInv, VersionsNumbered, Numbered
<1>5. VersionsNumbered'
  BY <1>0, <1>3, <1>4 DEF RecordsInv, VersionsNumbered, Numbered
<1> QED
  BY <1>0, <1>2, <1>5 DEF RecordsInv, RetryNamed

(* What a step of worker w has to show.                                    *)
LEMMA WorkerKeep ==
    ASSUME VaultInv, NEW w \in Workers, RecordsInv', [QueueNext]_queueVars,
           \A j \in JobIds : RowFollows(j) /\ ExtractionStays(j),
           WorkFollows(w),
           \A x \in Workers : x # w => work'[x] = work[x] /\ held'[x] = held[x]
    PROVE  VaultInv'
<1>1. QueueInv'
  BY NextKeeps DEF VaultInv
<1>2. \A x \in Workers : WorkFollows(x)
  BY DEF WorkFollows
<1> QED
  BY <1>1, <1>2, StepFollows

(* A step of a worker that leaves the queue alone.                         *)
LEMMA QuietWork ==
    ASSUME VaultInv, NEW w \in Workers, work[w].stage # "idle",
           GoesOn(w) \/ work' = [work EXCEPT ![w] = Idle],
           work'[w].stage \in Unsettled => work[w].stage \in Unsettled,
           work'[w].stage \in AfterPublish =>
                \/ work[w].stage \in AfterPublish
                \/ <<work[w].source, work[w].version>> \in extractions',
           sources' \in [Sources -> SourceRecords],
           intakes' = intakes \/
              \E status \in Statuses : intakes' = [intakes EXCEPT ![work[w].intake] = status],
           extractions \subseteq extractions', extractions' \subseteq Sources \X Versions,
           UNCHANGED <<queueVars, blobs, intakeOf, client, retry, recovery, asks>>
    PROVE  VaultInv' /\ [QueueNext]_queueVars
<1>1. work \in [Workers -> Working] /\ held' = held
  BY DEF VaultInv, RecordsInv, RecordTypes, queueVars
<1>2. /\ work' \in [Workers -> Working]
      /\ \A x \in Workers : x # w => work'[x] = work[x]
      /\ work'[w].intake \in {work[w].intake, NoValue}
      /\ WorkFollows(w)
  BY <1>1, IdleKeeps, NoneTypes DEF GoesOn, WorkFollows, SameJob
<1>3. RecordsInv'
  BY <1>2, WorkRecords
<1>4. \A j \in JobIds : RowFollows(j) /\ ExtractionStays(j)
  BY QueueRests DEF ExtractionStays, HasExtraction
<1> QED
  BY <1>1, <1>2, <1>3, <1>4, QueueRests, WorkerKeep

LEMMA QuietWorkerKeeps ==
    ASSUME VaultInv, NEW w \in Workers,
           \/ WorkerChecks(w) \/ WorkerLoads(w)
           \/ WorkerMarksIntake(w) \/ WorkerMarksSource(w) \/ WorkerExtracts(w)
           \/ WorkerPublishes(w) \/ WorkerPublishesSource(w) \/ WorkerPublishesIntake(w)
           \/ WorkerEndsIntake(w) \/ WorkerReloads(w) \/ WorkerEndsSource(w)
           \/ WorkerNotes(w) \/ WorkerLoadsIntake(w)
           \/ WorkerNotesIntake(w) \/ WorkerLoadsSource(w) \/ WorkerNotesSource(w)
    PROVE  VaultInv' /\ [QueueNext]_queueVars
<1> DEFINE F == UNCHANGED <<queueVars, blobs, intakeOf, client, retry, recovery, asks>>
           st == work[w].stage
<1>0. /\ work \in [Workers -> Working] /\ work[w] \in Working
      /\ sources \in [Sources -> SourceRecords] /\ extractions \subseteq Sources \X Versions
      /\ st # "idle" => work[w].source \in Sources /\ work[w].version \in Versions
      /\ work[w].copy \in SourceRecords /\ work[w].status \in Statuses
  BY DEF VaultInv, RecordsInv, RecordTypes, WorkNamed, Working
<1>s. /\ \A r \in SourceRecords, status \in Statuses : [r EXCEPT !.status = status] \in SourceRecords
      /\ {"processing", "complete", "partial", "failed"} \subseteq Statuses
  BY DEF SourceRecords, Statuses
<1>1. CASE WorkerChecks(w)
  <2>1. /\ st \in GuardedStages /\ UNCHANGED <<sources, intakes, extractions>> /\ F
    BY <1>1 DEF WorkerChecks
  <2>2. GoesOn(w) /\ work'[w].stage \in {st, "fail"}
    <3>1. CASE work' = [work EXCEPT ![w] = [@ EXCEPT !.armed = TRUE]]
      BY <1>0, <3>1 DEF Working, GoesOn
    <3>2. CASE work' = [work EXCEPT ![w] = [@ EXCEPT !.stage = "fail", !.status = "failed",
                                                     !.retryable = TRUE, !.copy = NoSource]]
      <4> DEFINE r == [work[w] EXCEPT !.stage = "fail", !.status = "failed",
                                      !.retryable = TRUE, !.copy = NoSource]
      <4>1. work' = [work EXCEPT ![w] = r]
        BY <3>2
      <4>2. /\ r \in Working /\ r.stage = "fail" /\ r.job = work[w].job
            /\ r.source = work[w].source /\ r.version = work[w].version
            /\ r.intake = work[w].intake
        BY <1>0, NoneTypes DEF Working, Stages, Statuses
      <4> HIDE DEF r
      <4> QED
        BY <1>0, <4>1, <4>2, RecordGoesOn
    <3> QED
      BY <1>1, <3>1, <3>2 DEF WorkerChecks
  <2>3. st # "idle" /\ st \in Unsettled /\ "fail" \notin AfterPublish
    BY <2>1 DEF GuardedStages, Unsettled, AfterPublish
  <2> QED
    BY <1>0, <2>1, <2>2, <2>3, QuietWork
<1>2. CASE WorkerLoads(w)
  <2>1. st = "load" /\ UNCHANGED <<sources, intakes, extractions>> /\ F
    BY <1>2 DEF WorkerLoads, Reached
  <2>2. sources[work[w].source] \in SourceRecords
    BY <1>0, <2>1
  <2>3. GoesOn(w) /\ work'[w].stage \in {"markIntake", "fail"}
    BY <1>0, <1>2, <2>2, FailsKeeps, LoadsKeeps DEF WorkerLoads, Stages, GuardedStages
  <2>4. st \in Unsettled /\ work'[w].stage \notin AfterPublish
    BY <2>1, <2>3 DEF Unsettled, AfterPublish
  <2> QED
    BY <1>0, <2>1, <2>3, <2>4, QuietWork
<1>3. CASE WorkerMarksIntake(w) \/ WorkerPublishesIntake(w) \/ WorkerEndsIntake(w)
                                \/ WorkerNotesIntake(w)
  <2>1. /\ \E status \in Statuses : intakes' = [intakes EXCEPT ![work[w].intake] = status]
        /\ UNCHANGED <<sources, extractions>> /\ F
    BY <1>0, <1>3, <1>s DEF WorkerMarksIntake, WorkerPublishesIntake, WorkerEndsIntake,
                            WorkerNotesIntake, SaveIntake
  <2>2. PICK stage \in {"markSource", "doneIntake", "reload", "noteLoad"} :
            /\ Goes(w, stage)
            /\ \/ st = "markIntake" /\ stage = "markSource"
               \/ st = "publishIntake" /\ stage = "doneIntake"
               \/ st = "doneIntake" /\ stage = "reload"
               \/ st = "noteIntakeSave" /\ stage = "noteLoad"
    BY <1>3 DEF WorkerMarksIntake, WorkerPublishesIntake, WorkerEndsIntake,
                WorkerNotesIntake, Reached
  <2>3. GoesOn(w) /\ work'[w].stage = stage
    BY <1>0, <2>2, GoesKeeps DEF Stages, GuardedStages
  <2>4. /\ st # "idle"
        /\ stage \in Unsettled => st \in Unsettled
        /\ stage \in AfterPublish => st \in AfterPublish
    BY <2>2 DEF Unsettled, AfterPublish
  <2> QED
    BY <1>0, <2>1, <2>3, <2>4, QuietWork
<1>4. CASE WorkerMarksSource(w) \/ WorkerEndsSource(w)
  <2>1. /\ \E status \in Statuses :
              sources' = [sources EXCEPT ![work[w].source] = [work[w].copy EXCEPT !.status = status]]
        /\ UNCHANGED <<intakes, extractions>> /\ F
    BY <1>0, <1>4, <1>s DEF WorkerMarksSource, WorkerEndsSource, SaveSource
  <2>2. PICK stage \in {"extract", "finish"} :
            /\ Goes(w, stage)
            /\ \/ st = "markSource" /\ stage = "extract"
               \/ st = "doneSource" /\ stage = "finish"
    BY <1>4 DEF WorkerMarksSource, WorkerEndsSource, Reached
  <2>3. GoesOn(w) /\ work'[w].stage = stage
    BY <1>0, <2>2, GoesKeeps DEF Stages, GuardedStages
  <2>4. /\ st # "idle" /\ st \in Unsettled
        /\ stage \in AfterPublish => st \in AfterPublish
    BY <2>2 DEF Unsettled, AfterPublish
  <2>5. sources' \in [Sources -> SourceRecords]
    BY <1>0, <1>s, <2>1
  <2> QED
    BY <1>0, <2>1, <2>3, <2>4, <2>5, QuietWork
<1>5. CASE WorkerExtracts(w)
  <2>1. st = "extract" /\ UNCHANGED <<sources, intakes, extractions>> /\ F
    BY <1>5 DEF WorkerExtracts, Reached
  <2>2. \/ \E why \in {"fail", "block"}, retryable \in BOOLEAN : Fails(w, why, retryable)
        \/ \E outcome \in {"complete", "partial"} :
              work' = [work EXCEPT ![w].stage = "publish", ![w].status = outcome]
    BY <1>5 DEF WorkerExtracts
  <2>3. GoesOn(w) /\ work'[w].stage \in {"publish", "fail", "block"}
    <3>1. "publish" \in Stages
      BY DEF Stages, GuardedStages
    <3> QED
      BY <1>0, <1>s, <2>2, <3>1, FailsKeeps, StatusKeeps
  <2>4. st \in Unsettled /\ work'[w].stage \notin AfterPublish
    BY <2>1, <2>3 DEF Unsettled, AfterPublish
  <2> QED
    BY <1>0, <2>1, <2>3, <2>4, QuietWork
<1>6. CASE WorkerPublishes(w)
  <2>1. /\ st = "publish" /\ UNCHANGED <<sources, intakes>> /\ F
        /\ extractions' = extractions \cup {<<work[w].source, work[w].version>>}
    BY <1>6 DEF WorkerPublishes, Reached
  <2>2. GoesOn(w)
    BY <1>0, <1>6, GoesKeeps DEF WorkerPublishes, Stages
  <2>3. /\ extractions \subseteq extractions' /\ extractions' \subseteq Sources \X Versions
        /\ <<work[w].source, work[w].version>> \in extractions'
    BY <1>0, <2>1
  <2>4. st \in Unsettled
    BY <2>1 DEF Unsettled
  <2> QED
    BY <1>0, <2>1, <2>2, <2>3, <2>4, QuietWork
<1>7. CASE WorkerPublishesSource(w)
  <2> DEFINE record == [work[w].copy EXCEPT !.status = work[w].status,
                                            !.listed = @ \cup {work[w].version}]
  <2>1. /\ st = "publishSource" /\ UNCHANGED <<intakes, extractions>> /\ F
        /\ sources' = [sources EXCEPT ![work[w].source] = record]
    BY <1>7 DEF WorkerPublishesSource, Reached, SaveSource
  <2>2. GoesOn(w)
    BY <1>0, <1>7, GoesKeeps DEF WorkerPublishesSource, Stages
  <2>3. record \in SourceRecords
    BY <1>0, <2>1 DEF SourceRecords
  <2>4. st \in Unsettled /\ st \in AfterPublish
    BY <2>1 DEF Unsettled, AfterPublish
  <2> HIDE DEF record
  <2>5. sources' \in [Sources -> SourceRecords]
    BY <1>0, <2>1, <2>3
  <2> QED
    BY <1>0, <2>1, <2>2, <2>4, <2>5, QuietWork
<1>8. CASE WorkerReloads(w)
  <2>1. st = "reload" /\ UNCHANGED <<sources, intakes, extractions>> /\ F
    BY <1>8 DEF WorkerReloads, Reached
  <2>2. sources[work[w].source] \in SourceRecords
    BY <1>0, <2>1
  <2>3. GoesOn(w)
    BY <1>0, <1>8, <2>2, FailsKeeps, LoadsKeeps DEF WorkerReloads, Stages, GuardedStages
  <2>4. st \in Unsettled /\ st \in AfterPublish
    BY <2>1 DEF Unsettled, AfterPublish
  <2> QED
    BY <1>0, <2>1, <2>3, <2>4, QuietWork
<1>9. CASE WorkerNotes(w) \/ WorkerLoadsIntake(w) \/ WorkerLoadsSource(w) \/ WorkerNotesSource(w)
  <2>1. /\ st \in {"note", "noteIntake", "noteLoad", "noteSource"}
        /\ UNCHANGED <<intakes, extractions>> /\ F
    BY <1>9 DEF WorkerNotes, WorkerLoadsIntake, WorkerLoadsSource, WorkerNotesSource, Reached
  <2>2. sources' \in [Sources -> SourceRecords]
    BY <1>0, <1>9, <1>s, <2>1
       DEF WorkerNotes, WorkerLoadsIntake, WorkerLoadsSource, WorkerNotesSource, SaveSource
  <2>3. \/ GoesOn(w) /\ work'[w].stage \in {"noteIntake", "noteLoad", "noteIntakeSave", "noteSource"}
        \/ work' = [work EXCEPT ![w] = Idle]
    <3>s. {"noteIntake", "noteLoad", "noteIntakeSave", "noteSource"} \subseteq Stages
      BY DEF Stages
    <3>1. CASE WorkerNotes(w)
      <4>1. \/ work' = [work EXCEPT ![w] = Idle]
            \/ \E status \in Statuses :
                 work' = [work EXCEPT ![w] = [@ EXCEPT !.stage = "noteIntake", !.status = status]]
        <5> DEFINE state == jobs[work[w].job].state
                   status == IF state = "retryable-failure" THEN "processing" ELSE work[w].status
        <5>1. status \in Statuses
          BY <1>0, <1>s
        <5>2. \/ work' = [work EXCEPT ![w] = Idle]
              \/ work' = [work EXCEPT ![w] = [@ EXCEPT !.stage = "noteIntake", !.status = status]]
          <6>1. work' = [work EXCEPT ![w] =
                    IF state \in {"absent", "cancelled"} THEN Idle
                    ELSE [work[w] EXCEPT !.stage = "noteIntake", !.status = status]]
            BY <3>1 DEF WorkerNotes
          <6> HIDE DEF state, status
          <6> QED
            BY <6>1
        <5> QED
          BY <5>1, <5>2
      <4> QED
        BY <1>0, <3>s, <4>1, StatusKeeps
    <3>2. CASE WorkerLoadsIntake(w)
      BY <1>0, <3>s, <3>2, GoesKeeps DEF WorkerLoadsIntake
    <3>3. CASE WorkerLoadsSource(w)
      <4>1. \/ work' = [work EXCEPT ![w] = Idle]
            \/ work' = [work EXCEPT ![w] = [@ EXCEPT !.stage = "noteSource",
                                                     !.copy = sources[work[w].source]]]
        BY <3>3 DEF WorkerLoadsSource
      <4>2. sources[work[w].source] \in SourceRecords
        BY <1>0, <2>1
      <4> QED
        BY <1>0, <3>s, <4>1, <4>2, LoadsKeeps
    <3>4. CASE WorkerNotesSource(w)
      BY <3>4 DEF WorkerNotesSource
    <3> QED
      BY <1>9, <3>1, <3>2, <3>3, <3>4
  <2>4. work'[w].stage \notin Unsettled /\ work'[w].stage \notin AfterPublish
    BY <1>0, <2>3, IdleKeeps, NoneTypes DEF Unsettled, AfterPublish
  <2> QED
    BY <1>0, <2>1, <2>2, <2>3, <2>4, QuietWork
<1> QED
  BY <1>1, <1>2, <1>3, <1>4, <1>5, <1>6, <1>7, <1>8, <1>9

(* The steps of a worker that are steps of the queue.                      *)
LEMMA VaultRests ==
    ASSUME VaultInv, UNCHANGED vaultVars
    PROVE  /\ RecordsInv' /\ UNCHANGED <<work, extractions>>
           /\ \A j \in JobIds : ExtractionStays(j)
BY DEF VaultInv, RecordsInv, RecordTypes, VersionsNumbered, RetryNamed, Numbered, vaultVars,
       ExtractionStays, HasExtraction

LEMMA ClaimsKeeps ==
    ASSUME VaultInv, NEW w \in Workers, WorkerClaims(w)
    PROVE  VaultInv' /\ [QueueNext]_queueVars
<1>1. Claim(w) /\ UNCHANGED vaultVars /\ QueueNext
  BY DEF WorkerClaims, QueueNext
<1>2. held \in [Workers -> Dicts]
  BY DEF VaultInv, QueueInv, QueueTypeOK
<1>3. /\ held[w].phase # "working"
      /\ \A x \in Workers : x # w => held'[x] = held[x]
  BY <1>1, <1>2 DEF Claim
<1>4. RecordsInv' /\ work' = work /\ \A j \in JobIds : RowFollows(j) /\ ExtractionStays(j)
  BY <1>1, VaultRests, ClaimFollows
<1> QED
  BY <1>1, <1>3, <1>4, WorkerKeep DEF WorkFollows

LEMMA ReadsBackKeeps ==
    ASSUME VaultInv, NEW w \in Workers, WorkerReadsBack(w)
    PROVE  VaultInv' /\ [QueueNext]_queueVars
<1> DEFINE j == held[w].job
           got == [Idle EXCEPT !.stage = "load", !.job = j, !.intake = intakeOf[j],
                               !.source = jobs[j].source, !.version = jobs[j].version]
<1>0. /\ work \in [Workers -> Working] /\ held \in [Workers -> Dicts]
      /\ sources \in [Sources -> SourceRecords] /\ extractions \subseteq Sources \X Versions
      /\ intakeOf \in [JobIds -> Captures \cup {NoValue}]
  BY DEF VaultInv, RecordsInv, RecordTypes, QueueInv, QueueTypeOK
<1>1. /\ ReadBack(w) /\ QueueNext /\ jobs' = jobs
      /\ UNCHANGED <<sources, intakes, extractions, blobs, intakeOf, client, retry, recovery, asks>>
  BY DEF WorkerReadsBack, QueueNext, ReadBack
<1>2. j \in JobIds /\ j <= submitted
  <2>1. held[w].phase = "claimed" /\ submitted \in 0..MaxJobs /\ MaxJobs \in Nat
    BY <1>1, QueueBounds DEF ReadBack, VaultInv, QueueInv, QueueTypeOK
  <2>2. j \in 1..submitted
    BY <2>1 DEF VaultInv, QueueInv
  <2> QED
    BY <2>1, <2>2 DEF JobIds
<1>3. \A i \in JobIds : RowFollows(i) /\ ExtractionStays(i)
  BY <1>1 DEF RowFollows, Present, ExtractionStays, HasExtraction
<1>4. \A x \in Workers : x # w => held'[x] = held[x]
  BY <1>0, <1>1 DEF ReadBack
<1>5. CASE Present(j)
  <2>1. work' = [work EXCEPT ![w] = got]
    BY <1>5 DEF WorkerReadsBack
  <2>2. jobs[j].source \in Sources /\ jobs[j].version \in Versions
    BY <1>2, <1>5 DEF VaultInv, RowsNamed
  <2>3. /\ got \in Working /\ got.stage = "load" /\ got.job = j /\ got.intake = intakeOf[j]
        /\ got.source = jobs[j].source /\ got.version = jobs[j].version
    BY <1>0, <1>2, <2>2, NoneTypes DEF Idle, Working, Stages
  <2> HIDE DEF got
  <2>4. /\ work' \in [Workers -> Working] /\ work'[w] = got
        /\ \A x \in Workers : x # w => work'[x] = work[x]
    BY <1>0, <2>1, <2>3
  <2>5. RecordsInv'
    BY <1>0, <1>1, <1>2, <2>3, <2>4, WorkRecords
  <2>6. held'[w].phase = "working" /\ held'[w].job = j
    BY <1>0, <1>1, <1>5 DEF ReadBack
  <2>7. WorkFollows(w)
    BY <1>2, <1>5, <2>3, <2>4, <2>6 DEF WorkFollows
  <2> QED
    BY <1>1, <1>3, <1>4, <2>4, <2>5, <2>7, WorkerKeep
<1>6. CASE ~Present(j)
  <2>1. work' = [work EXCEPT ![w] = Idle]
    BY <1>6 DEF WorkerReadsBack
  <2>2. /\ work' \in [Workers -> Working] /\ work'[w].stage = "idle" /\ work'[w].intake = NoValue
        /\ \A x \in Workers : x # w => work'[x] = work[x]
    BY <1>0, <2>1, IdleKeeps, NoneTypes
  <2>3. RecordsInv'
    BY <1>0, <1>1, <2>2, WorkRecords
  <2>4. WorkFollows(w)
    BY <2>2 DEF WorkFollows
  <2> QED
    BY <1>1, <1>3, <1>4, <2>2, <2>3, <2>4, WorkerKeep
<1> QED
  BY <1>5, <1>6

(* A job is called done by the worker that published its extraction.       *)
LEMMA SettlesKeep ==
    ASSUME VaultInv, NEW w \in Workers, NEW state \in JobStates, NEW due \in BOOLEAN,
           Settle(w, state, due), QueueNext,
           state \in Done => work[w].stage = "finish",
           work[w].stage # "idle",
           \/ work' = [work EXCEPT ![w] = Idle]
           \/ GoesOn(w) /\ work'[w].stage = "note",
           UNCHANGED <<sources, intakes, extractions, blobs, intakeOf, client, retry, recovery, asks>>
    PROVE  VaultInv'
<1>0. /\ work \in [Workers -> Working] /\ held \in [Workers -> Dicts]
      /\ sources \in [Sources -> SourceRecords] /\ extractions \subseteq Sources \X Versions
  BY DEF VaultInv, RecordsInv, RecordTypes, QueueInv, QueueTypeOK
<1>1. state \in Done => HasExtraction(held[w].job) \/ ~Present(held[w].job)
  <2>1. WorkerInv(w)
    BY DEF VaultInv
  <2> QED
    BY <2>1 DEF WorkerInv, Unsettled, AfterPublish, HasExtraction
<1>2. \A j \in JobIds : RowFollows(j) /\ ExtractionStays(j)
  BY <1>1, SettleFollows DEF ExtractionStays, HasExtraction
<1>3. \A x \in Workers : x # w => held'[x] = held[x]
  BY <1>0 DEF Settle
<1>4. /\ work' \in [Workers -> Working] /\ WorkFollows(w)
      /\ work'[w].intake \in {work[w].intake, NoValue}
      /\ \A x \in Workers : x # w => work'[x] = work[x]
  BY <1>0, IdleKeeps, NoneTypes DEF GoesOn, WorkFollows, SameJob, Unsettled
<1>5. RecordsInv'
  BY <1>0, <1>4, WorkRecords
<1> QED
  BY <1>2, <1>3, <1>4, <1>5, WorkerKeep

LEMMA FinishesKeeps ==
    ASSUME VaultInv, NEW w \in Workers, WorkerFinishes(w)
    PROVE  VaultInv' /\ [QueueNext]_queueVars
<1>1. PICK outcome \in {"completed", "partial"} : Finish(w, outcome)
  BY DEF WorkerFinishes
<1>2. QueueNext /\ Settle(w, outcome, TRUE) /\ outcome \in JobStates
  BY <1>1 DEF QueueNext, Finish, JobStates, RestingStates
<1>3. /\ work[w].stage = "finish" /\ work' = [work EXCEPT ![w] = Idle]
      /\ UNCHANGED <<sources, intakes, extractions, blobs, intakeOf, client, retry, recovery, asks>>
  BY DEF WorkerFinishes, Reached
<1> QED
  BY <1>2, <1>3, SettlesKeep

LEMMA FailureKeeps ==
    ASSUME VaultInv, NEW w \in Workers, WorkerFails(w)
    PROVE  VaultInv' /\ [QueueNext]_queueVars
<1>0. work \in [Workers -> Working] /\ work[w].retryable \in BOOLEAN
  BY DEF VaultInv, RecordsInv, RecordTypes, Working
<1>1. /\ work[w].stage \in {"fail", "block"} /\ Goes(w, "note")
      /\ Fail(w, work[w].retryable) \/ BlockForPassword(w)
      /\ UNCHANGED <<sources, intakes, extractions, blobs, intakeOf, client, retry, recovery, asks>>
  BY DEF WorkerFails, Reached
<1>2. QueueNext
  BY <1>0, <1>1 DEF QueueNext
<1>3. PICK state \in {"retryable-failure", "failed", "awaiting-unlock"}, due \in BOOLEAN :
          Settle(w, state, due)
  BY <1>1 DEF Fail, BlockForPassword
<1>4. GoesOn(w) /\ work'[w].stage = "note"
  BY <1>0, <1>1, GoesKeeps DEF Stages
<1>5. state \in JobStates /\ state \notin Done
  BY DEF JobStates, ActiveStates, RestingStates, Done
<1> QED
  BY <1>1, <1>2, <1>3, <1>4, <1>5, SettlesKeep

LEMMA CrashKeeps ==
    ASSUME VaultInv, NEW w \in Workers, WorkerCrashes(w)
    PROVE  VaultInv' /\ [QueueNext]_queueVars
<1>0. /\ work \in [Workers -> Working] /\ held \in [Workers -> Dicts]
      /\ sources \in [Sources -> SourceRecords] /\ extractions \subseteq Sources \X Versions
  BY DEF VaultInv, RecordsInv, RecordTypes, QueueInv, QueueTypeOK
<1>1. /\ Crash(w) /\ work' = [work EXCEPT ![w] = Idle] /\ QueueNext
      /\ UNCHANGED <<sources, intakes, extractions, blobs, intakeOf, client, retry, recovery, asks>>
  BY DEF WorkerCrashes, QueueNext
<1>2. \A j \in JobIds : RowFollows(j) /\ ExtractionStays(j)
  BY <1>1, TableFollows DEF ExtractionStays, HasExtraction
<1>3. /\ work' \in [Workers -> Working] /\ work'[w].stage = "idle" /\ work'[w].intake = NoValue
      /\ \A x \in Workers : x # w => work'[x] = work[x] /\ held'[x] = held[x]
  BY <1>0, <1>1, IdleKeeps, NoneTypes DEF Crash
<1>4. RecordsInv'
  BY <1>0, <1>1, <1>3, WorkRecords
<1> QED
  BY <1>1, <1>2, <1>3, <1>4, WorkerKeep DEF WorkFollows

(* Heartbeats, restarts and time.                                          *)
LEMMA TimeKeeps ==
    ASSUME VaultInv, UNCHANGED vaultVars,
           \/ \E w \in Workers : Heartbeat(w) \/ Restart(w)
           \/ \E j \in JobIds : ComeDue(j) \/ Lapse(j)
    PROVE  VaultInv' /\ [QueueNext]_queueVars
<1>1. QueueNext
  BY DEF QueueNext
<1>2. held \in [Workers -> Dicts]
  BY DEF VaultInv, QueueInv, QueueTypeOK
<1>3. RecordsInv' /\ work' = work /\ \A j \in JobIds : RowFollows(j) /\ ExtractionStays(j)
  BY VaultRests, TableFollows
<1>4. \A w \in Workers : held'[w] = held[w] \/ held[w].phase # "working"
  BY <1>2 DEF Heartbeat, Restart, ComeDue, Lapse
<1>5. QueueInv' /\ \A w \in Workers : WorkFollows(w)
  BY <1>1, <1>3, <1>4, NextKeeps DEF VaultInv, WorkFollows
<1> QED
  BY <1>1, <1>3, <1>5, StepFollows

-----------------------------------------------------------------------------
(* Users and recovery: none of them works on a job or numbers a version.   *)
LEMMA UserRecords ==
    ASSUME VaultInv,
           sources' \in [Sources -> SourceRecords],
           intakes' \in [Captures -> Statuses],
           \A c \in Captures : intakes'[c] # "absent" => Numbered(c),
           extractions' \subseteq extractions,
           blobs' \in [Sources -> [Versions -> Keys \cup {NoValue}]],
           intakeOf' \in [JobIds -> Captures \cup {NoValue}],
           \A j \in JobIds : intakeOf'[j] # NoValue => Numbered(intakeOf'[j]),
           retry' \in Retrying, RetryNamed',
           retry'.intake # NoValue => Numbered(retry'.intake),
           recovery' \in Recovering,
           \A c \in recovery'.todo : Numbered(c),
           recovery'.at # NoValue => Numbered(recovery'.at),
           recovery'.stage \in {"submit", "submitted", "save"} => recovery'.at # NoValue,
           asks' \in 0..MaxAsks,
           UNCHANGED <<client, work>>
    PROVE  RecordsInv'
<1>1. RecordTypes'
  BY DEF VaultInv, RecordsInv, RecordTypes
<1>2. VersionsNumbered'
  BY DEF VaultInv, RecordsInv, VersionsNumbered, Numbered
<1> QED
  BY <1>1, <1>2 DEF RecordsInv

LEMMA RecordFacts ==
    ASSUME VaultInv
    PROVE  /\ sources \in [Sources -> SourceRecords] /\ intakes \in [Captures -> Statuses]
           /\ \A c \in Captures : intakes[c] # "absent" => Numbered(c)
           /\ extractions \subseteq Sources \X Versions
           /\ blobs \in [Sources -> [Versions -> Keys \cup {NoValue}]]
           /\ intakeOf \in [JobIds -> Captures \cup {NoValue}]
           /\ \A j \in JobIds : intakeOf[j] # NoValue => Numbered(intakeOf[j])
           /\ retry \in Retrying /\ RetryNamed
           /\ retry.intake # NoValue => Numbered(retry.intake)
           /\ recovery \in Recovering
           /\ \A c \in recovery.todo : Numbered(c)
           /\ recovery.at # NoValue => Numbered(recovery.at)
           /\ recovery.stage \in {"submit", "submitted", "save"} => recovery.at # NoValue
           /\ asks \in 0..MaxAsks /\ MaxAsks \in Nat /\ NoValue \notin Captures
           /\ \A r \in SourceRecords, status \in Statuses :
                  [r EXCEPT !.status = status] \in SourceRecords
BY VaultNames DEF VaultInv, RecordsInv, RecordTypes, VersionsNumbered, SourceRecords

LEMMA AskKeeps ==
    ASSUME VaultInv, Ask
    PROVE  asks' \in 0..MaxAsks
BY RecordFacts DEF Ask

LEMMA CancelDocumentKeeps ==
    ASSUME VaultInv, NEW s \in Sources, CancelDocument(s)
    PROVE  VaultInv' /\ [QueueNext]_queueVars
<1>1. /\ CancelProcessing(s) /\ Ask /\ sources' = [sources EXCEPT ![s].status = "cancelled"]
      /\ SetIntakes(IntakesOf(s), "cancelled")
      /\ UNCHANGED <<extractions, blobs, intakeOf, client, work, retry, recovery>>
  BY DEF CancelDocument
<1>2. QueueNext /\ held' = held
  BY <1>1 DEF QueueNext, CancelProcessing
<1>3. /\ intakes' \in [Captures -> Statuses]
      /\ \A c \in Captures : intakes'[c] # "absent" => intakes[c] # "absent"
  BY <1>1, RecordFacts DEF SetIntakes, IntakesOf, Statuses
<1>4. sources' \in [Sources -> SourceRecords]
  <2>1. sources[s] \in SourceRecords
    BY RecordFacts
  <2>2. [sources[s] EXCEPT !.status = "cancelled"] \in SourceRecords
    BY <2>1, RecordFacts DEF Statuses
  <2>3. sources' = [sources EXCEPT ![s] = [sources[s] EXCEPT !.status = "cancelled"]]
    BY <1>1
  <2> QED
    BY <2>2, <2>3, RecordFacts
<1>5. RetryNamed'
  BY <1>1, RecordFacts DEF RetryNamed
<1>6. RecordsInv'
  BY <1>1, <1>3, <1>4, <1>5, AskKeeps, RecordFacts, UserRecords
<1>7. \A j \in JobIds : RowFollows(j) /\ ExtractionStays(j)
  BY <1>1, TableFollows DEF ExtractionStays, HasExtraction
<1> QED
  BY <1>1, <1>2, <1>6, <1>7, OthersKeep

LEMMA DeleteDocumentKeeps ==
    ASSUME VaultInv, NEW s \in Sources, DeleteDocument(s)
    PROVE  VaultInv' /\ [QueueNext]_queueVars
<1> DEFINE S == {j \in JobIds : jobs[j].source = s}
<1>1. /\ DeleteSourceJobs(s) /\ Ask /\ sources' = [sources EXCEPT ![s] = NoSource]
      /\ SetIntakes(IntakesOf(s), "absent")
      /\ extractions' = {x \in extractions : x[1] # s}
      /\ blobs' = [blobs EXCEPT ![s] = [v \in Versions |-> NoValue]]
      /\ UNCHANGED <<intakeOf, client, work, retry, recovery>>
  BY DEF DeleteDocument
<1>2. QueueNext /\ held' = held /\ jobs' = DeleteJobs(S)
  BY <1>1 DEF QueueNext, DeleteSourceJobs
<1>3. /\ intakes' \in [Captures -> Statuses]
      /\ \A c \in Captures : intakes'[c] # "absent" => intakes[c] # "absent"
  BY <1>1, RecordFacts DEF SetIntakes, IntakesOf, Statuses
<1>4. sources' \in [Sources -> SourceRecords]
  BY <1>1, RecordFacts, NoneTypes
<1>5. RetryNamed'
  BY <1>1, RecordFacts DEF RetryNamed
<1>6. blobs' \in [Sources -> [Versions -> Keys \cup {NoValue}]] /\ extractions' \subseteq extractions
  BY <1>1, RecordFacts
<1>7. RecordsInv'
  BY <1>1, <1>3, <1>4, <1>5, <1>6, AskKeeps, RecordFacts, UserRecords
<1>8. \A j \in JobIds : RowFollows(j) /\ (j \in S => jobs'[j].state = "absent")
  BY <1>2, DeleteFollows DEF Present
<1>9. \A j \in JobIds : ExtractionStays(j)
  BY <1>1, <1>8 DEF ExtractionStays, HasExtraction, Present
<1> QED
  BY <1>1, <1>2, <1>7, <1>8, <1>9, OthersKeep

LEMMA RetryDocumentKeeps ==
    ASSUME VaultInv, NEW s \in Sources, RetryDocument(s)
    PROVE  VaultInv' /\ [QueueNext]_queueVars
<1>1. PICK j \in JobIds :
        /\ Requeue(j) \/ UNCHANGED queueVars
        /\ retry' = IF Guarded THEN retry
                    ELSE [stage |-> "load", job |-> j, source |-> s, intake |-> intakeOf[j],
                          copy |-> NoSource]
  BY DEF RetryDocument
<1>2. Ask /\ UNCHANGED <<sources, intakes, extractions, blobs, intakeOf, client, work, recovery>>
  BY DEF RetryDocument
<1>3. [QueueNext]_queueVars /\ held' = held
  BY <1>1 DEF QueueNext, Requeue, queueVars
<1>4. /\ retry' \in Retrying /\ RetryNamed'
      /\ retry'.intake # NoValue => Numbered(retry'.intake)
  <2>1. CASE retry' = retry
    BY <2>1, RecordFacts DEF RetryNamed
  <2>2. CASE retry' = [stage |-> "load", job |-> j, source |-> s, intake |-> intakeOf[j],
                       copy |-> NoSource]
    BY <2>2, RecordFacts, NoneTypes DEF RetryNamed, Retrying
  <2> QED
    BY <1>1, <2>1, <2>2
<1>5. RecordsInv'
  BY <1>2, <1>4, AskKeeps, RecordFacts, UserRecords
<1>6. \A i \in JobIds : RowFollows(i) /\ ExtractionStays(i)
  BY <1>1, <1>2, TableFollows, QueueRests DEF ExtractionStays, HasExtraction
<1> QED
  BY <1>2, <1>3, <1>5, <1>6, OthersKeep

(* The steps that leave the queue and the extractions alone.               *)
LEMMA QuietUser ==
    ASSUME VaultInv, RecordsInv', UNCHANGED <<queueVars, extractions, work>>
    PROVE  VaultInv' /\ [QueueNext]_queueVars
<1>1. held' = held /\ \A j \in JobIds : RowFollows(j) /\ ExtractionStays(j)
  BY QueueRests DEF queueVars, ExtractionStays, HasExtraction
<1> QED
  BY <1>1, QueueRests, OthersKeep

LEMMA RetryKeeps ==
    ASSUME VaultInv, RetryLoads \/ RetrySaves \/ RetryEndsIntake
    PROVE  VaultInv' /\ [QueueNext]_queueVars
<1>0. /\ UNCHANGED <<queueVars, extractions, blobs, intakeOf, client, work, recovery, asks>>
      /\ retry.stage # "idle" /\ retry.source \in Sources
  BY RecordFacts DEF RetryLoads, RetrySaves, RetryEndsIntake, RetryNamed
<1>1. /\ sources' \in [Sources -> SourceRecords]
      /\ intakes' \in [Captures -> Statuses]
      /\ \A c \in Captures : intakes'[c] # "absent" => intakes[c] # "absent"
  <2>1. sources' \in [Sources -> SourceRecords]
    <3>1. \/ sources' = sources
          \/ sources' = [sources EXCEPT ![retry.source] = [retry.copy EXCEPT !.status = "queued"]]
      BY DEF RetryLoads, RetrySaves, RetryEndsIntake, SaveSource
    <3>2. [retry.copy EXCEPT !.status = "queued"] \in SourceRecords
      BY RecordFacts DEF Retrying, Statuses
    <3> QED
      BY <1>0, <3>1, <3>2, RecordFacts
  <2>2. intakes' = intakes \/
            (intakes[retry.intake] # "absent" /\ intakes' = [intakes EXCEPT ![retry.intake] = "queued"])
    BY DEF RetryLoads, RetrySaves, RetryEndsIntake
  <2> QED
    BY <2>1, <2>2, RecordFacts DEF Statuses
<1>2. /\ retry' \in Retrying /\ RetryNamed'
      /\ retry'.intake \in {retry.intake, NoValue}
  <2>1. CASE RetryLoads
    <3>1. sources[retry.source] \in SourceRecords
      BY <1>0, RecordFacts
    <3>2. \/ retry' = [retry EXCEPT !.stage = "save", !.copy = sources[retry.source]]
          \/ retry' = [retry EXCEPT !.stage = "intake"]
      BY <2>1 DEF RetryLoads
    <3> QED
      BY <1>0, <3>1, <3>2, RecordFacts DEF Retrying, RetryNamed
  <2>2. CASE RetrySaves
    BY <1>0, <2>2, RecordFacts, NoneTypes DEF RetrySaves, Retrying, RetryNamed
  <2>3. CASE RetryEndsIntake
    BY <1>0, <2>3, RecordFacts, NoneTypes DEF RetryEndsIntake, RetryNamed
  <2> QED
    BY <2>1, <2>2, <2>3
<1>3. RecordsInv'
  BY <1>0, <1>1, <1>2, RecordFacts, UserRecords
<1> QED
  BY <1>0, <1>3, QuietUser

LEMMA RecoverStartsKeeps ==
    ASSUME VaultInv, RecoverStarts
    PROVE  VaultInv' /\ [QueueNext]_queueVars
<1>1. /\ Recover /\ Ask /\ recovery' = [NoRecovery EXCEPT !.stage = "list"]
      /\ UNCHANGED <<sources, intakes, extractions, blobs, intakeOf, client, work, retry>>
  BY DEF RecoverStarts
<1>2. QueueNext /\ held' = held
  BY <1>1 DEF QueueNext, Recover
<1>3. recovery' \in Recovering /\ recovery'.todo = {} /\ recovery'.at = NoValue
      /\ recovery'.stage = "list"
  BY <1>1 DEF NoRecovery, Recovering
<1>4. RetryNamed'
  BY <1>1, RecordFacts DEF RetryNamed
<1>5. RecordsInv'
  BY <1>1, <1>3, <1>4, AskKeeps, RecordFacts, UserRecords
<1>6. \A j \in JobIds : RowFollows(j) /\ ExtractionStays(j)
  BY <1>1, TableFollows DEF ExtractionStays, HasExtraction
<1> QED
  BY <1>1, <1>2, <1>5, <1>6, OthersKeep

LEMMA RecoverSubmitsKeeps ==
    ASSUME VaultInv, RecoverSubmits
    PROVE  VaultInv' /\ [QueueNext]_queueVars
<1> DEFINE c == recovery.at
           k == RecoveryKeys[c]
           s == SourceOf(c)
           v == client[c].version
<1>1. /\ recovery.stage = "submit"
      /\ UNCHANGED <<sources, intakes, extractions, blobs, client, work, retry, asks>>
  BY DEF RecoverSubmits
<1>2. /\ c \in Captures /\ Numbered(c) /\ recovery \in Recovering
  BY <1>1, RecordFacts DEF Recovering
<1>3. k \in Keys /\ s \in Sources /\ v \in Versions
  BY <1>2, VaultNames DEF SourceOf, Numbered
<1>4. RetryNamed' /\ \A j \in JobIds : ExtractionStays(j)
  BY <1>1, RecordFacts DEF RetryNamed, ExtractionStays, HasExtraction
<1>5. ASSUME NEW stage \in {"submitted", "save"}, recovery' = [recovery EXCEPT !.stage = stage]
      PROVE  /\ recovery' \in Recovering /\ recovery'.todo = recovery.todo
             /\ recovery'.at = recovery.at
  BY <1>2, <1>5 DEF Recovering
<1>6. CASE recovery' = [recovery EXCEPT !.stage = "save"] /\ UNCHANGED <<queueVars, intakeOf>>
  <2>1. RecordsInv'
    BY <1>1, <1>2, <1>4, <1>5, <1>6, RecordFacts, UserRecords
  <2> QED
    BY <1>1, <1>6, <2>1, QuietUser
<1>7. CASE /\ Submit(k, s, v)
           /\ intakeOf' = [intakeOf EXCEPT ![submitted + 1] = c]
           /\ recovery' = [recovery EXCEPT !.stage = "submitted"]
  <2>1. QueueNext /\ held' = held
    BY <1>3, <1>7 DEF QueueNext, Submit
  <2>2. submitted + 1 \in JobIds /\ \A j \in JobIds : RowFollows(j)
    BY <1>3, <1>7, SubmitFollows
  <2>3. /\ intakeOf' \in [JobIds -> Captures \cup {NoValue}]
        /\ \A j \in JobIds : intakeOf'[j] # NoValue => Numbered(intakeOf'[j])
    BY <1>2, <1>7, <2>2, RecordFacts
  <2>4. RecordsInv'
    BY <1>1, <1>2, <1>4, <1>5, <1>7, <2>3, RecordFacts, UserRecords
  <2> QED
    BY <1>1, <1>4, <2>1, <2>2, <2>4, OthersKeep
<1> QED
  BY <1>6, <1>7 DEF RecoverSubmits

LEMMA RecoverKeeps ==
    ASSUME VaultInv, RecoverLists \/ RecoverNext \/ RecoverReadsBack \/ RecoverSaves
    PROVE  VaultInv' /\ [QueueNext]_queueVars
<1>0. /\ UNCHANGED <<queueVars, sources, extractions, blobs, intakeOf, client, work, retry, asks>>
      /\ RetryNamed'
  BY RecordFacts DEF RecoverLists, RecoverNext, RecoverReadsBack, RecoverSaves, RetryNamed
<1>1. CASE RecoverLists
  <2>1. /\ recovery' = [NoRecovery EXCEPT !.stage = "next",
                                          !.todo = {c \in Captures : intakes[c] \in Pending}]
        /\ intakes' = intakes
    BY <1>1 DEF RecoverLists
  <2>2. /\ recovery' \in Recovering /\ recovery'.at = NoValue /\ recovery'.stage = "next"
        /\ recovery'.todo = {c \in Captures : intakes[c] \in Pending}
    BY <2>1 DEF NoRecovery, Recovering
  <2>3. \A c \in recovery'.todo : Numbered(c)
    BY <2>2, RecordFacts DEF Pending
  <2> QED
    BY <1>0, <2>1, <2>2, <2>3, RecordFacts, UserRecords, QuietUser
<1>2. CASE RecoverNext
  <2>1. /\ intakes' = intakes
        /\ \/ recovery' = NoRecovery
           \/ \E c \in recovery.todo, none \in BOOLEAN :
                recovery' = [stage |-> IF none THEN "submit" ELSE "next",
                             todo |-> recovery.todo \ {c},
                             at |-> IF none THEN c ELSE NoValue]
    <3>1. \A c : (JobsOfIntake(c) = {}) \in BOOLEAN
      OBVIOUS
    <3> QED
      BY <1>2, <3>1 DEF RecoverNext
  <2>2. /\ recovery' \in Recovering
        /\ \A c \in recovery'.todo : Numbered(c)
        /\ recovery'.at # NoValue => Numbered(recovery'.at)
        /\ recovery'.stage \in {"submit", "submitted", "save"} => recovery'.at # NoValue
    BY <2>1, RecordFacts, NoneTypes DEF Recovering
  <2> QED
    BY <1>0, <2>1, <2>2, RecordFacts, UserRecords, QuietUser
<1>3. CASE RecoverReadsBack
  <2>1. /\ intakes' = intakes /\ recovery.stage = "submitted"
        /\ recovery' = NoRecovery \/ recovery' = [recovery EXCEPT !.stage = "save"]
    BY <1>3 DEF RecoverReadsBack
  <2>2. /\ recovery' \in Recovering
        /\ \A c \in recovery'.todo : Numbered(c)
        /\ recovery'.at # NoValue => Numbered(recovery'.at)
        /\ recovery'.stage \in {"submit", "submitted", "save"} => recovery'.at # NoValue
    BY <2>1, RecordFacts, NoneTypes DEF Recovering
  <2> QED
    BY <1>0, <2>1, <2>2, RecordFacts, UserRecords, QuietUser
<1>4. CASE RecoverSaves
  <2>1. /\ intakes' = [intakes EXCEPT ![recovery.at] = "queued"] /\ recovery.stage = "save"
        /\ recovery' = [recovery EXCEPT !.stage = "next", !.at = NoValue]
    BY <1>4 DEF RecoverSaves, SaveIntake
  <2>2. recovery' \in Recovering /\ recovery'.todo = recovery.todo /\ recovery'.at = NoValue
        /\ recovery'.stage = "next"
    BY <2>1, RecordFacts DEF Recovering
  <2>3. /\ intakes' \in [Captures -> Statuses]
        /\ \A c \in Captures : intakes'[c] # "absent" => Numbered(c)
    BY <2>1, RecordFacts DEF Statuses
  <2> QED
    BY <1>0, <2>1, <2>2, <2>3, RecordFacts, UserRecords, QuietUser
<1> QED
  BY <1>1, <1>2, <1>3, <1>4

-----------------------------------------------------------------------------
LEMMA VaultInitKeeps == VaultInit => VaultInv
<1> SUFFICES ASSUME VaultInit PROVE VaultInv
  OBVIOUS
<1>1. QueueInv /\ \A j \in JobIds : jobs[j].state = "absent"
  BY InitKeeps DEF VaultInit, QueueInit, AbsentJob
<1>2. RecordsInv
  BY NoneTypes, VaultNames
     DEF VaultInit, RecordsInv, RecordTypes, VersionsNumbered, RetryNamed, Capturing, Statuses
<1>3. \A w \in Workers : work[w].stage = "idle"
  BY NoneTypes DEF VaultInit
<1> QED
  BY <1>1, <1>2, <1>3 DEF VaultInv, RowsNamed, WorkNamed, WorkerInv, Unsettled,
                          CompletedHasExtraction, Present

LEMMA VaultNextKeeps == VaultInv /\ [VaultNext]_vars => VaultInv' /\ [QueueNext]_queueVars
<1> SUFFICES ASSUME VaultInv, [VaultNext]_vars PROVE VaultInv' /\ [QueueNext]_queueVars
  OBVIOUS
<1>1. ASSUME NEW c \in Captures, ClientNext(c) \/ ClientCrash(c)
      PROVE  VaultInv' /\ [QueueNext]_queueVars
  BY <1>1, ClientKeeps
<1>2. ASSUME NEW w \in Workers, WorkerNext(w) \/ WorkerCrashes(w)
      PROVE  VaultInv' /\ [QueueNext]_queueVars
  BY <1>2, ClaimsKeeps, ReadsBackKeeps, QuietWorkerKeeps, FinishesKeeps, FailureKeeps, CrashKeeps
     DEF WorkerNext
<1>3. ASSUME NEW w \in Workers, Heartbeat(w) \/ Restart(w), UNCHANGED vaultVars
      PROVE  VaultInv' /\ [QueueNext]_queueVars
  BY <1>3, TimeKeeps
<1>4. ASSUME NEW j \in JobIds, ComeDue(j) \/ Lapse(j), UNCHANGED vaultVars
      PROVE  VaultInv' /\ [QueueNext]_queueVars
  BY <1>4, TimeKeeps
<1>5. ASSUME NEW s \in Sources, CancelDocument(s) \/ DeleteDocument(s) \/ RetryDocument(s)
      PROVE  VaultInv' /\ [QueueNext]_queueVars
  BY <1>5, CancelDocumentKeeps, DeleteDocumentKeeps, RetryDocumentKeeps
<1>6. CASE UNCHANGED vars
  <2>1. UNCHANGED queueVars /\ UNCHANGED vaultVars
    BY <1>6 DEF vars, queueVars, vaultVars
  <2> QED
    BY <2>1, VaultRests, QuietUser
<1> QED
  BY <1>1, <1>2, <1>3, <1>4, <1>5, <1>6, RetryKeeps, RecoverStartsKeeps, RecoverSubmitsKeeps,
     RecoverKeeps DEF VaultNext

(* Whatever captures, workers, users and crashes do, in whatever order.    *)
THEOREM VaultInvariantHolds == VaultSpec => []VaultInv
BY VaultInitKeeps, VaultNextKeeps, PTL DEF VaultSpec

(* Every record, row and process keeps its type.                           *)
THEOREM VaultTypeCorrect == VaultSpec => []VaultTypeOK
<1>1. VaultInv => VaultTypeOK
  BY DEF VaultInv, QueueInv, RecordsInv, RecordTypes, VaultTypeOK
<1> QED
  BY <1>1, VaultInvariantHolds, PTL

(* The captures, workers and users of the vault use the job queue only as  *)
(* its own specification allows.                                           *)
THEOREM VaultImplementsQueue == VaultSpec => ImplementsQueue
<1>1. VaultInit => QueueInit
  BY DEF VaultInit
<1>2. VaultSpec => [][QueueNext]_queueVars
  BY VaultInvariantHolds, VaultNextKeeps, PTL DEF VaultSpec
<1> QED
  BY <1>1, <1>2, PTL DEF VaultSpec, QueueSpec, ImplementsQueue

(* A job that says it is done has its extraction in the vault.             *)
THEOREM DoneJobsHaveExtractions == VaultSpec => []CompletedHasExtraction
<1>1. VaultInv => CompletedHasExtraction
  BY DEF VaultInv
<1> QED
  BY <1>1, VaultInvariantHolds, PTL

(* What is proved of the queue alone holds in the vault: a key has one     *)
(* job, retries are bounded, and a worker that is superseded never settles *)
(* a job, nor changes one that is at rest.                                 *)
THEOREM QueueHoldsInVault ==
    VaultSpec => /\ [](OneJobPerKey /\ RetriesBounded /\ GenerationsAreExclusive)
                 /\ SupersededNeverSettles
                 /\ RestingJobsAreKept
BY VaultImplementsQueue, SubmitIdempotent, RetriesStop, LeasesAreExclusive,
   StaleWorkersAreFenced, RestIsKept, PTL DEF ImplementsQueue
=============================================================================
