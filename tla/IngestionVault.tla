---------------------------- MODULE IngestionVault ----------------------------
(***************************************************************************)
(* The ingestion vault and the processes that share it                     *)
(* (profile/plugins/openlia-ingestion: publication.py, adapters.py,        *)
(* runtime.py and server.py), composed with its job queue.                 *)
(*                                                                         *)
(* A capture stores an original, writes the source and intake records and  *)
(* submits a job; a worker that claims it loads the records, marks them    *)
(* processing, extracts and publishes; users cancel, retry and delete.     *)
(* Every record is read whole, changed in memory and written back whole,   *)
(* so that the last writer wins, and a step here is one transaction or one *)
(* file operation.  The embedded runtime gives its workers a               *)
(* _LeasePublisher, which asks before every publication whether the lease  *)
(* is still the worker's (Guarded); the sidecar server's workers write     *)
(* without asking.                                                         *)
(*                                                                         *)
(* Of a record only what the properties tell apart is kept: its processing *)
(* status, the versions it lists and which of them list an extraction.     *)
(* Titles, tags and the search index are left out, and so are YouTube      *)
(* sources, whose original is stored by the worker.  The original of a     *)
(* version stands for its directory of blobs; removing it is part of the   *)
(* deletion it follows.                                                    *)
(***************************************************************************)
EXTENDS IngestionQueue, FiniteSetsExt

CONSTANTS Captures,     \* capture requests; each has one intake
          Requests,     \* what each one asks for: key, source and purge_previous_versions
          RecoveryKeys, \* the idempotency key "recovery:" of each one's intake
          MaxAsks,      \* bound: how often users cancel, delete, retry and recover
          Guarded       \* the workers of runtime.py (TRUE) or of server.py

ASSUME VaultNames ==
    /\ Versions \subseteq Nat
    /\ Guarded \in BOOLEAN
    /\ MaxAsks \in Nat
    /\ Requests \in [Captures -> [key : Keys, source : Sources, purge : BOOLEAN]]
    /\ RecoveryKeys \in [Captures -> Keys]
    /\ \A c, d \in Captures : RecoveryKeys[c] # Requests[d].key
    /\ NoValue \notin Captures

VARIABLES
    sources,      \* the sources table: record_json
    intakes,      \* the intakes table: the status of each capture's intake
    extractions,  \* the extractions table: of which source and version
    blobs,        \* the content stored as each version's original
    intakeOf,     \* the intake_id column of the jobs
    client,       \* how far each capture is, and the records it works on
    work,         \* how far each worker is with its job, and its records
    retry,        \* how far retry_source_or_intake is
    recovery,     \* how far recover_vault is
    asks          \* how often users have cancelled, deleted, retried and recovered

vaultVars == <<sources, intakes, extractions, blobs, intakeOf, client, work, retry, recovery,
               asks>>
vars == <<jobs, submitted, held, upsets, sources, intakes, extractions, blobs,
          intakeOf, client, work, retry, recovery, asks>>

-----------------------------------------------------------------------------
Statuses == {"absent", "captured", "queued", "processing", "complete", "partial",
             "failed", "awaiting-unlock", "cancelled"}
SourceRecords == [status : Statuses, versions : SUBSET Versions, listed : SUBSET Versions]
NoSource == [status |-> "absent", versions |-> {}, listed |-> {}]

Exists(s) == sources[s].status # "absent"

(* _next_version_id: one more than the highest number, or the count.       *)
NextVersion(vs) == Max({0, Cardinality(vs)} \cup vs) + 1

(* Saving is an upsert of the whole record.                                *)
SaveSource(s, record) == sources' = [sources EXCEPT ![s] = record]
SaveIntake(c, status) == intakes' = [intakes EXCEPT ![c] = status]

Capturing == [stage : {"new", "read", "check", "store", "purge", "cancel", "save", "intake",
                       "submit", "submitted", "queueIntake", "queueSource", "done"},
              version : Versions \cup {NoValue},
              copy : SourceRecords]

Retrying == [stage : {"idle", "load", "save", "intake"},
             job : JobIds \cup {0},
             source : Sources \cup {NoValue},
             intake : Captures \cup {NoValue},
             copy : SourceRecords]

NoRetry == [stage |-> "idle", job |-> 0, source |-> NoValue, intake |-> NoValue,
            copy |-> NoSource]

(* recover_vault has listed the intakes in todo, and is at one of them.    *)
Recovering == [stage : {"idle", "list", "next", "submit", "submitted", "save"},
               todo : SUBSET Captures,
               at : Captures \cup {NoValue}]

NoRecovery == [stage |-> "idle", todo |-> {}, at |-> NoValue]

(* The stages of run_claimed_job.  The guarded ones are calls of the       *)
(* _LeasePublisher.                                                        *)
GuardedStages == {"markIntake", "markSource", "publish", "doneIntake", "doneSource"}
Stages == GuardedStages \cup
          {"idle", "load", "extract", "publishSource", "publishIntake", "reload", "finish",
           "fail", "block", "note", "noteIntake", "noteIntakeSave", "noteLoad", "noteSource"}
Working == [stage : Stages,
            armed : BOOLEAN,                      \* _check has passed
            job : JobIds \cup {0},
            source : Sources \cup {NoValue},
            version : Versions \cup {NoValue},
            intake : Captures \cup {NoValue},
            copy : SourceRecords,                 \* the source dict
            status : Statuses,                    \* what is written next
            retryable : BOOLEAN]

Idle == [stage |-> "idle", armed |-> FALSE, job |-> 0, source |-> NoValue,
         version |-> NoValue, intake |-> NoValue, copy |-> NoSource,
         status |-> "absent", retryable |-> FALSE]

VaultInit ==
    /\ QueueInit
    /\ sources = [s \in Sources |-> NoSource]
    /\ intakes = [c \in Captures |-> "absent"]
    /\ extractions = {}
    /\ blobs = [s \in Sources |-> [v \in Versions |-> NoValue]]
    /\ intakeOf = [j \in JobIds |-> NoValue]
    /\ client = [c \in Captures |-> [stage |-> "new", version |-> NoValue, copy |-> NoSource]]
    /\ work = [w \in Workers |-> Idle]
    /\ retry = NoRetry
    /\ recovery = NoRecovery
    /\ asks = 0

-----------------------------------------------------------------------------
(* Captures: capture_and_enqueue and VaultPublisher.capture.               *)
At(c, stage) == client[c].stage = stage
Advance(c, stage) ==
    client' = [client EXCEPT ![c].stage = stage,
                             ![c].copy = IF stage = "done" THEN NoSource ELSE @]
KeyOf(c) == Requests[c].key
SourceOf(c) == Requests[c].source
JobWithKey(k) == {j \in JobIds : jobs[j].key = k}

(* get_by_idempotency: a duplicate is answered with the job there is.      *)
ClientLookup(c) ==
    /\ At(c, "new")
    /\ Advance(c, IF JobWithKey(KeyOf(c)) # {} THEN "done" ELSE "read")
    /\ UNCHANGED <<queueVars, sources, intakes, extractions, blobs, intakeOf, work, retry, recovery, asks>>

(* The existing source is read and the version numbered after it.          *)
ClientRead(c) ==
    LET copy == sources[SourceOf(c)]
    IN  /\ At(c, "read")
        /\ NextVersion(copy.versions) \in Versions
        /\ client' = [client EXCEPT ![c] = [stage |-> "check", copy |-> copy,
                                            version |-> NextVersion(copy.versions)]]
        /\ UNCHANGED <<queueVars, sources, intakes, extractions, blobs, intakeOf, work, retry, recovery, asks>>

(* What follows the original: the versions it supersedes, or the record.   *)
AfterStore(c) ==
    IF client[c].copy.status = "absent" THEN "save"
    ELSE IF Requests[c].purge THEN "purge" ELSE "cancel"

(* _write_bytes with immutable: the target is looked at, and then replaced *)
(* if it was not there.  Another content there is a conflict.              *)
ClientCheck(c) ==
    LET there == blobs[SourceOf(c)][client[c].version]
    IN  /\ At(c, "check")
        /\ Advance(c, CASE there = NoValue   -> "store"
                        [] there = KeyOf(c)  -> AfterStore(c)
                        [] OTHER             -> "done")
        /\ UNCHANGED <<queueVars, sources, intakes, extractions, blobs, intakeOf, work, retry, recovery, asks>>

ClientStore(c) ==
    /\ At(c, "store")
    /\ blobs' = [blobs EXCEPT ![SourceOf(c)][client[c].version] = KeyOf(c)]
    /\ Advance(c, AfterStore(c))
    /\ UNCHANGED <<queueVars, sources, intakes, extractions, intakeOf, work, retry, recovery, asks>>

(* purge_previous_versions: one old version after the other is deleted.    *)
PurgeKeepsJobs(c) ==
    LET s == SourceOf(c)
        Old == client[c].copy.versions
    IN  /\ At(c, "purge")
        /\ \/ \E v \in Old :
                /\ extractions' = extractions \ {<<s, v>>}
                /\ blobs' = [blobs EXCEPT ![s][v] = NoValue]
                /\ client' = [client EXCEPT ![c].copy.versions = @ \ {v}]
           \/ /\ Old = {}
              /\ Advance(c, "save")
              /\ UNCHANGED <<extractions, blobs>>
        /\ UNCHANGED <<queueVars, sources, intakes, intakeOf, work, retry, recovery, asks>>
ClientPurge(c) ==
    LET s == SourceOf(c)
        Old == client[c].copy.versions
    IN  /\ At(c, "purge")
        /\ \/ \E v \in Old :
                /\ DeleteVersionJobs(s, v)
                /\ extractions' = extractions \ {<<s, v>>}
                /\ blobs' = [blobs EXCEPT ![s][v] = NoValue]
                /\ client' = [client EXCEPT ![c].copy.versions = @ \ {v}]
           \/ /\ Old = {}
              /\ Advance(c, "save")
              /\ UNCHANGED <<queueVars, extractions, blobs>>
        /\ UNCHANGED <<sources, intakes, intakeOf, work, retry, recovery, asks>>

(* Otherwise the jobs of the other versions are cancelled.                 *)
ClientCancel(c) ==
    /\ At(c, "cancel")
    /\ CancelSourceJobs(SourceOf(c), client[c].version)
    /\ Advance(c, "save")
    /\ UNCHANGED <<sources, intakes, extractions, blobs, intakeOf, work, retry, recovery, asks>>

(* The record: the new version is added to those that were read.           *)
ClientSave(c) ==
    LET v == client[c].version
        copy == client[c].copy
        record == [status |-> "captured", versions |-> copy.versions \cup {v},
                   listed |-> (copy.listed \cap copy.versions) \ {v}]
    IN  /\ At(c, "save")
        /\ SaveSource(SourceOf(c), record)
        /\ client' = [client EXCEPT ![c].stage = "intake", ![c].copy = record]
        /\ UNCHANGED <<queueVars, intakes, extractions, blobs, intakeOf, work, retry, recovery, asks>>

ClientIntake(c) ==
    /\ At(c, "intake")
    /\ SaveIntake(c, "captured")
    /\ Advance(c, "submit")
    /\ UNCHANGED <<queueVars, sources, extractions, blobs, intakeOf, work, retry, recovery, asks>>

(* submit: the job there is by now, or a new one, which is read back after *)
(* the commit.                                                             *)
ClientSubmit(c) ==
    /\ At(c, "submit")
    /\ IF JobWithKey(KeyOf(c)) # {}
       THEN Advance(c, "queueIntake") /\ UNCHANGED <<queueVars, intakeOf>>
       ELSE /\ Submit(KeyOf(c), SourceOf(c), client[c].version)
            /\ intakeOf' = [intakeOf EXCEPT ![submitted + 1] = c]
            /\ Advance(c, "submitted")
    /\ UNCHANGED <<sources, intakes, extractions, blobs, work, retry, recovery, asks>>

ClientReadBack(c) ==
    /\ At(c, "submitted")
    /\ Advance(c, IF JobWithKey(KeyOf(c)) # {} THEN "queueIntake" ELSE "done")
    /\ UNCHANGED <<queueVars, sources, intakes, extractions, blobs, intakeOf, work, retry, recovery, asks>>

(* Both records are saved once more, as they were before the submission.   *)
ClientQueueIntake(c) ==
    /\ At(c, "queueIntake")
    /\ SaveIntake(c, "queued")
    /\ Advance(c, "queueSource")
    /\ UNCHANGED <<queueVars, sources, extractions, blobs, intakeOf, work, retry, recovery, asks>>

ClientQueueSource(c) ==
    /\ At(c, "queueSource")
    /\ SaveSource(SourceOf(c), [client[c].copy EXCEPT !.status = "queued"])
    /\ Advance(c, "done")
    /\ UNCHANGED <<queueVars, intakes, extractions, blobs, intakeOf, work, retry, recovery, asks>>

ClientNext(c) ==
    \/ ClientLookup(c) \/ ClientRead(c) \/ ClientCheck(c) \/ ClientStore(c)
    \/ ClientPurge(c) \/ ClientCancel(c) \/ ClientSave(c) \/ ClientIntake(c)
    \/ ClientSubmit(c) \/ ClientReadBack(c) \/ ClientQueueIntake(c) \/ ClientQueueSource(c)

(* The process dies in the middle of a capture.                            *)
ClientCrash(c) ==
    /\ client[c].stage \notin {"new", "done"}
    /\ Advance(c, "done")
    /\ UNCHANGED <<queueVars, sources, intakes, extractions, blobs, intakeOf, work, retry, recovery, asks>>

-----------------------------------------------------------------------------
(* Workers: run_claimed_job, _run_single_job_inline and process_job.       *)
WorkerClaims(w) ==
    /\ work[w].stage = "idle"
    /\ Claim(w)
    /\ UNCHANGED vaultVars

WorkerReadsBack(w) ==
    LET j == held[w].job
    IN  /\ ReadBack(w)
        /\ work' = [work EXCEPT ![w] =
                IF Present(j)
                THEN [Idle EXCEPT !.stage = "load", !.job = j, !.intake = intakeOf[j],
                                  !.source = jobs[j].source, !.version = jobs[j].version]
                ELSE Idle]
        /\ UNCHANGED <<sources, intakes, extractions, blobs, intakeOf, client, retry, recovery, asks>>

(* _LeasePublisher._check, before a guarded call.  A lease that was lost   *)
(* is a PublicationError, and that fails the job, to be retried.           *)
WorkerChecks(w) ==
    /\ Guarded
    /\ work[w].stage \in GuardedStages
    /\ ~work[w].armed
    /\ work' = [work EXCEPT ![w] =
            IF Owns(w) THEN [@ EXCEPT !.armed = TRUE]
            ELSE [@ EXCEPT !.stage = "fail", !.status = "failed", !.retryable = TRUE,
                           !.copy = NoSource]]
    /\ UNCHANGED <<queueVars, sources, intakes, extractions, blobs, intakeOf, client, retry, recovery, asks>>

(* Worker w may take the step it is at, and goes on to the next.           *)
Reached(w, stage) ==
    /\ work[w].stage = stage
    /\ Guarded /\ stage \in GuardedStages => work[w].armed
Goes(w, stage) ==
    work' = [work EXCEPT ![w].stage = stage, ![w].armed = FALSE,
                         ![w].copy = IF stage \in {"reload", "finish"} THEN NoSource ELSE @]
Fails(w, why, retryable) ==
    work' = [work EXCEPT ![w].stage = why, ![w].armed = FALSE, ![w].retryable = retryable,
                         ![w].copy = NoSource,
                         ![w].status = IF why = "block" THEN "awaiting-unlock" ELSE "failed"]

(* load_source and load_intake: a record that is gone fails the job.       *)
WorkerLoads(w) ==
    LET s == work[w].source
    IN  /\ Reached(w, "load")
        /\ IF Exists(s) /\ intakes[work[w].intake] # "absent"
           THEN work' = [work EXCEPT ![w].stage = "markIntake", ![w].copy = sources[s]]
           ELSE Fails(w, "fail", TRUE)
        /\ UNCHANGED <<queueVars, sources, intakes, extractions, blobs, intakeOf, client, retry, recovery, asks>>

WorkerMarksIntake(w) ==
    /\ Reached(w, "markIntake")
    /\ SaveIntake(work[w].intake, "processing")
    /\ Goes(w, "markSource")
    /\ UNCHANGED <<queueVars, sources, extractions, blobs, intakeOf, client, retry, recovery, asks>>

WorkerMarksSource(w) ==
    /\ Reached(w, "markSource")
    /\ SaveSource(work[w].source, [work[w].copy EXCEPT !.status = "processing"])
    /\ Goes(w, "extract")
    /\ UNCHANGED <<queueVars, intakes, extractions, blobs, intakeOf, client, retry, recovery, asks>>

(* The adapter: the version must be in the record and its original stored; *)
(* then it fails, needs a password, or has something to publish.           *)
WorkerExtracts(w) ==
    LET s == work[w].source
        v == work[w].version
    IN  /\ Reached(w, "extract")
        /\ IF v \notin work[w].copy.versions \/ blobs[s][v] = NoValue
           THEN Fails(w, "fail", FALSE)
           ELSE \/ \E retryable \in BOOLEAN : Fails(w, "fail", retryable)
                \/ Fails(w, "block", FALSE)
                \/ \E outcome \in {"complete", "partial"} :
                    work' = [work EXCEPT ![w].stage = "publish", ![w].status = outcome]
        /\ UNCHANGED <<queueVars, sources, intakes, extractions, blobs, intakeOf, client, retry, recovery, asks>>

(* publish_extraction: the extraction, the source and the intake are saved *)
(* one after the other, under one check.                                   *)
PublishNothing(w) ==
    /\ Reached(w, "publish")
    /\ Goes(w, "publishSource")
    /\ UNCHANGED <<queueVars, sources, intakes, extractions, blobs, intakeOf, client, retry, recovery, asks>>
WorkerPublishes(w) ==
    /\ Reached(w, "publish")
    /\ extractions' = extractions \cup {<<work[w].source, work[w].version>>}
    /\ Goes(w, "publishSource")
    /\ UNCHANGED <<queueVars, sources, intakes, blobs, intakeOf, client, retry, recovery, asks>>

WorkerPublishesSource(w) ==
    /\ Reached(w, "publishSource")
    /\ SaveSource(work[w].source, [work[w].copy EXCEPT !.status = work[w].status,
                                                       !.listed = @ \cup {work[w].version}])
    /\ Goes(w, "publishIntake")
    /\ UNCHANGED <<queueVars, intakes, extractions, blobs, intakeOf, client, retry, recovery, asks>>

WorkerPublishesIntake(w) ==
    /\ Reached(w, "publishIntake")
    /\ SaveIntake(work[w].intake, "processing")
    /\ Goes(w, "doneIntake")
    /\ UNCHANGED <<queueVars, sources, extractions, blobs, intakeOf, client, retry, recovery, asks>>

(* The intake is done, and the source too once it has been read again for  *)
(* its metadata.                                                           *)
WorkerEndsIntake(w) ==
    /\ Reached(w, "doneIntake")
    /\ SaveIntake(work[w].intake, work[w].status)
    /\ Goes(w, "reload")
    /\ UNCHANGED <<queueVars, sources, extractions, blobs, intakeOf, client, retry, recovery, asks>>

WorkerReloads(w) ==
    /\ Reached(w, "reload")
    /\ IF Exists(work[w].source)
       THEN work' = [work EXCEPT ![w].stage = "doneSource", ![w].copy = sources[work[w].source]]
       ELSE Fails(w, "fail", TRUE)
    /\ UNCHANGED <<queueVars, sources, intakes, extractions, blobs, intakeOf, client, retry, recovery, asks>>

WorkerEndsSource(w) ==
    /\ Reached(w, "doneSource")
    /\ SaveSource(work[w].source, [work[w].copy EXCEPT !.status = work[w].status])
    /\ Goes(w, "finish")
    /\ UNCHANGED <<queueVars, intakes, extractions, blobs, intakeOf, client, retry, recovery, asks>>

FinishesUnfenced(w) ==
    /\ Reached(w, "finish")
    /\ jobs' = [jobs EXCEPT ![work[w].job].state = "completed"]
    /\ held' = [held EXCEPT ![w] = NoDict("free")]
    /\ work' = [work EXCEPT ![w] = Idle]
    /\ UNCHANGED <<submitted, upsets, sources, intakes, extractions, blobs, intakeOf, client,
                   retry, recovery, asks>>
WorkerFinishes(w) ==
    /\ Reached(w, "finish")
    /\ Finish(w, IF work[w].status = "complete" THEN "completed" ELSE "partial")
    /\ work' = [work EXCEPT ![w] = Idle]
    /\ UNCHANGED <<sources, intakes, extractions, blobs, intakeOf, client, retry, recovery, asks>>

FailsUnreported(w) ==
    /\ Reached(w, "fail") \/ Reached(w, "block")
    /\ Goes(w, "note")
    /\ UNCHANGED <<queueVars, sources, intakes, extractions, blobs, intakeOf, client, retry,
                   recovery, asks>>
WorkerFails(w) ==
    /\ \/ Reached(w, "fail") /\ Fail(w, work[w].retryable)
       \/ Reached(w, "block") /\ BlockForPassword(w)
    /\ Goes(w, "note")
    /\ UNCHANGED <<sources, intakes, extractions, blobs, intakeOf, client, retry, recovery, asks>>

(* update_failure, through the plain publisher in both runtimes: nothing   *)
(* if the job is gone or cancelled, else the failure, or that it will be   *)
(* retried, is noted in the intake and the source that are there.          *)
NotesTheJobState(w) ==
    LET state == jobs[work[w].job].state
    IN  /\ Reached(w, "note")
        /\ work' = [work EXCEPT ![w] =
                IF state \in {"absent", "cancelled"} THEN Idle
                ELSE [@ EXCEPT !.stage = "noteIntake", !.status = state]]
        /\ UNCHANGED <<queueVars, sources, intakes, extractions, blobs, intakeOf, client, retry,
                       recovery, asks>>
WorkerNotes(w) ==
    LET state == jobs[work[w].job].state
    IN  /\ Reached(w, "note")
        /\ work' = [work EXCEPT ![w] =
                IF state \in {"absent", "cancelled"} THEN Idle
                ELSE [@ EXCEPT !.stage = "noteIntake",
                               !.status = IF state = "retryable-failure" THEN "processing"
                                          ELSE work[w].status]]
        /\ UNCHANGED <<queueVars, sources, intakes, extractions, blobs, intakeOf, client, retry, recovery, asks>>

WorkerLoadsIntake(w) ==
    /\ Reached(w, "noteIntake")
    /\ Goes(w, IF intakes[work[w].intake] = "absent" THEN "noteLoad" ELSE "noteIntakeSave")
    /\ UNCHANGED <<queueVars, sources, intakes, extractions, blobs, intakeOf, client, retry, recovery, asks>>

WorkerNotesIntake(w) ==
    /\ Reached(w, "noteIntakeSave")
    /\ SaveIntake(work[w].intake, work[w].status)
    /\ Goes(w, "noteLoad")
    /\ UNCHANGED <<queueVars, sources, extractions, blobs, intakeOf, client, retry, recovery, asks>>

WorkerLoadsSource(w) ==
    /\ Reached(w, "noteLoad")
    /\ work' = [work EXCEPT ![w] =
            IF Exists(work[w].source)
            THEN [@ EXCEPT !.stage = "noteSource", !.copy = sources[work[w].source]]
            ELSE Idle]
    /\ UNCHANGED <<queueVars, sources, intakes, extractions, blobs, intakeOf, client, retry, recovery, asks>>

WorkerNotesSource(w) ==
    /\ Reached(w, "noteSource")
    /\ SaveSource(work[w].source, [work[w].copy EXCEPT !.status = work[w].status])
    /\ work' = [work EXCEPT ![w] = Idle]
    /\ UNCHANGED <<queueVars, intakes, extractions, blobs, intakeOf, client, retry, recovery, asks>>

WorkerCrashes(w) ==
    /\ Crash(w)
    /\ work' = [work EXCEPT ![w] = Idle]
    /\ UNCHANGED <<sources, intakes, extractions, blobs, intakeOf, client, retry, recovery, asks>>

WorkerNext(w) ==
    \/ WorkerClaims(w) \/ WorkerReadsBack(w) \/ WorkerChecks(w) \/ WorkerLoads(w)
    \/ WorkerMarksIntake(w) \/ WorkerMarksSource(w) \/ WorkerExtracts(w)
    \/ WorkerPublishes(w) \/ WorkerPublishesSource(w) \/ WorkerPublishesIntake(w)
    \/ WorkerEndsIntake(w) \/ WorkerReloads(w) \/ WorkerEndsSource(w)
    \/ WorkerFinishes(w) \/ WorkerFails(w) \/ WorkerNotes(w) \/ WorkerLoadsIntake(w)
    \/ WorkerNotesIntake(w) \/ WorkerLoadsSource(w) \/ WorkerNotesSource(w)

-----------------------------------------------------------------------------
(* Users.  cancel_processing and delete_source_cascade are one transaction *)
(* over all the tables.                                                    *)
Ask == asks < MaxAsks /\ asks' = asks + 1

IntakesOf(s) == {c \in Captures : SourceOf(c) = s /\ intakes[c] # "absent"}
SetIntakes(C, status) ==
    intakes' = [c \in Captures |-> IF c \in C THEN status ELSE intakes[c]]

CancelDocument(s) ==
    /\ Ask
    /\ Exists(s)
    /\ CancelProcessing(s)
    /\ sources' = [sources EXCEPT ![s].status = "cancelled"]
    /\ SetIntakes(IntakesOf(s), "cancelled")
    /\ UNCHANGED <<extractions, blobs, intakeOf, client, work, retry, recovery>>

DeleteKeepsJobs(s) ==
    /\ Ask
    /\ Exists(s)
    /\ sources' = [sources EXCEPT ![s] = NoSource]
    /\ SetIntakes(IntakesOf(s), "absent")
    /\ extractions' = {x \in extractions : x[1] # s}
    /\ blobs' = [blobs EXCEPT ![s] = [v \in Versions |-> NoValue]]
    /\ UNCHANGED <<queueVars, intakeOf, client, work, retry, recovery>>
DeleteDocument(s) ==
    /\ Ask
    /\ Exists(s)
    /\ DeleteSourceJobs(s)
    /\ sources' = [sources EXCEPT ![s] = NoSource]
    /\ SetIntakes(IntakesOf(s), "absent")
    /\ extractions' = {x \in extractions : x[1] # s}
    /\ blobs' = [blobs EXCEPT ![s] = [v \in Versions |-> NoValue]]
    /\ UNCHANGED <<intakeOf, client, work, retry, recovery>>

(* The newest job of a source is queued again.  The embedded runtime stops *)
(* there; the sidecar then writes to the source and to the intake.         *)
IsNewest(j, S) == j \in S /\ \A k \in S : k <= j
JobsOf(s) == {j \in JobIds : jobs[j].source = s}

RetryDocument(s) ==
    /\ Ask
    /\ retry.stage = "idle"
    /\ \E j \in JobIds :
        /\ IsNewest(j, JobsOf(s))
        /\ \/ Requeue(j)
           \/ jobs[j].state \in {"queued", "running"} /\ UNCHANGED queueVars
        /\ retry' = IF Guarded THEN retry
                    ELSE [stage |-> "load", job |-> j, source |-> s, intake |-> intakeOf[j],
                          copy |-> NoSource]
    /\ UNCHANGED <<sources, intakes, extractions, blobs, intakeOf, client, work, recovery>>

RetryLoads ==
    /\ retry.stage = "load"
    /\ retry' = IF Exists(retry.source)
                THEN [retry EXCEPT !.stage = "save", !.copy = sources[retry.source]]
                ELSE [retry EXCEPT !.stage = "intake"]
    /\ UNCHANGED <<queueVars, sources, intakes, extractions, blobs, intakeOf, client, work, recovery, asks>>

RetrySaves ==
    /\ retry.stage = "save"
    /\ SaveSource(retry.source, [retry.copy EXCEPT !.status = "queued"])
    /\ retry' = [retry EXCEPT !.stage = "intake", !.copy = NoSource]
    /\ UNCHANGED <<queueVars, intakes, extractions, blobs, intakeOf, client, work, recovery, asks>>

RetryEndsIntake ==
    /\ retry.stage = "intake"
    /\ intakes' = IF intakes[retry.intake] = "absent" THEN intakes
                  ELSE [intakes EXCEPT ![retry.intake] = "queued"]
    /\ retry' = NoRetry
    /\ UNCHANGED <<queueVars, sources, extractions, blobs, intakeOf, client, work, recovery, asks>>

-----------------------------------------------------------------------------
(* recover_vault: the leases that passed are reclaimed, the intakes are    *)
(* listed, and one after the other that is pending and has no job gets     *)
(* one, and is saved as it was listed.                                     *)
Pending == {"captured", "queued", "processing", "partial"}
JobsOfIntake(c) == {j \in JobIds : Present(j) /\ intakeOf[j] = c}

RecoverStarts ==
    /\ Ask
    /\ recovery.stage = "idle"
    /\ Recover
    /\ recovery' = [NoRecovery EXCEPT !.stage = "list"]
    /\ UNCHANGED <<sources, intakes, extractions, blobs, intakeOf, client, work, retry>>

RecoverLists ==
    /\ recovery.stage = "list"
    /\ recovery' = [NoRecovery EXCEPT !.stage = "next",
                                      !.todo = {c \in Captures : intakes[c] \in Pending}]
    /\ UNCHANGED <<queueVars, sources, intakes, extractions, blobs, intakeOf, client, work, retry, asks>>

RecoverNext ==
    /\ recovery.stage = "next"
    /\ \/ recovery.todo = {} /\ recovery' = NoRecovery
       \/ \E c \in recovery.todo :
            recovery' = [stage |-> IF JobsOfIntake(c) = {} THEN "submit" ELSE "next",
                         todo |-> recovery.todo \ {c},
                         at |-> IF JobsOfIntake(c) = {} THEN c ELSE NoValue]
    /\ UNCHANGED <<queueVars, sources, intakes, extractions, blobs, intakeOf, client, work, retry, asks>>

RecoverSubmits ==
    LET c == recovery.at
    IN  /\ recovery.stage = "submit"
        /\ IF JobWithKey(RecoveryKeys[c]) # {}
           THEN recovery' = [recovery EXCEPT !.stage = "save"] /\ UNCHANGED <<queueVars, intakeOf>>
           ELSE /\ Submit(RecoveryKeys[c], SourceOf(c), client[c].version)
                /\ intakeOf' = [intakeOf EXCEPT ![submitted + 1] = c]
                /\ recovery' = [recovery EXCEPT !.stage = "submitted"]
        /\ UNCHANGED <<sources, intakes, extractions, blobs, client, work, retry, asks>>

RecoverReadsBack ==
    /\ recovery.stage = "submitted"
    /\ recovery' = IF JobWithKey(RecoveryKeys[recovery.at]) # {}
                   THEN [recovery EXCEPT !.stage = "save"] ELSE NoRecovery
    /\ UNCHANGED <<queueVars, sources, intakes, extractions, blobs, intakeOf, client, work, retry, asks>>

RecoverSaves ==
    /\ recovery.stage = "save"
    /\ SaveIntake(recovery.at, "queued")
    /\ recovery' = [recovery EXCEPT !.stage = "next", !.at = NoValue]
    /\ UNCHANGED <<queueVars, sources, extractions, blobs, intakeOf, client, work, retry, asks>>

-----------------------------------------------------------------------------
VaultNext ==
    \/ \E c \in Captures : ClientNext(c) \/ ClientCrash(c)
    \/ \E w \in Workers : WorkerNext(w) \/ WorkerCrashes(w)
    \/ \E w \in Workers : (Heartbeat(w) \/ Restart(w)) /\ UNCHANGED vaultVars
    \/ \E j \in JobIds : (ComeDue(j) \/ Lapse(j)) /\ UNCHANGED vaultVars
    \/ \E s \in Sources : CancelDocument(s) \/ DeleteDocument(s) \/ RetryDocument(s)
    \/ RetryLoads \/ RetrySaves \/ RetryEndsIntake
    \/ RecoverStarts \/ RecoverLists \/ RecoverNext \/ RecoverSubmits
    \/ RecoverReadsBack \/ RecoverSaves

VaultSpec == VaultInit /\ [][VaultNext]_vars

(* A worker thread keeps going, time passes, and the supervisor starts a   *)
(* process that died.  Nothing is assumed of captures and users.           *)
FairVaultSpec ==
    /\ VaultSpec
    /\ \A w \in Workers :
        /\ WF_vars(WorkerNext(w))
        /\ WF_vars(Restart(w) /\ UNCHANGED vaultVars)
    /\ \A j \in JobIds :
        /\ WF_vars(ComeDue(j) /\ UNCHANGED vaultVars)
        /\ WF_vars(Lapse(j) /\ UNCHANGED vaultVars)

-----------------------------------------------------------------------------
VaultTypeOK ==
    /\ QueueTypeOK
    /\ sources \in [Sources -> SourceRecords]
    /\ intakes \in [Captures -> Statuses]
    /\ extractions \subseteq Sources \X Versions
    /\ blobs \in [Sources -> [Versions -> Keys \cup {NoValue}]]
    /\ intakeOf \in [JobIds -> Captures \cup {NoValue}]
    /\ client \in [Captures -> Capturing]
    /\ work \in [Workers -> Working]
    /\ retry \in Retrying
    /\ recovery \in Recovering
    /\ asks \in 0..MaxAsks

(* The processes of the vault use the queue only as its own specification  *)
(* allows, so that what is proved of the queue holds in the vault.         *)
ImplementsQueue == QueueSpec

(* A job that says it is done has its extraction in the vault, whatever    *)
(* was superseded, purged, deleted, cancelled or retried meanwhile and     *)
(* whichever worker, late or not, finished it.                             *)
CompletedHasExtraction ==
    \A j \in JobIds : jobs[j].state \in {"completed", "partial"} =>
        <<jobs[j].source, jobs[j].version>> \in extractions

(* "Atomically delete a source and all its jobs, FTS rows, extractions,    *)
(* versions, and intakes": no worker brings a deleted source back.         *)
DeletedStaysDeleted ==
    [][\A s \in Sources :
        sources[s].status = "absent" /\ sources'[s].status # "absent" => work' = work]_vars

(* "Durable multi-format ingestion retains your sources": a version leaves *)
(* the record of its source only when the source is deleted or a capture   *)
(* purges it.                                                              *)
VersionsAreRetained ==
    [][\A s \in Sources :
        \/ sources[s].versions \subseteq sources'[s].versions
        \/ sources'[s] = NoSource
        \/ \E c \in Captures : Requests[c].purge /\ SourceOf(c) = s]_vars
=============================================================================
