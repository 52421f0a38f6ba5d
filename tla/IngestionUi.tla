----------------------------- MODULE IngestionUi -----------------------------
(***************************************************************************)
(* The workspace UI's part in the ingestion queue                          *)
(* (packages/workspace-ui/src/server/ingestion.ts).                        *)
(*                                                                         *)
(* The UI server opens the plugin's SQLite file and writes to its jobs     *)
(* table itself, beside the plugin's processes and without their methods:  *)
(* an upload replaces the jobs of its source, a retry takes the newest job *)
(* of a source in whatever state it is, a user cancels and deletes.  It    *)
(* never holds a lease and never looks at one.  This module is what these  *)
(* handlers do to the jobs.  What they do to records and originals, and    *)
(* the version an upload numbers by them, is left to chance here.  A       *)
(* handler runs without an await, so the server is in one at a time, while *)
(* the plugin's processes go on.                                           *)
(***************************************************************************)
EXTENDS IngestionQueue

CONSTANT UploadKey  \* the idempotency key upload_<source>_<version>

ASSUME UploadKeys == UploadKey \in [Sources \X Versions -> Keys]

VARIABLE ui  \* the retry that has read the newest job and not yet written

uiVars == <<jobs, submitted, held, upsets, ui>>

NoHandler == [stage |-> "idle", source |-> NoValue, version |-> NoValue, job |-> 0]

UiInit == QueueInit /\ ui = NoHandler

-----------------------------------------------------------------------------
(* The jobs an upload to an existing source removes.                       *)
Replaceable == ActiveStates \cup {"cancelled"}
Replaced(s) == {j \in JobIds : jobs[j].source = s /\ jobs[j].state \in Replaceable}

(* upload, its one transaction on the jobs.  With a key that a job has     *)
(* nothing is done: the transaction is rolled back.                        *)
Upload(s, v, existing) ==
    LET kept == IF existing THEN DeleteJobs(Replaced(s)) ELSE jobs
    IN  /\ ui = NoHandler
        /\ submitted < MaxJobs
        /\ \A j \in JobIds : kept[j].key # UploadKey[s, v]
        /\ submitted' = submitted + 1
        /\ jobs' = [kept EXCEPT ![submitted + 1] = NewJob(UploadKey[s, v], s, v)]
        /\ UNCHANGED <<held, upsets, ui>>

(* retrySource reads which job of the source is the newest ...             *)
IsNewestOf(j, s) ==
    /\ jobs[j].source = s
    /\ \A k \in JobIds : jobs[k].source = s => k <= j

RetryReads(s, v) ==
    /\ ui = NoHandler
    /\ upsets < MaxUpsets
    /\ upsets' = upsets + 1
    /\ \E j \in JobIds \cup {0} :
        /\ IF \E k \in JobIds : jobs[k].source = s
           THEN j \in JobIds /\ IsNewestOf(j, s)
           ELSE j = 0
        /\ ui' = [stage |-> "retry", source |-> s, version |-> v, job |-> j]
    /\ UNCHANGED <<jobs, submitted, held>>

(* ... and queues it, by its id alone.  Its lease columns and attempts     *)
(* stay; a job that has been deleted since stays deleted.                  *)
RetryUpdates ==
    /\ ui.stage = "retry"
    /\ ui.job \in JobIds
    /\ jobs' = IF Present(ui.job)
               THEN [jobs EXCEPT ![ui.job].state = "queued", ![ui.job].due = TRUE]
               ELSE jobs
    /\ ui' = NoHandler
    /\ UNCHANGED <<submitted, held, upsets>>

(* There was none: it inserts one, with a key of the source and the time.  *)
RetryInserts(k) ==
    /\ ui.stage = "retry"
    /\ ui.job = 0
    /\ submitted < MaxJobs
    /\ \A j \in JobIds : jobs[j].key # k
    /\ submitted' = submitted + 1
    /\ jobs' = [jobs EXCEPT ![submitted + 1] = NewJob(k, ui.source, ui.version)]
    /\ ui' = NoHandler
    /\ UNCHANGED <<held, upsets>>

(* The UI server is stopped in the middle of a retry.                      *)
UiRestarts ==
    /\ ui # NoHandler
    /\ ui' = NoHandler
    /\ UNCHANGED queueVars

(* cancelSource and deleteSource: the same statements as the plugin's.     *)
CancelSource(s) == ui = NoHandler /\ CancelProcessing(s) /\ UNCHANGED ui
DeleteSource(s) == ui = NoHandler /\ DeleteSourceJobs(s) /\ UNCHANGED ui

-----------------------------------------------------------------------------
UiStep ==
    \/ \E s \in Sources, v \in Versions, existing \in BOOLEAN : Upload(s, v, existing)
    \/ \E s \in Sources, v \in Versions : RetryReads(s, v)
    \/ RetryUpdates
    \/ \E k \in Keys : RetryInserts(k)
    \/ UiRestarts
    \/ \E s \in Sources : CancelSource(s) \/ DeleteSource(s)

UiNext == (QueueNext /\ UNCHANGED ui) \/ UiStep

UiSpec == UiInit /\ [][UiNext]_uiVars

-----------------------------------------------------------------------------
UiTypeOK ==
    ui \in [stage : {"idle", "retry"}, source : Sources \cup {NoValue},
            version : Versions \cup {NoValue}, job : JobIds \cup {0}]
=============================================================================
