--------------------------- MODULE IngestionUiProofs ---------------------------
(***************************************************************************)
(* The UI server's statements keep what IngestionQueueProofs proves of the *)
(* plugin's queue.  Cancelling and deleting are steps of that queue; a      *)
(* retry touches one row; an upload deletes rows and inserts one, which is *)
(* the only step that needs a proof of its own.                            *)
(***************************************************************************)
EXTENDS IngestionUi, IngestionQueueProofs

(* A table some of whose rows were deleted, and a new row of a free key.   *)
LEMMA InsertKeeps ==
    ASSUME QueueInv, NEW kept, RowsInv(kept),
           \A j \in JobIds : kept[j] = jobs[j] \/ kept[j] = AbsentJob,
           NEW k \in Keys, NEW s \in Sources \cup {NoValue},
           NEW v \in Versions \cup {NoValue},
           submitted < MaxJobs, \A j \in JobIds : kept[j].key # k,
           submitted' = submitted + 1, held' = held, upsets' = upsets,
           jobs' = [kept EXCEPT ![submitted + 1] = NewJob(k, s, v)]
    PROVE  QueueInv'
<1> DEFINE n == NewJob(k, s, v)
<1>0. /\ MaxJobs \in Nat /\ submitted \in 0..MaxJobs /\ JobIds = 1..MaxJobs
      /\ kept \in [JobIds -> JobRows] /\ held \in [Workers -> Dicts]
      /\ AbsentJob.state = "absent"
  BY QueueBounds DEF QueueInv, QueueTypeOK, JobIds, RowsInv, AbsentJob
<1>1. PICK t \in JobIds : t = submitted + 1
  BY <1>0
<1>2. n \in JobRows /\ n.state = "queued" /\ n.key = k
  BY DEF NewJob, AbsentJob, JobRows, JobStates, ActiveStates
<1>3. jobs' = [kept EXCEPT ![t] = n]
  BY <1>1
<1> HIDE DEF n
<1>4. jobs'[t] = n /\ \A j \in JobIds : j # t => jobs'[j] = kept[j]
  BY <1>0, <1>1, <1>3
<1>5. QueueTypeOK'
  BY <1>0, <1>1, <1>2, <1>3 DEF QueueInv, QueueTypeOK
<1>6. \A j \in JobIds : RowInv(jobs'[j])
  BY <1>2, <1>4 DEF RowsInv, RowInv
<1>7. \A j \in JobIds : j > submitted' => jobs'[j].state = "absent"
  BY <1>0, <1>1, <1>4 DEF QueueInv
<1>8. OneJobPerKey'
  <2>1. \A i, j \in JobIds :
            kept[i].state # "absent" /\ kept[j].state # "absent" /\ kept[i].key = kept[j].key
            => i = j
    BY <1>0 DEF QueueInv, OneJobPerKey, Present
  <2> QED
    BY <1>2, <1>4, <2>1 DEF OneJobPerKey, Present
<1>9. GenerationsAreExclusive'
  BY DEF QueueInv, GenerationsAreExclusive, HonestHolder
<1>10. \A w \in Workers : held'[w].phase \in {"claimed", "working"} =>
            held'[w].job \in 1..submitted' /\ held'[w].job # t /\ held'[w].job \in JobIds
  BY <1>0, <1>1 DEF QueueInv
<1>11. \A w \in Workers : held'[w].phase = "working" =>
            DictInv(w, held'[w], jobs'[held'[w].job])
  BY <1>0, <1>4, <1>10 DEF QueueInv, DictInv
<1> QED
  BY <1>5, <1>6, <1>7, <1>8, <1>9, <1>10, <1>11 DEF QueueInv

LEMMA UploadKeeps ==
    ASSUME QueueInv, NEW s \in Sources, NEW v \in Versions, NEW existing \in BOOLEAN,
           Upload(s, v, existing)
    PROVE  QueueInv'
<1> DEFINE kept == IF existing THEN DeleteJobs(Replaced(s)) ELSE jobs
<1>1. RowsInv(jobs)
  BY DEF QueueInv, QueueTypeOK, RowsInv
<1>2. RowsInv(kept) /\ \A j \in JobIds : kept[j] = jobs[j] \/ kept[j] = AbsentJob
  BY <1>1, AbsentJobType DEF DeleteJobs, RowsInv
<1>3. UploadKey[s, v] \in Keys
  BY UploadKeys
<1>4. /\ submitted < MaxJobs /\ submitted' = submitted + 1
      /\ held' = held /\ upsets' = upsets
      /\ \A j \in JobIds : kept[j].key # UploadKey[s, v]
      /\ jobs' = [kept EXCEPT ![submitted + 1] = NewJob(UploadKey[s, v], s, v)]
  BY DEF Upload
<1> HIDE DEF kept
<1> QED
  BY <1>2, <1>3, <1>4, InsertKeeps

(* The second half of a retry, on a row in any state.                      *)
LEMMA RetryUpdatesKeeps ==
    ASSUME QueueInv, RetryUpdates
    PROVE  QueueInv'
<1> DEFINE j == ui.job
<1>0. /\ jobs \in [JobIds -> JobRows] /\ RowsInv(jobs) /\ j \in JobIds
      /\ held \in [Workers -> Dicts] /\ upsets \in 0..MaxUpsets
      /\ submitted' = submitted /\ held' = held /\ upsets' = upsets
  BY DEF QueueInv, QueueTypeOK, RowsInv, RetryUpdates
<1>1. CASE Present(j)
  <2> DEFINE q == [jobs[j] EXCEPT !.state = "queued", !.lapsed = jobs[j].lapsed, !.due = TRUE]
  <2>1. jobs[j] \in JobRows /\ RowInv(jobs[j]) /\ jobs[j].state # "absent"
        /\ jobs[j].lapsed \in BOOLEAN
    BY <1>0, <1>1 DEF Present, RowsInv, JobRows
  <2>2. q \in JobRows /\ RowInv(q) /\ Evolves(jobs[j], q)
    BY <2>1, RowTouched
  <2>3. jobs' = [jobs EXCEPT ![j] = q]
    BY <1>0, <1>1, <2>1 DEF RetryUpdates, JobRows
  <2> HIDE DEF q, j
  <2>4. RowsInv(jobs') /\ \A i \in JobIds : Evolves(jobs[i], jobs'[i])
    BY <1>0, <2>2, <2>3 DEF RowsInv, Evolves
  <2> QED
    BY <1>0, <2>4, TableStep
<1>2. CASE ~Present(j)
  <2>1. jobs' = jobs
    BY <1>2 DEF RetryUpdates
  <2> QED
    BY <1>0, <2>1 DEF QueueInv, QueueTypeOK, OneJobPerKey, Present, GenerationsAreExclusive,
                      HonestHolder
<1> QED
  BY <1>1, <1>2

LEMMA RetryInsertsKeeps ==
    ASSUME QueueInv, UiTypeOK, NEW k \in Keys, RetryInserts(k)
    PROVE  QueueInv'
<1>1. RowsInv(jobs) /\ ui.source \in Sources \cup {NoValue}
      /\ ui.version \in Versions \cup {NoValue}
  BY DEF QueueInv, QueueTypeOK, RowsInv, UiTypeOK
<1>2. /\ submitted < MaxJobs /\ submitted' = submitted + 1
      /\ held' = held /\ upsets' = upsets
      /\ \A j \in JobIds : jobs[j].key # k
      /\ jobs' = [jobs EXCEPT ![submitted + 1] = NewJob(k, ui.source, ui.version)]
  BY DEF RetryInserts
<1> QED
  BY <1>1, <1>2, InsertKeeps

-----------------------------------------------------------------------------
UiInv == QueueInv /\ UiTypeOK

LEMMA UiInitKeeps == UiInit => UiInv
BY InitKeeps DEF UiInit, UiInv, UiTypeOK, NoHandler

(* The server's own variable: a retry carries a source, a version and the  *)
(* job it has read.                                                        *)
LEMMA UiTypeKept == UiInv /\ [UiNext]_uiVars => UiTypeOK'
<1> SUFFICES ASSUME UiInv, [UiNext]_uiVars PROVE UiTypeOK'
  OBVIOUS
<1>1. ASSUME NEW s \in Sources, NEW v \in Versions, RetryReads(s, v) PROVE UiTypeOK'
  BY <1>1 DEF RetryReads, UiTypeOK
<1>2. CASE ui' = NoHandler
  BY <1>2 DEF NoHandler, UiTypeOK
<1>3. CASE ui' = ui
  BY <1>3 DEF UiInv, UiTypeOK
<1> QED
  BY <1>1, <1>2, <1>3 DEF UiNext, UiStep, uiVars, Upload, RetryUpdates, RetryInserts,
                          UiRestarts, CancelSource, DeleteSource

LEMMA UiNextKeeps == UiInv /\ [UiNext]_uiVars => UiInv'
<1> SUFFICES ASSUME UiInv, [UiNext]_uiVars PROVE QueueInv'
  BY UiTypeKept DEF UiInv
<1>1. CASE QueueNext
  BY <1>1, NextKeeps DEF UiInv
<1>2. ASSUME NEW s \in Sources, NEW v \in Versions, NEW existing \in BOOLEAN,
             Upload(s, v, existing)
      PROVE  QueueInv'
  BY <1>2, UploadKeeps DEF UiInv
<1>3. ASSUME NEW s \in Sources, NEW v \in Versions, RetryReads(s, v) PROVE QueueInv'
  <2>1. MaxUpsets \in Nat /\ upsets \in 0..MaxUpsets /\ upsets' = upsets + 1
        /\ upsets < MaxUpsets /\ UNCHANGED <<jobs, submitted, held>>
    BY <1>3, QueueBounds DEF UiInv, QueueInv, QueueTypeOK, RetryReads
  <2>2. upsets' \in 0..MaxUpsets
    BY <2>1
  <2> QED
    BY <2>1, <2>2 DEF UiInv, QueueInv, QueueTypeOK, OneJobPerKey, Present,
                      GenerationsAreExclusive, HonestHolder
<1>4. CASE RetryUpdates
  BY <1>4, RetryUpdatesKeeps DEF UiInv
<1>5. ASSUME NEW k \in Keys, RetryInserts(k) PROVE QueueInv'
  BY <1>5, RetryInsertsKeeps DEF UiInv
<1>6. ASSUME NEW s \in Sources, CancelSource(s) \/ DeleteSource(s) PROVE QueueInv'
  BY <1>6, TableOnlyKeeps DEF UiInv, TableOnly, CancelSource, DeleteSource
<1>7. CASE UNCHANGED queueVars
  BY <1>7, NextKeeps DEF UiInv
<1> QED
  BY <1>1, <1>2, <1>3, <1>4, <1>5, <1>6, <1>7 DEF UiNext, UiStep, UiRestarts, uiVars, queueVars

(* The queue's invariant holds whatever the UI server writes beside the    *)
(* plugin: a retry of a running job too leaves the leases in order.        *)
THEOREM UiKeepsTheQueue == UiSpec => [](QueueInv /\ UiTypeOK)
BY UiInitKeeps, UiNextKeeps, PTL DEF UiSpec, UiInv

-----------------------------------------------------------------------------
(* A handler of the UI server is no step of a worker.                      *)
LEMMA UiLeavesDicts == UiStep => held' = held
BY DEF UiStep, Upload, RetryReads, RetryUpdates, RetryInserts, UiRestarts, CancelSource,
       DeleteSource, CancelProcessing, DeleteSourceJobs, queueVars

LEMMA UiStaleStep == QueueInv /\ [UiNext]_uiVars => [StaleStepsAreVoid]_queueVars
<1> SUFFICES ASSUME QueueInv, [UiNext]_uiVars PROVE [StaleStepsAreVoid]_queueVars
  OBVIOUS
<1>1. CASE [QueueNext]_queueVars
  BY <1>1, StaleStep
<1>2. CASE UiStep
  BY <1>2, UiLeavesDicts DEF StaleStepsAreVoid, SettlesBy
<1> QED
  BY <1>1, <1>2 DEF UiNext, uiVars, queueVars

(* A superseded worker settles nothing, though the UI server may queue a   *)
(* job its worker is still busy with.                                      *)
THEOREM UiStaleWorkersAreFenced == UiSpec => SupersededNeverSettles
<1>1. UiSpec => []QueueInv
  BY UiKeepsTheQueue, PTL
<1> QED
  BY <1>1, UiStaleStep, PTL DEF UiSpec, SupersededNeverSettles, StaleStepsAreVoid

LEMMA UiRestStep == QueueInv /\ [UiNext]_uiVars => [RestIsLeft]_queueVars
<1> SUFFICES ASSUME QueueInv, [UiNext]_uiVars PROVE [RestIsLeft]_queueVars
  OBVIOUS
<1>1. CASE [QueueNext]_queueVars
  BY <1>1, RestStep
<1>2. ASSUME UiStep, NEW j \in JobIds, jobs[j].state \in RestingStates,
             jobs'[j].state # jobs[j].state
      PROVE  jobs'[j].state \in {"queued", "cancelled", "absent"}
  <2>0. /\ jobs \in [JobIds -> JobRows] /\ MaxJobs \in Nat /\ submitted \in 0..MaxJobs
        /\ AbsentJob.state = "absent" /\ JobIds = 1..MaxJobs
    BY QueueBounds DEF QueueInv, QueueTypeOK, AbsentJob, JobIds
  <2>1. ASSUME NEW kept \in [JobIds -> JobRows], kept[j] = jobs[j] \/ kept[j] = AbsentJob,
               submitted < MaxJobs, NEW k, NEW s, NEW v,
               jobs' = [kept EXCEPT ![submitted + 1] = NewJob(k, s, v)]
        PROVE  jobs'[j].state \in {"queued", "absent"}
    <3>1. NewJob(k, s, v).state = "queued"
      BY DEF NewJob, AbsentJob
    <3>2. jobs'[j] = NewJob(k, s, v) \/ jobs'[j] = kept[j]
      BY <2>0, <2>1
    <3> QED
      BY <1>2, <2>0, <2>1, <3>1, <3>2
  <2>2. ASSUME NEW s \in Sources, NEW v \in Versions, NEW existing \in BOOLEAN,
               Upload(s, v, existing)
        PROVE  jobs'[j].state \in {"queued", "absent"}
    <3> DEFINE kept == IF existing THEN DeleteJobs(Replaced(s)) ELSE jobs
    <3>1. kept \in [JobIds -> JobRows] /\ (kept[j] = jobs[j] \/ kept[j] = AbsentJob)
      BY <2>0, AbsentJobType DEF DeleteJobs
    <3>2. submitted < MaxJobs
          /\ jobs' = [kept EXCEPT ![submitted + 1] = NewJob(UploadKey[s, v], s, v)]
      BY <2>2 DEF Upload
    <3> HIDE DEF kept
    <3> QED
      BY <2>1, <3>1, <3>2
  <2>3. ASSUME NEW k \in Keys, RetryInserts(k)
        PROVE  jobs'[j].state \in {"queued", "absent"}
    <3>1. submitted < MaxJobs
          /\ jobs' = [jobs EXCEPT ![submitted + 1] = NewJob(k, ui.source, ui.version)]
      BY <2>3 DEF RetryInserts
    <3> QED
      BY <2>0, <2>1, <3>1
  <2>4. CASE RetryUpdates
    BY <1>2, <2>0, <2>4 DEF RetryUpdates, JobRows
  <2>5. ASSUME NEW s \in Sources, CancelSource(s) \/ DeleteSource(s)
        PROVE  jobs'[j].state \in {"cancelled", "absent"}
    BY <1>2, <2>0, <2>5 DEF CancelSource, DeleteSource, CancelProcessing, DeleteSourceJobs,
                            DeleteJobs, JobRows
  <2> QED
    BY <1>2, <2>2, <2>3, <2>4, <2>5 DEF UiStep, RetryReads, UiRestarts, queueVars
<1> QED
  BY <1>1, <1>2, UiLeavesDicts DEF UiNext, uiVars, queueVars, RestIsLeft

(* A job at rest is left by a user only, through the plugin or the UI.     *)
THEOREM UiRestIsKept == UiSpec => RestingJobsAreKept
<1>1. UiSpec => []QueueInv
  BY UiKeepsTheQueue, PTL
<1> QED
  BY <1>1, UiRestStep, PTL DEF UiSpec, RestingJobsAreKept, RestIsLeft
=============================================================================
