---------------------------- MODULE MigrationApply ----------------------------
(***************************************************************************)
(* Applying a reviewed workspace migration (operator/migration_apply.go),  *)
(* with the commands that meet it (operator/migration_lifecycle.go) and    *)
(* the migration's row (operator/migration/db.go).                         *)
(*                                                                         *)
(* ApplyRevision takes the workspace lock, undoes an apply that was        *)
(* interrupted, compares the live files with the revision's baseline,      *)
(* stores their pre-images and a journal, and only then writes one file    *)
(* after the other.  What it did is undone from the pre-images when a      *)
(* write fails, by the next apply after a crash, or by hand.  A step here  *)
(* is one file operation or one SQL statement, so that a crash or another  *)
(* command may come between any two; UpdateMigrationState reads the state  *)
(* and writes it in two statements.  People and agents edit the live       *)
(* workspace without taking the lock.                                      *)
(*                                                                         *)
(* There is one revision.  The apply_journal table, which nothing reads,   *)
(* the installation of features before the check, and the runner's         *)
(* container and proposal repository are left out, and so is a journal     *)
(* that cannot be rewritten once it is there.                              *)
(***************************************************************************)
EXTENDS Integers, Sequences

CONSTANTS Procs,      \* processes that run the operator's commands
          NoProc,     \* nobody: the lock is free
          Plan,       \* what the revision does with each changed file, in order
          Careful,    \* recovery is asked for in recovery_required only, and alone
          MaxCrashes, \* bound: how often a command is killed
          MaxFaults,  \* bound: how often the file system refuses
          MaxEdits    \* bound: how often somebody else edits the workspace

ASSUME ApplyNames ==
    /\ Plan \in Seq({"added", "modified", "deleted"})
    /\ Careful \in BOOLEAN
    /\ NoProc \notin Procs
    /\ MaxCrashes \in Nat /\ MaxFaults \in Nat /\ MaxEdits \in Nat

VARIABLES
    live,       \* the content of each changed file in the live workspace
    rollback,   \* the pre-images in apply/rollback
    journal,    \* apply/journal.json
    state,      \* the state column of the migration's row
    lock,       \* who holds workspace.lock
    proc,       \* what each process is at
    unrestored, \* history: files an undo could not restore, and did not report
    crashes, faults, edits

fileVars == <<live, rollback, journal, unrestored>>
bounds == <<crashes, faults, edits>>
vars == <<live, rollback, journal, unrestored, state, lock, proc, crashes, faults, edits>>

-----------------------------------------------------------------------------
Files == DOMAIN Plan

(* A file has the baseline's content, the revision's or somebody else's.   *)
(* It is absent as the baseline or the revision has it ("none"), or        *)
(* because it was removed otherwise ("gone"): by somebody else, or by an   *)
(* undo that had no pre-image of it.                                       *)
Contents == {"base", "new", "edit", "none", "gone"}
There(content) == content \notin {"none", "gone"}
Before(f) == IF Plan[f] = "added" THEN "none" ELSE "base"
After(f) == IF Plan[f] = "deleted" THEN "none" ELSE "new"

States == {"ready_for_review", "processing", "applying", "applied", "rolling_back",
           "recovery_required", "stale", "stopped", "failed", "discarded"}

(* ValidStateTransitions, on the states that applying can meet.            *)
ValidStateTransitions ==
    [ready_for_review  |-> {"processing", "applying", "stale", "stopped", "discarded", "failed"},
     processing        |-> {"ready_for_review", "stopped", "failed", "discarded"},
     applying          |-> {"applied", "rolling_back", "recovery_required", "failed"},
     rolling_back      |-> {"ready_for_review", "recovery_required", "failed"},
     recovery_required |-> {"applying", "ready_for_review", "failed"},
     stale             |-> {"processing", "ready_for_review", "stopped", "discarded", "failed"},
     stopped           |-> {"processing", "ready_for_review", "discarded", "failed"},
     failed            |-> {"processing", "discarded"},
     applied           |-> {},
     discarded         |-> {}]

IsValidStateTransition(from, to) == from = to \/ to \in ValidStateTransitions[from]

(* The journal: its status, the files it lists and which of them were      *)
(* there before.                                                           *)
Journals == [status : {"none", "applying", "rolled_back", "failed", "applied", "resolved"},
             files : SUBSET Files, existed : SUBSET Files]
NoJournal == [status |-> "none", files |-> {}, existed |-> {}]

Stages == {"idle", "lock", "reconcile", "undo", "ready", "check", "capture", "write",
           "end", "set", "put", "resolve", "supervise", "publish"}
Processes == [stage : Stages,
              undoing : {"no", "apply", "reconcile", "recover"},
              at : 0 .. Len(Plan) + 1,           \* the operation it is at
              journal : Journals,                \* its journal in memory
              rollbackFailed : BOOLEAN,
              want : States,                     \* UpdateMigrationState: the new state,
              then : Stages,                     \* what follows,
              orelse : Stages]                   \* and what follows an error
Idle == [stage |-> "idle", undoing |-> "no", at |-> 0, journal |-> NoJournal,
         rollbackFailed |-> FALSE, want |-> "failed", then |-> "idle", orelse |-> "idle"]

ApplyInit ==
    /\ live = [f \in Files |-> Before(f)]
    /\ rollback = [f \in Files |-> "none"]
    /\ journal = NoJournal
    /\ state = "ready_for_review"
    /\ lock = NoProc
    /\ proc = [p \in Procs |-> Idle]
    /\ unrestored = {}
    /\ crashes = 0 /\ faults = 0 /\ edits = 0

-----------------------------------------------------------------------------
At(p, stage) == proc[p].stage = stage
Becomes(p, r) == proc' = [proc EXCEPT ![p] = r]
Goes(p, stage) ==
    Becomes(p, IF stage = "idle" THEN Idle ELSE [proc[p] EXCEPT !.stage = stage])
GoesTo(p, stage, i) == Becomes(p, [proc[p] EXCEPT !.stage = stage, !.at = i])

(* Record r goes on to set the state, and then to a stage that depends on  *)
(* whether the transition was valid.                                       *)
Setting(r, want, then, orelse) ==
    [r EXCEPT !.stage = "set", !.want = want, !.then = then, !.orelse = orelse]
Sets(p, want, then, orelse) == Becomes(p, Setting(proc[p], want, then, orelse))

HasSet(p, stage) ==
    Becomes(p, IF stage = "idle" THEN Idle
               ELSE [proc[p] EXCEPT !.stage = stage, !.want = Idle.want, !.then = Idle.then,
                                    !.orelse = Idle.orelse])

(* The file system may refuse an operation.                                *)
Fault == faults < MaxFaults /\ faults' = faults + 1

(* UpdateMigrationState: the state is read and the transition looked up,   *)
(* and then the row is written, whatever it says by now.                   *)
SetReads(p) ==
    /\ At(p, "set")
    /\ IF IsValidStateTransition(state, proc[p].want)
       THEN Goes(p, "put")
       ELSE HasSet(p, proc[p].orelse)
    /\ UNCHANGED <<fileVars, state, lock, bounds>>

SetWrites(p) ==
    /\ At(p, "put")
    /\ state' = proc[p].want
    /\ HasSet(p, proc[p].then)
    /\ UNCHANGED <<fileVars, lock, bounds>>

(* Operators recover with nothing else under way.                          *)
Undisturbed(p) == ~Careful \/ \A q \in Procs \ {p} : proc[q].undoing # "recover"

-----------------------------------------------------------------------------
(* ApplyRevision, also as RecoverMigration's retry.                        *)
StartApply(p) ==
    /\ At(p, "idle")
    /\ Undisturbed(p)
    /\ Goes(p, "lock")
    /\ UNCHANGED <<fileVars, state, lock, bounds>>

(* The lock is taken, by an apply or for a rollback, or given up after 30  *)
(* seconds.                                                                *)
AcquireWorkspaceLock(p) ==
    /\ At(p, "lock")
    /\ lock = NoProc
    /\ lock' = p
    /\ IF proc[p].undoing = "recover" THEN GoesTo(p, "undo", Len(Plan)) ELSE Goes(p, "reconcile")
    /\ UNCHANGED <<fileVars, state, bounds>>

GiveUp(p) ==
    /\ At(p, "lock")
    /\ lock # NoProc
    /\ Goes(p, "idle")
    /\ UNCHANGED <<fileVars, state, lock, bounds>>

(* ReconcileInterruptedApply: a journal that is still applying is undone,  *)
(* before the state is looked at.                                          *)
Reconcile(p) ==
    /\ At(p, "reconcile")
    /\ IF journal.status = "applying"
       THEN Becomes(p, [proc[p] EXCEPT !.stage = "undo", !.undoing = "reconcile",
                                       !.at = Len(Plan), !.journal = journal])
       ELSE Goes(p, "ready")
    /\ UNCHANGED <<fileVars, state, lock, bounds>>

(* One operation is undone: the pre-image is read and written, or the file *)
(* removed.  A pre-image that cannot be read makes the rollback fail,      *)
(* except in RecoverMigration; a write or a removal that is refused goes   *)
(* unnoticed.                                                              *)
Restored(p, f) ==
    CASE f \in proc[p].journal.existed -> rollback[f]
      [] Plan[f] = "added"             -> "none"
      [] OTHER                         -> "gone"

UndoLeavingAdded(p) ==
    LET f == proc[p].at
    IN  /\ At(p, "undo")
        /\ f # 0
        /\ GoesTo(p, "undo", f - 1)
        /\ live' = IF f \in proc[p].journal.existed THEN [live EXCEPT ![f] = rollback[f]] ELSE live
        /\ UNCHANGED <<rollback, journal, unrestored, state, lock, bounds>>
Undo(p) ==
    LET f == proc[p].at
        listed == proc[p].journal
        back == [proc[p] EXCEPT !.at = f - 1]
        lost == f \in listed.existed /\ ~There(rollback[f])   \* no pre-image
    IN  /\ At(p, "undo")
        /\ f # 0
        /\ \/ /\ f \notin listed.files
              /\ Becomes(p, back)
              /\ UNCHANGED <<live, unrestored, faults>>
           \/ /\ f \in listed.files /\ ~lost
              /\ Becomes(p, back)
              /\ live' = [live EXCEPT ![f] = Restored(p, f)]
              /\ unrestored' = unrestored \ {f}
              /\ UNCHANGED faults
           \/ /\ f \in listed.files
              /\ Fault
              /\ Becomes(p, back)
              /\ unrestored' = unrestored \cup {f}
              /\ UNCHANGED live
           \/ /\ f \in listed.existed
              /\ Fault \/ (lost /\ UNCHANGED faults)
              /\ IF proc[p].undoing = "recover"
                 THEN Becomes(p, back) /\ unrestored' = unrestored \cup {f}
                 ELSE Becomes(p, [back EXCEPT !.rollbackFailed = TRUE]) /\ UNCHANGED unrestored
              /\ UNCHANGED live
        /\ UNCHANGED <<rollback, journal, state, lock, crashes, edits>>

(* The journal says how the undo ended, and the state follows.             *)
Undone(p) ==
    LET r == proc[p]
        status == IF r.rollbackFailed THEN "failed" ELSE "rolled_back"
        next == IF r.undoing = "reconcile" /\ ~r.rollbackFailed THEN "ready" ELSE "end"
    IN  /\ At(p, "undo")
        /\ r.at = 0
        /\ journal' = [r.journal EXCEPT !.status = status]
        /\ Sets(p, IF r.rollbackFailed THEN "recovery_required" ELSE "ready_for_review", next, next)
        /\ UNCHANGED <<live, rollback, unrestored, state, lock, bounds>>

(* The state must be ready_for_review, and the revision's commit, tree and *)
(* patch what the row says.                                                *)
CheckReady(p) ==
    /\ At(p, "ready")
    /\ \/ state = "ready_for_review" /\ Becomes(p, [Idle EXCEPT !.stage = "check", !.at = 1])
       \/ Becomes(p, [Idle EXCEPT !.stage = "end"])
    /\ UNCHANGED <<fileVars, state, lock, bounds>>

(* The stale check: an added file must not be there, the others must have  *)
(* the baseline's content.  A path that leads out of the workspace fails   *)
(* the migration.                                                          *)
StaleIfMissing(f) == IF Plan[f] = "added" THEN There(live[f]) ELSE ~There(live[f])
Stale(f) == IF Plan[f] = "added" THEN There(live[f]) ELSE live[f] # "base"

CheckStale(p) ==
    LET f == proc[p].at
    IN  /\ At(p, "check")
        /\ f \in Files
        /\ \/ ~Stale(f) /\ GoesTo(p, "check", f + 1) /\ UNCHANGED faults
           \/ Stale(f) /\ Sets(p, "stale", "end", "end") /\ UNCHANGED faults
           \/ Fault /\ Sets(p, "failed", "end", "end")
        /\ UNCHANGED <<fileVars, state, lock, crashes, edits>>

(* The rollback directory of an earlier apply is removed.                  *)
Clear(p) ==
    /\ At(p, "check")
    /\ proc[p].at \notin Files
    /\ rollback' = [f \in Files |-> "none"]
    /\ Becomes(p, [proc[p] EXCEPT !.stage = "capture", !.at = 1,
                    !.journal = [status |-> "applying", files |-> Files, existed |-> {}]])
    /\ UNCHANGED <<live, journal, unrestored, state, lock, bounds>>

(* A pre-image is stored of every file that is there.  A file to delete    *)
(* that has gone since the check ends the apply, as does a refusal; but    *)
(* a file to write that cannot be read is taken for one that is not there. *)
Capture(p) ==
    LET f == proc[p].at
        on == [proc[p] EXCEPT !.at = f + 1]
    IN  /\ At(p, "capture")
        /\ f \in Files
        /\ \/ /\ There(live[f])
              /\ rollback' = [rollback EXCEPT ![f] = live[f]]
              /\ Becomes(p, [on EXCEPT !.journal.existed = @ \cup {f}])
              /\ UNCHANGED faults
           \/ /\ ~There(live[f])
              /\ IF Plan[f] = "deleted" THEN Goes(p, "end") ELSE Becomes(p, on)
              /\ UNCHANGED <<rollback, faults>>
           \/ /\ There(live[f]) /\ Plan[f] # "deleted"
              /\ Fault
              /\ Becomes(p, on)
              /\ UNCHANGED rollback
           \/ Fault /\ Goes(p, "end") /\ UNCHANGED rollback
        /\ UNCHANGED <<live, journal, unrestored, state, lock, crashes, edits>>

(* The journal is stored before a live file is touched.                    *)
WriteJournal(p) ==
    /\ At(p, "capture")
    /\ proc[p].at \notin Files
    /\ \/ /\ journal' = proc[p].journal
          /\ Becomes(p, Setting([proc[p] EXCEPT !.at = 1], "applying", "write", "end"))
          /\ UNCHANGED faults
       \/ Fault /\ Goes(p, "end") /\ UNCHANGED journal
    /\ UNCHANGED <<live, rollback, unrestored, state, lock, crashes, edits>>

(* One operation on a live file, or the error that has the ones before it  *)
(* undone.                                                                 *)
Write(p) ==
    LET f == proc[p].at
    IN  /\ At(p, "write")
        /\ f \in Files
        /\ \/ /\ live' = [live EXCEPT ![f] = After(f)]
              /\ unrestored' = unrestored \ {f}
              /\ GoesTo(p, "write", f + 1)
              /\ UNCHANGED faults
           \/ /\ Fault
              /\ Becomes(p, Setting([proc[p] EXCEPT !.undoing = "apply", !.at = f - 1],
                                    "rolling_back", "undo", "undo"))
              /\ UNCHANGED <<live, unrestored>>
        /\ UNCHANGED <<rollback, journal, state, lock, crashes, edits>>

Written(p) ==
    /\ At(p, "write")
    /\ proc[p].at \notin Files
    /\ journal' = [proc[p].journal EXCEPT !.status = "applied"]
    /\ Sets(p, "applied", "end", "end")
    /\ UNCHANGED <<live, rollback, unrestored, state, lock, bounds>>

Unlock(p) ==
    /\ At(p, "end")
    /\ lock' = NoProc
    /\ Goes(p, "idle")
    /\ UNCHANGED <<fileVars, state, bounds>>

-----------------------------------------------------------------------------
(* RecoverMigration.  The journal is read before the lock is asked for,    *)
(* and resolve does not ask for it.                                        *)
StartRecover(p) ==
    /\ At(p, "idle")
    /\ Careful => state = "recovery_required" /\ \A q \in Procs : At(q, "idle")
    /\ \E stage \in {"lock", "resolve"} :
        Becomes(p, [Idle EXCEPT !.stage = stage, !.undoing = "recover", !.journal = journal])
    /\ UNCHANGED <<fileVars, state, lock, bounds>>

ResolveAsReady(p) ==
    /\ At(p, "resolve")
    /\ journal' = [proc[p].journal EXCEPT !.status = "ready_for_review"]
    /\ Sets(p, "ready_for_review", "idle", "idle")
    /\ UNCHANGED <<live, rollback, unrestored, state, lock, bounds>>
Resolve(p) ==
    /\ At(p, "resolve")
    /\ journal' = [proc[p].journal EXCEPT !.status = "resolved"]
    /\ Sets(p, "ready_for_review", "idle", "idle")
    /\ UNCHANGED <<live, rollback, unrestored, state, lock, bounds>>

-----------------------------------------------------------------------------
(* StopMigration and DiscardMigration look at the state once, and set it   *)
(* when the runner's container is gone.                                    *)
StopMigration(p) ==
    /\ At(p, "idle")
    /\ Undisturbed(p)
    /\ state \notin {"applying", "applied"}
    /\ Sets(p, "stopped", "idle", "idle")
    /\ UNCHANGED <<fileVars, state, lock, bounds>>

DiscardMigration(p) ==
    /\ At(p, "idle")
    /\ Undisturbed(p)
    /\ state \notin {"applying", "recovery_required"}
    /\ Sets(p, "discarded", "idle", "idle")
    /\ UNCHANGED <<fileVars, state, lock, bounds>>

(* retry-jobs sets the state and runs the supervisor, which sets it again  *)
(* and ends with a revision to review, unless it is to stop.  The stop     *)
(* intent is left open.                                                    *)
RetryJobs(p) ==
    /\ At(p, "idle")
    /\ Undisturbed(p)
    /\ Sets(p, "processing", "supervise", "supervise")
    /\ UNCHANGED <<fileVars, state, lock, bounds>>

Supervise(p) ==
    /\ At(p, "supervise")
    /\ Sets(p, "processing", "publish", "publish")
    /\ UNCHANGED <<fileVars, state, lock, bounds>>

PublishRevision(p) ==
    /\ At(p, "publish")
    /\ \/ Sets(p, "stopped", "idle", "idle")
       \/ state = "processing" /\ Sets(p, "ready_for_review", "idle", "idle")
       \/ state # "processing" /\ Goes(p, "idle")
    /\ UNCHANGED <<fileVars, state, lock, bounds>>

-----------------------------------------------------------------------------
(* A command is killed; the kernel releases its lock.                      *)
Crash(p) ==
    /\ proc[p].stage # "idle"
    /\ crashes < MaxCrashes
    /\ crashes' = crashes + 1
    /\ lock' = IF lock = p THEN NoProc ELSE lock
    /\ Becomes(p, Idle)
    /\ UNCHANGED <<fileVars, state, faults, edits>>

(* Somebody else writes or removes a file.                                 *)
Edit(f) ==
    /\ edits < MaxEdits
    /\ edits' = edits + 1
    /\ \E content \in {"edit"} \cup {c \in {"gone"} : There(live[f])} :
        live' = [live EXCEPT ![f] = content]
    /\ UNCHANGED <<rollback, journal, unrestored, state, lock, proc, crashes, faults>>

Step(p) ==
    \/ AcquireWorkspaceLock(p) \/ GiveUp(p) \/ Reconcile(p) \/ Undo(p) \/ Undone(p)
    \/ CheckReady(p) \/ CheckStale(p) \/ Clear(p) \/ Capture(p) \/ WriteJournal(p)
    \/ Write(p) \/ Written(p) \/ Unlock(p) \/ Resolve(p) \/ Supervise(p)
    \/ PublishRevision(p) \/ SetReads(p) \/ SetWrites(p)

Start(p) ==
    \/ StartApply(p) \/ StartRecover(p) \/ StopMigration(p) \/ DiscardMigration(p)
    \/ RetryJobs(p)

ApplyNext ==
    \/ \E p \in Procs : Start(p) \/ Step(p) \/ Crash(p)
    \/ \E f \in Files : Edit(f)

ApplySpec == ApplyInit /\ [][ApplyNext]_vars

(* Commands that are not killed run to their end, and operators do not     *)
(* give up: each command is asked for again and again.                     *)
FairApplySpec ==
    /\ ApplySpec
    /\ \A p \in Procs :
        /\ WF_vars(Step(p))
        /\ SF_vars(StartApply(p)) /\ SF_vars(StartRecover(p)) /\ SF_vars(StopMigration(p))
        /\ SF_vars(DiscardMigration(p)) /\ SF_vars(RetryJobs(p))

-----------------------------------------------------------------------------
ApplyTypeOK ==
    /\ live \in [Files -> Contents]
    /\ rollback \in [Files -> Contents]
    /\ journal \in Journals
    /\ state \in States
    /\ lock \in Procs \cup {NoProc}
    /\ proc \in [Procs -> Processes]
    /\ unrestored \subseteq Files
    /\ crashes \in 0 .. MaxCrashes /\ faults \in 0 .. MaxFaults /\ edits \in 0 .. MaxEdits

(* A revision is applied "atomically": a journal that is not there or says *)
(* rolled_back means that no live file has anything of the revision, and a *)
(* journal or a state that says applied means that every one has,          *)
(* whichever writes failed, commands were killed or came in between.  Only *)
(* what somebody else did to a file is excepted, and what an undo could    *)
(* not restore, or removed because it could not be read before.            *)
Theirs == {"edit", "gone"}
AllOrNothing ==
    /\ journal.status \in {"none", "rolled_back"} =>
        \A f \in Files \ unrestored : live[f] \in {Before(f)} \cup Theirs
    /\ journal.status = "applied" \/ state = "applied" =>
        \A f \in Files : live[f] \in {After(f)} \cup Theirs

(* What an undo will restore is there, and is never the revision's own     *)
(* content: no apply takes what another one left behind for an original.   *)
PreImagesAreOriginal ==
    \A f \in Files :
        /\ rollback[f] # "new"
        /\ journal.status = "applying" /\ f \in journal.existed => There(rollback[f])

(* "ReconcileInterruptedApply recovers a crashed apply operation": a       *)
(* migration does not stay in applying for ever when nobody is applying it *)
(* and operators keep applying, recovering, stopping, discarding and       *)
(* retrying it.                                                            *)
InterruptedApplyRecovers == (state = "applying") ~> (state # "applying")
=============================================================================
