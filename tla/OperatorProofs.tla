---------------------------- MODULE OperatorProofs ----------------------------
(***************************************************************************)
(* A migration is applied as a whole or not at all, for any plan, any      *)
(* number of commands, crashes, refusals and edits: proofs about           *)
(* MigrationApply.  A templates catalog is never lost, nor torn, nor taken *)
(* from a reader, for any number of commands, directories, kills and       *)
(* failures: proofs about TemplateCatalog.                                 *)
(***************************************************************************)
EXTENDS MCOperator, FiniteSetTheorems, TLAPS

(* A file has nothing of the revision, or all it was to get.               *)
Clean(f) == live[f] \in {Before(f)} \cup Theirs
Complete(f) == live[f] \in {After(f)} \cup Theirs

(* The stage a record is at, or goes on to once the state is set.          *)
Ahead(r) == IF r.stage \in {"set", "put"} THEN r.then ELSE r.stage
Locked == {"reconcile", "undo", "ready", "check", "capture", "write", "end"}

Kept == {"failed", "rolled_back", "resolved"}   \* a journal that nobody is at

(* What a process may rely on at each stage: with the lock, that the       *)
(* journal is its own, how far the live files are, and that pre-images are *)
(* stored of what was there; in a recovery, that nobody else does anything.*)
(* Only who has written the journal accordingly calls the migration        *)
(* applied or asks for a recovery.                                         *)
Exclusive(p) ==
    /\ proc[p].stage = "idle" => proc[p] = Idle
    /\ Ahead(proc[p]) \in Locked => lock = p
    /\ proc[p].stage = "set" =>
           \/ proc[p].orelse = proc[p].then
           \/ proc[p].then = "write" /\ proc[p].orelse = "end"
    /\ proc[p].undoing = "recover" => \A q \in Procs \ {p} : proc[q].stage = "idle"
    /\ proc[p].stage = "resolve" => proc[p].undoing = "recover"
    /\ proc[p].undoing = "recover" /\ proc[p].stage \in {"lock", "resolve"} =>
           proc[p].journal = journal /\ journal.status \in Kept
    /\ proc[p].stage \in {"set", "put"} =>
           /\ proc[p].then \notin {"set", "put", "lock", "resolve"}
           /\ proc[p].want = "applied" => journal.status = "applied" /\ proc[p].then = "end"
           /\ proc[p].want = "recovery_required" =>
                  journal.status = "failed" /\ proc[p].then = "end"

Preparing(p) ==
    /\ Ahead(proc[p]) \in {"ready", "check", "capture"} => journal.status # "applying"
    /\ Ahead(proc[p]) \in {"check", "capture"} => state \notin {"applied", "recovery_required"}
    /\ Ahead(proc[p]) = "check" =>
           proc[p].at # 0 /\ \A f \in Files : f < proc[p].at => Clean(f)
    /\ Ahead(proc[p]) = "capture" =>
           /\ \A f \in Files : Clean(f)
           /\ proc[p].journal.status = "applying" /\ proc[p].journal.files = Files
           /\ \A f \in proc[p].journal.existed : There(rollback[f])

Writing(p) ==
    Ahead(proc[p]) = "write" =>
        /\ proc[p].journal = journal /\ journal.status = "applying" /\ proc[p].at # 0
        /\ \A f \in Files : IF f < proc[p].at THEN Complete(f) ELSE Clean(f)

Undoing(p) ==
    Ahead(proc[p]) = "undo" =>
        /\ proc[p].journal = journal
        /\ \/ proc[p].undoing \in {"apply", "reconcile"} /\ journal.status = "applying"
           \/ proc[p].undoing = "recover" /\ journal.status \in Kept
        /\ ~proc[p].rollbackFailed =>
               \A f \in Files \ unrestored : f > proc[p].at => Clean(f)

ProcInv(p) == Exclusive(p) /\ Preparing(p) /\ Writing(p) /\ Undoing(p)

(* What the journal and the row say, whoever is at it.                     *)
FileInv ==
    /\ state = "applied" => journal.status = "applied"
    /\ state = "recovery_required" => journal.status \in Kept
    /\ journal.status \in {"none", "rolled_back"} => \A f \in Files \ unrestored : Clean(f)
    /\ journal.status = "applied" => \A f \in Files : Complete(f)
    /\ \A f \in Files : rollback[f] \in {"none", "edit", Before(f)}
    /\ journal.status = "applying" => \A f \in journal.existed : There(rollback[f])
    /\ journal.status # "none" => journal.files = Files

SafeInv == FileInv /\ \A p \in Procs : ProcInv(p)
ApplyInv == ApplyTypeOK /\ (Careful => SafeInv)

-----------------------------------------------------------------------------
LEMMA Kinds ==
    /\ Len(Plan) \in Nat /\ Files = 1 .. Len(Plan)
    /\ \A f \in Files : /\ Plan[f] \in {"added", "modified", "deleted"}
                        /\ Before(f) \in {"base", "none"} /\ After(f) \in {"new", "none"}
<1>1. Plan \in Seq({"added", "modified", "deleted"})
  BY ApplyNames
<1> QED
  BY <1>1 DEF Files, Before, After

(* Stages and states are told apart by name only: the steps cite these     *)
(* facts and leave the two sets folded.                                    *)
LEMMA Names ==
    /\ {"idle", "lock", "reconcile", "undo", "ready", "check", "capture", "write", "end",
        "set", "put", "resolve", "supervise", "publish"} \subseteq Stages
    /\ {"ready_for_review", "processing", "applying", "applied", "rolling_back",
        "recovery_required", "stale", "stopped", "failed", "discarded"} \subseteq States
BY DEF Stages, States

LEMMA IdleType ==
    /\ Idle \in Processes /\ NoJournal \in Journals
    /\ Idle.stage = "idle" /\ Idle.undoing = "no" /\ ~Idle.rollbackFailed
<1>1. NoJournal \in Journals /\ 0 \in 0 .. Len(Plan) + 1
  BY Kinds DEF NoJournal, Journals
<1> QED
  BY <1>1, Names DEF Idle, Processes

(* The fields of a process that are not named stay as they are.            *)
LEMMA Fields ==
    ASSUME NEW r \in Processes, NEW stage \in Stages, NEW i \in 0 .. Len(Plan) + 1
    PROVE  LET n == [r EXCEPT !.stage = stage, !.at = i]
           IN  /\ n \in Processes /\ n.stage = stage /\ n.at = i
               /\ n.undoing = r.undoing /\ n.journal = r.journal
               /\ n.rollbackFailed = r.rollbackFailed
               /\ n.want = r.want /\ n.then = r.then /\ n.orelse = r.orelse
BY DEF Processes

LEMMA SettingFields ==
    ASSUME NEW r \in Processes, NEW want \in States, NEW then \in Stages, NEW orelse \in Stages
    PROVE  LET n == Setting(r, want, then, orelse)
           IN  /\ n \in Processes /\ n.stage = "set" /\ n.at = r.at
               /\ n.undoing = r.undoing /\ n.journal = r.journal
               /\ n.rollbackFailed = r.rollbackFailed
               /\ n.want = want /\ n.then = then /\ n.orelse = orelse
BY Names DEF Processes, Setting

LEMMA BecomesType ==
    ASSUME ApplyTypeOK, NEW p \in Procs, NEW r \in Processes, Becomes(p, r)
    PROVE  /\ proc' \in [Procs -> Processes] /\ proc'[p] = r
           /\ \A q \in Procs \ {p} : proc'[q] = proc[q]
BY DEF ApplyTypeOK, Becomes

(* What becomes of a process that goes to a stage, to an operation, or to  *)
(* set the state.                                                          *)
Continues(p, stage, i) ==
    /\ proc' \in [Procs -> Processes]
    /\ \A q \in Procs \ {p} : proc'[q] = proc[q]
    /\ proc'[p].stage = stage /\ proc'[p].at = i
    /\ proc'[p].undoing = proc[p].undoing /\ proc'[p].journal = proc[p].journal
    /\ proc'[p].rollbackFailed = proc[p].rollbackFailed

LEMMA Going ==
    ASSUME ApplyTypeOK, NEW p \in Procs, NEW stage \in Stages \ {"idle"}
    PROVE  /\ Goes(p, stage) => Continues(p, stage, proc[p].at)
           /\ \A i \in 0 .. Len(Plan) + 1 : GoesTo(p, stage, i) => Continues(p, stage, i)
<1>1. proc[p] \in Processes
  BY DEF ApplyTypeOK
<1>2. ASSUME Goes(p, stage)
      PROVE  Continues(p, stage, proc[p].at)
  <2> DEFINE r == [proc[p] EXCEPT !.stage = stage]
  <2>1. /\ r \in Processes /\ r.stage = stage /\ r.at = proc[p].at
        /\ r.undoing = proc[p].undoing /\ r.journal = proc[p].journal
        /\ r.rollbackFailed = proc[p].rollbackFailed
    BY <1>1 DEF Processes
  <2>2. Becomes(p, r)
    BY <1>2 DEF Goes
  <2> HIDE DEF r
  <2> QED
    BY <2>1, <2>2, BecomesType DEF Continues
<1>3. ASSUME NEW i \in 0 .. Len(Plan) + 1, GoesTo(p, stage, i)
      PROVE  Continues(p, stage, i)
  <2> DEFINE r == [proc[p] EXCEPT !.stage = stage, !.at = i]
  <2>1. /\ r \in Processes /\ r.stage = stage /\ r.at = i
        /\ r.undoing = proc[p].undoing /\ r.journal = proc[p].journal
        /\ r.rollbackFailed = proc[p].rollbackFailed
    BY <1>1 DEF Processes
  <2>2. Becomes(p, r)
    BY <1>3 DEF GoesTo
  <2> HIDE DEF r
  <2> QED
    BY <2>1, <2>2, BecomesType DEF Continues
<1> QED
  BY <1>2, <1>3

LEMMA SettingState ==
    ASSUME ApplyTypeOK, NEW p \in Procs, NEW r \in Processes,
           NEW want \in States, NEW then \in Stages, NEW orelse \in Stages,
           Becomes(p, Setting(r, want, then, orelse))
    PROVE  /\ proc' \in [Procs -> Processes]
           /\ \A q \in Procs \ {p} : proc'[q] = proc[q]
           /\ proc'[p].stage = "set" /\ proc'[p].at = r.at
           /\ proc'[p].undoing = r.undoing /\ proc'[p].journal = r.journal
           /\ proc'[p].rollbackFailed = r.rollbackFailed
           /\ proc'[p].want = want /\ proc'[p].then = then /\ proc'[p].orelse = orelse
<1>1. Setting(r, want, then, orelse) \in Processes
  BY SettingFields
<1> QED
  BY <1>1, SettingFields, BecomesType

LEMMA HavingSet ==
    ASSUME ApplyTypeOK, NEW p \in Procs, NEW stage \in Stages, HasSet(p, stage)
    PROVE  IF stage = "idle"
           THEN /\ proc' \in [Procs -> Processes] /\ proc'[p] = Idle
                /\ \A q \in Procs \ {p} : proc'[q] = proc[q]
           ELSE Continues(p, stage, proc[p].at)
<1>1. proc[p] \in Processes
  BY DEF ApplyTypeOK
<1>2. CASE stage = "idle"
  BY <1>2, IdleType, BecomesType DEF HasSet
<1>3. CASE stage # "idle"
  <2> DEFINE r == [proc[p] EXCEPT !.stage = stage, !.want = Idle.want, !.then = Idle.then,
                                  !.orelse = Idle.orelse]
  <2>1. Idle.want \in States /\ Idle.then \in Stages /\ Idle.orelse \in Stages
    BY IdleType DEF Processes
  <2>2. /\ r \in Processes /\ r.stage = stage /\ r.at = proc[p].at
        /\ r.undoing = proc[p].undoing /\ r.journal = proc[p].journal
        /\ r.rollbackFailed = proc[p].rollbackFailed
    BY <1>1, <2>1 DEF Processes
  <2>3. Becomes(p, r)
    BY <1>3 DEF HasSet
  <2> HIDE DEF r
  <2> QED
    BY <1>3, <2>2, <2>3, BecomesType DEF Continues
<1> QED
  BY <1>2, <1>3

-----------------------------------------------------------------------------
(* A step of one process leaves what the others rely on: it has the lock,  *)
(* or nobody else does anything, or it touches no file and makes nothing   *)
(* of the migration's state that a holder of the lock has to exclude.      *)
LEMMA OthersKeep ==
    ASSUME SafeInv, NEW p \in Procs, NEW q \in Procs \ {p},
           proc'[q] = proc[q], \A x \in Procs \ {p} : proc'[x] = proc[x],
           NoProc \notin Procs,
           lock' = lock \/ lock = p \/ lock = NoProc,
           \/ /\ UNCHANGED <<live, rollback, journal, unrestored>>
              /\ state' = state \/ state' \notin {"applied", "recovery_required"}
           \/ lock = p
           \/ proc[p].undoing = "recover",
           proc[p].stage = "idle" => proc[q].undoing # "recover"
    PROVE  ProcInv(q)'
<1>1. ProcInv(q) /\ ProcInv(p)
  BY DEF SafeInv
<1>2. p \in Procs \ {q}
  OBVIOUS
<1>3. proc[q].undoing # "recover"
  BY <1>1, <1>2 DEF ProcInv, Exclusive
<1>4. lock = q => lock' = q
  OBVIOUS
<1>5. CASE /\ UNCHANGED <<live, rollback, journal, unrestored>>
           /\ state' = state \/ state' \notin {"applied", "recovery_required"}
  <2>1. Exclusive(q)'
    BY <1>1, <1>3, <1>4, <1>5 DEF ProcInv, Exclusive, Ahead
  <2>2. Preparing(q)'
    BY <1>1, <1>5 DEF ProcInv, Preparing, Ahead, Clean
  <2>3. Writing(q)' /\ Undoing(q)'
    BY <1>1, <1>5 DEF ProcInv, Writing, Undoing, Ahead, Clean, Complete
  <2> QED
    BY <2>1, <2>2, <2>3 DEF ProcInv
<1>6. CASE lock = p
  <2>1. Ahead(proc[q]) \notin Locked
    BY <1>1, <1>6 DEF ProcInv, Exclusive
  <2>2. Exclusive(q)'
    BY <1>1, <1>3, <1>4, <2>1 DEF ProcInv, Exclusive, Ahead, Locked
  <2>3. Preparing(q)' /\ Writing(q)' /\ Undoing(q)'
    BY <2>1 DEF Preparing, Writing, Undoing, Ahead, Locked
  <2> QED
    BY <2>2, <2>3 DEF ProcInv
<1>7. CASE proc[p].undoing = "recover"
  <2>1. proc[q] = Idle
    BY <1>1, <1>7 DEF ProcInv, Exclusive
  <2> QED
    BY <2>1 DEF ProcInv, Exclusive, Preparing, Writing, Undoing, Ahead, Locked, Idle
<1> QED
  BY <1>5, <1>6, <1>7

LEMMA StepKeeps ==
    ASSUME ApplyInv, NEW p \in Procs,
           proc' \in [Procs -> Processes], \A q \in Procs \ {p} : proc'[q] = proc[q],
           live' \in [Files -> Contents], rollback' \in [Files -> Contents],
           journal' \in Journals, state' \in States, lock' \in Procs \cup {NoProc},
           unrestored' \subseteq Files, crashes' \in 0 .. MaxCrashes,
           faults' \in 0 .. MaxFaults, edits' \in 0 .. MaxEdits,
           Careful /\ SafeInv =>
               /\ lock' = lock \/ lock = p \/ lock = NoProc
               /\ \/ /\ UNCHANGED <<live, rollback, journal, unrestored>>
                     /\ state' = state \/ state' \notin {"applied", "recovery_required"}
                  \/ lock = p
                  \/ proc[p].undoing = "recover"
               /\ proc[p].stage = "idle" =>
                      \A q \in Procs \ {p} : proc[q].undoing # "recover"
               /\ FileInv' /\ ProcInv(p)'
    PROVE  ApplyInv'
<1>1. ApplyTypeOK'
  BY DEF ApplyTypeOK
<1>2. ASSUME Careful, SafeInv
      PROVE  SafeInv'
  <2>1. ASSUME NEW q \in Procs \ {p}
        PROVE  ProcInv(q)'
    BY <1>2, <2>1, OthersKeep, ApplyNames
  <2> QED
    BY <1>2, <2>1 DEF SafeInv
<1> QED
  BY <1>1, <1>2 DEF ApplyInv

(* A step that touches no file, nor the journal, nor the state.            *)
LEMMA QuietStep ==
    ASSUME ApplyInv, NEW p \in Procs,
           proc' \in [Procs -> Processes], \A q \in Procs \ {p} : proc'[q] = proc[q],
           lock' \in Procs \cup {NoProc}, crashes' \in 0 .. MaxCrashes,
           faults' \in 0 .. MaxFaults, edits' \in 0 .. MaxEdits,
           UNCHANGED <<live, rollback, journal, unrestored, state>>,
           Careful /\ SafeInv =>
               /\ lock' = lock \/ lock = p \/ lock = NoProc
               /\ proc[p].stage = "idle" =>
                      \A q \in Procs \ {p} : proc[q].undoing # "recover"
               /\ ProcInv(p)'
    PROVE  ApplyInv'
<1>1. /\ live' \in [Files -> Contents] /\ rollback' \in [Files -> Contents]
      /\ journal' \in Journals /\ state' \in States /\ unrestored' \subseteq Files
  BY DEF ApplyInv, ApplyTypeOK
<1>2. SafeInv => FileInv'
  BY DEF SafeInv, FileInv, Clean, Complete
<1> QED
  BY <1>1, <1>2, StepKeeps

(* The types that every step starts from.                                  *)
LEMMA Held ==
    ASSUME ApplyInv
    PROVE  /\ ApplyTypeOK
           /\ live \in [Files -> Contents] /\ rollback \in [Files -> Contents]
           /\ journal \in Journals /\ state \in States /\ lock \in Procs \cup {NoProc}
           /\ unrestored \subseteq Files /\ crashes \in 0 .. MaxCrashes
           /\ faults \in 0 .. MaxFaults /\ edits \in 0 .. MaxEdits
           /\ \A p \in Procs : /\ proc[p] \in Processes /\ proc[p].journal \in Journals
                                /\ proc[p].at \in 0 .. Len(Plan) + 1
                                /\ proc[p].stage \in Stages /\ proc[p].want \in States
                                /\ proc[p].then \in Stages /\ proc[p].orelse \in Stages
                                /\ proc[p].rollbackFailed \in BOOLEAN
           /\ MaxCrashes \in Nat /\ MaxFaults \in Nat /\ MaxEdits \in Nat
<1>1. \A p \in Procs : proc[p] \in Processes
  BY DEF ApplyInv, ApplyTypeOK
<1>2. MaxCrashes \in Nat /\ MaxFaults \in Nat /\ MaxEdits \in Nat
  BY ApplyNames
<1> QED
  BY <1>1, <1>2 DEF ApplyInv, ApplyTypeOK, Processes

-----------------------------------------------------------------------------
(* The commands begin.                                                     *)
LEMMA StartApplyInv ==
    ASSUME ApplyInv, NEW p \in Procs, StartApply(p)
    PROVE  ApplyInv'
<1>1. Continues(p, "lock", proc[p].at)
  BY Held, Going, Names DEF StartApply
<1>2. ASSUME Careful, SafeInv
      PROVE  /\ \A q \in Procs \ {p} : proc[q].undoing # "recover"
             /\ ProcInv(p)'
  <2>1. proc[p] = Idle
    BY <1>2 DEF SafeInv, ProcInv, Exclusive, StartApply, At
  <2>2. proc'[p].stage = "lock" /\ proc'[p].undoing = "no"
    BY <1>1, <2>1, IdleType DEF Continues
  <2>3. ProcInv(p)'
    BY <2>2 DEF ProcInv, Exclusive, Preparing, Writing, Undoing, Ahead, Locked
  <2> QED
    BY <1>2, <2>3 DEF StartApply, Undisturbed
<1> QED
  BY <1>1, <1>2, Held, QuietStep DEF StartApply, Continues, fileVars, bounds

LEMMA StartRecoverInv ==
    ASSUME ApplyInv, NEW p \in Procs, StartRecover(p)
    PROVE  ApplyInv'
<1>1. PICK stage \in {"lock", "resolve"} :
        Becomes(p, [Idle EXCEPT !.stage = stage, !.undoing = "recover", !.journal = journal])
  BY DEF StartRecover
<1> DEFINE r == [Idle EXCEPT !.stage = stage, !.undoing = "recover", !.journal = journal]
<1>2. r \in Processes /\ r.stage = stage /\ r.undoing = "recover" /\ r.journal = journal
  BY Held, IdleType, Names DEF Processes
<1>3. Becomes(p, r)
  BY <1>1
<1> HIDE DEF r
<1>4. /\ proc' \in [Procs -> Processes] /\ proc'[p] = r
      /\ \A q \in Procs \ {p} : proc'[q] = proc[q]
  BY <1>2, <1>3, BecomesType, Held
<1>5. ASSUME Careful, SafeInv
      PROVE  /\ \A q \in Procs \ {p} : proc[q].undoing # "recover"
             /\ ProcInv(p)'
  <2>1. /\ \A q \in Procs : proc[q].stage = "idle" /\ proc[q] = Idle
        /\ state = "recovery_required" /\ UNCHANGED journal
    BY <1>5 DEF SafeInv, ProcInv, Exclusive, StartRecover, At, fileVars
  <2>2. journal.status \in Kept
    BY <1>5, <2>1 DEF SafeInv, FileInv
  <2>3. ProcInv(p)'
    BY <1>2, <1>4, <2>1, <2>2 DEF ProcInv, Exclusive, Preparing, Writing, Undoing, Ahead, Locked
  <2> QED
    BY <2>1, <2>3, IdleType
<1> QED
  BY <1>4, <1>5, Held, QuietStep DEF StartRecover, fileVars, bounds

(* Commands that only set the state make nothing of it that matters here.  *)
LEMMA CommandInv ==
    ASSUME ApplyInv, NEW p \in Procs, NEW want \in States \ {"applied", "recovery_required"},
           NEW then \in {"idle", "supervise", "publish"}, Sets(p, want, then, then),
           proc[p].stage = "idle" => Undisturbed(p),
           UNCHANGED <<fileVars, state, lock, bounds>>
    PROVE  ApplyInv'
<1>1. then \in Stages
  BY Names
<1>2. /\ proc' \in [Procs -> Processes]
      /\ \A q \in Procs \ {p} : proc'[q] = proc[q]
      /\ proc'[p].stage = "set" /\ proc'[p].undoing = proc[p].undoing
      /\ proc'[p].want = want /\ proc'[p].then = then /\ proc'[p].orelse = then
  BY <1>1, Held, SettingState DEF Sets
<1>3. ASSUME Careful, SafeInv
      PROVE  ProcInv(p)'
  BY <1>2, <1>3
     DEF SafeInv, ProcInv, Exclusive, Preparing, Writing, Undoing, Ahead, Locked
<1> QED
  BY <1>2, <1>3, Held, QuietStep DEF Undisturbed, fileVars, bounds

LEMMA OtherCommandsInv ==
    ASSUME ApplyInv, NEW p \in Procs,
           StopMigration(p) \/ DiscardMigration(p) \/ RetryJobs(p)
    PROVE  ApplyInv'
<1>1. /\ Undisturbed(p) /\ proc[p].stage = "idle" /\ UNCHANGED <<fileVars, state, lock, bounds>>
      /\ \E want \in {"stopped", "discarded", "processing"}, then \in {"idle", "supervise"} :
             Sets(p, want, then, then)
  BY DEF StopMigration, DiscardMigration, RetryJobs, At
<1> QED
  BY <1>1, Names, CommandInv

LEMMA SuperviseInv ==
    ASSUME ApplyInv, NEW p \in Procs, Supervise(p) \/ PublishRevision(p)
    PROVE  ApplyInv'
<1>1. proc[p].stage # "idle" /\ UNCHANGED <<fileVars, state, lock, bounds>>
  BY DEF Supervise, PublishRevision, At
<1>2. CASE \E want \in {"processing", "stopped", "ready_for_review"}, then \in {"idle", "publish"} :
               Sets(p, want, then, then)
  BY <1>1, <1>2, Names, CommandInv
<1>3. CASE Goes(p, "idle")
  <2>1. /\ proc' \in [Procs -> Processes] /\ proc'[p] = Idle
        /\ \A q \in Procs \ {p} : proc'[q] = proc[q]
    BY <1>3, Held, IdleType, BecomesType DEF Goes
  <2>2. ProcInv(p)'
    BY <2>1, IdleType DEF ProcInv, Exclusive, Preparing, Writing, Undoing, Ahead, Locked
  <2> QED
    BY <1>1, <2>1, <2>2, Held, QuietStep DEF fileVars, bounds
<1> QED
  BY <1>2, <1>3 DEF Supervise, PublishRevision

(* A process that rests has nothing to rely on.                            *)
LEMMA RestInv ==
    ASSUME ApplyInv, NEW p \in Procs, proc[p].stage # "idle", Becomes(p, Idle),
           lock' = lock \/ (lock = p /\ lock' = NoProc),
           crashes' \in 0 .. MaxCrashes, UNCHANGED <<fileVars, state, faults, edits>>
    PROVE  ApplyInv'
<1>1. /\ proc' \in [Procs -> Processes] /\ proc'[p] = Idle
      /\ \A q \in Procs \ {p} : proc'[q] = proc[q]
  BY Held, IdleType, BecomesType
<1>2. ProcInv(p)'
  BY <1>1, IdleType DEF ProcInv, Exclusive, Preparing, Writing, Undoing, Ahead, Locked
<1>3. lock' \in Procs \cup {NoProc}
  BY Held
<1> QED
  BY <1>1, <1>2, <1>3, Held, QuietStep DEF fileVars

LEMMA EndingInv ==
    ASSUME ApplyInv, NEW p \in Procs, GiveUp(p) \/ Unlock(p) \/ Crash(p)
    PROVE  ApplyInv'
<1>1. CASE GiveUp(p)
  BY <1>1, Held, RestInv DEF GiveUp, At, Goes, bounds
<1>2. CASE Crash(p)
  <2>1. crashes' \in 0 .. MaxCrashes
    BY <1>2, Held DEF Crash
  <2> QED
    BY <1>2, <2>1, Held, RestInv DEF Crash
<1>3. CASE Unlock(p)
  <2>1. /\ proc' \in [Procs -> Processes] /\ proc'[p] = Idle
        /\ \A q \in Procs \ {p} : proc'[q] = proc[q]
    BY <1>3, Held, IdleType, BecomesType DEF Unlock, Goes
  <2>2. ProcInv(p)'
    BY <2>1, IdleType DEF ProcInv, Exclusive, Preparing, Writing, Undoing, Ahead, Locked
  <2>3. SafeInv => lock = p
    BY <1>3 DEF SafeInv, ProcInv, Exclusive, Ahead, Locked, Unlock, At
  <2> QED
    BY <1>3, <2>1, <2>2, <2>3, Held, QuietStep DEF Unlock, At, fileVars, bounds
<1> QED
  BY <1>1, <1>2, <1>3

-----------------------------------------------------------------------------
(* Once the state is set, or could not be, a process finds at the next     *)
(* stage what it was told.                                                 *)
LEMMA ProceedsKeeps ==
    ASSUME SafeInv, NEW p \in Procs, proc[p].stage \in {"set", "put"}, NEW stage,
           \/ stage = proc[p].then
           \/ stage = "end" /\ proc[p].then = "write",
           stage \notin {"set", "put", "lock", "resolve"},
           IF stage = "idle"
           THEN proc'[p] = Idle
           ELSE Continues(p, stage, proc[p].at),
           \A q \in Procs \ {p} : proc'[q] = proc[q],
           UNCHANGED <<live, rollback, journal, unrestored, lock>>,
           state' = state \/ state' \notin {"applied", "recovery_required"}
                          \/ Ahead(proc[p]) = "end"
    PROVE  ProcInv(p)'
<1>1. ProcInv(p)
  BY DEF SafeInv
<1>2. CASE stage = "idle"
  BY <1>2, IdleType DEF ProcInv, Exclusive, Preparing, Writing, Undoing, Ahead, Locked
<1>3. CASE stage # "idle"
  <2>1. Ahead(proc[p]) = proc[p].then /\ Ahead(proc[p])' = stage
    BY <1>3 DEF Ahead, Continues
  <2>2. Exclusive(p)'
    BY <1>1, <1>3, <2>1 DEF ProcInv, Exclusive, Continues, Locked
  <2>3. Preparing(p)' /\ Writing(p)' /\ Undoing(p)'
    BY <1>1, <1>3, <2>1 DEF ProcInv, Preparing, Writing, Undoing, Continues, Clean, Complete
  <2> QED
    BY <2>2, <2>3 DEF ProcInv
<1> QED
  BY <1>2, <1>3

(* UpdateMigrationState.                                                   *)
LEMMA SetReadsInv ==
    ASSUME ApplyInv, NEW p \in Procs, SetReads(p)
    PROVE  ApplyInv'
<1>1. proc[p].stage = "set" /\ UNCHANGED <<fileVars, state, lock, bounds>>
  BY DEF SetReads, At
<1>2. CASE Goes(p, "put")
  <2> DEFINE r == [proc[p] EXCEPT !.stage = "put"]
  <2>1. /\ r \in Processes /\ r.stage = "put" /\ r.at = proc[p].at
        /\ r.undoing = proc[p].undoing /\ r.journal = proc[p].journal
        /\ r.rollbackFailed = proc[p].rollbackFailed
        /\ r.want = proc[p].want /\ r.then = proc[p].then /\ r.orelse = proc[p].orelse
    BY Held, Names DEF Processes
  <2>2. Becomes(p, r)
    BY <1>2 DEF Goes
  <2> HIDE DEF r
  <2>3. /\ proc' \in [Procs -> Processes] /\ proc'[p] = r
        /\ \A q \in Procs \ {p} : proc'[q] = proc[q]
    BY <2>1, <2>2, Held, BecomesType
  <2>4. ASSUME SafeInv
        PROVE  ProcInv(p)'
    <3>1. ProcInv(p)
      BY <2>4 DEF SafeInv
    <3>2. Ahead(proc[p])' = Ahead(proc[p])
      BY <1>1, <2>1, <2>3 DEF Ahead
    <3>3. Exclusive(p)'
      BY <1>1, <2>1, <2>3, <3>1, <3>2 DEF ProcInv, Exclusive, fileVars
    <3>4. Preparing(p)' /\ Writing(p)' /\ Undoing(p)'
      BY <1>1, <2>1, <2>3, <3>1, <3>2
         DEF ProcInv, Preparing, Writing, Undoing, Clean, Complete, fileVars
    <3> QED
      BY <3>3, <3>4 DEF ProcInv
  <2> QED
    BY <1>1, <2>3, <2>4, Held, QuietStep DEF fileVars, bounds
<1>3. CASE HasSet(p, proc[p].orelse)
  <2>1. IF proc[p].orelse = "idle"
        THEN /\ proc' \in [Procs -> Processes] /\ proc'[p] = Idle
             /\ \A q \in Procs \ {p} : proc'[q] = proc[q]
        ELSE Continues(p, proc[p].orelse, proc[p].at)
    BY <1>3, Held, HavingSet
  <2>2. /\ proc' \in [Procs -> Processes]
        /\ \A q \in Procs \ {p} : proc'[q] = proc[q]
    BY <2>1 DEF Continues
  <2>3. ASSUME SafeInv
        PROVE  ProcInv(p)'
    <3>1. /\ \/ proc[p].orelse = proc[p].then
             \/ proc[p].orelse = "end" /\ proc[p].then = "write"
          /\ proc[p].orelse \notin {"set", "put", "lock", "resolve"}
      BY <1>1, <2>3 DEF SafeInv, ProcInv, Exclusive
    <3>2. UNCHANGED <<live, rollback, journal, unrestored, lock, state>>
      BY <1>1 DEF fileVars
    <3> QED
      BY <1>1, <2>1, <2>2, <2>3, <3>1, <3>2, ProceedsKeeps
  <2> QED
    BY <1>1, <2>2, <2>3, Held, QuietStep DEF fileVars, bounds
<1> QED
  BY <1>2, <1>3 DEF SetReads

LEMMA SetWritesInv ==
    ASSUME ApplyInv, NEW p \in Procs, SetWrites(p)
    PROVE  ApplyInv'
<1>1. /\ proc[p].stage = "put" /\ state' = proc[p].want
      /\ UNCHANGED <<live, rollback, journal, unrestored, lock, bounds>>
  BY DEF SetWrites, At, fileVars
<1>2. IF proc[p].then = "idle"
      THEN /\ proc' \in [Procs -> Processes] /\ proc'[p] = Idle
           /\ \A q \in Procs \ {p} : proc'[q] = proc[q]
      ELSE Continues(p, proc[p].then, proc[p].at)
  BY Held, HavingSet DEF SetWrites
<1>3. /\ proc' \in [Procs -> Processes]
      /\ \A q \in Procs \ {p} : proc'[q] = proc[q]
  BY <1>2 DEF Continues
<1>4. ASSUME SafeInv
      PROVE  /\ state' \notin {"applied", "recovery_required"} \/ lock = p
             /\ FileInv' /\ ProcInv(p)'
  <2>1. /\ FileInv /\ Exclusive(p) /\ Ahead(proc[p]) = proc[p].then
    BY <1>1, <1>4 DEF SafeInv, ProcInv, Ahead
  <2>2. /\ state' = "applied" => journal.status = "applied" /\ proc[p].then = "end"
        /\ state' = "recovery_required" => journal.status = "failed" /\ proc[p].then = "end"
        /\ proc[p].then \notin {"set", "put", "lock", "resolve"}
    BY <1>1, <2>1 DEF Exclusive
  <2>3. ProcInv(p)'
    BY <1>1, <1>2, <1>3, <1>4, <2>1, <2>2, ProceedsKeeps
  <2>4. state' \notin {"applied", "recovery_required"} \/ lock = p
    BY <2>1, <2>2 DEF Exclusive, Locked
  <2>5. FileInv'
    BY <1>1, <2>1, <2>2 DEF FileInv, Clean, Complete, Kept
  <2> QED
    BY <2>3, <2>4, <2>5
<1> QED
  BY <1>1, <1>3, <1>4, Held, StepKeeps DEF bounds

-----------------------------------------------------------------------------
(* The lock, and what the holder does before it writes.                    *)
LEMMA AcquireInv ==
    ASSUME ApplyInv, NEW p \in Procs, AcquireWorkspaceLock(p)
    PROVE  ApplyInv'
<1>1. /\ proc[p].stage = "lock" /\ lock = NoProc /\ lock' = p
      /\ UNCHANGED <<live, rollback, journal, unrestored, state, bounds>>
  BY DEF AcquireWorkspaceLock, At, fileVars
<1>2. CASE proc[p].undoing = "recover" /\ GoesTo(p, "undo", Len(Plan))
  <2>1. Continues(p, "undo", Len(Plan))
    BY <1>2, Held, Going, Names, Kinds
  <2>2. ASSUME SafeInv
        PROVE  ProcInv(p)'
    <3>1. /\ proc[p].journal = journal /\ journal.status \in Kept
          /\ \A q \in Procs \ {p} : proc[q].stage = "idle"
      BY <1>1, <1>2, <2>2 DEF SafeInv, ProcInv, Exclusive
    <3>2. \A f \in Files : ~(f > Len(Plan))
      BY Kinds
    <3>3. Exclusive(p)'
      BY <1>1, <2>1, <3>1 DEF Continues, Exclusive, Ahead
    <3>4. Preparing(p)' /\ Writing(p)' /\ Undoing(p)'
      BY <1>1, <1>2, <2>1, <3>1, <3>2 DEF Continues, Preparing, Writing, Undoing, Ahead
    <3> QED
      BY <3>3, <3>4 DEF ProcInv
  <2> QED
    BY <1>1, <2>1, <2>2, Held, QuietStep DEF Continues, bounds
<1>3. CASE proc[p].undoing # "recover" /\ Goes(p, "reconcile")
  <2>1. Continues(p, "reconcile", proc[p].at)
    BY <1>3, Held, Going, Names
  <2>2. ProcInv(p)'
    BY <1>1, <1>3, <2>1
       DEF Continues, ProcInv, Exclusive, Preparing, Writing, Undoing, Ahead, Locked
  <2> QED
    BY <1>1, <2>1, <2>2, Held, QuietStep DEF Continues, bounds
<1> QED
  BY <1>2, <1>3 DEF AcquireWorkspaceLock

LEMMA ReconcileInv ==
    ASSUME ApplyInv, NEW p \in Procs, Reconcile(p)
    PROVE  ApplyInv'
<1>1. /\ proc[p].stage = "reconcile"
      /\ UNCHANGED <<live, rollback, journal, unrestored, state, lock, bounds>>
  BY DEF Reconcile, At, fileVars
<1>2. SafeInv => lock = p /\ Exclusive(p)
  BY <1>1 DEF SafeInv, ProcInv, Exclusive, Ahead, Locked
<1>3. CASE journal.status = "applying"
  <2> DEFINE r == [proc[p] EXCEPT !.stage = "undo", !.undoing = "reconcile",
                                  !.at = Len(Plan), !.journal = journal]
  <2>1. /\ r \in Processes /\ r.stage = "undo" /\ r.undoing = "reconcile"
        /\ r.at = Len(Plan) /\ r.journal = journal
    <3>1. /\ proc[p] \in Processes /\ journal \in Journals /\ "undo" \in Stages
          /\ Len(Plan) \in 0 .. Len(Plan) + 1
      BY Held, Names, Kinds
    <3> QED
      BY <3>1 DEF Processes
  <2>2. Becomes(p, r)
    BY <1>3 DEF Reconcile
  <2> HIDE DEF r
  <2>3. /\ proc' \in [Procs -> Processes] /\ proc'[p] = r
        /\ \A q \in Procs \ {p} : proc'[q] = proc[q]
    BY <2>1, <2>2, Held, BecomesType
  <2>4. \A f \in Files : ~(f > Len(Plan))
    BY Kinds
  <2>5. SafeInv => ProcInv(p)'
    BY <1>1, <1>2, <1>3, <2>1, <2>3, <2>4
       DEF ProcInv, Exclusive, Preparing, Writing, Undoing, Ahead
  <2> QED
    BY <1>1, <2>3, <2>5, Held, QuietStep DEF bounds
<1>4. CASE journal.status # "applying" /\ Goes(p, "ready")
  <2>1. Continues(p, "ready", proc[p].at)
    BY <1>4, Held, Going, Names
  <2>2. SafeInv => ProcInv(p)'
    BY <1>1, <1>2, <1>4, <2>1
       DEF Continues, ProcInv, Exclusive, Preparing, Writing, Undoing, Ahead
  <2> QED
    BY <1>1, <2>1, <2>2, Held, QuietStep DEF Continues, bounds
<1> QED
  BY <1>3, <1>4 DEF Reconcile

(* Going on within the lock, with nothing touched.                         *)
LEMMA CheckReadyInv ==
    ASSUME ApplyInv, NEW p \in Procs, CheckReady(p)
    PROVE  ApplyInv'
<1>1. /\ proc[p].stage = "ready"
      /\ UNCHANGED <<live, rollback, journal, unrestored, state, lock, bounds>>
  BY DEF CheckReady, At, fileVars
<1>2. PICK r \in Processes :
        /\ Becomes(p, r) /\ r.undoing = "no" /\ r.at \in {0, 1}
        /\ \/ state = "ready_for_review" /\ r.stage = "check" /\ r.at = 1
           \/ r.stage = "end"
  <2>1. /\ Idle \in Processes /\ Idle.undoing = "no" /\ Idle.at = 0
        /\ 1 \in 0 .. Len(Plan) + 1 /\ "check" \in Stages /\ "end" \in Stages
    BY IdleType, Names, Kinds DEF Idle
  <2> HIDE DEF Idle
  <2>2. CASE state = "ready_for_review" /\ Becomes(p, [Idle EXCEPT !.stage = "check", !.at = 1])
    <3> DEFINE r == [Idle EXCEPT !.stage = "check", !.at = 1]
    <3>1. r \in Processes /\ r.undoing = "no" /\ r.stage = "check" /\ r.at = 1
      BY <2>1 DEF Processes
    <3> QED
      BY <2>2, <3>1
  <2>3. CASE Becomes(p, [Idle EXCEPT !.stage = "end"])
    <3> DEFINE r == [Idle EXCEPT !.stage = "end"]
    <3>1. r \in Processes /\ r.undoing = "no" /\ r.stage = "end" /\ r.at = 0
      BY <2>1 DEF Processes
    <3> QED
      BY <2>3, <3>1
  <2> QED
    BY <2>2, <2>3 DEF CheckReady
<1>3. /\ proc' \in [Procs -> Processes] /\ proc'[p] = r
      /\ \A q \in Procs \ {p} : proc'[q] = proc[q]
  BY <1>2, Held, BecomesType
<1>4. ASSUME SafeInv
      PROVE  ProcInv(p)'
  <2>1. lock = p /\ journal.status # "applying"
    BY <1>1, <1>4 DEF SafeInv, ProcInv, Exclusive, Preparing, Ahead, Locked
  <2>2. Exclusive(p)'
    BY <1>1, <1>2, <1>3, <2>1 DEF Exclusive, Ahead
  <2>3. \A f \in Files : ~(f < 1)
    BY Kinds
  <2>4. Preparing(p)' /\ Writing(p)' /\ Undoing(p)'
    BY <1>1, <1>2, <1>3, <2>1, <2>3 DEF Preparing, Writing, Undoing, Ahead
  <2> QED
    BY <2>2, <2>4 DEF ProcInv
<1> QED
  BY <1>1, <1>3, <1>4, Held, QuietStep DEF bounds

(* An apply that ends has nothing to rely on but its lock.                 *)
LEMMA EndsInv ==
    ASSUME ApplyInv, NEW p \in Procs, proc[p].stage \notin {"idle", "set", "put"},
           proc[p].stage \in Locked,
           \/ Goes(p, "end")
           \/ \E want \in States \ {"applied", "recovery_required"} : Sets(p, want, "end", "end"),
           faults' \in 0 .. MaxFaults,
           UNCHANGED <<live, rollback, journal, unrestored, state, lock, crashes, edits>>
    PROVE  ApplyInv'
<1>1. SafeInv => lock = p /\ Exclusive(p)
  BY DEF SafeInv, ProcInv, Exclusive, Ahead
<1>2. CASE Goes(p, "end")
  <2>1. Continues(p, "end", proc[p].at)
    BY <1>2, Held, Going, Names
  <2>2. SafeInv => ProcInv(p)'
    BY <1>1, <2>1 DEF Continues, ProcInv, Exclusive, Preparing, Writing, Undoing, Ahead
  <2> QED
    BY <2>1, <2>2, Held, QuietStep DEF Continues
<1>3. ASSUME NEW want \in States \ {"applied", "recovery_required"}, Sets(p, want, "end", "end")
      PROVE  ApplyInv'
  <2>1. /\ proc' \in [Procs -> Processes]
        /\ \A q \in Procs \ {p} : proc'[q] = proc[q]
        /\ proc'[p].stage = "set" /\ proc'[p].undoing = proc[p].undoing
        /\ proc'[p].want = want /\ proc'[p].then = "end" /\ proc'[p].orelse = "end"
    BY <1>3, Held, Names, SettingState DEF Sets
  <2>2. SafeInv => ProcInv(p)'
    BY <1>1, <2>1 DEF ProcInv, Exclusive, Preparing, Writing, Undoing, Ahead
  <2> QED
    BY <2>1, <2>2, Held, QuietStep
<1> QED
  BY <1>2, <1>3

LEMMA FaultType == ApplyInv /\ Fault => faults' \in 0 .. MaxFaults
BY Held DEF Fault

(* A file that is not stale has the baseline's content, or somebody else   *)
(* has removed it.                                                         *)
LEMMA FreshIsClean ==
    ASSUME NEW f \in Files, live[f] \in Contents, ~Stale(f)
    PROVE  Clean(f)
BY Kinds DEF Stale, Clean, Before, There, Contents, Theirs

LEMMA CheckStaleInv ==
    ASSUME ApplyInv, NEW p \in Procs, CheckStale(p)
    PROVE  ApplyInv'
<1> DEFINE f == proc[p].at
<1>1. /\ proc[p].stage = "check" /\ f \in Files
      /\ UNCHANGED <<live, rollback, journal, unrestored, state, lock, crashes, edits>>
  BY DEF CheckStale, At, fileVars
<1>2. faults' \in 0 .. MaxFaults
  BY Held, FaultType DEF CheckStale
<1>3. CASE ~Stale(f) /\ GoesTo(p, "check", f + 1)
  <2>1. f + 1 \in 0 .. Len(Plan) + 1
    BY <1>1, Kinds
  <2>2. Continues(p, "check", f + 1)
    BY <1>3, <2>1, Held, Going, Names
  <2>3. Clean(f)
    BY <1>1, <1>3, Held, FreshIsClean
  <2>4. ASSUME SafeInv
        PROVE  ProcInv(p)'
    <3>1. ProcInv(p) /\ Ahead(proc[p]) = "check" /\ Ahead(proc[p])' = "check"
      BY <1>1, <2>2, <2>4 DEF SafeInv, Ahead, Continues
    <3>2. Exclusive(p)'
      BY <1>1, <2>2, <3>1 DEF ProcInv, Exclusive, Continues
    <3>3. \A g \in Files : g < f + 1 => Clean(g)
      <4>1. \A g \in Files : g < f + 1 => g < f \/ g = f
        BY <1>1, Kinds
      <4> QED
        BY <2>3, <3>1, <4>1 DEF ProcInv, Preparing
    <3>4. Preparing(p)'
      BY <1>1, <2>1, <2>2, <3>1, <3>3, Kinds DEF ProcInv, Preparing, Continues, Clean
    <3>5. Writing(p)' /\ Undoing(p)'
      BY <3>1 DEF Writing, Undoing
    <3> QED
      BY <3>2, <3>4, <3>5 DEF ProcInv
  <2> QED
    BY <1>1, <1>2, <2>2, <2>4, Held, QuietStep DEF Continues
<1>4. CASE Sets(p, "stale", "end", "end") \/ Sets(p, "failed", "end", "end")
  BY <1>1, <1>2, <1>4, Names, EndsInv DEF Locked
<1> QED
  BY <1>3, <1>4 DEF CheckStale

(* The files are clean, and pre-images of them are stored.                 *)
LEMMA ClearInv ==
    ASSUME ApplyInv, NEW p \in Procs, Clear(p)
    PROVE  ApplyInv'
<1> DEFINE started == [status |-> "applying", files |-> Files, existed |-> {}]
           r == [proc[p] EXCEPT !.stage = "capture", !.at = 1, !.journal = started]
<1>1. /\ proc[p].stage = "check" /\ proc[p].at \notin Files
      /\ rollback' = [f \in Files |-> "none"]
      /\ UNCHANGED <<live, journal, unrestored, state, lock, bounds>>
  BY DEF Clear, At
<1>2. /\ started \in Journals /\ started.status = "applying"
      /\ started.files = Files /\ started.existed = {}
  BY DEF Journals
<1>3. Becomes(p, r)
  BY DEF Clear
<1> HIDE DEF started
<1>4. /\ r \in Processes /\ r.stage = "capture" /\ r.at = 1 /\ r.journal = started
      /\ r.undoing = proc[p].undoing
  <2>1. 1 \in 0 .. Len(Plan) + 1 /\ "capture" \in Stages /\ proc[p] \in Processes
    BY Held, Kinds, Names
  <2> QED
    BY <1>2, <2>1 DEF Processes
<1> HIDE DEF r
<1>5. /\ proc' \in [Procs -> Processes] /\ proc'[p] = r
      /\ \A q \in Procs \ {p} : proc'[q] = proc[q]
  BY <1>3, <1>4, Held, BecomesType
<1>6. rollback' \in [Files -> Contents]
  BY <1>1 DEF Contents
<1>7. ASSUME SafeInv
      PROVE  lock = p /\ FileInv' /\ ProcInv(p)'
  <2>1. FileInv /\ ProcInv(p) /\ Ahead(proc[p]) = "check" /\ lock = p
    BY <1>1, <1>7 DEF SafeInv, ProcInv, Exclusive, Ahead, Locked
  <2>2. \A f \in Files : Clean(f)
    <3>1. proc[p].at # 0 /\ proc[p].at \in 0 .. Len(Plan) + 1
      BY <2>1, Held DEF ProcInv, Preparing
    <3>2. \A f \in Files : f < proc[p].at
      BY <1>1, <3>1, Kinds
    <3> QED
      BY <2>1, <3>2 DEF ProcInv, Preparing
  <2>3. FileInv'
    BY <1>1, <2>1 DEF FileInv, ProcInv, Preparing, Clean, Complete
  <2>4. Ahead(proc[p])' = "capture"
    BY <1>4, <1>5 DEF Ahead
  <2>5. Exclusive(p)'
    BY <1>1, <1>4, <1>5, <2>1, <2>4 DEF ProcInv, Exclusive
  <2>6. Preparing(p)'
    BY <1>1, <1>2, <1>4, <1>5, <2>1, <2>2, <2>4 DEF ProcInv, Preparing, Clean
  <2>7. Writing(p)' /\ Undoing(p)'
    BY <2>4 DEF Writing, Undoing
  <2> QED
    BY <2>1, <2>3, <2>5, <2>6, <2>7 DEF ProcInv
<1> QED
  BY <1>1, <1>5, <1>6, <1>7, Held, StepKeeps DEF bounds

(* What there is of a clean file is an original.                           *)
LEMMA CleanIsOriginal ==
    ASSUME NEW f \in Files, Clean(f), There(live[f])
    PROVE  live[f] \in {"edit", Before(f)}
BY DEF Clean, There, Theirs

LEMMA CaptureInv ==
    ASSUME ApplyInv, NEW p \in Procs, Capture(p)
    PROVE  ApplyInv'
<1> DEFINE f == proc[p].at
           on == [proc[p] EXCEPT !.at = f + 1]
           listed == [proc[p].journal EXCEPT !.existed = proc[p].journal.existed \cup {f}]
           stored == [on EXCEPT !.journal = listed]
<1>1. /\ proc[p].stage = "capture" /\ f \in Files
      /\ UNCHANGED <<live, journal, unrestored, state, lock, crashes, edits>>
  BY DEF Capture, At
<1>2. faults' \in 0 .. MaxFaults
  BY Held, FaultType DEF Capture
<1>3. ASSUME SafeInv
      PROVE  FileInv /\ ProcInv(p) /\ Ahead(proc[p]) = "capture" /\ lock = p
  BY <1>1, <1>3 DEF SafeInv, ProcInv, Exclusive, Ahead, Locked
<1>4. /\ on \in Processes /\ on.stage = "capture" /\ on.journal = proc[p].journal
      /\ on.undoing = proc[p].undoing
  <2>1. f + 1 \in 0 .. Len(Plan) + 1 /\ proc[p] \in Processes /\ proc[p].stage = "capture"
    BY <1>1, Held, Kinds
  <2> QED
    BY <2>1 DEF Processes
<1>5. /\ listed \in Journals /\ listed.status = proc[p].journal.status
      /\ listed.files = proc[p].journal.files
      /\ listed.existed = proc[p].journal.existed \cup {f}
  <2>1. proc[p].journal \in Journals
    BY Held
  <2> QED
    BY <1>1, <2>1 DEF Journals
<1> HIDE DEF on, listed
<1>6. /\ stored \in Processes /\ stored.stage = "capture" /\ stored.journal = listed
      /\ stored.undoing = proc[p].undoing
  BY <1>4, <1>5 DEF Processes
<1> HIDE DEF stored
<1>7. CASE /\ There(live[f]) /\ rollback' = [rollback EXCEPT ![f] = live[f]]
           /\ Becomes(p, stored)
  <2>1. /\ proc' \in [Procs -> Processes] /\ proc'[p] = stored
        /\ \A q \in Procs \ {p} : proc'[q] = proc[q]
    BY <1>6, <1>7, Held, BecomesType
  <2>2. rollback' \in [Files -> Contents] /\ rollback'[f] = live[f]
        /\ \A g \in Files : g # f => rollback'[g] = rollback[g]
    BY <1>1, <1>7, Held
  <2>3. ASSUME SafeInv
        PROVE  FileInv' /\ ProcInv(p)'
    <3>1. \A g \in Files : rollback'[g] \in {"none", "edit", Before(g)}
      BY <1>1, <1>3, <1>7, <2>2, <2>3, CleanIsOriginal DEF FileInv, ProcInv, Preparing
    <3>2. journal.status # "applying"
      BY <1>3, <2>3 DEF ProcInv, Preparing
    <3>3. FileInv'
      BY <1>1, <1>3, <2>3, <3>1, <3>2 DEF FileInv, Clean, Complete
    <3>4. Ahead(proc[p])' = "capture"
      BY <1>6, <2>1 DEF Ahead
    <3>5. Exclusive(p)'
      BY <1>1, <1>3, <1>6, <2>1, <2>3, <3>4 DEF ProcInv, Exclusive
    <3>6. Preparing(p)'
      BY <1>1, <1>3, <1>5, <1>6, <1>7, <2>1, <2>2, <2>3, <3>4, Held
         DEF ProcInv, Preparing, Clean, Journals
    <3>7. Writing(p)' /\ Undoing(p)'
      BY <3>4 DEF Writing, Undoing
    <3> QED
      BY <3>3, <3>5, <3>6, <3>7 DEF ProcInv
  <2> QED
    BY <1>1, <1>2, <1>3, <2>1, <2>2, <2>3, Held, StepKeeps
<1>8. CASE Becomes(p, on) /\ UNCHANGED rollback
  <2>1. /\ proc' \in [Procs -> Processes] /\ proc'[p] = on
        /\ \A q \in Procs \ {p} : proc'[q] = proc[q]
    BY <1>4, <1>8, Held, BecomesType
  <2>2. ASSUME SafeInv
        PROVE  ProcInv(p)'
    <3>1. Ahead(proc[p])' = "capture"
      BY <1>4, <2>1 DEF Ahead
    <3>2. Exclusive(p)'
      BY <1>1, <1>3, <1>4, <2>1, <2>2, <3>1 DEF ProcInv, Exclusive
    <3>3. Preparing(p)'
      BY <1>1, <1>3, <1>4, <1>8, <2>1, <2>2, <3>1 DEF ProcInv, Preparing, Clean
    <3>4. Writing(p)' /\ Undoing(p)'
      BY <3>1 DEF Writing, Undoing
    <3> QED
      BY <3>2, <3>3, <3>4 DEF ProcInv
  <2> QED
    BY <1>1, <1>2, <1>8, <2>1, <2>2, Held, QuietStep
<1>9. CASE Goes(p, "end") /\ UNCHANGED rollback
  BY <1>1, <1>2, <1>9, EndsInv DEF Locked
<1> QED
  BY <1>7, <1>8, <1>9 DEF Capture, on, stored, listed

-----------------------------------------------------------------------------
(* The journal, the writes, and the undo.                                  *)
LEMMA WriteJournalInv ==
    ASSUME ApplyInv, NEW p \in Procs, WriteJournal(p)
    PROVE  ApplyInv'
<1>1. /\ proc[p].stage = "capture"
      /\ UNCHANGED <<live, rollback, unrestored, state, lock, crashes, edits>>
  BY DEF WriteJournal, At
<1>2. faults' \in 0 .. MaxFaults
  BY Held, FaultType DEF WriteJournal
<1>3. ASSUME SafeInv
      PROVE  FileInv /\ ProcInv(p) /\ Ahead(proc[p]) = "capture" /\ lock = p
  BY <1>1, <1>3 DEF SafeInv, ProcInv, Exclusive, Ahead, Locked
<1>4. CASE /\ journal' = proc[p].journal
           /\ Becomes(p, Setting([proc[p] EXCEPT !.at = 1], "applying", "write", "end"))
  <2> DEFINE r == [proc[p] EXCEPT !.at = 1]
  <2>1. r \in Processes /\ r.at = 1 /\ r.journal = proc[p].journal /\ r.undoing = proc[p].undoing
    <3>1. 1 \in 0 .. Len(Plan) + 1 /\ proc[p] \in Processes
      BY Held, Kinds
    <3> QED
      BY <3>1 DEF Processes
  <2>2. Becomes(p, Setting(r, "applying", "write", "end"))
    BY <1>4
  <2> HIDE DEF r
  <2>3. /\ proc' \in [Procs -> Processes]
        /\ \A q \in Procs \ {p} : proc'[q] = proc[q]
        /\ proc'[p].stage = "set" /\ proc'[p].at = 1
        /\ proc'[p].undoing = proc[p].undoing /\ proc'[p].journal = journal'
        /\ proc'[p].want = "applying" /\ proc'[p].then = "write" /\ proc'[p].orelse = "end"
    BY <1>4, <2>1, <2>2, Held, Names, SettingState
  <2>4. journal' \in Journals
    BY <1>4, Held
  <2>5. ASSUME SafeInv
        PROVE  FileInv' /\ ProcInv(p)'
    <3>1. /\ journal'.status = "applying" /\ journal'.files = Files
          /\ \A f \in journal'.existed : There(rollback[f])
          /\ state \notin {"applied", "recovery_required"}
          /\ \A f \in Files : Clean(f)
      BY <1>3, <1>4, <2>5 DEF ProcInv, Preparing
    <3>2. FileInv'
      BY <1>1, <1>3, <2>5, <3>1 DEF FileInv
    <3>3. Ahead(proc[p])' = "write"
      BY <2>3 DEF Ahead
    <3>4. Exclusive(p)'
      BY <1>1, <1>3, <2>3, <2>5, <3>3 DEF ProcInv, Exclusive
    <3>5. \A f \in Files : ~(f < 1)
      BY Kinds
    <3>6. Writing(p)'
      BY <1>1, <2>3, <3>1, <3>5 DEF Writing, Clean
    <3>7. Preparing(p)' /\ Undoing(p)'
      BY <3>3 DEF Preparing, Undoing
    <3> QED
      BY <3>2, <3>4, <3>6, <3>7 DEF ProcInv
  <2> QED
    BY <1>1, <1>2, <1>3, <2>3, <2>4, <2>5, Held, StepKeeps
<1>5. CASE Goes(p, "end") /\ UNCHANGED journal
  BY <1>1, <1>2, <1>5, EndsInv DEF Locked
<1> QED
  BY <1>4, <1>5 DEF WriteJournal

LEMMA WriteInv ==
    ASSUME ApplyInv, NEW p \in Procs, Write(p)
    PROVE  ApplyInv'
<1> DEFINE f == proc[p].at
<1>1. /\ proc[p].stage = "write" /\ f \in Files
      /\ UNCHANGED <<rollback, journal, state, lock, crashes, edits>>
  BY DEF Write, At
<1>2. faults' \in 0 .. MaxFaults
  BY Held, FaultType DEF Write
<1>3. ASSUME SafeInv
      PROVE  FileInv /\ ProcInv(p) /\ Ahead(proc[p]) = "write" /\ lock = p
  BY <1>1, <1>3 DEF SafeInv, ProcInv, Exclusive, Ahead, Locked
<1>4. CASE /\ live' = [live EXCEPT ![f] = After(f)] /\ unrestored' = unrestored \ {f}
           /\ GoesTo(p, "write", f + 1)
  <2>1. f + 1 \in 0 .. Len(Plan) + 1
    BY <1>1, Kinds
  <2>2. Continues(p, "write", f + 1)
    BY <1>4, <2>1, Held, Going, Names
  <2>3. After(f) \in Contents
    BY <1>1, Kinds DEF Contents
  <2>4. /\ live' \in [Files -> Contents] /\ live'[f] = After(f) /\ unrestored' \subseteq Files
        /\ \A g \in Files : g # f => live'[g] = live[g]
    BY <1>1, <1>4, <2>3, Held
  <2>5. ASSUME SafeInv
        PROVE  FileInv' /\ ProcInv(p)'
    <3>1. journal.status = "applying" /\ proc[p].journal = journal
      BY <1>3, <2>5 DEF ProcInv, Writing
    <3>2. FileInv'
      BY <1>1, <1>3, <2>5, <3>1 DEF FileInv
    <3>3. Ahead(proc[p])' = "write"
      BY <2>2 DEF Ahead, Continues
    <3>4. Exclusive(p)'
      BY <1>1, <1>3, <2>2, <2>5, <3>3 DEF ProcInv, Exclusive, Continues
    <3>5. ASSUME NEW g \in Files
          PROVE  IF g < f + 1 THEN Complete(g)' ELSE Clean(g)'
      <4>1. IF g < f THEN Complete(g) ELSE Clean(g)
        BY <1>3, <2>5 DEF ProcInv, Writing
      <4>2. g \in Int /\ f \in Int
        BY <1>1, Kinds
      <4>3. CASE g = f
        BY <2>4, <4>2, <4>3 DEF Complete
      <4>4. CASE g # f
        BY <2>4, <4>1, <4>2, <4>4 DEF Complete, Clean
      <4> QED
        BY <4>3, <4>4
    <3>6. f + 1 # 0
      BY <1>1, Kinds
    <3>7. Writing(p)'
      BY <1>1, <2>2, <3>1, <3>5, <3>6 DEF Writing, Continues
    <3>8. Preparing(p)' /\ Undoing(p)'
      BY <3>3 DEF Preparing, Undoing
    <3> QED
      BY <3>2, <3>4, <3>7, <3>8 DEF ProcInv
  <2> QED
    BY <1>1, <1>2, <1>3, <2>2, <2>4, <2>5, Held, StepKeeps DEF Continues
<1>5. CASE /\ Becomes(p, Setting([proc[p] EXCEPT !.undoing = "apply", !.at = f - 1],
                                 "rolling_back", "undo", "undo"))
           /\ UNCHANGED <<live, unrestored>>
  <2> DEFINE r == [proc[p] EXCEPT !.undoing = "apply", !.at = f - 1]
  <2>1. /\ r \in Processes /\ r.undoing = "apply" /\ r.at = f - 1 /\ r.journal = proc[p].journal
        /\ r.rollbackFailed = proc[p].rollbackFailed
    <3>1. f - 1 \in 0 .. Len(Plan) + 1 /\ proc[p] \in Processes
      BY <1>1, Held, Kinds
    <3> QED
      BY <3>1 DEF Processes
  <2>2. Becomes(p, Setting(r, "rolling_back", "undo", "undo"))
    BY <1>5
  <2> HIDE DEF r
  <2>3. /\ proc' \in [Procs -> Processes]
        /\ \A q \in Procs \ {p} : proc'[q] = proc[q]
        /\ proc'[p].stage = "set" /\ proc'[p].at = f - 1
        /\ proc'[p].undoing = "apply" /\ proc'[p].journal = proc[p].journal
        /\ proc'[p].want = "rolling_back" /\ proc'[p].then = "undo" /\ proc'[p].orelse = "undo"
    BY <2>1, <2>2, Held, Names, SettingState
  <2>4. ASSUME SafeInv
        PROVE  ProcInv(p)'
    <3>1. /\ journal.status = "applying" /\ proc[p].journal = journal
          /\ \A g \in Files : IF g < f THEN Complete(g) ELSE Clean(g)
      BY <1>3, <2>4 DEF ProcInv, Writing
    <3>2. \A g \in Files : g > f - 1 => ~(g < f)
      BY <1>1, Kinds
    <3>3. Ahead(proc[p])' = "undo"
      BY <2>3 DEF Ahead
    <3>4. Exclusive(p)'
      BY <1>1, <1>3, <2>3, <2>4, <3>3 DEF Exclusive
    <3>5. Undoing(p)'
      BY <1>1, <1>5, <2>3, <3>1, <3>2 DEF Undoing, Clean
    <3>6. Preparing(p)' /\ Writing(p)'
      BY <3>3 DEF Preparing, Writing
    <3> QED
      BY <3>4, <3>5, <3>6 DEF ProcInv
  <2> QED
    BY <1>1, <1>2, <1>5, <2>3, <2>4, Held, QuietStep
<1> QED
  BY <1>4, <1>5 DEF Write

LEMMA WrittenInv ==
    ASSUME ApplyInv, NEW p \in Procs, Written(p)
    PROVE  ApplyInv'
<1>1. /\ proc[p].stage = "write" /\ proc[p].at \notin Files
      /\ journal' = [proc[p].journal EXCEPT !.status = "applied"]
      /\ UNCHANGED <<live, rollback, unrestored, state, lock, bounds>>
  BY DEF Written, At
<1>2. /\ journal' \in Journals /\ journal'.status = "applied"
      /\ journal'.files = proc[p].journal.files /\ journal'.existed = proc[p].journal.existed
  <2>1. proc[p].journal \in Journals
    BY Held
  <2> QED
    BY <1>1, <2>1 DEF Journals
<1>3. /\ proc' \in [Procs -> Processes]
      /\ \A q \in Procs \ {p} : proc'[q] = proc[q]
      /\ proc'[p].stage = "set" /\ proc'[p].undoing = proc[p].undoing
      /\ proc'[p].want = "applied" /\ proc'[p].then = "end" /\ proc'[p].orelse = "end"
  BY Held, Names, SettingState DEF Written, Sets
<1>4. ASSUME SafeInv
      PROVE  lock = p /\ FileInv' /\ ProcInv(p)'
  <2>1. FileInv /\ ProcInv(p) /\ Ahead(proc[p]) = "write" /\ lock = p
    BY <1>1, <1>4 DEF SafeInv, ProcInv, Exclusive, Ahead, Locked
  <2>2. proc[p].at \in 0 .. Len(Plan) + 1
    BY Held
  <2>3. \A f \in Files : Complete(f)
    <3>1. proc[p].at # 0
      BY <2>1 DEF ProcInv, Writing
    <3>2. \A f \in Files : f < proc[p].at
      BY <1>1, <2>2, <3>1, Kinds
    <3> QED
      BY <2>1, <3>2 DEF ProcInv, Writing
  <2>4. proc[p].journal = journal /\ journal.status = "applying"
    BY <2>1 DEF ProcInv, Writing
  <2>5. FileInv'
    BY <1>1, <1>2, <2>1, <2>3, <2>4 DEF FileInv, Clean, Complete, Kept
  <2>6. Ahead(proc[p])' = "end"
    BY <1>3 DEF Ahead
  <2>7. Exclusive(p)'
    BY <1>1, <1>2, <1>3, <2>1, <2>6 DEF ProcInv, Exclusive
  <2>8. Preparing(p)' /\ Writing(p)' /\ Undoing(p)'
    BY <2>6 DEF Preparing, Writing, Undoing
  <2> QED
    BY <2>1, <2>5, <2>7, <2>8 DEF ProcInv
<1> QED
  BY <1>1, <1>2, <1>3, <1>4, Held, StepKeeps DEF bounds

(* Undoing one operation makes its file clean, or says that it did not.    *)
LEMMA UndoInv ==
    ASSUME ApplyInv, NEW p \in Procs, Undo(p)
    PROVE  ApplyInv'
<1>0. PICK f \in 0 .. Len(Plan) + 1 : f = proc[p].at
  BY Held
<1> DEFINE listed == proc[p].journal
           back == [proc[p] EXCEPT !.at = f - 1]
           failing == [back EXCEPT !.rollbackFailed = TRUE]
           lost == f \in listed.existed /\ ~There(rollback[f])
<1>1. /\ proc[p].stage = "undo" /\ f # 0
      /\ UNCHANGED <<rollback, journal, state, lock, crashes, edits>>
  BY <1>0 DEF Undo, At
<1>2. /\ listed \in Journals /\ listed.files \subseteq Files /\ listed.existed \subseteq Files
      /\ f \in 0 .. Len(Plan) + 1
  BY <1>0, Held DEF Journals
<1>3. /\ back \in Processes /\ back.stage = "undo" /\ back.at = f - 1 /\ back.journal = listed
      /\ back.undoing = proc[p].undoing /\ back.rollbackFailed = proc[p].rollbackFailed
  <2>1. f - 1 \in 0 .. Len(Plan) + 1 /\ proc[p] \in Processes
    BY <1>1, <1>2, Held, Kinds
  <2> QED
    BY <1>1, <2>1 DEF Processes
<1> HIDE DEF back
<1>4. /\ failing \in Processes /\ failing.stage = "undo" /\ failing.at = f - 1
      /\ failing.journal = listed /\ failing.undoing = proc[p].undoing /\ failing.rollbackFailed
  BY <1>3 DEF Processes
<1> HIDE DEF failing
<1>5. faults' \in 0 .. MaxFaults
  BY Held, FaultType DEF Undo
<1>6. PICK r \in {back, failing} :
        /\ Becomes(p, r)
        /\ \/ f \notin listed.files /\ r = back /\ UNCHANGED <<live, unrestored>>
           \/ /\ f \in listed.files /\ ~lost /\ r = back
              /\ live' = [live EXCEPT ![f] = Restored(p, f)] /\ unrestored' = unrestored \ {f}
           \/ f \in listed.files \cup listed.existed /\ r = back /\ UNCHANGED live
              /\ unrestored' = unrestored \cup {f}
           \/ r = failing /\ UNCHANGED <<live, unrestored>>
  <2> USE DEF back, failing
  <2> QED
    BY <1>0 DEF Undo
<1>7. r \in Processes /\ r.stage = "undo" /\ r.at = f - 1 /\ r.journal = listed
      /\ r.undoing = proc[p].undoing /\ (r = back => r.rollbackFailed = proc[p].rollbackFailed)
      /\ (r = failing => r.rollbackFailed)
  BY <1>3, <1>4
<1>8. /\ proc' \in [Procs -> Processes] /\ proc'[p] = r
      /\ \A q \in Procs \ {p} : proc'[q] = proc[q]
  BY <1>6, <1>7, Held, BecomesType
<1> HIDE DEF lost, listed
<1>9. live' \in [Files -> Contents] /\ unrestored' \subseteq Files
  <2>1. f \in listed.files => Restored(p, f) \in Contents
    BY <1>2, Held DEF Restored, Contents
  <2> QED
    BY <1>2, <1>6, <2>1, Held
<1>10. ASSUME SafeInv
       PROVE  lock = p /\ FileInv' /\ ProcInv(p)'
  <2>1. FileInv /\ ProcInv(p) /\ Ahead(proc[p]) = "undo" /\ lock = p
    BY <1>1, <1>10 DEF SafeInv, ProcInv, Exclusive, Ahead, Locked
  <2>2. /\ listed = journal /\ journal.files = Files
        /\ \/ proc[p].undoing \in {"apply", "reconcile"} /\ journal.status = "applying"
           \/ proc[p].undoing = "recover" /\ journal.status \in Kept
    BY <2>1 DEF ProcInv, Undoing, FileInv, Kept, listed
  <2>3. ASSUME f \in listed.files, ~lost
        PROVE  Restored(p, f) \in {Before(f)} \cup Theirs
    <3>1. f \in Files /\ rollback[f] \in {"none", "edit", Before(f)}
      BY <1>2, <2>1, <2>3 DEF FileInv
    <3>2. Plan[f] = "added" => Before(f) = "none"
      BY DEF Before
    <3> QED
      BY <2>3, <3>1, <3>2 DEF Restored, Theirs, There, lost, listed
  <2>4. /\ \A g \in Files \ {f} : live'[g] = live[g] /\ (g \in unrestored' <=> g \in unrestored)
        /\ \/ f \in Files => (Clean(f)' \/ f \in unrestored')
           \/ r = failing /\ UNCHANGED <<live, unrestored>>
    BY <1>2, <1>6, <1>9, <2>2, <2>3, Held DEF Clean
  <2>5. FileInv'
    <3>1. journal.status # "applied" /\ journal.status # "none"
      BY <2>2 DEF Kept
    <3>2. ASSUME journal.status = "rolled_back", NEW g \in Files, g \notin unrestored'
          PROVE  Clean(g)'
      <4>1. g \notin unrestored => Clean(g)
        BY <2>1, <3>2 DEF FileInv
      <4> QED
        BY <2>4, <3>2, <4>1 DEF Clean
    <3> QED
      BY <1>1, <2>1, <3>1, <3>2 DEF FileInv
  <2>6. Ahead(proc[p])' = "undo"
    BY <1>7, <1>8 DEF Ahead
  <2>7. Exclusive(p)'
    BY <1>1, <1>7, <1>8, <2>1, <2>6 DEF ProcInv, Exclusive
  <2>8. ASSUME ~r.rollbackFailed, NEW g \in Files, g \notin unrestored', g > f - 1
        PROVE  Clean(g)'
    <3>1. ~proc[p].rollbackFailed /\ r # failing
      BY <1>6, <1>7, <2>8
    <3>2. g = f \/ g > f
      BY <1>2, <2>8, Kinds
    <3>3. CASE g = f
      BY <2>4, <2>8, <3>1, <3>3
    <3>4. CASE g # f
      <4>1. Clean(g)
        BY <1>0, <2>1, <2>4, <2>8, <3>1, <3>2, <3>4 DEF ProcInv, Undoing
      <4> QED
        BY <2>4, <3>4, <4>1 DEF Clean
    <3> QED
      BY <3>3, <3>4
  <2>9. Undoing(p)'
    BY <1>1, <1>7, <1>8, <2>2, <2>8 DEF Undoing
  <2>10. Preparing(p)' /\ Writing(p)'
    BY <2>6 DEF Preparing, Writing
  <2> QED
    BY <2>1, <2>5, <2>7, <2>9, <2>10 DEF ProcInv
<1> QED
  BY <1>1, <1>5, <1>8, <1>9, <1>10, Held, StepKeeps

LEMMA UndoneInv ==
    ASSUME ApplyInv, NEW p \in Procs, Undone(p)
    PROVE  ApplyInv'
<1> DEFINE status == IF proc[p].rollbackFailed THEN "failed" ELSE "rolled_back"
           next == IF proc[p].undoing = "reconcile" /\ ~proc[p].rollbackFailed
                   THEN "ready" ELSE "end"
           want == IF proc[p].rollbackFailed THEN "recovery_required" ELSE "ready_for_review"
<1>1. /\ proc[p].stage = "undo" /\ proc[p].at = 0
      /\ journal' = [proc[p].journal EXCEPT !.status = status]
      /\ Sets(p, want, next, next)
      /\ UNCHANGED <<live, rollback, unrestored, state, lock, bounds>>
  BY DEF Undone, At
<1>2. /\ status \in {"failed", "rolled_back"} /\ next \in {"ready", "end"}
      /\ want \in {"recovery_required", "ready_for_review"}
      /\ want = "recovery_required" => status = "failed" /\ next = "end"
      /\ status = "rolled_back" => ~proc[p].rollbackFailed
  OBVIOUS
<1> HIDE DEF status, next, want
<1>3. /\ journal' \in Journals /\ journal'.status = status
      /\ journal'.files = proc[p].journal.files /\ journal'.existed = proc[p].journal.existed
  <2>1. proc[p].journal \in Journals
    BY Held
  <2> QED
    BY <1>1, <1>2, <2>1 DEF Journals
<1>4. /\ proc' \in [Procs -> Processes]
      /\ \A q \in Procs \ {p} : proc'[q] = proc[q]
      /\ proc'[p].stage = "set" /\ proc'[p].undoing = proc[p].undoing
      /\ proc'[p].want = want /\ proc'[p].then = next /\ proc'[p].orelse = next
  BY <1>1, <1>2, Held, Names, SettingState DEF Sets
<1>5. ASSUME SafeInv
      PROVE  lock = p /\ FileInv' /\ ProcInv(p)'
  <2>1. FileInv /\ ProcInv(p) /\ Ahead(proc[p]) = "undo" /\ lock = p
    BY <1>1, <1>5 DEF SafeInv, ProcInv, Exclusive, Ahead, Locked
  <2>2. /\ proc[p].journal = journal /\ journal.status \in {"applying"} \cup Kept
        /\ journal.files = Files
    BY <2>1 DEF ProcInv, Undoing, FileInv, Kept
  <2>3. status = "rolled_back" => \A f \in Files \ unrestored : Clean(f)
    <3>1. \A f \in Files : f > 0
      BY Kinds
    <3> QED
      BY <1>1, <1>2, <2>1, <3>1 DEF ProcInv, Undoing
  <2>4. state # "applied"
    BY <2>1, <2>2 DEF FileInv, Kept
  <2>5. FileInv'
    BY <1>1, <1>2, <1>3, <2>1, <2>2, <2>3, <2>4 DEF FileInv, Clean, Kept
  <2>6. Ahead(proc[p])' = next
    BY <1>2, <1>4 DEF Ahead
  <2>7. Exclusive(p)'
    BY <1>1, <1>2, <1>3, <1>4, <2>1, <2>6 DEF ProcInv, Exclusive
  <2>8. Preparing(p)' /\ Writing(p)' /\ Undoing(p)'
    BY <1>2, <1>3, <2>6 DEF Preparing, Writing, Undoing
  <2> QED
    BY <2>1, <2>5, <2>7, <2>8 DEF ProcInv
<1> QED
  BY <1>1, <1>2, <1>3, <1>4, <1>5, Held, StepKeeps DEF bounds

LEMMA ResolveInv ==
    ASSUME ApplyInv, NEW p \in Procs, Resolve(p)
    PROVE  ApplyInv'
<1>1. /\ proc[p].stage = "resolve"
      /\ journal' = [proc[p].journal EXCEPT !.status = "resolved"]
      /\ UNCHANGED <<live, rollback, unrestored, state, lock, bounds>>
  BY DEF Resolve, At
<1>2. /\ journal' \in Journals /\ journal'.status = "resolved"
      /\ journal'.files = proc[p].journal.files /\ journal'.existed = proc[p].journal.existed
  <2>1. proc[p].journal \in Journals
    BY Held
  <2> QED
    BY <1>1, <2>1 DEF Journals
<1>3. /\ proc' \in [Procs -> Processes]
      /\ \A q \in Procs \ {p} : proc'[q] = proc[q]
      /\ proc'[p].stage = "set" /\ proc'[p].undoing = proc[p].undoing
      /\ proc'[p].want = "ready_for_review" /\ proc'[p].then = "idle" /\ proc'[p].orelse = "idle"
  BY Held, Names, SettingState DEF Resolve, Sets
<1>4. ASSUME SafeInv
      PROVE  proc[p].undoing = "recover" /\ FileInv' /\ ProcInv(p)'
  <2>1. FileInv /\ ProcInv(p)
    BY <1>4 DEF SafeInv
  <2>2. /\ proc[p].undoing = "recover" /\ proc[p].journal = journal /\ journal.status \in Kept
    BY <1>1, <2>1 DEF ProcInv, Exclusive
  <2>3. FileInv'
    BY <1>1, <1>2, <2>1, <2>2 DEF FileInv, Kept, Clean
  <2>4. Ahead(proc[p])' = "idle"
    BY <1>3 DEF Ahead
  <2>5. ProcInv(p)'
    BY <1>3, <2>1, <2>4 DEF ProcInv, Exclusive, Preparing, Writing, Undoing, Locked
  <2> QED
    BY <2>2, <2>3, <2>5
<1> QED
  BY <1>1, <1>2, <1>3, <1>4, Held, StepKeeps DEF bounds

(* Somebody else's edit takes a file out of everybody's concern.           *)
LEMMA EditInv ==
    ASSUME ApplyInv, NEW f \in Files, Edit(f)
    PROVE  ApplyInv'
<1>1. PICK content \in Theirs : live' = [live EXCEPT ![f] = content]
  BY DEF Edit, Theirs
<1>2. /\ UNCHANGED <<rollback, journal, unrestored, state, lock, proc, crashes, faults>>
      /\ edits' \in 0 .. MaxEdits
  BY Held DEF Edit
<1>3. live' \in [Files -> Contents]
  BY <1>1, Held DEF Theirs, Contents
<1>4. ApplyTypeOK'
  BY <1>2, <1>3, Held DEF ApplyTypeOK
<1>5. \A g \in Files : (Clean(g) => Clean(g)') /\ (Complete(g) => Complete(g)')
  BY <1>1, Held DEF Clean, Complete
<1>6. SafeInv => FileInv'
  BY <1>2, <1>5 DEF SafeInv, FileInv
<1>7. ASSUME SafeInv, NEW p \in Procs
      PROVE  ProcInv(p)'
  <2>1. ProcInv(p)
    BY <1>7 DEF SafeInv
  <2>2. Exclusive(p)' /\ Ahead(proc[p])' = Ahead(proc[p])
    BY <1>2, <2>1 DEF ProcInv, Exclusive, Ahead
  <2>3. Preparing(p)'
    BY <1>2, <1>5, <2>1, <2>2 DEF ProcInv, Preparing
  <2>4. Writing(p)' /\ Undoing(p)'
    BY <1>2, <1>5, <2>1, <2>2 DEF ProcInv, Writing, Undoing
  <2> QED
    BY <2>2, <2>3, <2>4 DEF ProcInv
<1> QED
  BY <1>4, <1>6, <1>7 DEF ApplyInv, SafeInv

-----------------------------------------------------------------------------
LEMMA ApplyStarts == ApplyInit => ApplyInv
<1> SUFFICES ASSUME ApplyInit
             PROVE  ApplyInv
  OBVIOUS
<1>1. /\ proc \in [Procs -> Processes] /\ \A p \in Procs : proc[p] = Idle
      /\ journal = NoJournal /\ journal \in Journals
  BY IdleType DEF ApplyInit
<1>2. /\ live \in [Files -> Contents] /\ rollback \in [Files -> Contents]
      /\ \A f \in Files : Clean(f) /\ rollback[f] = "none"
  BY Kinds DEF ApplyInit, Contents, Clean
<1>3. ApplyTypeOK
  <2>1. state \in States /\ lock \in Procs \cup {NoProc} /\ unrestored \subseteq Files
    BY Names DEF ApplyInit
  <2>2. crashes \in 0 .. MaxCrashes /\ faults \in 0 .. MaxFaults /\ edits \in 0 .. MaxEdits
    BY ApplyNames DEF ApplyInit
  <2> QED
    BY <1>1, <1>2, <2>1, <2>2 DEF ApplyTypeOK
<1>4. FileInv
  BY <1>1, <1>2 DEF ApplyInit, FileInv, NoJournal
<1>5. \A p \in Procs : ProcInv(p)
  BY <1>1, IdleType DEF ProcInv, Exclusive, Preparing, Writing, Undoing, Ahead, Locked
<1> QED
  BY <1>3, <1>4, <1>5 DEF ApplyInv, SafeInv

LEMMA ApplySteps == ApplyInv /\ [ApplyNext]_vars => ApplyInv'
<1> SUFFICES ASSUME ApplyInv, [ApplyNext]_vars
             PROVE  ApplyInv'
  OBVIOUS
<1>1. ASSUME NEW p \in Procs, Start(p)
      PROVE  ApplyInv'
  BY <1>1, StartApplyInv, StartRecoverInv, OtherCommandsInv DEF Start
<1>2. ASSUME NEW p \in Procs, Step(p)
      PROVE  ApplyInv'
  BY <1>2, AcquireInv, EndingInv, ReconcileInv, UndoInv, UndoneInv, CheckReadyInv,
     CheckStaleInv, ClearInv, CaptureInv, WriteJournalInv, WriteInv, WrittenInv,
     ResolveInv, SuperviseInv, SetReadsInv, SetWritesInv DEF Step
<1>3. ASSUME NEW p \in Procs, Crash(p)
      PROVE  ApplyInv'
  BY <1>3, EndingInv
<1>4. ASSUME NEW f \in Files, Edit(f)
      PROVE  ApplyInv'
  BY <1>4, EditInv
<1>5. CASE UNCHANGED vars
  <2>1. UNCHANGED <<live, rollback, journal, unrestored, state, lock, proc, crashes, faults, edits>>
    BY <1>5 DEF vars
  <2>2. ApplyTypeOK'
    BY <2>1, Held DEF ApplyTypeOK
  <2>3. SafeInv => FileInv'
    BY <2>1 DEF SafeInv, FileInv, Clean, Complete
  <2>4. ASSUME SafeInv, NEW p \in Procs
        PROVE  ProcInv(p)'
    <3>1. ProcInv(p) /\ Ahead(proc[p])' = Ahead(proc[p])
      BY <2>1, <2>4 DEF SafeInv, Ahead
    <3>2. Exclusive(p)'
      BY <2>1, <3>1 DEF ProcInv, Exclusive
    <3>3. Preparing(p)' /\ Writing(p)' /\ Undoing(p)'
      BY <2>1, <3>1 DEF ProcInv, Preparing, Writing, Undoing, Clean, Complete
    <3> QED
      BY <3>2, <3>3 DEF ProcInv
  <2> QED
    BY <2>2, <2>3, <2>4 DEF ApplyInv, SafeInv
<1> QED
  BY <1>1, <1>2, <1>3, <1>4, <1>5 DEF ApplyNext

(* What the commands rely on, and what the journal and the row say of the  *)
(* files, for any plan, any number of commands, crashes, refusals and      *)
(* edits.                                                                  *)
THEOREM ApplyInvariantHolds == ApplySpec => []ApplyInv
<1> QED
  BY ApplyStarts, ApplySteps, PTL DEF ApplySpec

(* The forms of the files, the journal, the row and the commands, however  *)
(* operators recover.                                                      *)
THEOREM ApplyTypeCorrect == ApplySpec => []ApplyTypeOK
<1>1. ApplyInv => ApplyTypeOK
  BY DEF ApplyInv
<1> QED
  BY <1>1, ApplyInvariantHolds, PTL

(* ApplyRevision applies a revision as a whole or not at all, whichever    *)
(* writes fail, whichever commands are killed and whichever come in        *)
(* between, if operators recover only where it is required and with        *)
(* nothing else under way.                                                 *)
THEOREM AppliedAsAWhole == ASSUME Careful PROVE ApplySpec => []AllOrNothing
<1>1. ApplyInv => AllOrNothing
  BY DEF ApplyInv, SafeInv, FileInv, AllOrNothing, Clean, Complete
<1> QED
  BY <1>1, ApplyInvariantHolds, PTL

(* What an undo restores is there, and is what the workspace had before    *)
(* any of the revision's applies.                                          *)
THEOREM PreImagesKept == ASSUME Careful PROVE ApplySpec => []PreImagesAreOriginal
<1>1. ApplyInv => PreImagesAreOriginal
  BY Kinds DEF ApplyInv, SafeInv, FileInv, PreImagesAreOriginal, ApplyTypeOK, Journals, Before
<1> QED
  BY <1>1, ApplyInvariantHolds, PTL

-----------------------------------------------------------------------------
(* The templates catalog: proofs about TemplateCatalog.                    *)
(* A catalog that is live or retired is whole; a stage may be half removed,*)
(* or without its provenance file, and of a directory that is gone nothing *)
(* is left, unless it was the empty one of bootstrap.  There are as many   *)
(* directories as were made.                                               *)
DirInv(d) ==
    /\ dirs[d].place = "none" => dirs[d] = Absence
    /\ dirs[d].place \in {"cache", "previous"} => Whole(d)
    /\ dirs[d].place = "stage" => Whole(d) \/ dirs[d].tree = Torn
    /\ dirs[d].place = "gone" => dirs[d].tree \in {Torn, Empty}
    /\ d > staged + 3 => dirs[d].place = "none"
OneCache == \A d, e \in Dirs : dirs[d].place = "cache" /\ dirs[e].place = "cache" => d = e
Visible(d) == dirs[d].place \in {"previous", "gone"} /\ dirs[d].tree # Torn

Active == activation # NoActivation
NewIsLive == dirs[activation.stage].place = "cache"

(* What the journal names: the stage is the new catalog or what is left of *)
(* it, the previous one is live or retired, whole.  A third directory that *)
(* is live is an empty one of bootstrap.  Only a first catalog may be live *)
(* without its provenance file.                                            *)
JournalInv ==
    Active =>
        /\ activation.stage \in Dirs /\ activation.new \in Catalogs
        /\ dirs[activation.stage].place \in {"stage", "cache", "gone"}
        /\ dirs[activation.stage].tree \in {activation.new, Torn}
        /\ dirs[activation.stage].place = "gone" => dirs[activation.stage].tree = Torn
        /\ dirs[activation.stage].place # "gone" =>
               dirs[activation.stage].label \in {activation.new, Empty}
        /\ activation.previous # NoDir /\ NewIsLive =>
               dirs[activation.stage].label = activation.new
        /\ activation.previous # NoDir =>
               /\ activation.previous \in Dirs
               /\ dirs[activation.previous].place \in {"cache", "previous"}
               /\ dirs[activation.previous].tree = activation.old
               /\ activation.old # activation.new
        /\ Live \in {NoDir, activation.stage, activation.previous} \/ dirs[Live].tree = Empty

(* While nothing but an empty directory is live, every catalog that was is *)
(* the previous one of the journal.                                        *)
NothingLost ==
    /\ ~Active /\ (Live = NoDir \/ dirs[Live].tree = Empty) => \A d \in Dirs : ~Visible(d)
    /\ Active /\ ~NewIsLive /\ (activation.previous = NoDir \/ activation.old = Empty) =>
           \A d \in Dirs \ {activation.previous} : ~Visible(d)

(* The UI has mounted the directory, or a catalog with its content, or     *)
(* will get one.                                                           *)
Gone(d) == dirs[d].place = "gone"
Shown(d) ==
    mounted # NoDir =>
        \/ mounted = d \/ Gone(mounted)
        \/ /\ dirs[d].label = dirs[d].tree
           /\ \/ dirs[mounted].label = dirs[d].label
              \/ refresh.required /\ refresh.content = dirs[d].label
MountInv ==
    /\ mounted # NoDir => mounted \in Dirs /\ dirs[mounted].place \in {"cache", "previous", "gone"}
    /\ ~Active => IF Live = NoDir THEN mounted = NoDir ELSE Shown(Live)
    /\ Active /\ activation.previous = NoDir =>
           mounted = NoDir \/ mounted = Live \/ Gone(mounted)
    /\ Active /\ activation.previous # NoDir /\ ~NewIsLive =>
           Shown(activation.previous) \/ mounted = Live

(* The commands that hold the lock, and what they hold.                    *)
Recovering == {"recover", "refresh", "drop", "clear"}
Activating == {"journal", "retire", "activate"}
Excluding == Recovering \cup Activating \cup {"stage", "probe", "cleanup", "prune"}
ToSync(r) ==
    \/ r.pc \in {"ensure", "check", "stage"} \cup Activating
    \/ r.pc = "lock" /\ r.kind # "prune"
    \/ r.pc \in Recovering /\ r.then \in {"check", "stage"}
FormInv(r) ==
    /\ r.lock = "exclusive" <=> r.pc \in Excluding
    /\ r.lock = "shared" => r.pc \in {"read", "copy"}
    /\ r.pc \in Recovering => /\ r.then \in {"check", "stage", "prune", "probe", "cleanup"}
                              /\ r.then \in {"probe", "cleanup"} => r.stage # NoDir
    /\ r.pc \in Activating => r.stage # NoDir /\ r.then = "probe"
    /\ r.pc \in {"probe", "cleanup"} => r.stage # NoDir
    /\ ToSync(r) => r.want \in Catalogs

(* What they know of the catalog that nobody else changes.                 *)
KnowsInv(r) ==
    /\ r.pc \in {"stage", "prune", "probe", "journal"} => ~Active
    /\ r.pc = "journal" => Live = NoDir \/ dirs[Live].tree # r.want
    /\ r.pc \in Activating =>
           /\ dirs[r.stage].place = "stage"
           /\ dirs[r.stage].tree = r.want /\ dirs[r.stage].label = r.want
    /\ r.pc \in {"retire", "activate"} =>
           Active /\ activation.stage = r.stage /\ activation.new = r.want
    /\ r.pc = "retire" => Live # NoDir /\ Live = activation.previous
    /\ r.pc = "activate" =>
           Live = NoDir \/ (Live # activation.previous /\ dirs[Live].tree = Empty)
    /\ r.pc = "refresh" => Active /\ NewIsLive
    /\ r.pc = "drop" => Active /\ Live # NoDir /\ Live = activation.previous /\ StageThere
    /\ r.pc = "clear" => /\ Active /\ Live # NoDir
                         /\ IF NewIsLive THEN Shown(Live)
                            ELSE Live = activation.previous
    /\ r.pc = "copy" /\ r.lock = "shared" => Live # NoDir /\ Live = r.root

LocksInv ==
    \A c \in Commands : \A e \in Commands \ {c} :
        commands[c].lock = "exclusive" => commands[e].lock = "none"

CatalogInv ==
    /\ CatalogTypeOK
    /\ \A d \in Dirs : DirInv(d)
    /\ OneCache /\ JournalInv /\ NothingLost /\ MountInv /\ LocksInv
    /\ \A c \in Commands : FormInv(commands[c]) /\ KnowsInv(commands[c])
DirRecords == [place : {"none", "cache", "stage", "previous", "gone"},
               tree : Trees, label : Catalogs \cup {Empty}]
JournalRecords == [stage : Dirs \cup {NoDir}, previous : Dirs \cup {NoDir},
                   new : Catalogs \cup {Empty}, old : Catalogs \cup {Empty}]
RefreshRecords == [required : BOOLEAN, content : Catalogs \cup {Empty}]
CommandRecords ==
    [kind : {"none", "sync", "install", "prune"},
     pc : {"idle", "ensure", "check", "lock", "recover", "refresh", "drop", "clear",
           "stage", "journal", "retire", "activate", "probe", "cleanup", "prune",
           "stat", "share", "read", "copy"},
     want : Catalogs \cup {Empty}, stage : Dirs \cup {NoDir},
     lock : {"none", "shared", "exclusive"},
     then : {"none", "check", "stage", "prune", "probe", "cleanup"},
     failed : BOOLEAN, root : Dirs \cup {NoDir}]

Tables == /\ dirs \in [Dirs -> DirRecords] /\ activation \in JournalRecords
          /\ refresh \in RefreshRecords /\ mounted \in Dirs \cup {NoDir}
          /\ staged \in 0..MaxSyncs
World == /\ Tables /\ \A d \in Dirs : DirInv(d)
         /\ OneCache /\ JournalInv /\ NothingLost /\ MountInv

LEMMA CatalogTypes ==
    CatalogTypeOK <=> /\ Tables /\ commands \in [Commands -> CommandRecords]
                      /\ upsets \in 0..MaxUpsets
BY DEF CatalogTypeOK, Tables, DirRecords, JournalRecords, RefreshRecords, CommandRecords

LEMMA NamesDiffer ==
    /\ \A x \in Catalogs : x # Empty /\ x # Torn
    /\ Empty # Torn /\ MaxSyncs \in Nat /\ MaxUpsets \in Nat /\ Keep \in Nat
    /\ NoDir \notin Dirs /\ \A d \in Dirs : d \in Nat
BY CatalogNames DEF NoDir, Dirs

LEMMA RestedType ==
    /\ Rested \in CommandRecords /\ Rested.pc = "idle" /\ Rested.lock = "none"
    /\ FormInv(Rested) /\ KnowsInv(Rested) /\ KnowsInv(Rested)'
<1>1. Rested \in CommandRecords
  BY DEF Rested, CommandRecords, NoDir
<1>2. Rested.pc = "idle" /\ Rested.lock = "none"
  BY DEF Rested
<1> HIDE DEF Rested
<1> QED
  BY <1>1, <1>2 DEF FormInv, KnowsInv, ToSync, Excluding, Recovering, Activating

(* The directory that is live is the one whose place is the cache.         *)
LEMMA LiveNow ==
    ASSUME OneCache
    PROVE  /\ Live # NoDir => Live \in Dirs /\ dirs[Live].place = "cache"
           /\ \A d \in Dirs : dirs[d].place = "cache" => d = Live
           /\ Live = NoDir <=> \A d \in Dirs : dirs[d].place # "cache"
<1> DEFINE S == {d \in Dirs : dirs[d].place = "cache"}
<1>1. Live = IF S = {} THEN NoDir ELSE CHOOSE d \in S : TRUE
  BY DEF Live, In
<1>2. CASE S = {}
  BY <1>1, <1>2, NamesDiffer
<1>3. CASE S # {}
  <2>1. Live \in S
    BY <1>1, <1>3
  <2> QED
    BY <2>1, NamesDiffer DEF OneCache
<1> QED
  BY <1>2, <1>3

LEMMA LiveNext ==
    ASSUME OneCache'
    PROVE  /\ Live' # NoDir => Live' \in Dirs /\ dirs'[Live'].place = "cache"
           /\ \A d \in Dirs : dirs'[d].place = "cache" => d = Live'
           /\ Live' = NoDir <=> \A d \in Dirs : dirs'[d].place # "cache"
<1> DEFINE S == {d \in Dirs : dirs'[d].place = "cache"}
<1>1. Live' = IF S = {} THEN NoDir ELSE CHOOSE d \in S : TRUE
  BY DEF Live, In
<1>2. CASE S = {}
  BY <1>1, <1>2, NamesDiffer
<1>3. CASE S # {}
  <2>1. Live' \in S
    BY <1>1, <1>3
  <2> QED
    BY <2>1, NamesDiffer DEF OneCache
<1> QED
  BY <1>2, <1>3

LEMMA LiveStays ==
    ASSUME OneCache, OneCache',
           \A d \in Dirs : dirs'[d].place = "cache" <=> dirs[d].place = "cache"
    PROVE  Live' = Live
BY LiveNow, LiveNext

LEMMA WorldHolds ==
    ASSUME CatalogInv
    PROVE  /\ World /\ LocksInv
           /\ commands \in [Commands -> CommandRecords] /\ upsets \in 0..MaxUpsets
           /\ \A c \in Commands : /\ commands[c] \in CommandRecords
                                  /\ FormInv(commands[c]) /\ KnowsInv(commands[c])
<1>1. Tables /\ commands \in [Commands -> CommandRecords] /\ upsets \in 0..MaxUpsets
  BY CatalogTypes DEF CatalogInv
<1> QED
  BY <1>1 DEF CatalogInv, World

(* A step of one command: it keeps what it knows in its new state, and the *)
(* directories and the journal change only under its lock.                 *)
LEMMA CommandStep ==
    ASSUME CatalogInv, World', upsets' \in 0..MaxUpsets,
           NEW c \in Commands, NEW r \in CommandRecords, Turn(c, r),
           FormInv(r), KnowsInv(r)',
           r.lock = "exclusive" => commands[c].lock = "exclusive" \/ MayExclude(c),
           r.lock = "shared" => commands[c].lock = "shared" \/ MayShare(c),
           \/ commands[c].lock = "exclusive"
           \/ UNCHANGED <<dirs, activation, refresh, mounted>>
    PROVE  CatalogInv'
<1>1. /\ commands' \in [Commands -> CommandRecords] /\ commands'[c] = r
      /\ \A e \in Commands \ {c} : commands'[e] = commands[e]
  BY WorldHolds DEF Turn
<1>2. \A e \in Commands : commands[e] \in CommandRecords
  BY WorldHolds
<1>3. CatalogTypeOK'
  BY <1>1 DEF World, Tables, CatalogTypeOK, DirRecords, JournalRecords,
                      RefreshRecords, CommandRecords
<1>4. LocksInv'
  <2> SUFFICES ASSUME NEW e \in Commands, NEW f \in Commands \ {e},
                      commands'[e].lock = "exclusive"
               PROVE  commands'[f].lock = "none"
    BY DEF LocksInv
  <2>1. CASE e = c
    BY <1>1, <1>2, <2>1, WorldHolds DEF LocksInv, MayExclude, Unlocked, CommandRecords
  <2>2. CASE f = c
    <3>1. commands[e].lock = "exclusive" /\ commands[f].lock = "none"
      BY <1>1, <2>2, WorldHolds DEF LocksInv
    <3> QED
      BY <1>1, <2>2, <3>1 DEF MayExclude, MayShare, Unlocked, CommandRecords
  <2>3. CASE e # c /\ f # c
    BY <1>1, <2>3, WorldHolds DEF LocksInv
  <2> QED
    BY <2>1, <2>2, <2>3
<1>5. ASSUME NEW e \in Commands
      PROVE  FormInv(commands[e])' /\ KnowsInv(commands[e])'
  <2>1. CASE e = c
    BY <1>1, <2>1 DEF FormInv, KnowsInv
  <2>2. CASE e # c /\ UNCHANGED <<dirs, activation, refresh, mounted>>
    <3>1. FormInv(commands[e]) /\ KnowsInv(commands[e]) /\ commands'[e] = commands[e]
      BY <1>1, <2>2, WorldHolds
    <3>2. Live' = Live /\ (StageThere' <=> StageThere) /\ (Active' <=> Active)
          /\ (NewIsLive' <=> NewIsLive) /\ (Shown(Live)' <=> Shown(Live))
      BY <2>2 DEF Live, In, StageThere, Active, NewIsLive, Shown, Gone
    <3> QED
      BY <2>2, <3>1, <3>2 DEF FormInv, KnowsInv
  <2>3. CASE e # c /\ commands[c].lock = "exclusive"
    <3>1. FormInv(commands[e]) /\ commands'[e] = commands[e] /\ commands[e].lock = "none"
      BY <1>1, <2>3, WorldHolds DEF LocksInv
    <3>2. commands[e].pc \notin Excluding
      BY <3>1 DEF FormInv
    <3> QED
      BY <3>1, <3>2 DEF FormInv, KnowsInv, ToSync, Excluding, Recovering, Activating
  <2> QED
    BY <2>1, <2>2, <2>3
<1> QED
  BY <1>3, <1>4, <1>5 DEF World, CatalogInv

(* Nothing but the command changes.                                        *)
LEMMA SameWorld ==
    ASSUME CatalogInv, UNCHANGED <<dirs, activation, refresh, mounted, staged>>
    PROVE  /\ World' /\ Live' = Live /\ (StageThere' <=> StageThere) /\ (Active' <=> Active)
           /\ (NewIsLive' <=> NewIsLive) /\ (Shown(Live)' <=> Shown(Live))
<1>1. World
  BY WorldHolds
<1>2. Live' = Live /\ In("cache")' = In("cache")
  BY DEF Live, In
<1>3. Tables'
  BY <1>1 DEF World, Tables
<1>4. \A d \in Dirs : DirInv(d)'
  BY <1>1 DEF World, DirInv, Whole
<1>5. OneCache'
  BY <1>1 DEF World, OneCache
<1>6. JournalInv'
  BY <1>1, <1>2 DEF World, JournalInv, Active, NewIsLive
<1>7. NothingLost'
  BY <1>1, <1>2 DEF World, NothingLost, Active, NewIsLive, Visible
<1>8. MountInv'
  BY <1>1, <1>2 DEF World, MountInv, Active, NewIsLive, Shown, Gone
<1> QED
  BY <1>2, <1>3, <1>4, <1>5, <1>6, <1>7, <1>8 DEF World, StageThere, Active, NewIsLive, Shown, Gone

LEMMA OnlyCommand ==
    ASSUME CatalogInv, UNCHANGED <<dirs, activation, refresh, mounted, staged>>,
           upsets' \in 0..MaxUpsets,
           NEW c \in Commands, NEW r \in CommandRecords, Turn(c, r), FormInv(r), KnowsInv(r),
           r.lock = "exclusive" => commands[c].lock = "exclusive" \/ MayExclude(c),
           r.lock = "shared" => commands[c].lock = "shared" \/ MayShare(c)
    PROVE  CatalogInv'
<1>1. World' /\ Live' = Live /\ (StageThere' <=> StageThere) /\ (Active' <=> Active)
      /\ (NewIsLive' <=> NewIsLive) /\ (Shown(Live)' <=> Shown(Live))
  BY SameWorld
<1>2. KnowsInv(r)'
  BY <1>1 DEF KnowsInv
<1> QED
  BY <1>1, <1>2, CommandStep

-----------------------------------------------------------------------------
(* Steps of a command that change no directory and no file.                *)
LEMMA EndsKeeps ==
    ASSUME CatalogInv, NEW c \in Commands, Ends(c), upsets' \in 0..MaxUpsets,
           UNCHANGED <<dirs, activation, refresh, mounted, staged>>
    PROVE  CatalogInv'
BY RestedType, OnlyCommand DEF Ends

LEMMA GivesUpKeeps ==
    ASSUME CatalogInv, NEW c \in Commands, commands[c].pc \in Excluding, GivesUp(c),
           upsets' \in 0..MaxUpsets, UNCHANGED <<dirs, activation, refresh, mounted, staged>>
    PROVE  CatalogInv'
<1> DEFINE r == [commands[c] EXCEPT !.pc = "cleanup", !.failed = TRUE]
<1>1. CASE Ends(c)
  BY <1>1, EndsKeeps
<1>2. CASE commands[c].stage # NoDir /\ Turn(c, r)
  <2>1. commands[c] \in CommandRecords /\ FormInv(commands[c])
    BY WorldHolds
  <2>2. /\ r \in CommandRecords /\ r.pc = "cleanup" /\ r.lock = commands[c].lock
        /\ r.stage = commands[c].stage
    BY <2>1 DEF CommandRecords
  <2>3. commands[c].lock = "exclusive" /\ Turn(c, r)
    BY <1>2, <2>1 DEF FormInv
  <2> HIDE DEF r
  <2>4. FormInv(r) /\ KnowsInv(r)
    BY <1>2, <2>2, <2>3 DEF FormInv, KnowsInv, ToSync, Excluding, Recovering, Activating
  <2> QED
    BY <2>2, <2>3, <2>4, OnlyCommand
<1> QED
  BY <1>1, <1>2 DEF GivesUp

LEMMA StartsInv ==
    ASSUME CatalogInv, NEW c \in Commands,
           \/ \E content \in Catalogs : StartSync(c, content) \/ StartInstall(c, content)
           \/ StartPrune(c)
    PROVE  CatalogInv'
<1>1. PICK kind \in {"sync", "install", "prune"}, pc \in {"lock", "ensure"},
           want \in Catalogs \cup {Empty} :
        /\ Turn(c, [Rested EXCEPT !.kind = kind, !.pc = pc, !.want = want])
        /\ want \in Catalogs \/ (pc = "lock" /\ kind = "prune")
  <2>1. ASSUME StartPrune(c)
        PROVE  Turn(c, [Rested EXCEPT !.kind = "prune", !.pc = "lock", !.want = Empty])
    <3>1. [Rested EXCEPT !.kind = "prune", !.pc = "lock"]
            = [Rested EXCEPT !.kind = "prune", !.pc = "lock", !.want = Empty]
      <4>1. Rested.want = Empty
        BY DEF Rested
      <4> QED
        BY <4>1, RestedType DEF CommandRecords
    <3> QED
      BY <2>1, <3>1 DEF StartPrune
  <2> QED
    BY <2>1 DEF StartSync, StartInstall
<1> DEFINE r == [Rested EXCEPT !.kind = kind, !.pc = pc, !.want = want]
<1>2. /\ r \in CommandRecords /\ r.lock = "none" /\ r.pc = pc /\ r.kind = kind /\ r.want = want
  BY RestedType DEF CommandRecords
<1>3. Turn(c, r)
  BY <1>1
<1> HIDE DEF r
<1>4. FormInv(r) /\ KnowsInv(r)
  BY <1>1, <1>2 DEF FormInv, KnowsInv, ToSync, Excluding, Recovering, Activating
<1>5. /\ UNCHANGED <<dirs, activation, refresh, mounted, staged>>
      /\ upsets' \in 0..MaxUpsets
  BY WorldHolds DEF StartSync, StartInstall, StartPrune
<1> QED
  BY <1>2, <1>3, <1>4, <1>5, OnlyCommand

LEMMA EnsureInv ==
    ASSUME CatalogInv, NEW c \in Commands, EnsureRecovered(c) \/ EnsureCurrent(c)
    PROVE  CatalogInv'
<1>1. /\ commands[c] \in CommandRecords /\ FormInv(commands[c])
      /\ commands[c].pc \in {"ensure", "check"}
  BY WorldHolds DEF EnsureRecovered, EnsureCurrent, On
<1>2. commands[c].want \in Catalogs /\ commands[c].lock = "none"
  BY <1>1 DEF FormInv, ToSync, CommandRecords, Excluding, Recovering, Activating
<1>3. /\ UNCHANGED <<dirs, activation, refresh, mounted, staged>> /\ upsets' \in 0..MaxUpsets
  BY WorldHolds DEF EnsureRecovered, EnsureCurrent
<1>4. ASSUME NEW pc \in {"check", "lock"}, Moves(c, pc)
      PROVE  CatalogInv'
  <2> DEFINE r == [commands[c] EXCEPT !.pc = pc]
  <2>1. /\ r \in CommandRecords /\ r.pc = pc /\ r.lock = "none" /\ r.want = commands[c].want
    BY <1>1, <1>2 DEF CommandRecords
  <2>2. Turn(c, r)
    BY <1>4 DEF Moves
  <2> HIDE DEF r
  <2>3. FormInv(r) /\ KnowsInv(r)
    BY <1>2, <2>1 DEF FormInv, KnowsInv, ToSync, Excluding, Recovering, Activating
  <2> QED
    BY <1>3, <2>1, <2>2, <2>3, OnlyCommand
<1>5. ASSUME MayExclude(c),
             Turn(c, [commands[c] EXCEPT !.pc = "recover", !.lock = "exclusive", !.then = "check"])
      PROVE  CatalogInv'
  <2> DEFINE r == [commands[c] EXCEPT !.pc = "recover", !.lock = "exclusive", !.then = "check"]
  <2>1. /\ r \in CommandRecords /\ r.pc = "recover" /\ r.lock = "exclusive" /\ r.then = "check"
        /\ r.want = commands[c].want
    BY <1>1 DEF CommandRecords
  <2>2. Turn(c, r)
    BY <1>5
  <2> HIDE DEF r
  <2>3. FormInv(r) /\ KnowsInv(r)
    BY <1>2, <2>1 DEF FormInv, KnowsInv, ToSync, Excluding, Recovering, Activating
  <2> QED
    BY <1>3, <1>5, <2>1, <2>2, <2>3, OnlyCommand
<1>6. CASE Reads(c)
  <2> DEFINE r == [Rested EXCEPT !.kind = "install", !.pc = "stat"]
  <2>1. r \in CommandRecords /\ r.pc = "stat" /\ r.lock = "none"
    BY RestedType DEF CommandRecords
  <2>2. Turn(c, r)
    BY <1>6 DEF Reads
  <2> HIDE DEF r
  <2>3. FormInv(r) /\ KnowsInv(r)
    BY <2>1 DEF FormInv, KnowsInv, ToSync, Excluding, Recovering, Activating
  <2> QED
    BY <1>3, <2>1, <2>2, <2>3, OnlyCommand
<1> QED
  BY <1>3, <1>4, <1>5, <1>6, EndsKeeps DEF EnsureRecovered, EnsureCurrent

LEMMA LockExclusiveInv ==
    ASSUME CatalogInv, NEW c \in Commands, LockExclusive(c)
    PROVE  CatalogInv'
<1>1. /\ commands[c] \in CommandRecords /\ FormInv(commands[c]) /\ commands[c].pc = "lock"
      /\ UNCHANGED <<dirs, activation, refresh, mounted, staged>> /\ upsets' \in 0..MaxUpsets
  BY WorldHolds DEF LockExclusive, On
<1>2. ASSUME NEW then \in {"prune", "stage"}, then = "stage" => commands[c].kind # "prune",
             MayExclude(c),
             Turn(c, [commands[c] EXCEPT !.pc = "recover", !.lock = "exclusive", !.then = then])
      PROVE  CatalogInv'
  <2> DEFINE r == [commands[c] EXCEPT !.pc = "recover", !.lock = "exclusive", !.then = then]
  <2>1. /\ r \in CommandRecords /\ r.pc = "recover" /\ r.lock = "exclusive" /\ r.then = then
        /\ r.want = commands[c].want
    BY <1>1 DEF CommandRecords
  <2>2. Turn(c, r)
    BY <1>2
  <2>3. then = "stage" => r.want \in Catalogs
    BY <1>1, <1>2, <2>1 DEF FormInv, ToSync
  <2> HIDE DEF r
  <2>4. FormInv(r) /\ KnowsInv(r)
    BY <2>1, <2>3 DEF FormInv, KnowsInv, ToSync, Excluding, Recovering, Activating
  <2> QED
    BY <1>1, <1>2, <2>1, <2>2, <2>4, OnlyCommand
<1> QED
  BY <1>1, <1>2, EndsKeeps DEF LockExclusive

LEMMA ReadingInv ==
    ASSUME CatalogInv, NEW c \in Commands, StatCache(c) \/ LockShared(c) \/ ReadCatalog(c)
    PROVE  CatalogInv'
<1>1. /\ commands[c] \in CommandRecords /\ FormInv(commands[c])
      /\ commands[c].pc \in {"stat", "share", "read"}
      /\ UNCHANGED <<dirs, activation, refresh, mounted, staged>> /\ upsets' \in 0..MaxUpsets
  BY WorldHolds DEF StatCache, LockShared, ReadCatalog, On
<1>2. commands[c].lock # "exclusive" /\ (commands[c].pc # "read" => commands[c].lock = "none")
  BY <1>1 DEF FormInv, ToSync, CommandRecords, Excluding, Recovering, Activating
<1>3. ASSUME NEW pc \in {"share", "read", "copy"}, NEW held \in {"none", "shared"},
             NEW root \in Dirs \cup {NoDir}, pc = "share" => held = "none",
             held = "shared" => commands[c].lock = "shared" \/ MayShare(c),
             pc = "copy" => Live # NoDir /\ Live = root,
             Turn(c, [commands[c] EXCEPT !.pc = pc, !.lock = held, !.root = root])
      PROVE  CatalogInv'
  <2> DEFINE r == [commands[c] EXCEPT !.pc = pc, !.lock = held, !.root = root]
  <2>1. r \in CommandRecords /\ r.pc = pc /\ r.lock = held /\ r.root = root
    BY <1>1 DEF CommandRecords
  <2>2. Turn(c, r)
    BY <1>3
  <2> HIDE DEF r
  <2>3. FormInv(r) /\ KnowsInv(r)
    BY <1>3, <2>1 DEF FormInv, KnowsInv, ToSync, Excluding, Recovering, Activating
  <2> QED
    BY <1>1, <1>3, <2>1, <2>2, <2>3, OnlyCommand
<1>4. ASSUME NEW pc \in {"share", "read"}, commands[c].lock = "none", Moves(c, pc)
      PROVE  CatalogInv'
  <2>1. [commands[c] EXCEPT !.pc = pc]
          = [commands[c] EXCEPT !.pc = pc, !.lock = "none", !.root = commands[c].root]
    BY <1>1, <1>4 DEF CommandRecords
  <2>2. commands[c].root \in Dirs \cup {NoDir}
    BY <1>1 DEF CommandRecords
  <2> QED
    BY <1>3, <1>4, <2>1, <2>2 DEF Moves
<1>5. CASE StatCache(c)
  BY <1>2, <1>4, <1>5 DEF StatCache, On
<1>6. ASSUME MayShare(c), Turn(c, [commands[c] EXCEPT !.pc = "read", !.lock = "shared"])
      PROVE  CatalogInv'
  <2>1. [commands[c] EXCEPT !.pc = "read", !.lock = "shared"]
          = [commands[c] EXCEPT !.pc = "read", !.lock = "shared", !.root = commands[c].root]
    BY <1>1 DEF CommandRecords
  <2>2. commands[c].root \in Dirs \cup {NoDir}
    BY <1>1 DEF CommandRecords
  <2> QED
    BY <1>3, <1>6, <2>1, <2>2
<1>7. CASE LockShared(c)
  BY <1>1, <1>6, <1>7, EndsKeeps DEF LockShared
<1>8. ASSUME Live # NoDir, Turn(c, [commands[c] EXCEPT !.pc = "copy", !.root = Live])
      PROVE  CatalogInv'
  <2>1. PICK held \in {"none", "shared"} : held = commands[c].lock
    BY <1>1, <1>2 DEF CommandRecords
  <2>2. PICK root \in Dirs : root = Live
    BY <1>8, LiveNow, WorldHolds DEF World
  <2>3. [commands[c] EXCEPT !.pc = "copy", !.root = Live]
          = [commands[c] EXCEPT !.pc = "copy", !.lock = held, !.root = root]
    BY <1>1, <2>1, <2>2 DEF CommandRecords
  <2> QED
    BY <1>3, <1>8, <2>1, <2>2, <2>3
<1>9. CASE ReadCatalog(c)
  BY <1>1, <1>8, <1>9, EndsKeeps DEF ReadCatalog
<1> QED
  BY <1>5, <1>7, <1>9

(* What the journal says of the directory that is live.                    *)
LEMMA LiveIsNamed ==
    ASSUME CatalogInv, Active
    PROVE  /\ Live \in Dirs => Whole(Live) /\ dirs[Live].place = "cache"
           /\ Live # NoDir /\ dirs[Live].tree = activation.new
                  => Live = activation.stage /\ NewIsLive /\ ~StageThere
           /\ NewIsLive => /\ Live = activation.stage /\ dirs[Live].tree = activation.new
                           /\ ~StageThere
           /\ Live # NoDir /\ dirs[Live].tree # Empty
                  => Live \in {activation.stage, activation.previous}
           /\ activation.previous # NoDir /\ Live # activation.previous
                  => dirs[activation.previous].place = "previous" /\ PreviousThere
<1>1. World
  BY WorldHolds
<1>2. /\ Live # NoDir => Live \in Dirs /\ dirs[Live].place = "cache"
      /\ \A d \in Dirs : dirs[d].place = "cache" => d = Live
  BY <1>1, LiveNow DEF World
<1>3. Live \in Dirs => Whole(Live) /\ dirs[Live].place = "cache"
  BY <1>1, <1>2, NamesDiffer DEF World, DirInv
<1>4. /\ activation.stage \in Dirs /\ activation.new \in Catalogs
      /\ dirs[activation.stage].tree \in {activation.new, Torn}
      /\ activation.previous # NoDir =>
               /\ activation.previous \in Dirs
               /\ dirs[activation.previous].place \in {"cache", "previous"}
               /\ dirs[activation.previous].tree = activation.old
               /\ activation.old # activation.new
      /\ Live \in {NoDir, activation.stage, activation.previous} \/ dirs[Live].tree = Empty
  BY <1>1 DEF World, JournalInv
<1>5. NewIsLive => /\ Live = activation.stage /\ dirs[Live].tree = activation.new
                   /\ ~StageThere
  <2> SUFFICES ASSUME NewIsLive
               PROVE  /\ Live = activation.stage /\ dirs[Live].tree = activation.new
                      /\ ~StageThere
    OBVIOUS
  <2>1. Live = activation.stage /\ Live \in Dirs
    BY <1>2, <1>4 DEF NewIsLive
  <2> QED
    BY <1>3, <1>4, <2>1 DEF Whole, StageThere
<1>6. Live # NoDir /\ dirs[Live].tree = activation.new
        => Live = activation.stage /\ NewIsLive /\ ~StageThere
  BY <1>2, <1>4, <1>5, NamesDiffer DEF NewIsLive
<1>7. activation.previous # NoDir /\ Live # activation.previous
        => dirs[activation.previous].place = "previous" /\ PreviousThere
  BY <1>2, <1>4 DEF PreviousThere
<1> QED
  BY <1>3, <1>4, <1>5, <1>6, <1>7

LEMMA ActiveOrNot == Active <=> activation # NoActivation
BY DEF Active

(* A command that is recovering goes on where it was.                      *)
LEMMA GoesOnHolds ==
    ASSUME CatalogInv, NEW c \in Commands, commands[c].pc \in Recovering
    PROVE  \E r \in CommandRecords :
              /\ GoesOn(c) => Turn(c, r)
              /\ FormInv(r) /\ r.lock \in {"none", "exclusive"}
              /\ r.pc \in {"check", "stage", "prune", "probe", "cleanup"}
<1>1. commands[c] \in CommandRecords /\ FormInv(commands[c])
  BY WorldHolds
<1>2. /\ commands[c].then \in {"check", "stage", "prune", "probe", "cleanup"}
      /\ commands[c].lock = "exclusive"
      /\ commands[c].then \in {"probe", "cleanup"} => commands[c].stage # NoDir
      /\ commands[c].then \in {"check", "stage"} => commands[c].want \in Catalogs
  BY <1>1 DEF FormInv, ToSync, Excluding
<1> DEFINE r == [commands[c] EXCEPT !.pc = commands[c].then,
                    !.lock = IF commands[c].then = "check" THEN "none" ELSE "exclusive"]
<1>3. /\ r \in CommandRecords /\ r.pc = commands[c].then /\ r.stage = commands[c].stage
      /\ r.lock = IF commands[c].then = "check" THEN "none" ELSE "exclusive"
      /\ r.want = commands[c].want
  BY <1>1, <1>2 DEF CommandRecords
<1>4. GoesOn(c) => Turn(c, r)
  BY <1>2 DEF GoesOn
<1> HIDE DEF r
<1>5. FormInv(r)
  BY <1>2, <1>3 DEF FormInv, ToSync, Excluding, Recovering, Activating
<1> QED
  BY <1>2, <1>3, <1>4, <1>5

(* A command that holds the lock goes on to another step under it.         *)
LEMMA MovesOn ==
    ASSUME CatalogInv, NEW c \in Commands, commands[c].pc \in Excluding,
           NEW pc \in Recovering \cup Activating \cup {"probe", "cleanup"},
           pc \in Recovering => commands[c].pc \in Recovering \/ commands[c].pc \in Activating,
           pc \in Activating => commands[c].pc \in Activating,
           pc = "cleanup" => commands[c].pc = "probe",
           pc = "probe" => FALSE,
           Moves(c, pc)
    PROVE  \E r \in CommandRecords :
              /\ Turn(c, r) /\ FormInv(r) /\ r.lock = "exclusive" /\ r.pc = pc
              /\ r.stage = commands[c].stage /\ r.want = commands[c].want
<1>1. commands[c] \in CommandRecords /\ FormInv(commands[c])
  BY WorldHolds
<1>2. commands[c].lock = "exclusive"
  BY <1>1 DEF FormInv
<1> DEFINE r == [commands[c] EXCEPT !.pc = pc]
<1>3. /\ r \in CommandRecords /\ r.pc = pc /\ r.lock = "exclusive" /\ r.stage = commands[c].stage
      /\ r.want = commands[c].want /\ r.then = commands[c].then
  BY <1>1, <1>2 DEF CommandRecords, Recovering, Activating
<1>4. Turn(c, r)
  BY DEF Moves
<1> HIDE DEF r
<1>5. FormInv(r)
  BY <1>1, <1>3 DEF FormInv, ToSync, Excluding, Recovering, Activating
<1> QED
  BY <1>3, <1>4, <1>5

LEMMA RecoverQuietInv ==
    ASSUME CatalogInv, NEW c \in Commands,
           RecoverNothing(c) \/ RecoverRefuses(c) \/ RecoverFinishes(c)
    PROVE  CatalogInv'
<1>1. /\ commands[c].pc = "recover" /\ upsets' \in 0..MaxUpsets
      /\ UNCHANGED <<dirs, activation, refresh, mounted, staged>>
  BY WorldHolds DEF RecoverNothing, RecoverRefuses, RecoverFinishes, On
<1>2. commands[c].pc \in Recovering /\ commands[c].pc \in Excluding
      /\ commands[c].lock = "exclusive"
  BY <1>1, WorldHolds DEF FormInv, Recovering, Excluding
<1>3. CASE RecoverNothing(c)
  <2>1. PICK r \in CommandRecords :
              /\ GoesOn(c) => Turn(c, r)
              /\ FormInv(r) /\ r.pc \in {"check", "stage", "prune", "probe", "cleanup"}
              /\ r.lock \in {"none", "exclusive"}
    BY <1>2, GoesOnHolds
  <2>2. ~Active
    BY <1>3 DEF RecoverNothing, Active
  <2>3. KnowsInv(r)
    BY <2>1, <2>2 DEF KnowsInv, Activating
  <2> QED
    BY <1>1, <1>2, <1>3, <2>1, <2>3, OnlyCommand DEF RecoverNothing
<1>4. CASE RecoverRefuses(c)
  BY <1>1, <1>2, <1>4, GivesUpKeeps DEF RecoverRefuses
<1>5. CASE RecoverFinishes(c)
  <2>1. Active /\ NewIsLive
    BY <1>5, LiveIsNamed DEF RecoverFinishes, Finished, Active
  <2>2. PICK r \in CommandRecords :
              /\ Turn(c, r) /\ FormInv(r) /\ r.lock = "exclusive" /\ r.pc = "refresh"
    <3>1. "refresh" \in Recovering /\ "refresh" \notin Activating
      BY DEF Recovering, Activating
    <3> QED
      BY <1>2, <1>5, <3>1, MovesOn DEF RecoverFinishes
  <2>3. KnowsInv(r)
    BY <2>1, <2>2 DEF KnowsInv, Activating
  <2> QED
    BY <1>1, <1>2, <2>2, <2>3, OnlyCommand
<1> QED
  BY <1>3, <1>4, <1>5

LEMMA ActivateFailsInv ==
    ASSUME CatalogInv, NEW c \in Commands, ActivateFails(c)
    PROVE  CatalogInv'
<1>1. /\ commands[c] \in CommandRecords /\ FormInv(commands[c]) /\ commands[c].pc = "activate"
      /\ UNCHANGED <<dirs, activation, refresh, mounted, staged>> /\ upsets' \in 0..MaxUpsets
  BY WorldHolds, NamesDiffer DEF ActivateFails, On, Upset
<1>2. commands[c].lock = "exclusive" /\ commands[c].stage # NoDir
  BY <1>1 DEF FormInv, Excluding, Activating
<1> DEFINE r == [commands[c] EXCEPT !.pc = "recover", !.then = "cleanup", !.failed = TRUE]
<1>3. /\ r \in CommandRecords /\ r.pc = "recover" /\ r.then = "cleanup" /\ r.lock = "exclusive"
      /\ r.stage = commands[c].stage
  BY <1>1, <1>2 DEF CommandRecords
<1>4. Turn(c, r)
  BY DEF ActivateFails
<1> HIDE DEF r
<1>5. FormInv(r) /\ KnowsInv(r)
  BY <1>2, <1>3 DEF FormInv, KnowsInv, ToSync, Excluding, Recovering, Activating
<1> QED
  BY <1>1, <1>2, <1>3, <1>4, <1>5, OnlyCommand

LEMMA ProbeFailsInv ==
    ASSUME CatalogInv, NEW c \in Commands, ProbeFails(c)
    PROVE  CatalogInv'
<1>1. /\ commands[c] \in CommandRecords /\ FormInv(commands[c]) /\ commands[c].pc = "probe"
      /\ UNCHANGED <<dirs, activation, refresh, mounted, staged>> /\ upsets' \in 0..MaxUpsets
  BY WorldHolds DEF ProbeFails, On
<1>2. commands[c].lock = "exclusive" /\ commands[c].stage # NoDir
  BY <1>1 DEF FormInv, Excluding
<1>3. PICK failed \in BOOLEAN : Turn(c, [commands[c] EXCEPT !.pc = "cleanup", !.failed = failed])
  BY DEF ProbeFails
<1> DEFINE r == [commands[c] EXCEPT !.pc = "cleanup", !.failed = failed]
<1>4. /\ r \in CommandRecords /\ r.pc = "cleanup" /\ r.lock = "exclusive"
      /\ r.stage = commands[c].stage
  BY <1>1, <1>2 DEF CommandRecords
<1>5. Turn(c, r)
  BY <1>3
<1> HIDE DEF r
<1>6. FormInv(r) /\ KnowsInv(r)
  BY <1>2, <1>4 DEF FormInv, KnowsInv, ToSync, Excluding, Recovering, Activating
<1> QED
  BY <1>1, <1>2, <1>4, <1>5, <1>6, OnlyCommand

LEMMA CatalogEndingInv ==
    ASSUME CatalogInv, NEW c \in Commands, CopyFiles(c) \/ FileOperationFails(c) \/ Kill(c)
    PROVE  CatalogInv'
<1>1. UNCHANGED <<dirs, activation, refresh, mounted, staged>> /\ upsets' \in 0..MaxUpsets
  BY WorldHolds, NamesDiffer DEF CopyFiles, FileOperationFails, Kill, Upset
<1>2. CASE FileOperationFails(c)
  <2>1. commands[c].pc \in Excluding
    BY <1>2 DEF FileOperationFails, Excluding, Recovering, Activating
  <2> QED
    BY <1>1, <1>2, <2>1, GivesUpKeeps DEF FileOperationFails
<1>3. CASE CopyFiles(c) \/ Kill(c)
  BY <1>1, <1>3, EndsKeeps DEF CopyFiles, Kill
<1> QED
  BY <1>2, <1>3

-----------------------------------------------------------------------------
(* Steps that change the directories.                                      *)

(* A stage that is being removed.                                          *)
LEMMA StageGoes ==
    ASSUME CatalogInv, NEW d \in Dirs, dirs[d].place = "stage",
           \/ dirs' = [dirs EXCEPT ![d].tree = Torn]
           \/ dirs' = [dirs EXCEPT ![d].label = Empty]
           \/ dirs' = Removed(d),
           UNCHANGED <<activation, refresh, mounted, staged>>
    PROVE  /\ World' /\ Live' = Live /\ \A e \in Dirs \ {d} : dirs'[e] = dirs[e]
           /\ (NewIsLive /\ Active => NewIsLive')
<1>1. World /\ dirs \in [Dirs -> DirRecords]
  BY WorldHolds DEF World, Tables
<1>2. /\ dirs' \in [Dirs -> DirRecords] /\ dirs'[d].tree \in {Torn, dirs[d].tree}
      /\ dirs'[d].place \in {"stage", "gone"}
      /\ dirs'[d].place = "gone" => dirs'[d].tree = Torn
      /\ dirs'[d].place = "stage" => dirs'[d].label \in {dirs[d].label, Empty}
      /\ \A e \in Dirs \ {d} : dirs'[e] = dirs[e]
  <2>1. CASE dirs' = [dirs EXCEPT ![d].tree = Torn]
    BY <1>1, <2>1 DEF DirRecords, Trees
  <2>2. CASE dirs' = Removed(d)
    <3>1. [place |-> "gone", tree |-> Torn, label |-> Empty] \in DirRecords
      BY DEF DirRecords, Trees
    <3>2. dirs'[d] = [place |-> "gone", tree |-> Torn, label |-> Empty]
      BY <1>1, <2>2 DEF Removed
    <3> QED
      BY <1>1, <2>2, <3>1, <3>2 DEF Removed
  <2>3. CASE dirs' = [dirs EXCEPT ![d].label = Empty]
    BY <1>1, <2>3 DEF DirRecords, Trees
  <2> QED
    BY <2>1, <2>2, <2>3
<1>3. Tables'
  BY <1>1, <1>2 DEF World, Tables
<1>4. ASSUME NEW e \in Dirs
      PROVE  DirInv(e)'
  <2>1. CASE e = d
    BY <1>1, <1>2, <2>1 DEF World, DirInv, Whole
  <2>2. CASE e # d
    BY <1>1, <1>2, <2>2 DEF World, DirInv, Whole
  <2> QED
    BY <2>1, <2>2
<1>5. OneCache'
  BY <1>1, <1>2 DEF World, OneCache
<1>6. Live' = Live
  BY <1>1, <1>2, <1>5, LiveStays DEF World
<1>7. Live # d /\ mounted # d /\ (Active /\ activation.previous # NoDir => activation.previous # d)
      /\ (Live # NoDir => Live \in Dirs)
  BY <1>1, LiveNow, NamesDiffer DEF World, MountInv, JournalInv
<1>8. JournalInv'
  <2>1. CASE ~Active
    BY <2>1 DEF JournalInv, Active
  <2>2. CASE Active /\ activation.stage = d
    BY <1>1, <1>2, <1>6, <1>7, <2>2, NamesDiffer DEF World, JournalInv, Active, NewIsLive
  <2>3. CASE Active /\ activation.stage # d
    BY <1>1, <1>2, <1>6, <1>7, <2>3, NamesDiffer DEF World, JournalInv, Active, NewIsLive
  <2> QED
    BY <2>1, <2>2, <2>3
<1>9. \A e \in Dirs : Visible(e)' => Visible(e)
  BY <1>1, <1>2 DEF Visible
<1>10. (Active' <=> Active) /\ (Active => (NewIsLive' <=> NewIsLive))
  <2>1. Active => activation.stage \in Dirs
    BY <1>1 DEF World, JournalInv
  <2> QED
    BY <1>2, <2>1 DEF Active, NewIsLive
<1>11. NothingLost'
  <2>1. ~Active /\ (Live = NoDir \/ dirs'[Live].tree = Empty) => \A e \in Dirs : ~Visible(e)'
    BY <1>1, <1>2, <1>7, <1>9 DEF World, NothingLost
  <2>2. Active /\ ~NewIsLive /\ (activation.previous = NoDir \/ activation.old = Empty) =>
           \A e \in Dirs \ {activation.previous} : ~Visible(e)'
    BY <1>1, <1>9 DEF World, NothingLost
  <2> QED
    BY <1>6, <1>10, <2>1, <2>2 DEF NothingLost
<1>12. MountInv'
  <2>1. mounted # NoDir => mounted \in Dirs /\ dirs'[mounted] = dirs[mounted]
    BY <1>1, <1>2, <1>7 DEF World, MountInv
  <2>2. Live # NoDir => dirs'[Live] = dirs[Live]
    BY <1>2, <1>7
  <2>3. Active /\ activation.previous # NoDir =>
            dirs'[activation.previous] = dirs[activation.previous]
    BY <1>1, <1>2, <1>7 DEF World, JournalInv
  <2> QED
    BY <1>1, <1>6, <1>10, <2>1, <2>2, <2>3 DEF World, MountInv, Shown, Gone
<1> QED
  BY <1>2, <1>3, <1>4, <1>5, <1>6, <1>8, <1>10, <1>11, <1>12 DEF World

LEMMA DropStageInv ==
    ASSUME CatalogInv, NEW c \in Commands, DropStage(c)
    PROVE  CatalogInv'
<1>1. /\ commands[c] \in CommandRecords /\ FormInv(commands[c]) /\ KnowsInv(commands[c])
      /\ commands[c].pc = "drop" /\ upsets' \in 0..MaxUpsets
      /\ UNCHANGED <<activation, refresh, mounted, staged>>
  BY WorldHolds DEF DropStage, On
<1>2. PICK d \in Dirs : d = activation.stage /\ dirs[d].place = "stage"
  BY <1>1, WorldHolds DEF KnowsInv, StageThere, World, JournalInv
<1>3. /\ Active /\ Live # NoDir /\ Live = activation.previous
      /\ commands[c].lock = "exclusive" /\ commands[c].pc \in Excluding
  BY <1>1 DEF KnowsInv, FormInv, Excluding, Recovering
<1>4. \/ /\ UNCHANGED commands
         /\ \/ dirs' = [dirs EXCEPT ![d].tree = Torn]
            \/ dirs' = [dirs EXCEPT ![d].label = Empty]
      \/ dirs' = Removed(d) /\ Moves(c, "clear")
  BY <1>2 DEF DropStage, Removes
<1>5. World' /\ Live' = Live /\ Active'
  BY <1>1, <1>2, <1>3, <1>4, StageGoes DEF Active
<1>6. CASE /\ UNCHANGED commands
           /\ \/ dirs' = [dirs EXCEPT ![d].tree = Torn]
              \/ dirs' = [dirs EXCEPT ![d].label = Empty]
  <2>1. Turn(c, commands[c])
    BY <1>6, WorldHolds DEF Turn
  <2>2. StageThere'
    <3>1. dirs'[d].place = "stage"
      BY <1>2, <1>6, WorldHolds DEF World, Tables, DirRecords
    <3> QED
      BY <1>1, <1>2, <3>1, NamesDiffer DEF StageThere
  <2>3. PICK r \in CommandRecords : r = commands[c]
    BY <1>1
  <2>4. KnowsInv(r)'
    BY <1>1, <1>3, <1>5, <2>2, <2>3 DEF KnowsInv, Activating
  <2> QED
    BY <1>1, <1>3, <1>5, <2>1, <2>3, <2>4, CommandStep
<1>7. CASE Moves(c, "clear")
  <2>1. PICK r \in CommandRecords :
              /\ Turn(c, r) /\ FormInv(r) /\ r.lock = "exclusive" /\ r.pc = "clear"
    <3>1. "clear" \in Recovering /\ "clear" \notin Activating /\ commands[c].pc \in Recovering
      BY <1>1 DEF Recovering, Activating
    <3> QED
      BY <1>3, <1>7, <3>1, MovesOn
  <2>2. ~NewIsLive'
    <3>1. dirs'[d].place # "cache"
      BY <1>2, <1>5, <1>3, <1>1, LiveNext, StageGoes, <1>4, WorldHolds DEF World, JournalInv
    <3> QED
      BY <1>1, <1>2, <3>1 DEF NewIsLive
  <2>3. KnowsInv(r)'
    BY <1>1, <1>3, <1>5, <2>1, <2>2 DEF KnowsInv, Activating
  <2> QED
    BY <1>1, <1>3, <1>5, <2>1, <2>3, CommandStep
<1> QED
  BY <1>4, <1>6, <1>7

LEMMA CleanupInv ==
    ASSUME CatalogInv, NEW c \in Commands, Cleanup(c)
    PROVE  CatalogInv'
<1>1. /\ commands[c] \in CommandRecords /\ FormInv(commands[c]) /\ commands[c].pc = "cleanup"
      /\ UNCHANGED <<activation, refresh, mounted, staged>> /\ upsets' \in 0..MaxUpsets
  BY WorldHolds DEF Cleanup, On
<1>2. commands[c].lock = "exclusive"
  BY <1>1 DEF FormInv, Excluding
<1>3. PICK d \in Dirs : d = commands[c].stage
  BY <1>1 DEF FormInv, CommandRecords
<1>4. \/ /\ dirs[d].place = "stage"
         /\ \/ /\ UNCHANGED commands
               /\ \/ dirs' = [dirs EXCEPT ![d].tree = Torn]
                  \/ dirs' = [dirs EXCEPT ![d].label = Empty]
            \/ dirs' = Removed(d) /\ Moves(c, "cleanup")
      \/ UNCHANGED dirs /\ (Reads(c) \/ Ends(c))
  BY <1>3 DEF Cleanup, Removes
<1>5. ASSUME UNCHANGED dirs, Reads(c)
      PROVE  CatalogInv'
  <2> DEFINE r == [Rested EXCEPT !.kind = "install", !.pc = "stat"]
  <2>1. r \in CommandRecords /\ r.pc = "stat" /\ r.lock = "none"
    BY RestedType DEF CommandRecords
  <2>2. Turn(c, r)
    BY <1>5 DEF Reads
  <2> HIDE DEF r
  <2>3. FormInv(r) /\ KnowsInv(r)
    BY <2>1 DEF FormInv, KnowsInv, ToSync, Excluding, Recovering, Activating
  <2> QED
    BY <1>1, <1>5, <2>1, <2>2, <2>3, OnlyCommand
<1>6. ASSUME dirs[d].place = "stage", UNCHANGED commands \/ Moves(c, "cleanup"),
             \/ dirs' = [dirs EXCEPT ![d].tree = Torn]
             \/ dirs' = [dirs EXCEPT ![d].label = Empty]
             \/ dirs' = Removed(d)
      PROVE  CatalogInv'
  <2>1. World'
    BY <1>1, <1>6, StageGoes
  <2>2. PICK r \in CommandRecords : r = commands[c]
    BY <1>1
  <2>3. Turn(c, r)
    <3>1. r = [commands[c] EXCEPT !.pc = "cleanup"]
      BY <1>1, <2>2 DEF CommandRecords
    <3>2. r = commands[c] /\ commands = [commands EXCEPT ![c] = r]
      BY <2>2, WorldHolds
    <3> QED
      BY <1>6, <3>1, <3>2 DEF Turn, Moves
  <2>4. KnowsInv(r)'
    BY <1>1, <2>2 DEF KnowsInv, Activating
  <2> QED
    BY <1>1, <1>2, <2>1, <2>2, <2>3, <2>4, CommandStep
<1> QED
  BY <1>1, <1>4, <1>5, <1>6, EndsKeeps

(* A new directory.  With the content that is live only the provenance of  *)
(* the cache is written: it has that content already, or has none, and     *)
(* then nothing but this directory was mounted.                            *)
LEMMA StageInv ==
    ASSUME CatalogInv, NEW c \in Commands, Stage(c)
    PROVE  CatalogInv'
<1>1. /\ commands[c] \in CommandRecords /\ FormInv(commands[c]) /\ commands[c].pc = "stage"
      /\ ~Active /\ UNCHANGED <<activation, refresh, mounted>> /\ upsets' \in 0..MaxUpsets
  BY WorldHolds DEF Stage, On, KnowsInv
<1>2. World /\ dirs \in [Dirs -> DirRecords] /\ staged \in 0..MaxSyncs
  BY WorldHolds DEF World, Tables
<1>3. PICK want \in Catalogs : want = commands[c].want
  BY <1>1 DEF FormInv, ToSync
<1>4. PICK d \in Dirs : /\ d = staged + 4 /\ dirs[d].place = "none"
                        /\ staged' = staged + 1 /\ staged' \in 0..MaxSyncs
  <2>1. staged + 4 \in Dirs /\ staged' = staged + 1 /\ staged' \in 0..MaxSyncs
    BY <1>2, NamesDiffer DEF Stage, Dirs
  <2> QED
    BY <1>2, <2>1 DEF World, DirInv
<1>5. Live # NoDir => Live \in Dirs /\ Live # d /\ dirs[Live].place = "cache"
  BY <1>2, <1>4, LiveNow DEF World
<1>6. /\ dirs' \in [Dirs -> DirRecords]
      /\ dirs'[d].place = "stage" /\ dirs'[d].tree = want /\ dirs'[d].label = want
      /\ Live # NoDir => /\ dirs'[Live].place = "cache" /\ dirs'[Live].tree = dirs[Live].tree
                         /\ dirs'[Live].label \in {dirs[Live].label, dirs[Live].tree}
      /\ \A e \in Dirs \ {d, Live} : dirs'[e] = dirs[e]
  <2> DEFINE new == [place |-> "stage", tree |-> want, label |-> want]
  <2>1. new \in DirRecords /\ new.place = "stage" /\ new.tree = want /\ new.label = want
    BY DEF DirRecords, Trees
  <2>2. dirs' = IF Live # NoDir /\ dirs[Live].tree = want
                THEN [[dirs EXCEPT ![d] = new] EXCEPT ![Live].label = want]
                ELSE [dirs EXCEPT ![d] = new]
    BY <1>3, <1>4 DEF Stage, NextDir
  <2> HIDE DEF new
  <2>3. CASE ~(Live # NoDir /\ dirs[Live].tree = want)
    BY <1>2, <1>5, <2>1, <2>2, <2>3
  <2>4. CASE Live # NoDir /\ dirs[Live].tree = want
    <3>1. PICK l \in Dirs : l = Live /\ l # d
      BY <1>5, <2>4
    <3>2. dirs[l] \in DirRecords
      BY <1>2
    <3> DEFINE labelled == [dirs[l] EXCEPT !.label = want]
    <3>3. /\ labelled \in DirRecords /\ labelled.place = dirs[l].place
          /\ labelled.tree = dirs[l].tree /\ labelled.label = want
      BY <3>2 DEF DirRecords
    <3>4. dirs' = [[dirs EXCEPT ![d] = new] EXCEPT ![l] = labelled]
      BY <1>2, <2>2, <2>4, <3>1
    <3> HIDE DEF labelled
    <3>5. /\ dirs' \in [Dirs -> DirRecords] /\ dirs'[d] = new /\ dirs'[l] = labelled
          /\ \A e \in Dirs \ {d, l} : dirs'[e] = dirs[e]
      BY <1>2, <2>1, <3>1, <3>3, <3>4
    <3> QED
      BY <1>5, <2>1, <2>4, <3>1, <3>3, <3>5
  <2> QED
    BY <2>3, <2>4
<1>7. PICK r \in CommandRecords :
        /\ Turn(c, r) /\ r.lock = "exclusive" /\ r.stage = d /\ r.want = want /\ r.then = "probe"
        /\ r.pc = IF Live # NoDir /\ dirs[Live].tree = want THEN "probe" ELSE "journal"
  <2> DEFINE pc == IF Live # NoDir /\ dirs[Live].tree = want THEN "probe" ELSE "journal"
             r == [commands[c] EXCEPT !.stage = d, !.then = "probe", !.pc = pc]
  <2>1. Turn(c, r)
    BY <1>3, <1>4 DEF Stage, NextDir
  <2>2. pc \in {"probe", "journal"}
    OBVIOUS
  <2> HIDE DEF pc
  <2>3. commands[c].lock = "exclusive"
    BY <1>1 DEF FormInv, Excluding
  <2>4. /\ r \in CommandRecords /\ r.lock = "exclusive" /\ r.stage = d /\ r.want = want
        /\ r.then = "probe" /\ r.pc = pc
    BY <1>1, <1>3, <2>2, <2>3 DEF CommandRecords
  <2> HIDE DEF r
  <2> QED
    BY <2>1, <2>4 DEF pc
<1>8. Tables'
  BY <1>1, <1>2, <1>4, <1>6 DEF World, Tables
<1>9. ASSUME NEW e \in Dirs
      PROVE  DirInv(e)'
  <2>1. CASE e = d
    BY <1>2, <1>4, <1>6, <2>1, NamesDiffer DEF DirInv, Whole, Absence
  <2>2. CASE e # d /\ e # Live
    BY <1>2, <1>4, <1>6, <2>2, NamesDiffer DEF World, DirInv, Whole
  <2>3. CASE e = Live
    <3>1. Live # NoDir /\ Live # d
      BY <1>5, <2>3, NamesDiffer
    <3> QED
      BY <1>2, <1>4, <1>5, <1>6, <2>3, <3>1, NamesDiffer DEF World, DirInv, Whole
  <2> QED
    BY <2>1, <2>2, <2>3
<1>10. OneCache' /\ \A e \in Dirs : dirs'[e].place = "cache" <=> dirs[e].place = "cache"
  <2>1. \A e \in Dirs : dirs'[e].place = "cache" <=> dirs[e].place = "cache"
    BY <1>4, <1>5, <1>6, NamesDiffer
  <2> QED
    BY <1>2, <2>1 DEF World, OneCache
<1>11. Live' = Live /\ ~Active'
  BY <1>1, <1>2, <1>10, LiveStays DEF World, Active
<1>12. NothingLost'
  <2>1. ASSUME Live = NoDir \/ dirs[Live].tree = Empty, NEW e \in Dirs
        PROVE  ~Visible(e)'
    <3>1. ~Visible(e)
      BY <1>1, <1>2, <2>1 DEF World, NothingLost
    <3>2. CASE e = d
      BY <1>6, <3>2 DEF Visible
    <3>3. CASE e = Live /\ Live # NoDir
      BY <1>6, <3>3 DEF Visible
    <3>4. CASE e # d /\ ~(e = Live /\ Live # NoDir)
      BY <1>6, <3>1, <3>4, NamesDiffer DEF Visible
    <3> QED
      BY <3>2, <3>3, <3>4
  <2> QED
    BY <1>6, <1>11, <2>1 DEF NothingLost
<1>13. MountInv'
  <2>1. mounted # NoDir => mounted \in Dirs /\ mounted # d
    BY <1>2, <1>4 DEF World, MountInv
  <2> QED
    BY <1>1, <1>2, <1>5, <1>6, <1>11, <2>1 DEF World, MountInv, Shown, Gone
<1>14. World'
  BY <1>8, <1>9, <1>10, <1>11, <1>12, <1>13 DEF World, JournalInv
<1>15. FormInv(r)
  BY <1>7, NamesDiffer DEF FormInv, ToSync, Excluding, Recovering, Activating
<1>16. KnowsInv(r)'
  BY <1>5, <1>6, <1>7, <1>11 DEF KnowsInv, Activating
<1>17. commands[c].lock = "exclusive"
  BY <1>1 DEF FormInv, Excluding
<1> QED
  BY <1>1, <1>7, <1>14, <1>15, <1>16, <1>17, CommandStep

LEMMA WriteActivationInv ==
    ASSUME CatalogInv, NEW c \in Commands, WriteActivation(c)
    PROVE  CatalogInv'
<1>1. /\ commands[c] \in CommandRecords /\ FormInv(commands[c]) /\ KnowsInv(commands[c])
      /\ commands[c].pc = "journal"
      /\ UNCHANGED <<dirs, refresh, mounted, staged>> /\ upsets' \in 0..MaxUpsets
  BY WorldHolds DEF WriteActivation, On
<1>2. World /\ dirs \in [Dirs -> DirRecords] /\ ~Active
  BY <1>1, WorldHolds DEF World, Tables, KnowsInv
<1>3. PICK want \in Catalogs, d \in Dirs :
        /\ want = commands[c].want /\ d = commands[c].stage
        /\ dirs[d].place = "stage" /\ dirs[d].tree = want /\ dirs[d].label = want
        /\ Live = NoDir \/ dirs[Live].tree # want
  BY <1>1 DEF FormInv, ToSync, KnowsInv, Activating, CommandRecords
<1>4. Live # NoDir => /\ Live \in Dirs /\ dirs[Live].place = "cache"
                      /\ dirs[Live].tree # Torn
  BY <1>2, LiveNow DEF World, DirInv, Whole
<1>5. PICK old \in Catalogs \cup {Empty} :
        old = IF Live = NoDir THEN Empty ELSE dirs[Live].tree
  <2>1. CASE Live # NoDir
    <3>1. dirs[Live] \in DirRecords
      BY <1>2, <1>4, <2>1
    <3> QED
      BY <1>4, <2>1, <3>1 DEF DirRecords, Trees
  <2> QED
    BY <2>1
<1>6. activation' = [stage |-> d, previous |-> Live, new |-> want, old |-> old]
  BY <1>3, <1>5 DEF WriteActivation
<1>7. /\ activation' \in JournalRecords
      /\ activation'.stage = d /\ activation'.previous = Live /\ activation'.new = want
      /\ activation'.old = old
  BY <1>4, <1>6 DEF JournalRecords
<1>8. Active'
  BY <1>7, NamesDiffer DEF Active, NoActivation
<1>9. OneCache' /\ \A e \in Dirs : DirInv(e)'
  BY <1>1, <1>2 DEF World, OneCache, DirInv, Whole
<1>10. Live' = Live
  BY <1>1, <1>2, <1>9, LiveStays DEF World
<1>11. Tables'
  BY <1>1, <1>2, <1>7 DEF World, Tables
<1>12. JournalInv'
  BY <1>1, <1>3, <1>4, <1>5, <1>7, <1>10 DEF JournalInv, NewIsLive
<1>13. NothingLost'
  BY <1>1, <1>2, <1>5, <1>7, <1>8 DEF World, NothingLost, Visible
<1>14. MountInv'
  BY <1>1, <1>2, <1>4, <1>5, <1>7, <1>8, <1>10 DEF World, MountInv, Shown, Gone
<1>15. World'
  BY <1>9, <1>11, <1>12, <1>13, <1>14 DEF World
<1>16. PICK pc \in {"activate", "retire"} :
         /\ Moves(c, pc) /\ pc = IF Live = NoDir THEN "activate" ELSE "retire"
  BY DEF WriteActivation
<1>17. PICK r \in CommandRecords :
              /\ Turn(c, r) /\ FormInv(r) /\ r.lock = "exclusive" /\ r.pc = pc
              /\ r.stage = commands[c].stage /\ r.want = commands[c].want
  <2>1. pc \in Activating /\ pc \notin Recovering /\ commands[c].pc \in Excluding
        /\ commands[c].pc \in Activating
    BY <1>1 DEF Recovering, Activating, Excluding
  <2> QED
    BY <1>16, <2>1, MovesOn
<1>18. KnowsInv(r)'
  BY <1>1, <1>3, <1>7, <1>8, <1>10, <1>16, <1>17 DEF KnowsInv
<1>19. commands[c].lock = "exclusive"
  BY <1>1 DEF FormInv, Excluding, Activating
<1> QED
  BY <1>1, <1>15, <1>17, <1>18, <1>19, CommandStep

LEMMA RetireInv ==
    ASSUME CatalogInv, NEW c \in Commands, Retire(c)
    PROVE  CatalogInv'
<1>1. /\ commands[c] \in CommandRecords /\ FormInv(commands[c]) /\ KnowsInv(commands[c])
      /\ commands[c].pc = "retire" /\ Moves(c, "activate")
      /\ UNCHANGED <<activation, refresh, mounted, staged>> /\ upsets' \in 0..MaxUpsets
  BY WorldHolds DEF Retire, On
<1>2. World /\ dirs \in [Dirs -> DirRecords] /\ Active
  BY <1>1, WorldHolds DEF World, Tables, KnowsInv
<1>3. PICK s \in Dirs, p \in Dirs :
        /\ s = activation.stage /\ s = commands[c].stage
        /\ p = activation.previous /\ p = Live
        /\ dirs[s].place = "stage" /\ dirs[s].tree = commands[c].want
        /\ dirs[s].label = commands[c].want /\ activation.new = commands[c].want
        /\ dirs[p].place = "cache" /\ dirs[p].tree = activation.old /\ Whole(p)
  BY <1>1, <1>2, LiveNow DEF World, JournalInv, DirInv, KnowsInv, Activating
<1>4. /\ dirs' \in [Dirs -> DirRecords]
      /\ dirs'[p].place = "previous" /\ dirs'[p].tree = dirs[p].tree
      /\ dirs'[p].label = dirs[p].label
      /\ \A e \in Dirs \ {p} : dirs'[e] = dirs[e]
  BY <1>2, <1>3 DEF Retire, Moved, DirRecords
<1>5. Tables'
  BY <1>1, <1>2, <1>4 DEF World, Tables
<1>6. ASSUME NEW e \in Dirs
      PROVE  DirInv(e)'
  BY <1>1, <1>2, <1>3, <1>4 DEF World, DirInv, Whole
<1>7. OneCache'
  BY <1>2, <1>4 DEF World, OneCache
<1>8. Live' = NoDir
  BY <1>2, <1>3, <1>4, <1>7, LiveNow, LiveNext DEF World
<1>9. Active'
  BY <1>1, <1>2 DEF Active
<1>10. JournalInv'
  BY <1>1, <1>2, <1>3, <1>4, <1>8 DEF World, JournalInv, NewIsLive
<1>11. NothingLost'
  <2>1. ~NewIsLive
    BY <1>3 DEF NewIsLive
  <2>2. activation.old = Empty => \A e \in Dirs \ {p} : ~Visible(e)
    BY <1>2, <1>3, <2>1 DEF World, NothingLost
  <2>3. activation.old = Empty => \A e \in Dirs \ {p} : ~Visible(e)'
    BY <1>4, <2>2 DEF Visible
  <2> QED
    BY <1>1, <1>3, <1>9, <2>3, NamesDiffer DEF NothingLost
<1>12. MountInv'
  <2>1. ~NewIsLive
    BY <1>3 DEF NewIsLive
  <2>2. Shown(p)
    BY <1>2, <1>3, <2>1, NamesDiffer DEF World, MountInv, Shown
  <2>3. mounted # NoDir => /\ mounted \in Dirs /\ dirs'[mounted].label = dirs[mounted].label
                           /\ dirs'[mounted].place \in {"cache", "previous", "gone"}
                           /\ dirs[mounted].place = "gone" => dirs'[mounted].place = "gone"
    BY <1>2, <1>3, <1>4 DEF World, MountInv
  <2> QED
    BY <1>1, <1>3, <1>4, <1>9, <2>2, <2>3, NamesDiffer DEF MountInv, Shown, Gone
<1>13. World'
  BY <1>5, <1>6, <1>7, <1>10, <1>11, <1>12 DEF World
<1>14. PICK r \in CommandRecords :
              /\ Turn(c, r) /\ FormInv(r) /\ r.lock = "exclusive" /\ r.pc = "activate"
              /\ r.stage = commands[c].stage /\ r.want = commands[c].want
  <2>1. "activate" \in Activating /\ "activate" \notin Recovering /\ commands[c].pc \in Excluding
        /\ commands[c].pc \in Activating
    BY <1>1 DEF Recovering, Activating, Excluding
  <2> QED
    BY <1>1, <2>1, MovesOn
<1>15. s # p
  BY <1>3
<1>16. KnowsInv(r)'
  BY <1>1, <1>3, <1>4, <1>8, <1>9, <1>14, <1>15 DEF KnowsInv
<1>17. commands[c].lock = "exclusive"
  BY <1>1 DEF FormInv, Excluding, Activating
<1> QED
  BY <1>1, <1>13, <1>14, <1>16, <1>17, CommandStep

(* The staged catalog takes the place of nothing, or of an empty directory.*)
LEMMA NewGoesLive ==
    ASSUME CatalogInv, Active, StageThere, dirs[activation.stage].tree = activation.new,
           activation.previous # NoDir => dirs[activation.stage].label = activation.new,
           Live = NoDir \/ (Live # activation.previous /\ dirs[Live].tree = Empty),
           dirs' = MadeLive(activation.stage), UNCHANGED <<activation, refresh, mounted, staged>>
    PROVE  World' /\ Active' /\ NewIsLive'
<1>1. World /\ dirs \in [Dirs -> DirRecords]
  BY WorldHolds DEF World, Tables
<1>2. PICK s \in Dirs :
        /\ s = activation.stage /\ dirs[s].place = "stage" /\ dirs[s].tree = activation.new
        /\ dirs[s].label \in {activation.new, Empty} /\ activation.new \in Catalogs
        /\ activation.previous # NoDir => dirs[s].label = activation.new
  BY <1>1 DEF World, JournalInv, StageThere
<1>3. PICK l \in Dirs \cup {NoDir} :
        /\ l = Live /\ l # s
        /\ \A d \in Dirs : dirs[d].place = "cache" => d = l
  BY <1>1, <1>2, LiveNow, NamesDiffer DEF World
<1>4. /\ dirs' \in [Dirs -> DirRecords]
      /\ dirs'[s].place = "cache" /\ dirs'[s].tree = dirs[s].tree /\ dirs'[s].label = dirs[s].label
      /\ l # NoDir => /\ dirs'[l].place = "gone" /\ dirs'[l].tree = dirs[l].tree
                      /\ dirs'[l].label = dirs[l].label
      /\ \A d \in Dirs \ {s, l} : dirs'[d] = dirs[d]
  <2>1. l = Live
    BY <1>3
  <2>2. dirs' = [d \in Dirs |-> IF d = s THEN [dirs[s] EXCEPT !.place = "cache"]
                                ELSE IF d = l THEN [dirs[d] EXCEPT !.place = "gone"]
                                ELSE dirs[d]]
    BY <1>2, <2>1 DEF MadeLive
  <2>3. \A d \in Dirs : \A place \in {"cache", "gone"} :
          /\ [dirs[d] EXCEPT !.place = place] \in DirRecords
          /\ [dirs[d] EXCEPT !.place = place].place = place
          /\ [dirs[d] EXCEPT !.place = place].tree = dirs[d].tree
          /\ [dirs[d] EXCEPT !.place = place].label = dirs[d].label
    BY <1>1 DEF DirRecords
  <2>4. s \in Dirs /\ s # l /\ (l # NoDir => l \in Dirs)
    BY <1>2, <1>3
  <2>5. dirs'[s] = [dirs[s] EXCEPT !.place = "cache"]
    BY <2>2, <2>4
  <2>6. l # NoDir => dirs'[l] = [dirs[l] EXCEPT !.place = "gone"]
    BY <2>2, <2>4
  <2>7. \A d \in Dirs \ {s, l} : dirs'[d] = dirs[d]
    BY <2>2
  <2>8. ASSUME NEW d \in Dirs
        PROVE  dirs'[d] \in DirRecords
    <3>1. CASE d = s
      BY <2>3, <2>5, <3>1
    <3>2. CASE d = l
      BY <2>3, <2>6, <3>2, NamesDiffer
    <3>3. CASE d # s /\ d # l
      BY <1>1, <2>7, <3>3
    <3> QED
      BY <3>1, <3>2, <3>3
  <2>9. dirs' \in [Dirs -> DirRecords]
    BY <2>2, <2>8
  <2> QED
    BY <2>3, <2>4, <2>5, <2>6, <2>7, <2>9
<1>5. l = Live /\ (l # NoDir => l \in Dirs /\ dirs[l].place = "cache" /\ dirs[l].tree = Empty
                               /\ l # activation.previous)
  BY <1>1, <1>2, <1>3, LiveNow, NamesDiffer DEF World
<1>6. Tables'
  BY <1>1, <1>4 DEF World, Tables
<1>7. ASSUME NEW d \in Dirs
      PROVE  DirInv(d)'
  <2>1. DirInv(d)
    BY <1>1 DEF World
  <2>2. CASE d = s
    BY <1>2, <1>4, <2>1, <2>2, NamesDiffer DEF DirInv, Whole
  <2>3. CASE d = l
    BY <1>4, <1>5, <2>1, <2>3, NamesDiffer DEF DirInv, Whole
  <2>4. CASE d # s /\ d # l
    BY <1>4, <2>1, <2>4 DEF DirInv, Whole
  <2> QED
    BY <2>2, <2>3, <2>4
<1>8. OneCache'
  <2>1. \A d \in Dirs : dirs'[d].place = "cache" => d = s
    BY <1>3, <1>4, NamesDiffer
  <2> QED
    BY <2>1 DEF OneCache
<1>9. Live' = s /\ Active' /\ NewIsLive'
  BY <1>2, <1>4, <1>8, LiveNext DEF Active, NewIsLive
<1>10. JournalInv'
  <2>1. activation.previous # NoDir =>
               /\ activation.previous \in Dirs /\ activation.previous # s /\ activation.previous # l
               /\ dirs[activation.previous].place \in {"cache", "previous"}
               /\ dirs[activation.previous].tree = activation.old
               /\ activation.old # activation.new
    BY <1>1, <1>2, <1>5, NamesDiffer DEF World, JournalInv
  <2> QED
    BY <1>2, <1>4, <1>9, <2>1 DEF JournalInv
<1>11. NothingLost'
  BY <1>9 DEF NothingLost
<1>12. MountInv'
  <2>1. mounted # NoDir => /\ mounted \in Dirs /\ mounted # s
                           /\ dirs[mounted].place \in {"cache", "previous", "gone"}
    BY <1>1, <1>2 DEF World, MountInv
  <2>2. mounted # NoDir => /\ dirs'[mounted].place \in {"cache", "previous", "gone"}
                           /\ mounted = l => Gone(mounted)'
                           /\ Gone(mounted) => Gone(mounted)'
    BY <1>4, <1>5, <2>1 DEF Gone
  <2>3. activation.previous = NoDir => mounted = NoDir \/ mounted = l \/ Gone(mounted)
    BY <1>1, <1>5 DEF World, MountInv
  <2> QED
    BY <1>9, <2>1, <2>2, <2>3 DEF MountInv, Gone
<1> QED
  BY <1>6, <1>7, <1>8, <1>9, <1>10, <1>11, <1>12 DEF World

LEMMA ActivateInv ==
    ASSUME CatalogInv, NEW c \in Commands, Activate(c) \/ RecoverPromotes(c)
    PROVE  CatalogInv'
<1>1. /\ commands[c] \in CommandRecords /\ FormInv(commands[c]) /\ KnowsInv(commands[c])
      /\ commands[c].pc \in {"activate", "recover"} /\ Moves(c, "refresh")
      /\ UNCHANGED <<activation, refresh, mounted, staged>> /\ upsets' \in 0..MaxUpsets
  BY WorldHolds DEF Activate, RecoverPromotes, On
<1>2. /\ Active /\ StageThere /\ dirs[activation.stage].tree = activation.new
      /\ activation.previous # NoDir => dirs[activation.stage].label = activation.new
      /\ Live = NoDir \/ (Live # activation.previous /\ dirs[Live].tree = Empty)
      /\ dirs' = MadeLive(activation.stage)
  <2>1. CASE Activate(c)
    <3>1. /\ Active /\ activation.stage = commands[c].stage
          /\ activation.new = commands[c].want
          /\ dirs[commands[c].stage].place = "stage"
          /\ dirs[commands[c].stage].tree = commands[c].want
          /\ dirs[commands[c].stage].label = commands[c].want
          /\ Live = NoDir \/ (Live # activation.previous /\ dirs[Live].tree = Empty)
      BY <1>1, <2>1 DEF Activate, On, KnowsInv, Activating
    <3>2. activation.stage # NoDir
      BY <3>1, WorldHolds, NamesDiffer DEF World, JournalInv
    <3> QED
      BY <2>1, <3>1, <3>2 DEF Activate, StageThere
  <2>2. CASE RecoverPromotes(c)
    BY <2>2 DEF RecoverPromotes, Refuses, Active
  <2> QED
    BY <2>1, <2>2 DEF Activate, RecoverPromotes
<1>3. World' /\ Active' /\ NewIsLive'
  BY <1>1, <1>2, NewGoesLive
<1>4. PICK r \in CommandRecords :
              /\ Turn(c, r) /\ FormInv(r) /\ r.lock = "exclusive" /\ r.pc = "refresh"
  <2>1. /\ "refresh" \in Recovering /\ "refresh" \notin Activating /\ commands[c].pc \in Excluding
        /\ commands[c].pc \in Recovering \/ commands[c].pc \in Activating
    BY <1>1 DEF Recovering, Activating, Excluding
  <2> QED
    BY <1>1, <2>1, MovesOn
<1>5. KnowsInv(r)'
  BY <1>3, <1>4 DEF KnowsInv, Activating
<1>6. commands[c].lock = "exclusive"
  BY <1>1 DEF FormInv, Excluding, Activating, Recovering
<1> QED
  BY <1>1, <1>3, <1>4, <1>5, <1>6, CommandStep

(* The previous catalog comes back.                                        *)
LEMMA OldComesBack ==
    ASSUME CatalogInv, Active, Live = NoDir, PreviousThere,
           dirs' = Moved(activation.previous, "cache"),
           UNCHANGED <<activation, refresh, mounted, staged>>
    PROVE  /\ World' /\ Active' /\ Live' = activation.previous /\ Live' # NoDir
           /\ ~NewIsLive' /\ (StageThere' <=> StageThere)
<1>1. World /\ dirs \in [Dirs -> DirRecords]
  BY WorldHolds DEF World, Tables
<1>2. PICK s \in Dirs, p \in Dirs :
        /\ s = activation.stage /\ p = activation.previous /\ s # p
        /\ dirs[s].place \in {"stage", "gone"} /\ dirs[p].place = "previous"
        /\ dirs[p].tree = activation.old /\ Whole(p)
  <2>1. activation.stage \in Dirs /\ dirs[activation.stage].place \in {"stage", "cache", "gone"}
    BY <1>1 DEF World, JournalInv
  <2>2. dirs[activation.stage].place # "cache"
    BY <1>1, <2>1, LiveNow DEF World
  <2>3. /\ activation.previous \in Dirs /\ dirs[activation.previous].place = "previous"
        /\ dirs[activation.previous].tree = activation.old
    BY <1>1 DEF World, JournalInv, PreviousThere
  <2>4. Whole(activation.previous)
    BY <1>1, <2>3 DEF World, DirInv
  <2> QED
    BY <2>1, <2>2, <2>3, <2>4
<1>3. /\ dirs' \in [Dirs -> DirRecords]
      /\ dirs'[p].place = "cache" /\ dirs'[p].tree = dirs[p].tree
      /\ dirs'[p].label = dirs[p].label
      /\ \A e \in Dirs \ {p} : dirs'[e] = dirs[e]
  BY <1>1, <1>2 DEF Moved, DirRecords
<1>4. Tables'
  BY <1>1, <1>3 DEF World, Tables
<1>5. ASSUME NEW e \in Dirs
      PROVE  DirInv(e)'
  BY <1>1, <1>2, <1>3 DEF World, DirInv, Whole
<1>6. OneCache'
  BY <1>1, <1>3, LiveNow DEF World, OneCache
<1>7. Live' = p /\ Live' # NoDir
  BY <1>3, <1>6, LiveNext
<1>8. Active' /\ ~NewIsLive' /\ (StageThere' <=> StageThere)
  BY <1>2, <1>3 DEF Active, NewIsLive, StageThere
<1>9. JournalInv'
  BY <1>1, <1>2, <1>3, <1>7, <1>8 DEF World, JournalInv
<1>10. ~NewIsLive
  BY <1>2 DEF NewIsLive
<1>11. NothingLost'
  <2>1. activation.old = Empty => \A e \in Dirs \ {p} : ~Visible(e)
    BY <1>1, <1>2, <1>10 DEF World, NothingLost
  <2>2. activation.old = Empty => \A e \in Dirs \ {p} : ~Visible(e)'
    BY <1>3, <2>1 DEF Visible
  <2> QED
    BY <1>2, <1>8, <2>2, NamesDiffer DEF NothingLost
<1>12. MountInv'
  <2>1. Shown(p)
    BY <1>1, <1>2, <1>10, NamesDiffer DEF World, MountInv, Shown
  <2>2. mounted # NoDir => /\ mounted \in Dirs /\ dirs'[mounted].label = dirs[mounted].label
                           /\ dirs'[mounted].place \in {"cache", "previous", "gone"}
                           /\ dirs[mounted].place = "gone" => dirs'[mounted].place = "gone"
    BY <1>1, <1>2, <1>3 DEF World, MountInv
  <2> QED
    BY <1>2, <1>3, <1>8, <2>1, <2>2, NamesDiffer DEF MountInv, Shown, Gone
<1> QED
  BY <1>2, <1>4, <1>5, <1>6, <1>7, <1>8, <1>9, <1>11, <1>12 DEF World

LEMMA RecoverUndoesInv ==
    ASSUME CatalogInv, NEW c \in Commands, RecoverUndoes(c)
    PROVE  CatalogInv'
<1>1. /\ commands[c] \in CommandRecords /\ FormInv(commands[c])
      /\ commands[c].pc = "recover" /\ Active
      /\ UNCHANGED <<activation, refresh, mounted, staged>> /\ upsets' \in 0..MaxUpsets
  BY WorldHolds DEF RecoverUndoes, On, Active
<1>2. /\ World' /\ Active' /\ Live' = activation.previous /\ Live' # NoDir
      /\ ~NewIsLive' /\ (StageThere' <=> StageThere)
  <2>1. CASE Live = NoDir
    <3>1. PreviousThere /\ dirs' = Moved(activation.previous, "cache")
      BY <2>1 DEF RecoverUndoes, Refuses
    <3> QED
      BY <1>1, <2>1, <3>1, OldComesBack
  <2>2. CASE Live # NoDir
    <3>1. ~PreviousThere /\ ~Finished /\ activation.previous # NoDir /\ UNCHANGED dirs
      BY <2>2 DEF RecoverUndoes, Refuses
    <3>2. Live = activation.previous
      BY <1>1, <3>1, LiveIsNamed
    <3>3. ~NewIsLive
      BY <1>1, <2>2, <3>1, LiveIsNamed DEF Finished
    <3> QED
      BY <1>1, <2>2, <3>1, <3>2, <3>3, SameWorld
  <2> QED
    BY <2>1, <2>2
<1>3. PICK pc \in {"drop", "clear"} :
        Moves(c, pc) /\ pc = IF StageThere THEN "drop" ELSE "clear"
  BY DEF RecoverUndoes
<1>4. PICK r \in CommandRecords :
              /\ Turn(c, r) /\ FormInv(r) /\ r.lock = "exclusive" /\ r.pc = pc
  <2>1. /\ pc \in Recovering /\ pc \notin Activating /\ commands[c].pc \in Excluding
        /\ commands[c].pc \in Recovering
    BY <1>1 DEF Recovering, Activating, Excluding
  <2> QED
    BY <1>3, <2>1, MovesOn
<1>5. KnowsInv(r)'
  BY <1>1, <1>2, <1>3, <1>4 DEF KnowsInv, Activating
<1>6. commands[c].lock = "exclusive"
  BY <1>1 DEF FormInv, Excluding, Recovering
<1> QED
  BY <1>1, <1>2, <1>4, <1>5, <1>6, CommandStep

-----------------------------------------------------------------------------
(* Steps that change the two files, and a prune.                           *)
LEMMA SameDirs ==
    ASSUME World, UNCHANGED <<dirs, staged>>
    PROVE  OneCache' /\ (\A d \in Dirs : DirInv(d)') /\ Live' = Live
<1>1. OneCache'
  BY DEF World, OneCache
<1>2. Live' = Live
  BY <1>1, LiveStays DEF World
<1> QED
  BY <1>1, <1>2 DEF World, DirInv, Whole

LEMMA WriteRefreshInv ==
    ASSUME CatalogInv, NEW c \in Commands, WriteRefresh(c)
    PROVE  CatalogInv'
<1>1. /\ commands[c] \in CommandRecords /\ FormInv(commands[c])
      /\ commands[c].pc = "refresh" /\ Moves(c, "clear") /\ Active /\ NewIsLive
      /\ UNCHANGED <<dirs, activation, mounted, staged>> /\ upsets' \in 0..MaxUpsets
  BY WorldHolds DEF WriteRefresh, On, KnowsInv
<1>2. World
  BY WorldHolds
<1>3. /\ OneCache' /\ \A d \in Dirs : DirInv(d)'
      /\ Live' = Live /\ Active' /\ NewIsLive'
  BY <1>1, <1>2, SameDirs DEF Active, NewIsLive
<1>4. /\ refresh' \in RefreshRecords /\ refresh'.content = activation.new
      /\ refresh'.required <=> activation.previous # NoDir
  BY <1>2 DEF World, Tables, WriteRefresh, RefreshRecords, JournalRecords
<1>5. Tables'
  BY <1>1, <1>2, <1>4 DEF World, Tables
<1>6. JournalInv'
  BY <1>1, <1>2, <1>3 DEF World, JournalInv
<1>7. NothingLost'
  BY <1>3 DEF NothingLost
<1>8. MountInv'
  BY <1>1, <1>2, <1>3 DEF World, MountInv, Gone
<1>9. World'
  BY <1>3, <1>5, <1>6, <1>7, <1>8 DEF World
<1>10. /\ Live # NoDir /\ dirs[Live].tree = activation.new
       /\ activation.previous # NoDir => dirs[Live].label = activation.new
  <2>1. Live = activation.stage /\ dirs[Live].tree = activation.new
    BY <1>1, LiveIsNamed
  <2> QED
    BY <1>1, <1>2, <2>1, NamesDiffer DEF World, JournalInv
<1>11. Shown(Live)'
  <2>1. activation.previous = NoDir => mounted = NoDir \/ mounted = Live \/ Gone(mounted)
    BY <1>1, <1>2 DEF World, MountInv
  <2> QED
    BY <1>1, <1>3, <1>4, <1>10, <2>1 DEF Shown, Gone
<1>12. PICK r \in CommandRecords :
              /\ Turn(c, r) /\ FormInv(r) /\ r.lock = "exclusive" /\ r.pc = "clear"
  <2>1. /\ "clear" \in Recovering /\ "clear" \notin Activating /\ commands[c].pc \in Excluding
        /\ commands[c].pc \in Recovering
    BY <1>1 DEF Recovering, Activating, Excluding
  <2> QED
    BY <1>1, <2>1, MovesOn
<1>13. KnowsInv(r)'
  BY <1>3, <1>10, <1>11, <1>12 DEF KnowsInv, Activating
<1>14. commands[c].lock = "exclusive"
  BY <1>1 DEF FormInv, Excluding, Recovering
<1> QED
  BY <1>1, <1>9, <1>12, <1>13, <1>14, CommandStep

LEMMA ClearActivationInv ==
    ASSUME CatalogInv, NEW c \in Commands, ClearActivation(c)
    PROVE  CatalogInv'
<1>1. /\ FormInv(commands[c]) /\ KnowsInv(commands[c])
      /\ commands[c].pc = "clear" /\ GoesOn(c) /\ activation' = NoActivation
      /\ UNCHANGED <<dirs, refresh, mounted, staged>> /\ upsets' \in 0..MaxUpsets
  BY WorldHolds DEF ClearActivation, On
<1>2. /\ World /\ Active /\ Live # NoDir
      /\ NewIsLive => Shown(Live)
      /\ ~NewIsLive => Live = activation.previous
  BY <1>1, WorldHolds DEF KnowsInv
<1>3. OneCache' /\ (\A d \in Dirs : DirInv(d)') /\ Live' = Live /\ ~Active'
  BY <1>1, <1>2, SameDirs DEF Active
<1>4. NoActivation \in JournalRecords
  BY DEF NoActivation, JournalRecords
<1>5. Tables'
  BY <1>1, <1>2, <1>4 DEF World, Tables
<1>6. Live \in Dirs /\ dirs[Live].place = "cache"
  BY <1>2, LiveNow DEF World
<1>7. dirs[Live].tree = IF NewIsLive THEN activation.new ELSE activation.old
  BY <1>2, LiveIsNamed DEF World, JournalInv
<1>8. NothingLost'
  <2>1. dirs[Live].tree = Empty => \A d \in Dirs \ {Live} : ~Visible(d)
    BY <1>2, <1>7, NamesDiffer DEF World, NothingLost, JournalInv
  <2>2. ~Visible(Live)
    BY <1>6 DEF Visible
  <2>3. \A d \in Dirs : Visible(d)' <=> Visible(d)
    BY <1>1 DEF Visible
  <2> QED
    BY <1>1, <1>2, <1>3, <2>1, <2>2, <2>3 DEF NothingLost
<1>9. MountInv'
  <2>1. Shown(Live)
    BY <1>2 DEF World, MountInv, Shown
  <2> QED
    BY <1>1, <1>2, <1>3, <2>1 DEF World, MountInv, Shown, Gone
<1>10. World'
  BY <1>3, <1>5, <1>8, <1>9 DEF World, JournalInv
<1>11. PICK r \in CommandRecords :
              /\ Turn(c, r) /\ FormInv(r) /\ r.lock \in {"none", "exclusive"}
              /\ r.pc \in {"check", "stage", "prune", "probe", "cleanup"}
  <2>1. commands[c].pc \in Recovering
    BY <1>1 DEF Recovering
  <2> QED
    BY <1>1, <2>1, GoesOnHolds
<1>12. KnowsInv(r)'
  BY <1>3, <1>11 DEF KnowsInv, Activating
<1>13. commands[c].lock = "exclusive"
  BY <1>1 DEF FormInv, Excluding, Recovering
<1> QED
  BY <1>1, <1>10, <1>11, <1>12, <1>13, CommandStep

LEMMA ProbeInv ==
    ASSUME CatalogInv, NEW c \in Commands, Probe(c)
    PROVE  CatalogInv'
<1>1. /\ FormInv(commands[c]) /\ commands[c].pc = "probe" /\ Moves(c, "cleanup") /\ ~Active
      /\ UNCHANGED <<dirs, activation, mounted, staged>> /\ upsets' \in 0..MaxUpsets
  BY WorldHolds DEF Probe, On, KnowsInv
<1>2. World /\ refresh \in RefreshRecords
  BY WorldHolds DEF World, Tables
<1>3. OneCache' /\ (\A d \in Dirs : DirInv(d)') /\ Live' = Live /\ ~Active'
  BY <1>1, <1>2, SameDirs DEF Active
<1>4. /\ refresh' \in RefreshRecords /\ refresh'.content = refresh.content
      /\ refresh.required =>
             refresh'.required \/ (mounted # NoDir /\ dirs[mounted].label = refresh.content)
  <2>1. PICK required \in BOOLEAN :
          /\ required = (refresh.required
                           /\ ~(mounted # NoDir /\ dirs[mounted].label = refresh.content))
          /\ refresh' = [refresh EXCEPT !.required = required]
    BY DEF Probe
  <2> QED
    BY <1>2, <2>1 DEF RefreshRecords
<1>5. Tables'
  BY <1>1, <1>2, <1>4 DEF World, Tables
<1>6. NothingLost'
  BY <1>1, <1>2, <1>3 DEF World, NothingLost, Visible
<1>7. MountInv'
  BY <1>1, <1>2, <1>3, <1>4 DEF World, MountInv, Shown, Gone
<1>8. World'
  BY <1>3, <1>5, <1>6, <1>7 DEF World, JournalInv
<1>9. PICK r \in CommandRecords :
              /\ Turn(c, r) /\ FormInv(r) /\ r.lock = "exclusive" /\ r.pc = "cleanup"
  <2>1. /\ "cleanup" \notin Recovering /\ "cleanup" \notin Activating
        /\ commands[c].pc \in Excluding
    BY <1>1 DEF Recovering, Activating, Excluding
  <2> QED
    BY <1>1, <2>1, MovesOn
<1>10. KnowsInv(r)'
  BY <1>9 DEF KnowsInv, Activating
<1>11. commands[c].lock = "exclusive"
  BY <1>1 DEF FormInv, Excluding
<1> QED
  BY <1>1, <1>8, <1>9, <1>10, <1>11, CommandStep

(* The mounted directory may be the one that is removed: then it is gone.  *)
LEMMA PruneInv ==
    ASSUME CatalogInv, NEW c \in Commands, Prune(c)
    PROVE  CatalogInv'
<1>1. /\ commands[c] \in CommandRecords /\ FormInv(commands[c]) /\ KnowsInv(commands[c])
      /\ commands[c].pc = "prune" /\ ~Active
      /\ UNCHANGED <<activation, refresh, mounted, staged>> /\ upsets' \in 0..MaxUpsets
  BY WorldHolds DEF Prune, On, KnowsInv
<1>2. World /\ dirs \in [Dirs -> DirRecords]
  BY WorldHolds DEF World, Tables
<1>3. CASE Ends(c) /\ UNCHANGED dirs
  BY <1>1, <1>3, EndsKeeps
<1>4. ASSUME NEW d \in Retired, dirs' = Removed(d), UNCHANGED commands
      PROVE  CatalogInv'
  <2>1. d \in Dirs /\ dirs[d].place = "previous"
    BY DEF Retired, In
  <2>2. /\ dirs' \in [Dirs -> DirRecords]
        /\ dirs'[d].place = "gone" /\ dirs'[d].tree = Torn
        /\ \A e \in Dirs \ {d} : dirs'[e] = dirs[e]
    <3>1. [place |-> "gone", tree |-> Torn, label |-> Empty] \in DirRecords
      BY DEF DirRecords, Trees
    <3>2. dirs'[d] = [place |-> "gone", tree |-> Torn, label |-> Empty]
      BY <1>2, <1>4, <2>1 DEF Removed
    <3> QED
      BY <1>2, <1>4, <2>1, <3>1, <3>2 DEF Removed
  <2>3. ASSUME NEW e \in Dirs
        PROVE  DirInv(e)'
    <3>1. CASE e = d
      BY <1>1, <1>2, <2>1, <2>2, <3>1 DEF World, DirInv
    <3>2. CASE e # d
      BY <1>1, <1>2, <2>2, <3>2 DEF World, DirInv, Whole
    <3> QED
      BY <3>1, <3>2
  <2>4. OneCache'
    BY <1>2, <2>2 DEF World, OneCache
  <2>5. Live' = Live /\ ~Active' /\ (Live # NoDir => Live \in Dirs /\ Live # d)
    BY <1>1, <1>2, <2>1, <2>2, <2>4, LiveStays, LiveNow DEF World, Active
  <2>6. \A e \in Dirs : Visible(e)' => Visible(e)
    BY <2>2 DEF Visible
  <2>7. NothingLost'
    BY <1>1, <1>2, <2>2, <2>5, <2>6 DEF World, NothingLost
  <2>8. MountInv'
    <3>1. CASE mounted = d
      BY <1>1, <1>2, <2>1, <2>2, <2>5, <3>1, NamesDiffer DEF World, MountInv, Shown, Gone
    <3>2. CASE mounted # d
      BY <1>1, <1>2, <2>1, <2>2, <2>5, <3>2 DEF World, MountInv, Shown, Gone
    <3> QED
      BY <3>1, <3>2
  <2>9. Tables'
    BY <1>1, <1>2, <2>2 DEF World, Tables
  <2>10. World'
    BY <2>3, <2>4, <2>5, <2>7, <2>8, <2>9 DEF World, JournalInv
  <2>11. PICK r \in CommandRecords : r = commands[c]
    BY <1>1
  <2>12. Turn(c, r)
    BY <1>4, <2>11, WorldHolds DEF Turn
  <2>13. KnowsInv(r)'
    BY <1>1, <2>5, <2>11 DEF KnowsInv, Activating
  <2>14. commands[c].lock = "exclusive"
    BY <1>1 DEF FormInv, Excluding
  <2> QED
    BY <1>1, <2>10, <2>11, <2>12, <2>13, <2>14, CommandStep
<1> QED
  BY <1>3, <1>4 DEF Prune

-----------------------------------------------------------------------------
(* Steps of nobody's: what each command knows must outlive them.           *)
LEMMA CommandsKeep ==
    ASSUME CatalogInv, World', UNCHANGED <<commands, upsets>>,
           \A c \in Commands : KnowsInv(commands[c])'
    PROVE  CatalogInv'
<1>1. CatalogTypeOK'
  BY WorldHolds DEF World, Tables, CatalogTypeOK, DirRecords, JournalRecords,
                      RefreshRecords, CommandRecords
<1>2. LocksInv'
  BY WorldHolds DEF LocksInv
<1>3. \A c \in Commands : FormInv(commands[c])'
  BY WorldHolds DEF FormInv, ToSync
<1> QED
  BY <1>1, <1>2, <1>3 DEF World, CatalogInv

LEMMA BootstrapInv ==
    ASSUME CatalogInv, Bootstrap
    PROVE  CatalogInv'
<1>1. /\ Live = NoDir /\ staged < MaxSyncs /\ staged' = staged + 1
      /\ UNCHANGED <<activation, refresh, mounted, commands, upsets>>
  BY DEF Bootstrap
<1>2. World /\ dirs \in [Dirs -> DirRecords] /\ staged \in 0..MaxSyncs
  BY WorldHolds DEF World, Tables
<1>3. PICK d \in Dirs : /\ d = staged + 4 /\ dirs[d] = Absence
                        /\ staged' \in 0..MaxSyncs
  <2>1. staged + 4 \in Dirs /\ staged' \in 0..MaxSyncs
    BY <1>1, <1>2, NamesDiffer DEF Dirs
  <2> QED
    BY <1>2, <2>1 DEF World, DirInv
<1>4. /\ dirs' \in [Dirs -> DirRecords]
      /\ dirs'[d].place = "cache" /\ dirs'[d].tree = Empty /\ dirs'[d].label = Empty
      /\ \A e \in Dirs \ {d} : dirs'[e] = dirs[e]
  <2>1. dirs' = [dirs EXCEPT ![d].place = "cache"]
    BY <1>3 DEF Bootstrap, NextDir
  <2> QED
    BY <1>2, <1>3, <2>1 DEF DirRecords, Trees, Absence
<1>5. dirs[d].place = "none"
  BY <1>3 DEF Absence
<1>6. Tables'
  BY <1>1, <1>2, <1>3, <1>4 DEF World, Tables
<1>7. ASSUME NEW e \in Dirs
      PROVE  DirInv(e)'
  <2>1. CASE e = d
    BY <1>1, <1>2, <1>3, <1>4, <2>1, NamesDiffer DEF DirInv, Whole
  <2>2. CASE e # d
    BY <1>1, <1>2, <1>4, <2>2, NamesDiffer DEF World, DirInv, Whole
  <2> QED
    BY <2>1, <2>2
<1>8. OneCache'
  BY <1>1, <1>2, <1>4, LiveNow DEF World, OneCache
<1>9. Live' = d /\ (Active' <=> Active)
  BY <1>1, <1>4, <1>8, LiveNext DEF Active
<1>10. Active => /\ activation.stage # d /\ activation.previous # d
                 /\ (NewIsLive' <=> NewIsLive) /\ ~NewIsLive
  <2> SUFFICES ASSUME Active
               PROVE  /\ activation.stage # d /\ activation.previous # d
                      /\ (NewIsLive' <=> NewIsLive) /\ ~NewIsLive
    OBVIOUS
  <2>1. activation.stage \in Dirs /\ activation.stage # d /\ activation.previous # d
    BY <1>2, <1>5, NamesDiffer DEF World, JournalInv
  <2>2. ~NewIsLive
    BY <1>1, <1>2, <2>1, LiveNow DEF World, NewIsLive
  <2> QED
    BY <1>1, <1>4, <2>1, <2>2 DEF NewIsLive
<1>11. JournalInv'
  BY <1>1, <1>2, <1>4, <1>9, <1>10 DEF World, JournalInv
<1>12. \A e \in Dirs : Visible(e)' => Visible(e)
  BY <1>4 DEF Visible
<1>13. NothingLost'
  BY <1>1, <1>2, <1>9, <1>10, <1>12 DEF World, NothingLost
<1>14. MountInv'
  <2>1. mounted # NoDir => mounted \in Dirs /\ dirs'[mounted] = dirs[mounted]
    BY <1>2, <1>4, <1>5 DEF World, MountInv
  <2>2. Active /\ activation.previous # NoDir =>
            dirs'[activation.previous] = dirs[activation.previous]
    BY <1>2, <1>4, <1>10 DEF World, JournalInv
  <2>3. ~Active => mounted = NoDir
    BY <1>1, <1>2 DEF World, MountInv
  <2>4. Active /\ activation.previous = NoDir => mounted = NoDir \/ Gone(mounted)
    BY <1>1, <1>2 DEF World, MountInv
  <2>5. Active /\ activation.previous # NoDir /\ ~NewIsLive =>
            Shown(activation.previous) \/ mounted = NoDir
    BY <1>1, <1>2 DEF World, MountInv
  <2> QED
    BY <1>1, <1>2, <1>4, <1>9, <1>10, <2>1, <2>2, <2>3, <2>4, <2>5
    DEF World, MountInv, Shown, Gone
<1>15. World'
  BY <1>6, <1>7, <1>8, <1>11, <1>13, <1>14 DEF World
<1>16. ASSUME NEW c \in Commands
       PROVE  KnowsInv(commands[c])'
  <2>1. PICK r \in CommandRecords : r = commands[c] /\ FormInv(r) /\ KnowsInv(r)
    BY WorldHolds
  <2>2. r.pc \in Activating => /\ dirs'[r.stage] = dirs[r.stage]
                               /\ r.want \in Catalogs
    <3>1. r.pc \in Activating => r.stage \in Dirs /\ r.stage # d
      BY <1>5, <2>1 DEF FormInv, KnowsInv, CommandRecords
    <3> QED
      BY <1>4, <2>1, <3>1 DEF FormInv, ToSync
  <2>3. r.pc \notin {"retire", "drop", "clear", "refresh"} /\ ~(r.pc = "copy" /\ r.lock = "shared")
    BY <1>1, <1>10, <2>1 DEF KnowsInv
  <2>4. KnowsInv(r)'
    BY <1>1, <1>4, <1>9, <1>10, <2>1, <2>2, <2>3, NamesDiffer DEF KnowsInv, Activating
  <2> QED
    BY <1>1, <2>1, <2>4
<1> QED
  BY <1>1, <1>15, <1>16, CommandsKeep

LEMMA RecreateUiInv ==
    ASSUME CatalogInv, RecreateUi
    PROVE  CatalogInv'
<1>1. /\ Live # NoDir /\ mounted' = Live
      /\ UNCHANGED <<dirs, activation, refresh, commands, staged, upsets>>
  BY DEF RecreateUi
<1>2. World
  BY WorldHolds
<1>3. /\ OneCache' /\ \A d \in Dirs : DirInv(d)'
      /\ Live' = Live /\ (Active' <=> Active) /\ (NewIsLive' <=> NewIsLive)
      /\ (StageThere' <=> StageThere)
  BY <1>1, <1>2, SameDirs DEF Active, NewIsLive, StageThere
<1>4. Live \in Dirs /\ dirs[Live].place = "cache"
  BY <1>1, <1>2, LiveNow DEF World
<1>5. Tables'
  BY <1>1, <1>2, <1>4 DEF World, Tables
<1>6. JournalInv'
  BY <1>1, <1>2, <1>3 DEF World, JournalInv
<1>7. NothingLost'
  BY <1>1, <1>2, <1>3 DEF World, NothingLost, Visible
<1>8. MountInv'
  BY <1>1, <1>3, <1>4 DEF MountInv, Shown
<1>9. World'
  BY <1>3, <1>5, <1>6, <1>7, <1>8 DEF World
<1>10. Shown(Live)'
  BY <1>1, <1>3 DEF Shown
<1>11. ASSUME NEW c \in Commands
       PROVE  KnowsInv(commands[c])'
  <2>1. PICK r \in CommandRecords : r = commands[c] /\ KnowsInv(r)
    BY WorldHolds
  <2>2. KnowsInv(r)'
    BY <1>1, <1>3, <1>10, <2>1 DEF KnowsInv
  <2> QED
    BY <1>1, <2>1, <2>2
<1> QED
  BY <1>1, <1>9, <1>11, CommandsKeep

-----------------------------------------------------------------------------
LEMMA CatalogStarts == CatalogInit => CatalogInv
<1> SUFFICES ASSUME CatalogInit PROVE CatalogInv
  OBVIOUS
<1>1. /\ activation = NoActivation /\ refresh = Settled /\ mounted = Live
      /\ commands = [c \in Commands |-> Rested] /\ staged = 0 /\ upsets = 0
  BY DEF CatalogInit
<1>2. /\ Absence \in DirRecords /\ Absence.place = "none" /\ Absence.tree = Empty
      /\ Absence.label = Empty
  BY DEF Absence, DirRecords, Trees
<1>3. {1, 2, 3} \subseteq Dirs
  BY NamesDiffer DEF Dirs
<1>4. /\ dirs \in [Dirs -> DirRecords]
      /\ \A d \in Dirs : /\ dirs[d].place \in {"none", "cache", "previous"}
                         /\ dirs[d].place = "none" => dirs[d] = Absence
                         /\ dirs[d].place # "none" => d \in {1, 2, 3} /\ Whole(d)
      /\ \/ \A d \in Dirs : dirs[d].place # "cache"
         \/ \E l \in Dirs : \A d \in Dirs : dirs[d].place = "cache" <=> d = l
      /\ \/ \A d \in Dirs : dirs[d].place # "previous"
         \/ \E l \in Dirs : dirs[l].place = "cache" /\ dirs[l].tree # Empty
  <2>1. CASE dirs = [d \in Dirs |-> Absence]
    BY <1>2, <2>1
  <2>2. CASE dirs = [d \in Dirs |-> IF d = 1 THEN [Absence EXCEPT !.place = "cache"] ELSE Absence]
    <3> DEFINE made == [Absence EXCEPT !.place = "cache"]
    <3>1. made \in DirRecords /\ made.place = "cache" /\ made.tree = Empty /\ made.label = Empty
      BY DEF Absence, DirRecords, Trees
    <3>2. dirs[1] = made /\ \A d \in Dirs \ {1} : dirs[d] = Absence
      BY <1>3, <2>2
    <3> HIDE DEF made
    <3>3. dirs \in [Dirs -> DirRecords]
      BY <1>2, <2>2, <3>1 DEF made
    <3> QED
      BY <1>2, <1>3, <3>1, <3>2, <3>3, NamesDiffer DEF Whole
  <2>3. CASE \E first \in Catalogs : \E second \in Catalogs \ {first} :
               dirs = [d \in Dirs |->
                         CASE d = 1 -> [place |-> "previous", tree |-> first, label |-> first]
                           [] d = 2 -> [place |-> "previous", tree |-> second, label |-> second]
                           [] d = 3 -> [place |-> "cache", tree |-> first, label |-> first]
                           [] OTHER -> Absence]
    <3>1. PICK first \in Catalogs, second \in Catalogs :
               dirs = [d \in Dirs |->
                         CASE d = 1 -> [place |-> "previous", tree |-> first, label |-> first]
                           [] d = 2 -> [place |-> "previous", tree |-> second, label |-> second]
                           [] d = 3 -> [place |-> "cache", tree |-> first, label |-> first]
                           [] OTHER -> Absence]
      BY <2>3
    <3> DEFINE one == [place |-> "previous", tree |-> first, label |-> first]
               two == [place |-> "previous", tree |-> second, label |-> second]
               three == [place |-> "cache", tree |-> first, label |-> first]
    <3>2. /\ one \in DirRecords /\ two \in DirRecords /\ three \in DirRecords
          /\ one.place = "previous" /\ two.place = "previous" /\ three.place = "cache"
          /\ one.tree = first /\ two.tree = second /\ three.tree = first
          /\ one.label = first /\ two.label = second /\ three.label = first
      BY DEF DirRecords, Trees
    <3>3. /\ dirs[1] = one /\ dirs[2] = two /\ dirs[3] = three
          /\ \A d \in Dirs \ {1, 2, 3} : dirs[d] = Absence
      BY <1>3, <3>1
    <3>4. dirs = [d \in Dirs |-> dirs[d]]
      BY <3>1
    <3> HIDE DEF one, two, three
    <3>5. \A d \in Dirs : dirs[d] \in DirRecords
      BY <1>2, <3>2, <3>3
    <3>6. dirs \in [Dirs -> DirRecords]
      BY <3>4, <3>5
    <3> QED
      BY <1>2, <1>3, <3>2, <3>3, <3>6, NamesDiffer DEF Whole
  <2> QED
    BY <2>1, <2>2, <2>3 DEF CatalogInit
<1>5. OneCache
  BY <1>4 DEF OneCache
<1>6. /\ Live # NoDir => Live \in Dirs /\ dirs[Live].place = "cache"
      /\ \A d \in Dirs : dirs[d].place = "cache" => d = Live
      /\ Live = NoDir <=> \A d \in Dirs : dirs[d].place # "cache"
  BY <1>5, LiveNow
<1>7. Tables /\ ~Active
  <2>1. NoActivation \in JournalRecords /\ Settled \in RefreshRecords /\ staged \in 0..MaxSyncs
    BY <1>1, NamesDiffer DEF NoActivation, JournalRecords, Settled, RefreshRecords
  <2> QED
    BY <1>1, <1>4, <1>6, <2>1 DEF Tables, Active
<1>8. ASSUME NEW d \in Dirs
      PROVE  DirInv(d)
  <2>1. d > staged + 3 => d \notin {1, 2, 3}
    BY <1>1
  <2> QED
    BY <1>4, <2>1 DEF DirInv
<1>9. NothingLost
  BY <1>4, <1>6, <1>7 DEF NothingLost, Visible
<1>10. MountInv
  BY <1>1, <1>6, <1>7 DEF MountInv, Shown
<1>11. CatalogTypeOK /\ LocksInv
  BY <1>1, <1>7, CatalogTypes, RestedType, NamesDiffer DEF LocksInv
<1> QED
  BY <1>1, <1>5, <1>7, <1>8, <1>9, <1>10, <1>11, RestedType DEF CatalogInv, JournalInv

LEMMA CatalogSteps == CatalogInv /\ [CatalogNext]_catalogVars => CatalogInv'
<1> SUFFICES ASSUME CatalogInv, [CatalogNext]_catalogVars PROVE CatalogInv'
  OBVIOUS
<1>1. ASSUME NEW c \in Commands, CatalogStep(c)
      PROVE  CatalogInv'
  BY <1>1, StartsInv, EnsureInv, LockExclusiveInv, ReadingInv, RecoverQuietInv, RecoverUndoesInv,
     ActivateInv, ActivateFailsInv, DropStageInv, WriteRefreshInv, ClearActivationInv, StageInv,
     WriteActivationInv, RetireInv, ProbeInv, ProbeFailsInv, CleanupInv, PruneInv, CatalogEndingInv
     DEF CatalogStep
<1>2. CASE UNCHANGED catalogVars
  <2>1. World'
    BY <1>2, SameWorld DEF catalogVars
  <2>2. \A c \in Commands : KnowsInv(commands[c])'
    BY <1>2, SameWorld, WorldHolds DEF catalogVars, KnowsInv
  <2> QED
    BY <1>2, <2>1, <2>2, CommandsKeep DEF catalogVars
<1> QED
  BY <1>1, <1>2, BootstrapInv, RecreateUiInv DEF CatalogNext

LEMMA CatalogInvariantHolds == CatalogSpec => []CatalogInv
BY CatalogStarts, CatalogSteps, PTL DEF CatalogSpec

(* Every variable of the catalog keeps its type: places, journal, refresh  *)
(* file, what each command is at (operator/templates_sync.go).             *)
THEOREM CatalogTypeCorrect == CatalogSpec => []CatalogTypeOK
<1>1. CatalogInv => CatalogTypeOK
  BY DEF CatalogInv
<1> QED
  BY <1>1, CatalogInvariantHolds, PTL

(* The live catalog is whole and has no provenance but its own, or the     *)
(* journal names the last one, whole, and it stays while a reader who took *)
(* the lock copies what it checked: activateTemplatesCatalog, recovery and *)
(* lockTemplatesCatalogForRead, with kills and failures at every step.     *)
THEOREM CatalogStaysKept == CatalogSpec => []CatalogIsKept
<1>1. CatalogInv => CatalogIsKept
  <2> SUFFICES ASSUME CatalogInv PROVE CatalogIsKept
    OBVIOUS
  <2>1. World
    BY WorldHolds
  <2>2. /\ Live # NoDir => Live \in Dirs /\ dirs[Live].place = "cache"
        /\ \A d \in Dirs : dirs[d].place = "cache" => d = Live
        /\ Live # NoDir => Whole(Live)
    BY <2>1, LiveNow DEF World, DirInv
  <2>3. Cardinality(In("cache")) <= 1
    <3>1. CASE Live = NoDir
      <4>1. In("cache") = {}
        BY <2>1, <3>1, LiveNow DEF World, In
      <4> QED
        BY <4>1, FS_EmptySet
    <3>2. CASE Live # NoDir
      <4>1. PICK l \in Dirs : l = Live
        BY <2>2, <3>2
      <4>2. In("cache") = {l}
        BY <2>2, <3>2, <4>1 DEF In
      <4> QED
        BY <4>2, FS_Singleton
    <3> QED
      BY <3>1, <3>2
  <2>4. ASSUME Live = NoDir \/ dirs[Live].tree = Empty, Published
        PROVE  /\ PreviousThere /\ Whole(activation.previous)
               /\ dirs[activation.previous].tree = activation.old
    <3>1. PICK d \in Dirs : Visible(d)
      BY <2>4 DEF Published, Visible
    <3>2. Active
      BY <2>1, <2>4, <3>1 DEF World, NothingLost
    <3>3. ~NewIsLive
      BY <2>1, <2>4, <3>2, LiveIsNamed, NamesDiffer DEF World, JournalInv
    <3>4. activation.previous # NoDir
      BY <2>1, <3>1, <3>2, <3>3, NamesDiffer DEF World, NothingLost
    <3>5. /\ activation.previous \in Dirs
          /\ dirs[activation.previous].place \in {"cache", "previous"}
          /\ dirs[activation.previous].tree = activation.old
      BY <2>1, <3>2, <3>4 DEF World, JournalInv
    <3>6. dirs[activation.previous].place = "previous"
      <4>1. CASE activation.old = Empty
        <5>1. d = activation.previous
          BY <2>1, <3>1, <3>2, <3>3, <4>1 DEF World, NothingLost
        <5> QED
          BY <3>1, <3>5, <5>1 DEF Visible
      <4>2. CASE activation.old # Empty
        <5>1. dirs[activation.previous].place = "cache" => activation.previous = Live
          BY <2>2, <3>5
        <5> QED
          BY <2>4, <3>4, <3>5, <4>2, <5>1
      <4> QED
        BY <4>1, <4>2
    <3> QED
      BY <2>1, <3>4, <3>5, <3>6 DEF PreviousThere, World, DirInv
  <2>5. ASSUME NEW c \in Commands, On(c, "copy"), commands[c].lock = "shared"
        PROVE  Live = commands[c].root
    BY <2>5, WorldHolds DEF On, KnowsInv
  <2> QED
    BY <2>2, <2>3, <2>4, <2>5 DEF CatalogIsKept
<1> QED
  BY <1>1, CatalogInvariantHolds, PTL

(* Once no activation is under way, the workspace UI shows the live        *)
(* catalog or its refresh is still owed, unless what it has mounted is     *)
(* gone: finishCatalogActivation writes the refresh before it clears the   *)
(* journal, and templatesUIRefreshStatus only ends one that was done.      *)
THEOREM RefreshStaysOwed == CatalogSpec => []RefreshIsOwed
<1>1. CatalogInv => RefreshIsOwed
  BY WorldHolds DEF World, MountInv, Shown, Gone, Active, RefreshIsOwed
<1> QED
  BY <1>1, CatalogInvariantHolds, PTL

(* recoverCatalogActivation refuses a journal only after its stage was     *)
(* removed, or with an empty directory of bootstrap live in between.       *)
THEOREM RefusalsNeedALostStage == CatalogSpec => []RefusalNeedsALostStage
<1>1. CatalogInv => RefusalNeedsALostStage
  <2> SUFFICES ASSUME CatalogInv, Active, Refuses, Live = NoDir \/ dirs[Live].tree # Empty
               PROVE  /\ dirs[activation.stage].tree = Torn
                      /\ \/ dirs[activation.stage].place = "stage"
                         \/ activation.previous = NoDir
    BY DEF RefusalNeedsALostStage, Active
  <2>1. World
    BY WorldHolds
  <2>2. /\ activation.stage \in Dirs
        /\ dirs[activation.stage].place \in {"stage", "cache", "gone"}
        /\ dirs[activation.stage].tree \in {activation.new, Torn}
        /\ dirs[activation.stage].place = "gone" => dirs[activation.stage].tree = Torn
        /\ activation.previous # NoDir => dirs[activation.previous].tree = activation.old
    BY <2>1 DEF World, JournalInv
  <2>3. CASE StageThere /\ dirs[activation.stage].tree # activation.new
    BY <2>2, <2>3 DEF StageThere
  <2>4. /\ Live # NoDir => Live \in Dirs /\ dirs[Live].place = "cache"
        /\ Live = NoDir => dirs[activation.stage].place # "cache"
    BY <2>1, <2>2, LiveNow DEF World
  <2>5. CASE Live # NoDir /\ ~Finished
    <3>1. Live # activation.stage
      BY <2>4, <2>5, LiveIsNamed DEF Finished, NewIsLive
    <3>2. Live = activation.previous
      BY <2>5, <3>1, LiveIsNamed
    <3>3. dirs[Live].tree = activation.old /\ ~PreviousThere /\ activation.previous # NoDir
      BY <2>2, <2>4, <2>5, <3>2 DEF PreviousThere
    <3> QED
      BY <2>3, <2>5, <3>3 DEF Refuses
  <2>6. CASE Live = NoDir
    <3>1. activation.previous # NoDir =>
              PreviousThere /\ dirs[activation.previous].tree = activation.old
      BY <2>2, <2>6, LiveIsNamed
    <3>2. ~StageThere => dirs[activation.stage].tree = Torn
      BY <2>2, <2>4, <2>6, NamesDiffer DEF StageThere
    <3> QED
      BY <2>3, <2>6, <3>1, <3>2 DEF Refuses
  <2> QED
    BY <2>3, <2>5, <2>6 DEF Refuses
<1> QED
  BY <1>1, CatalogInvariantHolds, PTL

-----------------------------------------------------------------------------
(* The operator's commands side by side keep what each of them keeps: a    *)
(* command on a migration touches no file of the catalog, and back.        *)
LEMMA OperatorInvariantHolds == OperatorSpec => [](ApplyInv /\ CatalogInv)
<1>1. OperatorInit => ApplyInv /\ CatalogInv
  BY ApplyStarts, CatalogStarts DEF OperatorInit
<1>2. ApplyInv /\ CatalogInv /\ [OnMigration \/ OnCatalog]_<<vars, catalogVars, part>>
        => (ApplyInv /\ CatalogInv)'
  BY ApplySteps, CatalogSteps DEF OnMigration, OnCatalog
<1> QED
  BY <1>1, <1>2, PTL DEF OperatorSpec

(* The types of both.                                                      *)
THEOREM OperatorTypesCorrect == OperatorSpec => []OperatorTypesOK
<1>1. ApplyInv /\ CatalogInv => OperatorTypesOK
  BY DEF ApplyInv, CatalogInv, OperatorTypesOK
<1> QED
  BY <1>1, OperatorInvariantHolds, PTL
=============================================================================
