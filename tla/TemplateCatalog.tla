---------------------------- MODULE TemplateCatalog ----------------------------
(***************************************************************************)
(* The templates catalog of the operator: publishing a new generation,     *)
(* recovering an interrupted publication, reading and pruning              *)
(* (operator/templates_sync.go, templates_recovery.go, templates_catalog.go*)
(* and templates_retention.go).                                            *)
(*                                                                         *)
(* A sync stages the new catalog in a directory of its own, notes in a     *)
(* journal what it is about to do, renames the live catalog away and the   *)
(* staged one into its place.  Both renames and the journal are single     *)
(* steps on disk and a kill may come between any two; the next command     *)
(* finishes or undoes what the journal names.  A retired catalog is kept:  *)
(* the workspace UI has the directory that was live when its container was *)
(* created mounted, and goes on reading it.  So a directory keeps its      *)
(* identity here when it is renamed.                                       *)
(*                                                                         *)
(* Commands are processes that meet in flock on .templates-sync.lock,      *)
(* which the kernel releases when one is killed.  What a ref resolves to,  *)
(* the validation of a catalog and live development checkouts are left     *)
(* out; a catalog's content stands for its hash and its ref.               *)
(***************************************************************************)
EXTENDS Naturals, FiniteSets

CONSTANTS Commands,   \* processes of the operator
          Catalogs,   \* what a catalog may contain
          Empty,      \* the content of the directory that bootstrap makes
          Torn,       \* what is left of a directory that is being removed
          Keep,       \* how many retired catalogs a prune keeps
          MaxSyncs,   \* bound: directories made, to stage a catalog or by bootstrap
          MaxUpsets   \* bound: kills and failed file operations

ASSUME CatalogNames ==
    /\ Empty \notin Catalogs /\ Torn \notin Catalogs \cup {Empty}
    /\ Keep \in Nat /\ Keep >= 2 /\ MaxSyncs \in Nat /\ MaxUpsets \in Nat

VARIABLES
    dirs,       \* the directories: where each is, its tree, its provenance file
    activation, \* .templates-activation.json
    refresh,    \* .templates-ui-refresh.json
    mounted,    \* the directory that the workspace UI has mounted
    commands,   \* what each process is at
    staged,     \* how many directories have been made
    upsets

catalogVars == <<dirs, activation, refresh, mounted, commands, staged, upsets>>

-----------------------------------------------------------------------------
(* The first three directories are there from the start or never.          *)
NoDir == 0
Dirs == 1..(MaxSyncs + 3)
NextDir == staged + 4
Trees == Catalogs \cup {Empty, Torn}

Absence == [place |-> "none", tree |-> Empty, label |-> Empty]
NoActivation == [stage |-> NoDir, previous |-> NoDir, new |-> Empty, old |-> Empty]
Settled == [required |-> FALSE, content |-> Empty]
Rested == [kind |-> "none", pc |-> "idle", want |-> Empty, stage |-> NoDir, lock |-> "none",
           then |-> "none", failed |-> FALSE, root |-> NoDir]

(* The directory named templates-cache, if there is one.                   *)
In(place) == {d \in Dirs : dirs[d].place = place}
Live == IF In("cache") = {} THEN NoDir ELSE CHOOSE d \in In("cache") : TRUE
Moved(d, place) == [dirs EXCEPT ![d].place = place]
Removed(d) == [dirs EXCEPT ![d] = [place |-> "gone", tree |-> Torn, label |-> Empty]]

(* os.Rename refuses a directory that it finds at templates-cache, but it  *)
(* looks first: an empty one that is made after that is replaced.          *)
MadeLive(d) ==
    [e \in Dirs |-> IF e = d THEN [dirs[d] EXCEPT !.place = "cache"]
                    ELSE IF e = Live THEN [dirs[e] EXCEPT !.place = "gone"]
                    ELSE dirs[e]]

(* Whether the journal's stage and previous directory are there.           *)
StageThere == activation.stage # NoDir /\ dirs[activation.stage].place = "stage"
PreviousThere == activation.previous # NoDir /\ dirs[activation.previous].place = "previous"

On(c, pc) == commands[c].pc = pc
Turn(c, record) == commands' = [commands EXCEPT ![c] = record]
Moves(c, pc) == Turn(c, [commands[c] EXCEPT !.pc = pc])
Ends(c) == Turn(c, Rested)
Reads(c) == Turn(c, [Rested EXCEPT !.kind = "install", !.pc = "stat"])

(* flock without waiting.                                                  *)
Unlocked(c, kinds) == \A other \in Commands \ {c} : commands[other].lock \notin kinds
MayExclude(c) == Unlocked(c, {"shared", "exclusive"})
MayShare(c) == Unlocked(c, {"exclusive"})

Upset == upsets < MaxUpsets /\ upsets' = upsets + 1

-----------------------------------------------------------------------------
(* features sync, an installation from the catalog, and cache-prune with   *)
(* --confirm-unmounted, which the operator gives when it is so.            *)
StartSync(c, content) ==
    /\ On(c, "idle")
    /\ Turn(c, [Rested EXCEPT !.kind = "sync", !.pc = "lock", !.want = content])
    /\ UNCHANGED <<dirs, activation, refresh, mounted, staged, upsets>>

StartInstall(c, content) ==
    /\ On(c, "idle")
    /\ Turn(c, [Rested EXCEPT !.kind = "install", !.pc = "ensure", !.want = content])
    /\ UNCHANGED <<dirs, activation, refresh, mounted, staged, upsets>>

StartPrune(c) ==
    /\ On(c, "idle")
    /\ mounted = Live
    /\ Turn(c, [Rested EXCEPT !.kind = "prune", !.pc = "lock"])
    /\ UNCHANGED <<dirs, activation, refresh, mounted, staged, upsets>>

(* ensureTemplatesCatalogIfNeeded: an interrupted activation is recovered  *)
(* under the lock; a cache of another ref is synced.                       *)
EnsureRecovered(c) ==
    /\ On(c, "ensure")
    /\ IF activation = NoActivation THEN Moves(c, "check")
       ELSE IF MayExclude(c)
       THEN Turn(c, [commands[c] EXCEPT !.pc = "recover", !.lock = "exclusive", !.then = "check"])
       ELSE Ends(c)
    /\ UNCHANGED <<dirs, activation, refresh, mounted, staged, upsets>>

EnsureCurrent(c) ==
    /\ On(c, "check")
    /\ IF Live # NoDir /\ dirs[Live].label = commands[c].want THEN Reads(c) ELSE Moves(c, "lock")
    /\ UNCHANGED <<dirs, activation, refresh, mounted, staged, upsets>>

(* What was interrupted is left for the commands that read.                *)
LockWithoutRecovery(c) ==
    /\ On(c, "lock")
    /\ IF MayExclude(c)
       THEN Turn(c, [commands[c] EXCEPT !.lock = "exclusive",
                         !.pc = IF commands[c].kind = "prune" THEN "prune" ELSE "stage"])
       ELSE Ends(c)
    /\ UNCHANGED <<dirs, activation, refresh, mounted, staged, upsets>>

(* The exclusive lock of a sync or a prune, which recover first.           *)
LockExclusive(c) ==
    /\ On(c, "lock")
    /\ IF MayExclude(c)
       THEN Turn(c, [commands[c] EXCEPT !.pc = "recover", !.lock = "exclusive",
                         !.then = IF commands[c].kind = "prune" THEN "prune" ELSE "stage"])
       ELSE Ends(c)
    /\ UNCHANGED <<dirs, activation, refresh, mounted, staged, upsets>>

-----------------------------------------------------------------------------
(* recoverCatalogActivation.  When it is done the command goes on.         *)
GoesOn(c) ==
    LET r == commands[c]
    IN  Turn(c, [r EXCEPT !.pc = r.then, !.lock = IF r.then = "check" THEN "none" ELSE @])

(* An error ends the command, after a sync has removed what it staged.     *)
GivesUp(c) ==
    IF commands[c].stage = NoDir \/ On(c, "cleanup") THEN Ends(c)
    ELSE Turn(c, [commands[c] EXCEPT !.pc = "cleanup", !.failed = TRUE])

Finished == Live # NoDir /\ dirs[Live].tree = activation.new /\ ~StageThere

(* What cannot be told to be its own work is left as it is.                *)
Refuses ==
    \/ StageThere /\ dirs[activation.stage].tree # activation.new
    \/ /\ Live # NoDir /\ ~Finished
       /\ dirs[Live].tree # activation.old \/ activation.previous = NoDir \/ PreviousThere
    \/ /\ Live = NoDir /\ activation.previous # NoDir
       /\ ~PreviousThere \/ dirs[activation.previous].tree # activation.old
    \/ Live = NoDir /\ activation.previous = NoDir /\ ~StageThere

RecoverNothing(c) ==
    /\ On(c, "recover") /\ activation = NoActivation
    /\ GoesOn(c)
    /\ UNCHANGED <<dirs, activation, refresh, mounted, staged, upsets>>

RecoverRefuses(c) ==
    /\ On(c, "recover") /\ activation # NoActivation /\ Refuses
    /\ GivesUp(c)
    /\ UNCHANGED <<dirs, activation, refresh, mounted, staged, upsets>>

(* It only clears the journal.                                             *)
FinishesWithoutRefresh(c) ==
    /\ On(c, "recover") /\ activation # NoActivation /\ ~Refuses
    /\ Finished
    /\ Moves(c, "clear")
    /\ UNCHANGED <<dirs, activation, refresh, mounted, staged, upsets>>

(* The new catalog is live: only the end is missing.                       *)
RecoverFinishes(c) ==
    /\ On(c, "recover") /\ activation # NoActivation /\ ~Refuses
    /\ Finished
    /\ Moves(c, "refresh")
    /\ UNCHANGED <<dirs, activation, refresh, mounted, staged, upsets>>

(* The old catalog is live, or comes back: the stage goes.                 *)
RecoverUndoes(c) ==
    /\ On(c, "recover") /\ activation # NoActivation /\ ~Refuses
    /\ ~Finished /\ activation.previous # NoDir
    /\ dirs' = IF Live = NoDir THEN Moved(activation.previous, "cache") ELSE dirs
    /\ Moves(c, IF StageThere THEN "drop" ELSE "clear")
    /\ UNCHANGED <<activation, refresh, mounted, staged, upsets>>

(* There was none: the stage becomes live.                                 *)
RecoverPromotes(c) ==
    /\ On(c, "recover") /\ activation # NoActivation /\ ~Refuses
    /\ ~Finished /\ activation.previous = NoDir
    /\ dirs' = MadeLive(activation.stage)
    /\ Moves(c, "refresh")
    /\ UNCHANGED <<activation, refresh, mounted, staged, upsets>>

(* RemoveAll takes its time: a directory is half removed in between.  The  *)
(* hash of its content tells, unless only the provenance file is gone.     *)
Removes(d, next, c) ==
    \/ /\ dirs[d].tree # Torn
       /\ \/ dirs' = [dirs EXCEPT ![d].tree = Torn]
          \/ dirs[d].label # Empty /\ dirs' = [dirs EXCEPT ![d].label = Empty]
       /\ UNCHANGED commands
    \/ dirs[d].tree = Torn /\ dirs' = Removed(d) /\ Moves(c, next)

DropStage(c) ==
    /\ On(c, "drop")
    /\ Removes(activation.stage, "clear", c)
    /\ UNCHANGED <<activation, refresh, mounted, staged, upsets>>

(* finishCatalogActivation and clearCatalogActivation.                     *)
WriteRefresh(c) ==
    /\ On(c, "refresh")
    /\ refresh' = [required |-> activation.previous # NoDir, content |-> activation.new]
    /\ Moves(c, "clear")
    /\ UNCHANGED <<dirs, activation, mounted, staged, upsets>>

ClearActivation(c) ==
    /\ On(c, "clear")
    /\ activation' = NoActivation
    /\ GoesOn(c)
    /\ UNCHANGED <<dirs, refresh, mounted, staged, upsets>>

-----------------------------------------------------------------------------
(* syncTemplatesCatalog.  Nobody looks at a stage before the journal names *)
(* it, so that it is made, filled and compared with the cache in one step. *)
(* With the same content only the cache's provenance is written.           *)
Stage(c) ==
    LET d == NextDir
        want == commands[c].want
        new == [dirs EXCEPT ![d] = [place |-> "stage", tree |-> want, label |-> want]]
        same == Live # NoDir /\ dirs[Live].tree = want
    IN  /\ On(c, "stage")
        /\ staged < MaxSyncs
        /\ staged' = staged + 1
        /\ dirs' = IF same THEN [new EXCEPT ![Live].label = want] ELSE new
        /\ Turn(c, [commands[c] EXCEPT !.stage = d, !.then = "probe",
                                       !.pc = IF same THEN "probe" ELSE "journal"])
        /\ UNCHANGED <<activation, refresh, mounted, upsets>>

(* The journal does not tell what the old catalog was.                     *)
ActivationWithoutOld(c) ==
    /\ On(c, "journal")
    /\ activation' = [stage |-> commands[c].stage, previous |-> Live, new |-> commands[c].want,
                      old |-> Empty]
    /\ Moves(c, IF Live = NoDir THEN "activate" ELSE "retire")
    /\ UNCHANGED <<dirs, refresh, mounted, staged, upsets>>

(* activateTemplatesCatalog, one change on disk after the other.           *)
WriteActivation(c) ==
    /\ On(c, "journal")
    /\ activation' = [stage |-> commands[c].stage, previous |-> Live, new |-> commands[c].want,
                      old |-> IF Live = NoDir THEN Empty ELSE dirs[Live].tree]
    /\ Moves(c, IF Live = NoDir THEN "activate" ELSE "retire")
    /\ UNCHANGED <<dirs, refresh, mounted, staged, upsets>>

Retire(c) ==
    /\ On(c, "retire")
    /\ dirs' = Moved(Live, "previous")
    /\ Moves(c, "activate")
    /\ UNCHANGED <<activation, refresh, mounted, staged, upsets>>

Activate(c) ==
    /\ On(c, "activate")
    /\ dirs' = MadeLive(commands[c].stage)
    /\ Moves(c, "refresh")
    /\ UNCHANGED <<activation, refresh, mounted, staged, upsets>>

(* The rename fails, as it does when a directory is found there, and the   *)
(* activation is recovered at once.                                        *)
ActivateFails(c) ==
    /\ On(c, "activate")
    /\ IF Live = NoDir THEN Upset ELSE UNCHANGED upsets
    /\ Turn(c, [commands[c] EXCEPT !.pc = "recover", !.then = "cleanup", !.failed = TRUE])
    /\ UNCHANGED <<dirs, activation, refresh, mounted, staged>>

(* templatesUIRefreshStatus: the UI is asked what it has mounted.          *)
Probe(c) ==
    /\ On(c, "probe")
    /\ refresh' = [refresh EXCEPT !.required =
                      @ /\ ~(mounted # NoDir /\ dirs[mounted].label = refresh.content)]
    /\ Moves(c, "cleanup")
    /\ UNCHANGED <<dirs, activation, mounted, staged, upsets>>

(* The UI does not answer, or a refresh is not written.                    *)
ProbeFails(c) ==
    /\ On(c, "probe")
    /\ \E failed \in BOOLEAN : Turn(c, [commands[c] EXCEPT !.pc = "cleanup", !.failed = failed])
    /\ UNCHANGED <<dirs, activation, refresh, mounted, staged, upsets>>

(* The deferred RemoveAll of the stage, if it is still there; then the     *)
(* lock is released, and an installation goes on.                          *)
Cleanup(c) ==
    LET r == commands[c]
    IN  /\ On(c, "cleanup")
        /\ IF dirs[r.stage].place = "stage" THEN Removes(r.stage, "cleanup", c)
           ELSE /\ IF r.kind = "install" /\ ~r.failed
                   THEN Reads(c) ELSE Ends(c)
                /\ UNCHANGED dirs
        /\ UNCHANGED <<activation, refresh, mounted, staged, upsets>>

-----------------------------------------------------------------------------
(* PruneTemplatesCatalogSnapshots: retired catalogs whose content is what  *)
(* their provenance says, but for the newest ones.  Removing one is a      *)
(* step, for nobody looks for what is left of it.                          *)
Retired == {d \in In("previous") : dirs[d].tree # Empty /\ dirs[d].label = dirs[d].tree}

Prune(c) ==
    /\ On(c, "prune")
    /\ \/ /\ Cardinality(Retired) > Keep
          /\ \E d \in Retired :
                Cardinality({e \in Retired : e > d}) >= Keep /\ dirs' = Removed(d)
          /\ UNCHANGED commands
       \/ Cardinality(Retired) <= Keep /\ Ends(c) /\ UNCHANGED dirs
    /\ UNCHANGED <<activation, refresh, mounted, staged, upsets>>

(* lockTemplatesCatalogForRead: without a provenance file there is no lock.*)
StatCache(c) ==
    /\ On(c, "stat")
    /\ Moves(c, IF Live # NoDir /\ dirs[Live].label # Empty THEN "share" ELSE "read")
    /\ UNCHANGED <<dirs, activation, refresh, mounted, staged, upsets>>

LockShared(c) ==
    /\ On(c, "share")
    /\ IF MayShare(c) THEN Turn(c, [commands[c] EXCEPT !.pc = "read", !.lock = "shared"])
       ELSE Ends(c)
    /\ UNCHANGED <<dirs, activation, refresh, mounted, staged, upsets>>

(* The preflight reads the catalog, if it is one, and then its files are   *)
(* copied.                                                                 *)
ReadCatalog(c) ==
    /\ On(c, "read")
    /\ IF Live # NoDir /\ dirs[Live].tree # Empty
       THEN Turn(c, [commands[c] EXCEPT !.pc = "copy", !.root = Live])
       ELSE Ends(c)
    /\ UNCHANGED <<dirs, activation, refresh, mounted, staged, upsets>>

CopyFiles(c) ==
    /\ On(c, "copy")
    /\ Ends(c)
    /\ UNCHANGED <<dirs, activation, refresh, mounted, staged, upsets>>

-----------------------------------------------------------------------------
(* The bootstrap command makes the directory when there is none, and takes *)
(* no lock.                                                                *)
Bootstrap ==
    /\ Live = NoDir
    /\ staged < MaxSyncs
    /\ staged' = staged + 1
    /\ dirs' = [dirs EXCEPT ![NextDir].place = "cache"]
    /\ UNCHANGED <<activation, refresh, mounted, commands, upsets>>

(* The container of the UI is created anew.                                *)
RecreateUi ==
    /\ Live # NoDir /\ mounted # Live
    /\ mounted' = Live
    /\ UNCHANGED <<dirs, activation, refresh, commands, staged, upsets>>

(* A file operation fails.  One that fails after it took effect is the     *)
(* next one failing.                                                       *)
FileOperationFails(c) ==
    /\ commands[c].pc \in {"recover", "drop", "refresh", "clear", "stage", "journal", "retire",
                           "activate", "cleanup", "prune"}
    /\ Upset
    /\ GivesUp(c)
    /\ UNCHANGED <<dirs, activation, refresh, mounted, staged>>

Kill(c) ==
    /\ ~On(c, "idle")
    /\ Upset
    /\ Ends(c)
    /\ UNCHANGED <<dirs, activation, refresh, mounted, staged>>

-----------------------------------------------------------------------------
(* Bootstrap has made the directory, or not yet, or the catalog was synced *)
(* before: the last one is live, and the UI has been created since.        *)
CatalogInit ==
    /\ \/ dirs = [d \in Dirs |-> Absence]
       \/ dirs = [d \in Dirs |-> IF d = 1 THEN [Absence EXCEPT !.place = "cache"] ELSE Absence]
       \/ \E first \in Catalogs : \E second \in Catalogs \ {first} :
             dirs = [d \in Dirs |->
                       CASE d = 1 -> [place |-> "previous", tree |-> first, label |-> first]
                         [] d = 2 -> [place |-> "previous", tree |-> second, label |-> second]
                         [] d = 3 -> [place |-> "cache", tree |-> first, label |-> first]
                         [] OTHER -> Absence]
    /\ activation = NoActivation
    /\ refresh = Settled
    /\ mounted = Live
    /\ commands = [c \in Commands |-> Rested]
    /\ staged = 0
    /\ upsets = 0

CatalogStep(c) ==
    \/ \E content \in Catalogs : StartSync(c, content) \/ StartInstall(c, content)
    \/ StartPrune(c) \/ EnsureRecovered(c) \/ EnsureCurrent(c) \/ LockExclusive(c)
    \/ RecoverNothing(c) \/ RecoverRefuses(c) \/ RecoverFinishes(c) \/ RecoverUndoes(c)
    \/ RecoverPromotes(c) \/ DropStage(c) \/ WriteRefresh(c) \/ ClearActivation(c)
    \/ Stage(c) \/ WriteActivation(c) \/ Retire(c) \/ Activate(c) \/ ActivateFails(c)
    \/ Probe(c) \/ ProbeFails(c) \/ Cleanup(c) \/ Prune(c)
    \/ StatCache(c) \/ LockShared(c) \/ ReadCatalog(c) \/ CopyFiles(c)
    \/ FileOperationFails(c) \/ Kill(c)

CatalogNext == Bootstrap \/ RecreateUi \/ \E c \in Commands : CatalogStep(c)

CatalogSpec == CatalogInit /\ [][CatalogNext]_catalogVars

-----------------------------------------------------------------------------
CatalogTypeOK ==
    /\ dirs \in [Dirs -> [place : {"none", "cache", "stage", "previous", "gone"},
                          tree : Trees, label : Catalogs \cup {Empty}]]
    /\ activation \in [stage : Dirs \cup {NoDir}, previous : Dirs \cup {NoDir},
                       new : Catalogs \cup {Empty}, old : Catalogs \cup {Empty}]
    /\ refresh \in [required : BOOLEAN, content : Catalogs \cup {Empty}]
    /\ mounted \in Dirs \cup {NoDir}
    /\ commands \in [Commands ->
          [kind : {"none", "sync", "install", "prune"},
           pc : {"idle", "ensure", "check", "lock", "recover", "refresh", "drop", "clear",
                 "stage", "journal", "retire", "activate", "probe", "cleanup", "prune",
                 "stat", "share", "read", "copy"},
           want : Catalogs \cup {Empty}, stage : Dirs \cup {NoDir},
           lock : {"none", "shared", "exclusive"},
           then : {"none", "check", "stage", "prune", "probe", "cleanup"},
           failed : BOOLEAN, root : Dirs \cup {NoDir}]]
    /\ staged \in 0..MaxSyncs
    /\ upsets \in 0..MaxUpsets

(* The live catalog is always a whole one, and the provenance file that it *)
(* has is its own: a first catalog whose stage was being removed may have  *)
(* none.  While none is live, or only what bootstrap made, the journal     *)
(* names the last one, whole.  And, "keep a published cache generation     *)
(* stable across preflight and file copying", it stays while a reader who  *)
(* took the lock copies what it checked.                                   *)
Whole(d) == dirs[d].tree # Torn /\ dirs[d].label \in {dirs[d].tree, Empty}
Published == \E d \in Dirs : dirs[d].place \in {"previous", "gone"} /\ dirs[d].tree # Torn
CatalogIsKept ==
    /\ Cardinality(In("cache")) <= 1
    /\ Live # NoDir => Whole(Live)
    /\ (Live = NoDir \/ dirs[Live].tree = Empty) /\ Published =>
          /\ PreviousThere /\ Whole(activation.previous)
          /\ dirs[activation.previous].tree = activation.old
    /\ \A c \in Commands :
          On(c, "copy") /\ commands[c].lock = "shared" => Live = commands[c].root

(* Once no activation is under way, the workspace UI shows the live        *)
(* catalog or a refresh to that catalog is still asked for, however the    *)
(* activation was interrupted, finished or undone, unless the directory    *)
(* that the UI has mounted is gone: made by bootstrap during an activation *)
(* and replaced, or retired after the operator had confirmed, and pruned.  *)
RefreshIsOwed ==
    activation = NoActivation /\ mounted # NoDir /\ Live # NoDir =>
        \/ dirs[mounted].label = dirs[Live].label
        \/ refresh.required /\ refresh.content = dirs[Live].label
        \/ dirs[mounted].place = "gone"

(* "recovery must be idempotent": no sequence of kills and failures leaves *)
(* a journal that every later command refuses, unless its stage was        *)
(* removed in part, was removed and was to become the first catalog, or    *)
(* bootstrap made an empty directory while no catalog was live.            *)
RefusalNeedsALostStage ==
    activation # NoActivation /\ Refuses =>
        \/ /\ dirs[activation.stage].tree = Torn
           /\ dirs[activation.stage].place = "stage" \/ activation.previous = NoDir
        \/ Live # NoDir /\ dirs[Live].tree = Empty
=============================================================================
