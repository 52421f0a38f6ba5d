# Verification of openlia

TLA+ models of the parts of openlia whose correctness depends on the order in
which things happen, the TLC configurations that check them on small instances,
and TLAPS proofs of what matters most for every instance. The reference for every
definition is the source under `src/`; `PROJECT.json` maps each definition to the
lines it models.

```
cd tla
tlc -workers 2 -config BrowserLeaseSharing.cfg MCBrowserLease.tla
tlapm BrowserLeaseProofs.tla
```

## 1. The system

openlia runs a personal assistant on a host of its own. A Go **operator**
provisions the host, moves workspaces into it and backs it up; inside it run
Python **plugins** of the assistant, a TypeScript **browser relay** and the
**workspace UI**. The parts share state through SQLite databases, files under the
profile, file locks and HTTP.

| Component | State it keeps | Operations | Hard behaviour | What makes it correct |
|---|---|---|---|---|
| Browser relay: lease manager (`openlia-browser/src/server.ts`) | active lease, FIFO queue, fenced tokens, operation cache of each lease, timers | request, status, touch, release, cancel, withCall, reap, expiry of leases and tickets | async calls that outlive the lease they began under; timers against handlers; retried requests and calls; a full cache | one workflow drives the browser; first come first served; nothing is lost or kept for ever; an uncertain call is not sent twice |
| Browser MCP client (`browser.ts`) | upstream connection, the promise that is connecting | connect, call, reconnect | concurrent reconnection, timeouts | one connection; a mutating call is not repeated |
| Ingestion job queue (`openlia-ingestion/db.py`) | `jobs` table: state, lease owner, generation, expiry, attempts, due time | submit, claim, heartbeat, finish, fail, block, recover, requeue, cancel, delete | several worker threads and processes; stalls past a lease; crashes | one job per key; a late worker settles nothing; retries stop |
| Ingestion vault, captures, workers (`publication.py`, `adapters.py`, `runtime.py`, `server.py`) | sources, intakes and extractions tables, blobs | capture, process, publish, cancel, delete, purge, retry, recover_vault | records read, changed and written back whole by several processes; crash between any two writes | a finished job has its extraction; a deletion lasts; no version is lost; every job comes to rest |
| Ingestion passwords, search index | secrets by profile; full text rows | look-ups and inserts | none of its own | data |
| Migration: apply and recovery (`operator/migration_apply.go`, `workspace_lock.go`) | live files, pre-images, `journal.json`, `workspace.lock`, the migration's row | apply, reconcile, recover (rollback, resolve) | kill between two writes, refused writes, edits of the live workspace, another command | all of a revision or nothing; pre-images are originals; an interrupted apply recovers |
| Migration: lifecycle, jobs, supervisor (`migration_lifecycle.go`, `migration/db.go`, `migration/runner`) | migrations, jobs, checkpoints, events, feedback | import, start, feedback, stop, discard, retry, claim, heartbeat, sweep | lease expiry, resume after a crash, stop against a running job | only documented transitions; a phase runs once at a time; a saved phase is not repeated |
| Migration: intake, validator, proposal repository | none between steps | scan, hash, validate, git commands | paths and sizes | pure functions |
| Templates: sync, activation, recovery (`templates_*.go`) | catalog cache, activation journal, lock file | sync, activate, recover, retain | interruption of an activation | the active catalog is a complete one |
| Operator lifecycle, bootstrap, state | state file, compose project | install, update, start, stop | partial failure of external programs | resumable steps |
| Backup, restore, prune, schedule | archives, remote objects | backup, prune, restore | interruption, retention at its limit | the last good archive is kept |
| Features and skills | installed files, baselines | install, merge, migrate | three-way merge | local edits are kept |
| Workspace UI: chat service (`server/chat.ts`) | `chat_requests`, `chat_sessions`; runs at Hermes | send, look, stop, delete, list | awaits between a look and its use; repeated and lost calls; compaction, retention | a message makes one run; a conversation has one run at a time; a message settles |
| Workspace UI: chat page (`client/ChatPage.tsx`) | conversation, run and messages shown, pending keys | select, send, poll, steer, archive, load older | several async functions that outlive what is selected | the page shows what is selected; a message makes one run |
| Workspace UI: document editor (`client/App.tsx`) | file, draft, dialogs | open, type, save, rename, create, fix, delete, refresh | late answers against typing and switching; agents who edit the same file | a draft is not lost; a text stays in its document |
| Workspace UI: workspace files and maintainer (`server/workspace.ts`, `server/maintainer/`) | files of a folder, its template, `findings` | read, write, create, delete, move, fix, validate, audit | two processes and the agent on one folder; crash after the file and before its findings | nothing unseen is overwritten; the findings are those of the files |
| Workspace UI: calendar (`server/calendar.ts`, `client/openui/calendar`) | Remind files, the editor of an appointment | load, create | an await between read and write; retries; other writers | an appointment is on file once; nobody's line is lost |
| Workspace UI: ingestion server (`server/ingestion.ts`) | the plugin's `jobs` table | upload, retry, cancel, delete | writes to a table beside the plugin's leases | the queue's promises survive it |
| Workspace UI: other services (`app.ts`, `shares.ts`, `checkpoints.ts`, `cron.ts`, …) | one table or one external program each | HTTP handlers | few steps each | data |
| Workspace UI: other views (`client/`) | view state | rendering | - | - |
| Policy, usage, workspace-git plugins | counters, proposals | checks of tool calls | none of their own | pure functions |
| CLI, container images | configuration | argument handling, SSH, build | none | - |

How they interact: the relay's workflows are independent HTTP clients that meet
only in the lease manager. Captures, the embedded workers of the plugin, the
sidecar server's workers and the user's commands meet only in the vault's database
and directory. The operator's commands meet in `workspace.lock`, in the
migration's row and in the live files, which the assistant and the user edit
without taking the lock. The workspace UI's server opens the plugin's database and the
workspace's files by itself; its pages are one browser tab each, which meet only at the
server.

`PROJECT.json` lists every hazard of this code that we know of at its line, with the
properties that would catch it.

## 2. Modules

| Module | Models | Composed with |
|---|---|---|
| `BrowserLease` | `BrowserLeaseManager` and the calls it chains | - |
| `TurnTaking` | abstract: a thing that is used by one at a time, first come first served | INSTANCE in `BrowserLease`, which implements it |
| `BrowserLeaseProofs` | theorems about it; that it implements `TurnTaking` | EXTENDS `BrowserLease` |
| `IngestionQueue` | the methods of `db.py` on the jobs table | - |
| `IngestionUi` | the workspace UI's handlers on the same table | EXTENDS `IngestionQueue`: a step is the plugin's or the UI's |
| `IngestionQueueProofs`, `IngestionUiProofs`, `IngestionVaultProofs` | theorems about the queue, about the queue with the UI server beside it, and about the vault on top of it | EXTEND those; the last one also `IngestionQueueProofs` |
| `IngestionVault` | captures, workers, users and recovery over the shared records | EXTENDS `IngestionQueue`; `VaultSpec` is checked to implement `QueueSpec` |
| `MigrationApply` | apply, undo, recovery, and the commands they meet | - |
| `TemplateCatalog` | syncs, installations and prunes of the templates catalog, and their recovery | beside `MigrationApply` in `MCOperator` |
| `OperatorProofs` | theorems about the two, and about both side by side | EXTENDS `MCOperator` |
| `ChatDispatch` | the chat service's handlers, and Hermes | - |
| `ChatDispatchProofs` | theorems about it | EXTENDS `ChatDispatch` |
| `ChatTab`, `Editor`, `Calendar` | chat page, document editor, new appointments of a tab | composed in `MCWorkspaceTab` |
| `WorkspaceTabProofs` | theorems about the three, and about all side by side | EXTENDS `MCWorkspaceTab` |
| `Documents` | workspace files and the maintainer's findings | - |
| `DocumentsProofs` | theorems about it | EXTENDS `Documents` |
| `MCBrowserLease`, `MCIngestionUi`, `MCIngestionVault`, `MCMigrationApply`, `MCOperator`, `MCChatDispatch`, `MCWorkspaceTab`, `MCDocuments` | symmetry sets and small requests for TLC | |

In each module, definitions named for a way of going wrong (`GrantWithoutShift`,
`MatchesWithoutState`, `PurgeKeepsJobs`, ...) stand before the definition they
vary. They are no part of the specification: each is a plausible mistake in that
code under which one of the properties is violated, and `PROJECT.json` pairs them.

### BrowserLease

The server is one Node event loop, so a handler, a timer callback or the code
between two awaits is one atomic action. `mgr` is the manager object, `calls` what
the code's closures know of each chained call. `withCall` is three actions:
`MakeCall` (the synchronous part: validity, chaining behind the previous call),
`BeginCall` (the continuation when the previous call settled: the second validity
check, the operation cache, the upstream call) and `FinishCall` (its answer, or
the 90 second timeout, as "uncertain"). A deadline is kept as the time left until
it, so the clock needs no bound: `Tick` lowers the time left, and a timer
(`ExpireActive`, `ExpireQueued`) fires some time after its deadline, in any order
with the handlers, which call `reap` first where the code does. Tickets are
numbered in the order of their requests. That lets a set stand for the queue array,
which is only pushed, shifted and filtered.

`EveryLeaseEnds` and `EveryRequestLeavesTheQueue` speak of `FairSpec`. The rest of
this file, MCP sessions, tool schemas and HTTP, keeps no state the manager reads.
A call that Playwright is still executing after its 90 seconds is not followed
further: the relay counts it as settled and so does the model, which is why
`OneDriver` is about the calls the relay waits for.

### IngestionQueue

One method is one transaction and one action, except `claim`, which commits its
update (`Claim`) and then reads the row back in a second statement (`ReadBack`).
`held[w]` is the dict worker `w` was given, from which the code takes the owner and
the generation for every later statement (`Matches`). Of the times only what the
queries compare is kept: whether a lease has lapsed and whether a job is due. Both
change by themselves (`Lapse`, `ComeDue`). A live worker's lease lapses only when it
stalls, since it is extended every few seconds; stalls, crashes and retries by users
draw on `MaxUpsets`.

### IngestionVault

A record is read whole, changed in memory and written back whole; each read and
each write is a step, so that the last writer wins here where it wins in the code.
A capture goes through the steps of `server.py`'s capture (look up the key, read
the source, check and store the original, purge or cancel what it replaces, save,
submit, read back, save again); a worker through those of `run_claimed_job`, whose
last part notes the outcome in the records; `RetryDocument`, `CancelDocument`,
`DeleteDocument` and `recover_vault` are the user's. `Guarded` says which workers
run: those of the embedded runtime ask through `_LeasePublisher` whether the lease
is theirs before every publication (`WorkerChecks`, a step of its own before the
write it guards, as in the code), and the sidecar's do not. `SourceRecords` keeps
the status, the versions and which of them list an extraction. YouTube sources,
metadata edits, the migration of legacy vaults and the search index are left out.

### MigrationApply

A step is one file operation or one SQL statement, and a kill (`Crash`), a refused
write or an edit of the live workspace (`Edit`) may come between any two. The kernel
releases a killed process's `flock`. Contents of a file are "base", "new", "edit"
and the two ways of being absent. A file that cannot be read when its pre-image is taken is
recorded as absent, unless it is to be deleted (`Capture`). `Plan` says what the revision does with each
file. `UpdateMigrationState` is `SetReads` followed by `SetWrites`, because it reads
the state, validates the transition and writes in two statements; `want`, `then`
and `orelse` hold what the caller does next. `Careful` restricts recovery to its
documented use, a migration in `recovery_required` while no other command runs on
it. `unrestored` is a history variable: the files whose restoration failed with an
error the code drops.

### TemplateCatalog

A command is a record with a program counter, and a step is one change on disk or one look
at it: the journal, each of the two renames, the removal of a directory (which is half
removed in between), the refresh file. `Kill` and `FileOperationFails` may come at any of
them; a killed command's `flock` is released. A directory keeps its number when it is renamed
or retired, since the workspace UI's container keeps the one mounted that was live when it was
created (`RecreateUi`). `tree` is its content, `label` what its provenance file says.
`recoverCatalogActivation` is five actions, one for each way it may end (`RecoverNothing`,
`RecoverRefuses`, `RecoverFinishes`, `RecoverUndoes`, `RecoverPromotes`), and the commands
that call it (a sync, a prune, an installation, and a sync whose rename failed) say in `then`
how they go on. A sync stages in one step, because nobody looks at a stage before the journal
names it. A directory that is half removed has another hash, or has lost only its provenance file,
which the hash leaves out (`Removes`); `os.Rename` refuses a directory that it finds in the way,
but looks first, so that an empty one made in between is replaced (`MadeLive`).
Commands on migrations and on the catalog take different locks and share nothing,
so that `MCOperator` checks them in one run, each behaviour being of one kind.

### IngestionUi

The UI server writes SQL of its own to the plugin's table: an upload to an existing source
removes that source's unfinished and cancelled jobs and inserts one (`Upload`), a retry
reads the newest job (`RetryReads`) and queues it by its id in a second statement
(`RetryUpdates`), or inserts one (`RetryInserts`). It never looks at a lease. `UiNext` is a
step of `IngestionQueue`, which stands for the plugin's processes, or one of these; so
what is proved of the queue is proved again with a process beside it that ignores its rules.

### ChatDispatch

One conversation of the chat service with its root session and the tip Hermes gives it by
compaction. A handler is a record with a program counter; its steps run from one await to
the next (`Send`, `SendCapable`, `StatusArrives`, `SendRecords`, ...), and Hermes' steps
(`HermesTells`, `HermesAdmits`, `HermesRefuses`) and failures (`CallFails`) come in between.
`window` is how long ago a key was sent: before `retry_until`, after it, or so long ago that
Hermes has forgotten it. `retry_until` is 60 seconds before Hermes' retention ends, and a
handler that passed the check makes calls of at most 20 seconds each, so `HermesForgets`
waits for it; a restart of the service (`Restart`) loses the handlers and keeps the tables.

### ChatTab, Editor, Calendar

Parts of a browser tab. In `ChatTab` the loadings of the conversations opened so far
(`loads`), the observer that polls the run shown and the one action the busy flag admits
run side by side over the server's runs. In `Editor` one opening, one save, one rename, move
or deletion (`fileOp`), one creation or fix (`making`) and the refresh run side by side. A
rename, a move and a deletion are asked for (`AskOp`, which captures the revision), confirmed,
answered and applied in steps of their own; a creation closes its dialog when it is answered
(`Created`), loads the tree, and opens the file later (`MadeIsOpened`). Dialogs lie over the page
without taking the keyboard or the focus, and those of creating and fixing can be closed while
their request is under way, so no dialog keeps the user from typing here, or from another
request. `Reopen` is the "Retry" button. A text carries the document it was typed in,
so that the properties can tell when it ends up in another; `overtaken` remembers that the code
was about to replace a draft without asking. `Calendar` has the
editor of an appointment, its requests, and `create` at the server, which awaits Remind
between reading and writing. They share no state, and `MCWorkspaceTab` runs them in one
run, each behaviour being one of them.

### Documents

A folder with its template, two processes (the server and the maintainer's command line),
and the agent that writes in between. An operation is a record that goes through the stages
of the code: the first comparison with the client's revision, the second one when the new
file is ready, the replacement, then evaluation and reconciliation of the findings, for a
template of every record of its folder. A finding is kept as the pair of text and template
it was computed from. `stale` and `touched` are history: where somebody interfered, and
what was written between a comparison and its use.

## 3. Runs

A run marked V has one property, quoted from the repository, that the code violates
(section 6). All others pass.

| Run | Question and bounds | States |
|---|---|---|
| `browser_sharing` | Three workflows request (with and without a key), wait, use, release, cancel and let expire leases, with two calls in flight or chained. `OneDriver`, `StaleCallsRefused`, `LeasesEndForGood`, the inductive invariant `IInv`, `TakesTurns` (it implements `TurnTaking`), and under fairness `EveryLeaseEnds` and `EveryRequestLeavesTheQueue` | 97 thousand |
| `browser_cache` | Four calls with three operation ids and two arguments against a cache of two entries: `SentOnce`, `ReplaysAreExact` | 2.7 million |
| `ingestion_queue` | The plugin's queue with the UI server on its table: two workers, two jobs of one source in two versions, two attempts, two crashes, stalls or user retries: `QueueInv`, `SupersededNeverSettles`, `RestingJobsAreKept` | 2.5 million |
| `vault_embedded` | Two guarded workers, one of which may stall or crash, one capture, one user command: `CompletedHasExtraction`, and `ImplementsQueue`: every step of every process is a step the queue allows, or none | 748 thousand |
| `vault_replace` | Two captures of one source, the second of which purges the first's version, a worker, and crashes of the captures: `CompletedHasExtraction` | 235 thousand |
| `vault_progress` | One worker of the sidecar with a crash or stall and a retry left, one user command, under fairness: `EveryJobRests` | 91 thousand |
| `vault_retain` V | Two captures of versions of one source: `VersionsAreRetained` | 14 thousand to the violation |
| `operator_commands` | Migrations: two commands, a revision with a modified, an added and a deleted file, one kill, two refusals of the file system, one edit by somebody else: `AllOrNothing`, `PreImagesAreOriginal`. Catalog: two commands, two contents, a host without a catalog directory, with an empty one or with two retired catalogs, two directories made by syncs or bootstrap, two kills or failures: `CatalogIsKept`, `RefreshIsOwed`, `RefusalNeedsALostStage`. `OperatorTypesOK` | 3.1 million |
| `migration_interrupted` V | One command at a time, one kill, operators who repeat every command, under fairness: `InterruptedApplyRecovers` | 1.3 thousand to the violation |
| `chat_dispatch` | Two handlers, two messages of a conversation with its root and its tip, three runs, two failures, refusals, deletions, restarts or retention times that pass; under fairness: `OneRunPerKey`, `OverlapNeedsRefusal`, `ChatTypeOK`, `EveryMessageSettles` | 226 thousand |
| `workspace_tab` | Chat page: two conversations, two openings, two runs each, three actions. Editor: three paths with two documents, two texts typed by the user or agents, two requests. Calendar: two appointments, two requests, one foreign change. `ShownIsSelected`, `EndedRunsAreAnswered`, `OneRunPerMessage`, `ShownRunsSettle`; `DraftsSurvive`, `TextsStayHome`, `ChangesAreNoticed`; `OncePerRequest`, `JoinsWhatWasShown`; `TypesOK` | 479 thousand |
| `documents` | Two records and a template, two texts, two operations at a time of two processes, one write of the agent or crash: `FindingsAgree`, `NothingUnseenIsLost`, `DocumentsTypeOK` | 4.8 million |

What the properties say is stated above each of them in its module.

**Bounds, and why they are enough.** The constants that bound a run are those whose
comment says "bound"; each is a guard of the actions it limits.

- `MaxTickets = 3` gives an active lease and two waiting requests, so that the order of
  grants, an expired head of the queue and a retried key all occur; `MaxCalls = 2` one
  call in flight and one chained behind it. `LeaseTtl < LeaseMax` lets a touch be capped
  by the maximum. For the safety properties proved in section 5 the bounds do not
  matter: the theorems hold for every value.
- The cache run needs one call more than `MaxCached`, so that an entry is evicted, and
  one more to retry it; time plays no part, so each time is 1.
- Two workers and `MaxUpsets = 2` let a worker stall, its job be reclaimed, the second
  worker stall in turn, and the first one report; `MaxAttempts = 2` has a retry and a
  last attempt. Safety of the queue is proved for every value.
- In the vault runs `MaxAsks = 1` lets each user command meet each step of a capture
  and of a worker. Two commands that interleave with one another are beyond these
  runs, and so are a second source and a third version.
- The UI server in `ingestion_queue` needs two versions and a key beside those of uploads,
  so that an upload, a retry that inserts and a submission of the plugin compete.
- `chat_dispatch` needs two handlers for an answer that comes late, two keys for an overlap,
  and a third run for a key that Hermes has forgotten and admits again.
- A tab of two conversations and two openings has the answers of one arrive in the other;
  the third action retries what the first failed to send. Two requests of the editor have a save or an operation
  on a file answered after another was opened, or a draft typed before a created file is opened.
  `DraftsSurvive` and `TextsStayHome` are proved for any number; before that TLC checked them
  with three requests (7.3 million states of the editor alone). A creation and a fix are not
  under way at once, nor are two operations on files.
- Two operations on two records and a template bring together an operation on a record, one
  on the template that evaluates it too, and an agent or a crash between any two of their steps.
- Of a migration every kind of file is there once; one kill and two refusals
  give a kill during a rollback after a refused write, and a refused restoration.
- Of the catalog, two syncs and two kills are an activation that is interrupted, and a
  recovery that is; with two retired catalogs at the start, the next one gives a prune
  something to remove (`Keep = 2`, the least the code accepts).

Numbers of jobs, tickets, calls, captures and commands are finite in a run because a
run is finite. Where the system is then done, the vault's cfgs say
`CHECK_DEADLOCK FALSE`: a vault with its captures and commands used up has nothing
left to do; the same holds of the chat service, the tab and the folder. Everywhere else deadlock is checked. Symmetry is declared for workers,
keys, operation ids, processes, commands and contents of a catalog, which are only compared for equality, and never
with a liveness property.

## 4. Fairness

- `Fairness` (browser): the clock advances, the timer of an expired lease fires, a call
  whose turn has come begins and a call that began ends. Node runs due timers and
  settled continuations, and a call to Playwright is given up after 90 seconds. Nothing
  is assumed of clients: they may never release, touch or poll. Nor is it needed that the
  timers of queued tickets fire, since granting skips those that have expired.
- `FairVaultSpec`: a worker's thread keeps going, a process that died is started again
  (the supervisor of the profile does), a job comes due and a lapsing lease lapses.
  Captures, users and heartbeats may stop for ever. The exception `get` raises for a job
  deleted between claim and read-back ends the worker's thread; the model keeps that
  ("ended"), and `EveryJobRests` says so.
- `FairApplySpec`: a command that is not killed runs to its end, and operators ask for
  each command again and again. The fairness is as strong as one could wish, which is
  what makes the violation of `InterruptedApplyRecovers` conclusive.
- `FairChatSpec`: Hermes answers or the call ends after 20 seconds, so a handler goes on; and a
  tab whose message is not settled sends it again and again (strong fairness, since other
  handlers may be busy in between). Hermes need not end a run.
- `TabFairness`: the observer polls every 1.5 seconds and runs end. `EditorFairness`: requests
  are answered, and the file shown is read every ten seconds. Users need do nothing.

## 5. Proofs

The proof modules prove `Spec => []Inv` from an inductive invariant, which TLC has checked on
small instances before (`IInv` and `QueueInv` in the runs above), and the action properties
from the same invariant.

**`BrowserLeaseProofs`** (assumptions `BoundsAssumption`, `TimesAssumption`,
`NamesAssumption`: the bounds are naturals, the times and the cache size positive, and
"no key" is no key). None of the properties is inductive: that only one call drives the
browser depends on how far its chain is, on the counter of the active lease, and on
which leases may be counted at all. `IInv` has the types, `MgrInv` (the manager's fields
agree: only granted leases are active or fenced, waiting tickets were asked for after
every granted one, only the active lease is busy, a fenced lease stays active only while
it is busy and remembers why), `CallInv` (a call in flight is counted by its lease, and
all before it in its chain have settled) and `OnePlacePerKey`. The proof follows the
code: one lemma for each private method (grant, grant the next, release, fence, expire,
reap, touch, begin, end) says what it keeps of `Consistent` and `MgrInv`, the lemmas of
the operations cite these, and `StepInv` has one case for each action. Theorems:
`TypeCorrect`, `InvariantHolds`, `MutualExclusion`, `WorkConserving`, `FencedDrains`,
`FirstComeFirstServed`, `RequestIdempotent`, `StaleCallsNeverBegin`,
`TokensAreNeverRevived`.

`ImplementsTurnTaking` is the refinement that TLC checks as `TakesTurns`: the initial
states map to one of `TurnTaking`, and every step of the relay to a turn or a stutter.
`TurnView` is what `IInv` says in `TurnTaking`'s terms. A step of the relay may drop several
expired tickets, end a lease and grant the next one at once; the lemmas say of each method
only who may hold the browser and who may wait afterwards, and that the one who got it was
first in line is read off `IInv` of the state after the step.

`OperationsAreSentOnce` and `ReplaysAreTrue` are about the operation caches, with an
inductive invariant of their own beside `IInv`. `CacheInv` says that the calls of a lease
begin in the order of its chain, that every cache entry is the outcome of a call that was
sent and no two have one key (`CacheSound`), and that a lease which may still begin calls has
every outcome in its cache unless the cache is full (`CacheComplete`). A lease that is
fenced loses its cache and may cache one more outcome, that of the call in flight, so
completeness can only be claimed of leases that still begin calls; `Forgets` says that every
method either leaves a cache alone or takes the lease's right to calls with it. That an operation
not in a full cache was pushed out by `MaxCached` others is a counting argument: the
cache's keys are an injection into the operations sent (`ForgottenIsPushedOut`).

**`IngestionQueueProofs`** (assumptions `QueueBounds`, `QueueNames`). `QueueInv` adds to
the properties that the number of a row is used once, and `DictInv`: a worker's dict is
never ahead of its row, and while both have the same generation its attempts are right
and the row's owner is no other worker. That is what makes the comparison in `finish`
and `fail` a fence. Every method changes the table in one of a few ways, so the lemmas
are about the table (each row stays, or changes so that no dict gets ahead of it) and
about what follows for the dicts. Theorems: `QueueInvariantHolds`, `QueueTypeCorrect`,
`SubmitIdempotent`, `RetriesStop`, `LeasesAreExclusive`, `StaleWorkersAreFenced`,
`RestIsKept`.

**`IngestionUiProofs`** (assumption `UploadKeys` beside the queue's) proves the queue's
invariant and action properties for `UiSpec`. `QueueInv` needs no strengthening but the
type of the UI's variable. A retry, a cancellation and a deletion of the UI change rows as the
queue's methods do; an upload deletes and inserts in one step, so `InsertKeeps`
says that a new row with the next number and an unused key is no row any dict can know.
Theorems: `UiKeepsTheQueue`, `UiStaleWorkersAreFenced`, `UiRestIsKept`.

**`IngestionVaultProofs`** (assumption `VaultNames` beside the queue's) proves that the
vault implements the queue, and `CompletedHasExtraction`. Neither is inductive: that a
worker that calls a job done has published depends on its job being that of its dict, on the row
still naming the version it works on, and on extractions being removed only together with
their jobs (`WorkerInv`); that every submission is one the queue allows depends on the
captures known to the intakes, the jobs, the retry and the recovery having numbered their
version (`VersionsNumbered`). `VaultInv` is the queue's `QueueInv` with these and the types. The
argument has two halves. `RowFollows` and `ExtractionStays` say what a step may do to a row
and to its extraction, `WorkFollows` what it may do to a worker; `StepFollows` shows
that a step within these limits keeps the invariant. Then each action is shown to be within
them and to be a queue action, or none (`VaultNextKeeps`). Theorems:
`VaultInvariantHolds`, `VaultTypeCorrect`, `VaultImplementsQueue`,
`DoneJobsHaveExtractions`, and `QueueHoldsInVault`, which carries the queue's theorems
over by the refinement.

**`ChatDispatchProofs`** (assumption `ChatNames`: finitely many keys, at least one) proves
`ChatTypeOK`, `OneRunPerKey` and `OverlapNeedsRefusal`. `ChatInv` adds what a handler holds across its await: a run
that it asks about or stops has been admitted, and the key of a message that is being sent is
one that Hermes still remembers, which is where the two retention times enter
(`HermesForgets` waits for the senders, `Send` refuses a row whose window has closed). A key
without a row still has its window open, so its first send needs no check. For the
overlap, a key counts as under way (`UnderWay`) from the moment its message is posted until
its run has ended, and the invariant (`OverlapInv`) says that at most one key is, of those that
were not refused and whose session was not deleted. A posted message has its row, a row that
is settled tells the truth (`RowTruth`: its run has ended, or Hermes has refused the message),
and so does an answer that is still on its way (`ClaimInv`), however late: a run that has ended
does not start again. So the row of a key under way is unsettled, and the transaction before
the next dispatch finds it (`UnderWayIsUnsettled`, `ReserveOverlap`). Theorems:
`ChatInvariantHolds`, `ChatTypeCorrect`, `MessagesRunOnce`, `RunsDoNotOverlap`.

**`OperatorProofs`, migrations** (assumption `ApplyNames`, and for all but the types `Careful`:
operators recover only where the row asks for it, and alone; without it the recovery's
journal is one read before the lock, and TLC finds `AllOrNothing` violated) proves
`AllOrNothing` and `PreImagesAreOriginal`. `ApplyInv` says for each process what it relies on
at its stage: who is past the lock holds it, the journal in its memory is the one on disk, the
files before the one it is at are written (or restored, or reported) and those after it are
clean, and what is to be set to `applied` or `recovery_required` is what the journal says
already. `FileInv` says what journal and row say of the files when nobody is at it.
`OthersKeep` is the heart: a step of one process leaves what the others rely on, since it has
the lock, or recovers alone, or touches no file and cannot make the row say `applied`. There is
one lemma for each action. Theorems: `ApplyInvariantHolds`, `ApplyTypeCorrect`,
`AppliedAsAWhole`, `PreImagesKept`.

**`OperatorProofs`, templates catalog** (assumption `CatalogNames`: the empty and the torn
directory are no catalogs, a prune keeps at least two) proves `CatalogIsKept`, `RefreshIsOwed`
and `RefusalNeedsALostStage`. `CatalogInv` has a part for each thing on disk, which only the
holder of the exclusive lock changes, and one for what commands know. `DirInv`: live and retired
catalogs are whole, a stage may be half removed. `JournalInv`: while there is a journal, its
stage is the new catalog or what is left of it, the previous one is live or retired with the
content the journal says, and a third live directory is one of bootstrap. `NothingLost` is what
`CatalogIsKept` needs to be inductive: while only an empty directory is live, or none, the
journal's previous catalog is the only one there ever was. `MountInv` follows the debt of
a refresh through an activation: until the new catalog is live it is shown the old one or owed
it. `KnowsInv` says what a command relies on at each step under its lock, which has to survive
the two steps that take none, `Bootstrap` and `RecreateUi`. `CommandStep` reduces a step of a
command to the disk and to its own record; there is one lemma for each action, or for a few
that change the same things. Theorems: `CatalogTypeCorrect`, `CatalogStaysKept`,
`RefreshStaysOwed`, `RefusalsNeedALostStage`; `OperatorTypesCorrect` is about the composition
with the migrations.

The proof corrected the model: `RefreshIsOwed` had excepted only a mounted directory that
bootstrap made. Its induction failed at `Prune`, and TLC finds the counterexample with four
syncs, more than the run allows: see section 6.

**`WorkspaceTabProofs`** (assumptions `TabNames`, `EditorNames`, `CalendarBounds`: the bounds are
naturals and the names differ) has an invariant for each part of the tab, which share no
state. *Chat page*: `TabInv` rests on two ideas. A load, and an action that compares the
generation, is of the conversation selected as long as its generation is the present one; and
the server's runs and answers only grow, so that what was known of a run stays true. That one
message makes one run needs more than itself: keys are given out once, the key of the pending
message is that of the last run if of any, and a run of the message in the editor has the
key it would be sent with. *Editor*: `EditorInv` says where the last text typed can be while it
counts as unsaved: in the editor, and in the save that something follows; what would open
another file has not been asked yet, and only the deletion of the file shown, which was
confirmed, is about to replace it (`ReplacedWhenSaved`, with `OpsKnowTheirFile`). All else
that would replace it has been noted in `overtaken`. `TextsStayHome` failed as first
stated, with more requests than TLC's instance allows: a document can be renamed to the path of
another whose save is being answered, so `crossed` now compares the documents, not their paths
alone. *Calendar*: a post expects the files its editor was shown, in which no line of its request
is. Theorems: `TabIsInOrder`, `ShownConversationIsSelected`, `EndedRunsHaveAnswers`,
`MessagesMakeOneRun`, `EditorIsInOrder`, `DraftsAreNotLost`, `TextsKeepTheirDocument`,
`CalendarIsInOrder`, `AppointmentsAreMadeOnce`, `AppointmentsJoinWhatWasShown`, and
`WorkspaceTabTypesCorrect` of the three together.

**`DocumentsProofs`** (assumption `FoldersAssumption`) proves `FindingsAgree` and
`NothingUnseenIsLost`. The invariant follows a debt: every path that is not in `stale` agrees
with its file or is owed by an operation under way (`InLine`). What an operation owes
(`OwesOf`) is what is left of its work as long as nobody interfered with it, and all it bears
on once somebody did; for the former the invariant says what it knows (`KnowsItsFiles`: the
text it read is the file's, an audit has seen or will see every file). A created file is let
off early, as it is evaluated first and read afterwards, so its evaluation must be known to be
of the file until then, or the file be owed by another (`CreatedAreInLine`). `StepOf` says once what a step
owes, and each action's lemma instantiates it. The action property rests on
`ReplacementsAreCompared`: after the second comparison the file is as the client saw it, or
somebody wrote it since. Theorems: `DocumentsAreInOrder`, `DocumentsTypeCorrect`, `FindingsAreOfTheFiles`,
`NothingUnseenIsReplaced`.

**Only model-checked:** all liveness, since the prover handles neither fairness arguments nor
ENABLED. Every invariant and every action property that the passing runs check is proved.
Induction over data is out of the prover's reach too; nothing here is recursive, so that no
module is closed to proofs.

## 6. What the code does otherwise

Two of these are runs that end in a violation, and entries under "findings".

- `vault_retain`: a whole record written back from an earlier copy drops a version that
  another capture added meanwhile; the job of that version fails with
  `version_not_found`, though its capture was answered `durably_retained`.
- `migration_interrupted`: `ReconcileInterruptedApply` restores the files and then asks
  for `applying` to `ready_for_review`, which `ValidStateTransitions` does not have; the
  error is dropped and the migration stays in `applying`, out of reach of every command.

Others are stated in a module, by a property that no run checks as TLC finds it violated;
the checked properties next to it say what does hold.

- `OnlyTheHolderSettles` (`IngestionQueue`): `claim` commits and then returns
  `self.get(job_id)`. A worker that stalls in between past its lease reads the owner and
  generation of the worker that reclaimed the job, and settles it under them. `QueueInv`
  therefore speaks of leases that were read back as the worker's own.
- `DeletedStaysDeleted` (`IngestionVault`): the sidecar's workers upsert the records they
  loaded, so a source deleted while they work is back, without its original.
- `NoOverlappingRuns` (`ChatDispatch`): a message whose key was admitted by one call and
  refused (409, 429) on another is `rejected`, which no longer holds the conversation, while
  its run is under way; `chat.test.ts:443` "prevents two tabs from dispatching overlapping
  runs" has no refusal in between. `EveryRetryIsAnswered`: the answer to a look that was asked
  before a run ended is recorded after its end, and its row then refuses the next message
  until somebody looks again.
- `CreatedLeavesDrafts` (`Editor`), against `App.test.tsx:499` "protects a dirty draft before
  switching documents": `handleCreateFile` closes its dialog (`App.tsx:2160`), awaits four
  requests (2161-2166) while the editor can be typed in, and then opens the new file, which
  replaces the draft without asking (2174, 1814). TLC, given `EditorSpec` and two requests,
  needs ten steps: open a file, create another, type once the dialog has closed. The dialog can
  be closed earlier still, by Escape or its button (`CreateFileDialog.tsx:67` and 153).
- `DraftsSurvive` (`Editor`) excepts that, and by the same `overtaken` what else the code
  drops without asking: a draft typed after "Save and continue" was chosen and its dialog
  left by "Keep editing", or while a rename, move or deletion of the file is under way
  (`App.tsx:2237`); one that "Retry" loads over after a failed save (2880); one that is
  there when a fix of its file is applied (3321); and the one on screen when the deletion of
  another file finds that one gone (2112). By `crossed` it excepts a save that is answered
  after another document was opened, which brings the saved file back to the screen with the
  other's text as its draft (2013). `RefusalsAreTrue`: rename and move save a dirty draft
  first and then send the revision from before that save (`App.tsx:2228`), so the server
  always answers 409, shown as "modified elsewhere".
- `RefusalNeedsALostStage` (`TemplateCatalog`) states three exceptions to
  `templates_review_test.go:167` "recovery must be idempotent", after each of which every later
  command refuses until somebody removes the journal or a directory by hand: a kill while
  recovery removes the stage (`templates_recovery.go:129`), which then has another hash; a
  first activation whose journal or rename is refused by the disk, whose stage the deferred
  clean-up removes while the journal still names it (`templates_sync.go:365`); and a bootstrap
  while no catalog is live (`bootstrap.go:54`), whose empty directory is a third one.
  `CatalogIsKept` has a first catalog live without a provenance file: a stage whose removal was
  interrupted after that file passes recovery, as the hash leaves it out (`templates_sync.go:73`).
  It excepts installations that hold no lock: one that starts while no catalog is
  live takes none (`templates_sync.go:30`), although another may be live when it reads.
  `RefreshIsOwed` excepts a UI whose mounted directory is gone: `--confirm-unmounted` is the
  operator's word from before the prune has its lock; syncs that come in between retire the
  mounted directory, one of them may find it to have the content it asks the UI for, and the
  prune then removes it with no refresh owed.

Known from reading, with the models containing most of them:

- Vault: `_LeasePublisher` checks the lease in one transaction and publishes in later ones; the
  sidecar's worker overwrites `cancelled` in the records; two captures that number the same
  next version can both pass the check of `_write_bytes` (`publication.py:711`); identical
  captures leave the second one's source without a job (`server.py:522`); `wait_for_job` does
  not know `cancelled` (`server.py:402`).
- UI server: a retry requeues a running job, whose worker works on beside the next; a retry of
  a job deleted between its two statements queues nothing and is answered as queued; an
  upload that purges leaves completed jobs without their extraction.
- Migration: a stop or discard that was allowed in `ready_for_review` can overwrite `applying`
  or `applied`; recovery reads the journal before it waits for the lock, and resolve writes
  it without the lock; errors of an undo and of journal writes are dropped; a file that cannot be
  read for its pre-image is recorded as not there before (`migration_apply.go:239`), and an undo
  removes it, which `AllOrNothing` excepts as it does a file that somebody else removed;
  `SweepExpiredJobs` (`migration/db.go:523`) updates by id alone what it listed before.
- Folder: the guard that skips findings computed from an older text
  (`maintainer/engine.ts:867`) re-reads the record but not its template, and reconciles after
  it; the destination of a move is looked at once and the rename replaces what was created
  there since (`workspace.ts:1804`); `MaintainerWatcher` is started by nothing.
- Calendar: an error in the load after the write is answered as "no changes were saved",
  though the appointment is on file; of two requests of one editor at once, the second is
  answered `revision_conflict`, though it is saved.

## 7. Not modelled, and why

- Browser MCP client, migration jobs and supervisor, shares: state machines of their own.
- Intake, validator, proposal repository, search index, passwords, policy, usage: pure
  functions or data, better served by tests.
- Operator lifecycle, backups, features, CLI, images: sequences of external programs,
  without a protocol of their own.
- Other services and views of the workspace UI: one table, one external program, or
  rendering. Of the parts that are modelled, `PROJECT.json` says what is left out: event
  streams and attachments of the chat, memory documents, artifacts, skills, ignored findings
  (`App.tsx:2844`) and the fix of a template (2204) in the editor, and a file that the schedule
  opens without asking (2737); settings of the maintainer, records and originals in the UI server.

The source is large (some 64 thousand lines) and most of it is rendering, formatting,
configuration and calls of external programs; the modules stand for the part of it
whose correctness depends on order.

## 8. Plan

1. Done: the modules above and their proofs.
2. `MigrationLifecycle`: jobs (`ClaimNextJob`, `HeartbeatJob`, `CompleteJob`,
   `FailOrRetryJob`, `SweepExpiredJobs`, `ResetFailedJobs`), the supervisor's phases,
   resume and saved phases, feedback, stop and discard. Abstract specification: a migration
   is processed once per revision.
3. `McpClient`: one connection shared by calls that time out and reconnect.
4. Proofs about these two. Of the modules above everything that the passing runs check is
   proved but liveness.
