------------------------------ MODULE Documents ------------------------------
(***************************************************************************)
(* The files of a workspace and what the maintainer has found in them      *)
(* (packages/workspace-ui/src/server/workspace.ts, class WorkspaceService, *)
(* and server/maintainer/).                                                *)
(*                                                                         *)
(* The workspace is a folder that others write too: the agent, an editor,  *)
(* git.  So every change the service makes compares the file with the      *)
(* revision its client saw, prepares the new file, compares again, and     *)
(* only then replaces, links, moves or removes it.  After the change the   *)
(* text is evaluated against the folder's template and the findings in the *)
(* maintainer's database are brought in line.  The template decides about  *)
(* every record of its folder, so a changed template has them all          *)
(* evaluated again.                                                        *)
(*                                                                         *)
(* A handler of the server runs to its end before another one starts, but  *)
(* the maintainer's command line (cli.ts) is a process of its own on the   *)
(* same files and database, and the agent writes in between: one action    *)
(* here is what happens between two system calls that others can tell      *)
(* apart.  A revision is a hash of the bytes, so it is the text itself; a  *)
(* missing file has the revision of an empty one.  What a text violates is *)
(* a function of the text and of its template, so the findings of a file   *)
(* are kept as the pair they were computed from.  Watching the folder      *)
(* (watcher.ts) is left out, as nothing in the repository starts it.       *)
(***************************************************************************)
EXTENDS Naturals, FiniteSets

CONSTANTS Records,     \* the records of a folder
          Template,    \* its template (or schema)
          Texts,       \* what can be in a file
          Empty,       \* the text without bytes
          Absent,      \* no such file
          Server, Cli, \* the two processes
          Nothing,     \* no findings; no path; no template
          MaxOps,      \* bound: operations started
          MaxOutside   \* bound: writes of others, and crashes

ASSUME FoldersAssumption ==
    /\ Template \notin Records
    /\ Empty \in Texts
    /\ Absent \notin Texts
    /\ Nothing \notin Texts \cup {Absent, Template} \cup Records
    /\ Server # Cli
    /\ MaxOps \in Nat /\ MaxOutside \in Nat

Paths == Records \cup {Template}
Procs == {Server, Cli}

VARIABLES
    disk,      \* the text of each file
    findings,  \* what the present findings of each path were computed from
    ops,       \* what each process is doing
    started,   \* how many operations were started
    outside,   \* how many times others wrote, or a process died
    stale      \* history: the paths whose findings may be out of date, as
               \* somebody interfered since they were last brought in line

vars == <<disk, findings, ops, started, outside, stale>>

-----------------------------------------------------------------------------
(* An operation.  path, dest: what it changes, and where to; text: what it *)
(* writes; expected: the revision its client sent; create: createOnly.     *)
(* at, content, contract: the file under evaluation, the text read and the *)
(* template it is held against; todo: the paths still to go; seen: those   *)
(* whose findings were brought in line (an audit's seenFilePaths); failed: *)
(* an audit met a scan error; again: the second attempt at a file.         *)
(* touched: what others wrote since this operation compared it; quiet:     *)
(* nobody else changed anything while it ran (both are history).           *)
NoOp == [kind |-> "read", path |-> Nothing, dest |-> Nothing, text |-> Empty,
         expected |-> Empty, create |-> FALSE, stage |-> "idle", mode |-> "own",
         at |-> Nothing, content |-> Empty, contract |-> Nothing, todo |-> {},
         seen |-> {}, failed |-> FALSE, again |-> FALSE, touched |-> {}, quiet |-> TRUE]

Operations ==
    [kind : {"write", "create", "read", "delete", "move", "fix", "validate", "audit"},
     path : Paths \cup {Nothing}, dest : Records \cup {Nothing},
     text : Texts, expected : Texts, create : BOOLEAN,
     stage : {"idle", "check", "recheck", "replace", "mark", "evaluate", "verify",
              "reconcile", "expand", "next", "sweep"},
     mode : {"own", "batch", "audit"},
     at : Paths \cup {Nothing}, content : Texts,
     contract : Texts \cup {Absent, Nothing},
     todo : SUBSET Paths, seen : SUBSET Paths, failed : BOOLEAN, again : BOOLEAN,
     touched : SUBSET Paths, quiet : BOOLEAN]

Bytes(p) == IF disk[p] = Absent THEN Empty ELSE disk[p]
Present == {p \in Paths : disk[p] # Absent}
Agrees(p) ==
    findings[p] = IF disk[p] = Absent THEN Nothing ELSE <<disk[p], disk[Template]>>

(* Whose findings a change of p bears on.                                  *)
Depends(p) == IF p = Template THEN Paths ELSE {p}
Bears(o) == UNION {Depends(p) : p \in {o.path, o.dest} \ {Nothing}}

At(P, stage) == ops[P].stage = stage
Idle == \A P \in Procs : At(P, "idle")

(* P goes on with o.  The files C, or findings of theirs, change under the *)
(* operations of the others.                                               *)
Goes(P, o) == ops' = [ops EXCEPT ![P] = o]
Disturb(C) ==
    [Q \in Procs |-> IF At(Q, "idle") THEN ops[Q]
                     ELSE [ops[Q] EXCEPT !.quiet = FALSE,
                                         !.touched = IF ops[Q].stage \in {"recheck", "replace"}
                                                     THEN @ \cup C ELSE {}]]
Changes(P, C, o) == ops' = [Disturb(C) EXCEPT ![P] = o]

(* The operation is refused or fails; or it is done, and what it brought   *)
(* in line is in line unless somebody interfered.                          *)
Refuse(P) ==
    /\ Goes(P, NoOp)
    /\ UNCHANGED <<disk, findings, started, outside, stale>>
Settled(o) ==
    IF o.quiet THEN stale \ (IF o.kind = "audit" THEN Paths ELSE o.seen)
    ELSE stale \cup o.seen \cup Bears(o)

-----------------------------------------------------------------------------
(* Requests.  A template is not deleted or moved (protected_path), and the *)
(* destination of a move is not a template.                                *)
Begin(P, o) ==
    /\ At(P, "idle")
    /\ started < MaxOps
    /\ started' = started + 1
    /\ Goes(P, [o EXCEPT !.quiet = Idle])
    /\ UNCHANGED <<disk, findings, outside, stale>>

StartWrite(p, text, expected, create) ==
    Begin(Server, [NoOp EXCEPT !.kind = "write", !.path = p, !.text = text,
                               !.expected = expected, !.create = create, !.stage = "check"])

(* createFile: refused if the file is there, else a write that expects an  *)
(* empty file, and a read.                                                 *)
MayCreate(p) == disk[p] = Absent
StartCreate(p, text) ==
    /\ MayCreate(p)
    /\ Begin(Server, [NoOp EXCEPT !.kind = "create", !.path = p, !.text = text,
                                  !.stage = "check"])

StartRead(p) ==
    Begin(Server, [NoOp EXCEPT !.path = p, !.stage = "check"])

StartDelete(p, expected) ==
    Begin(Server, [NoOp EXCEPT !.kind = "delete", !.path = p, !.expected = expected,
                               !.stage = "check"])

StartMove(p, dest, expected) ==
    /\ p # dest
    /\ Begin(Server, [NoOp EXCEPT !.kind = "move", !.path = p, !.dest = dest,
                                  !.expected = expected, !.stage = "check"])

(* applyDeterministicFix: the fix is computed from the text it finds.      *)
StartFix(P, p, text, expected) ==
    Begin(P, [NoOp EXCEPT !.kind = "fix", !.path = p, !.text = text,
                          !.expected = expected, !.stage = "check"])

(* validate-files of the command line.                                     *)
StartValidate(p) ==
    Begin(Cli, [NoOp EXCEPT !.kind = "validate", !.path = p, !.stage = "expand"])

(* runWorkspaceAudit lists the folder first.                               *)
StartAudit(P) ==
    Begin(P, [NoOp EXCEPT !.kind = "audit", !.mode = "audit", !.todo = Present,
                          !.stage = "next"])

-----------------------------------------------------------------------------
(* The first look at the file: it is there if it must be, the destination  *)
(* of a move or a creation is not, and the client saw what is there.  Only *)
(* a write takes a missing file for an empty one.                          *)
Writes(o) == o.kind \in {"write", "create"}
Accepts(o) ==
    /\ disk[o.path] = Absent => Writes(o)
    /\ o.create => disk[o.path] = Absent
    /\ o.kind # "read" => o.expected = Bytes(o.path)
    /\ o.kind = "move" => disk[o.dest] = Absent
    /\ o.kind = "fix" => o.text # disk[o.path]

Check(P) ==
    /\ At(P, "check")
    /\ Accepts(ops[P])
    /\ Goes(P, IF ops[P].kind = "read"
               THEN [ops[P] EXCEPT !.stage = "evaluate", !.at = ops[P].path,
                                   !.content = disk[ops[P].path]]
               ELSE [ops[P] EXCEPT !.stage = "recheck", !.touched = {}])
    /\ UNCHANGED <<disk, findings, started, outside, stale>>

CheckFails(P) == At(P, "check") /\ ~Accepts(ops[P]) /\ Refuse(P)

(* The second look, when the new file is ready beside the old one.         *)
SameTrusting(o) == TRUE
Same(o) == o.expected = Bytes(o.path) /\ (disk[o.path] = Absent => Writes(o))

Recheck(P) ==
    /\ At(P, "recheck")
    /\ Same(ops[P])
    /\ Goes(P, [ops[P] EXCEPT !.stage = "replace", !.touched = @ \ {ops[P].path}])
    /\ UNCHANGED <<disk, findings, started, outside, stale>>

RecheckFails(P) == At(P, "recheck") /\ ~Same(ops[P]) /\ Refuse(P)

(* The change: rename or, for createOnly, link of the prepared file;       *)
(* unlink; or rename to the new path, which replaces what is there.        *)
Put(P) ==
    LET o == ops[P]
    IN  /\ At(P, "replace") /\ (Writes(o) \/ o.kind = "fix")
        /\ o.create => disk[o.path] = Absent
        /\ disk' = [disk EXCEPT ![o.path] = o.text]
        /\ Changes(P, {o.path},
                   IF o.kind = "fix" THEN [o EXCEPT !.stage = "expand"]
                   ELSE [o EXCEPT !.stage = "evaluate", !.at = o.path, !.content = o.text])
        /\ UNCHANGED <<findings, started, outside, stale>>

Remove(P) ==
    LET o == ops[P]
    IN  /\ At(P, "replace") /\ o.kind = "delete" /\ disk[o.path] # Absent
        /\ disk' = [disk EXCEPT ![o.path] = Absent]
        /\ Changes(P, {o.path}, [o EXCEPT !.stage = "mark"])
        /\ UNCHANGED <<findings, started, outside, stale>>

Move(P) ==
    LET o == ops[P]
    IN  /\ At(P, "replace") /\ o.kind = "move" /\ disk[o.path] # Absent
        /\ disk' = [disk EXCEPT ![o.path] = Absent, ![o.dest] = disk[o.path]]
        /\ Changes(P, {o.path, o.dest}, [o EXCEPT !.stage = "mark"])
        /\ UNCHANGED <<findings, started, outside, stale>>

(* EEXIST for the link, ENOENT for the others.                             *)
ReplaceFails(P) ==
    /\ At(P, "replace")
    /\ \/ (ops[P].create /\ disk[ops[P].path] # Absent)
       \/ ops[P].kind \in {"delete", "move"} /\ disk[ops[P].path] = Absent
    /\ Refuse(P)

(* markFileDeleted for what was deleted or moved; a move then evaluates    *)
(* the destination with the text that was read at first.                   *)
Mark(P) ==
    LET o == ops[P]
    IN  /\ At(P, "mark")
        /\ findings' = [findings EXCEPT ![o.path] = Nothing]
        /\ IF o.kind = "delete"
           THEN Changes(P, {}, NoOp) /\ stale' = Settled([o EXCEPT !.seen = {o.path}])
           ELSE /\ Changes(P, {}, [o EXCEPT !.stage = "evaluate", !.at = o.dest,
                                            !.content = o.expected, !.seen = {o.path}])
                /\ stale' = stale
        /\ UNCHANGED <<disk, started, outside>>

-----------------------------------------------------------------------------
(* evaluateFileFindings holds the text against the template of now.  A     *)
(* batch (validateAndReconcilePaths) then looks whether the text is still  *)
(* the file's, and takes a second attempt if not; a single file and an     *)
(* audit do not look.                                                      *)
Evaluate(P) ==
    /\ At(P, "evaluate")
    /\ Goes(P, [ops[P] EXCEPT !.contract = disk[Template],
                              !.stage = IF ops[P].mode = "batch" THEN "verify" ELSE "reconcile"])
    /\ UNCHANGED <<disk, findings, started, outside, stale>>

Verify(P) ==
    LET o == ops[P]
        now == disk[o.at]
    IN  /\ At(P, "verify")
        /\ Goes(P, CASE now = o.content -> [o EXCEPT !.stage = "reconcile"]
                     [] now \notin {o.content, Absent} /\ ~o.again ->
                            [o EXCEPT !.stage = "evaluate", !.content = now, !.again = TRUE]
                     [] OTHER -> [o EXCEPT !.stage = "next"])
        /\ UNCHANGED <<disk, findings, started, outside, stale>>

(* reconcileFileFindings.  After a single file: a changed template has its *)
(* dependents evaluated, a created file is read, and the rest is done.     *)
Reconcile(P) ==
    LET o == [ops[P] EXCEPT !.seen = @ \cup {ops[P].at}]
    IN  /\ At(P, "reconcile")
        /\ findings' = [findings EXCEPT ![o.at] = <<o.content, o.contract>>]
        /\ \/ /\ o.mode # "own"
              /\ Changes(P, {}, [o EXCEPT !.stage = "next"])
              /\ stale' = stale
           \/ /\ o.mode = "own" /\ o.kind = "write" /\ o.path = Template
              /\ Changes(P, {}, [o EXCEPT !.stage = "expand"])
              /\ stale' = stale
           \/ /\ o.mode = "own" /\ o.kind = "create"
              /\ Changes(P, {}, [o EXCEPT !.stage = "check", !.kind = "read"])
              /\ stale' = stale
           \/ /\ o.mode = "own"
              /\ o.kind \in {"read", "move"} \/ (o.kind = "write" /\ o.path # Template)
              /\ Changes(P, {}, NoOp)
              /\ stale' = Settled(o)
        /\ UNCHANGED <<disk, started, outside>>

(* expandDependentPaths: a template brings every file of its folder along. *)
ExpandNothing(P) ==
    /\ At(P, "expand")
    /\ Goes(P, [ops[P] EXCEPT !.stage = "next", !.mode = "batch", !.todo = {ops[P].path}])
    /\ UNCHANGED <<disk, findings, started, outside, stale>>
Expand(P) ==
    /\ At(P, "expand")
    /\ Goes(P, [ops[P] EXCEPT !.stage = "next", !.mode = "batch",
                              !.todo = {ops[P].path} \cup
                                       (IF ops[P].path = Template THEN Present ELSE {})])
    /\ UNCHANGED <<disk, findings, started, outside, stale>>

(* The next file of a batch or an audit.  A file that is gone has no       *)
(* findings for the one, and is a scan error to the other.                 *)
TakeBlindly(P, p) ==
    /\ At(P, "next")
    /\ p \in ops[P].todo
    /\ Goes(P, [ops[P] EXCEPT !.todo = @ \ {p}, !.stage = "evaluate", !.at = p,
                              !.content = disk[p], !.again = FALSE])
    /\ UNCHANGED <<disk, findings, started, outside, stale>>
Take(P, p) ==
    LET o == [ops[P] EXCEPT !.todo = @ \ {p}]
    IN  /\ At(P, "next")
        /\ p \in ops[P].todo
        /\ \/ /\ disk[p] # Absent
              /\ Goes(P, [o EXCEPT !.stage = "evaluate", !.at = p, !.content = disk[p],
                                   !.again = FALSE])
              /\ findings' = findings
           \/ /\ disk[p] = Absent /\ o.mode = "batch"
              /\ findings' = [findings EXCEPT ![p] = Nothing]
              /\ Changes(P, {}, [o EXCEPT !.seen = @ \cup {p}])
           \/ /\ disk[p] = Absent /\ o.mode = "audit"
              /\ Goes(P, [o EXCEPT !.failed = TRUE])
              /\ findings' = findings
        /\ UNCHANGED <<disk, started, outside, stale>>

(* The files went through.  An audit without errors looks at those that    *)
(* have findings and were not seen.                                        *)
Through(P) ==
    LET o == ops[P]
    IN  /\ At(P, "next") /\ o.todo = {}
        /\ IF o.mode = "audit" /\ ~o.failed
           THEN /\ Goes(P, [o EXCEPT !.stage = "sweep",
                                     !.todo = {p \in Paths \ o.seen : findings[p] # Nothing}])
                /\ stale' = stale
           ELSE Goes(P, NoOp) /\ stale' = Settled(o)
        /\ UNCHANGED <<disk, findings, started, outside>>

Sweep(P) ==
    LET o == ops[P]
    IN  /\ At(P, "sweep")
        /\ \/ \E p \in o.todo :
                /\ findings' = IF disk[p] = Absent THEN [findings EXCEPT ![p] = Nothing]
                               ELSE findings
                /\ Changes(P, {}, [o EXCEPT !.todo = @ \ {p}])
                /\ stale' = stale
           \/ /\ o.todo = {}
              /\ Goes(P, NoOp)
              /\ findings' = findings
              /\ stale' = Settled(o)
        /\ UNCHANGED <<disk, started, outside>>

-----------------------------------------------------------------------------
(* The agent writes or removes a file; a process dies in the middle of an  *)
(* operation (its temporary file is hidden and left behind).               *)
AgentWrites(p, content) ==
    /\ outside < MaxOutside
    /\ outside' = outside + 1
    /\ content # disk[p]
    /\ disk' = [disk EXCEPT ![p] = content]
    /\ ops' = Disturb({p})
    /\ stale' = stale \cup Depends(p)
    /\ UNCHANGED <<findings, started>>

Crash(P) ==
    /\ outside < MaxOutside
    /\ outside' = outside + 1
    /\ ~At(P, "idle")
    /\ Goes(P, NoOp)
    /\ stale' = stale \cup Bears(ops[P]) \cup (IF ops[P].quiet THEN {} ELSE ops[P].seen)
    /\ UNCHANGED <<disk, findings, started>>

-----------------------------------------------------------------------------
(* A folder with a template that was audited.                              *)
DocumentsInit ==
    /\ disk \in [Paths -> (Texts \ {Empty}) \cup {Absent}]
    /\ disk[Template] # Absent
    /\ findings = [p \in Paths |-> IF disk[p] = Absent THEN Nothing
                                   ELSE <<disk[p], disk[Template]>>]
    /\ ops = [P \in Procs |-> NoOp]
    /\ started = 0
    /\ outside = 0
    /\ stale = {}

DocumentsNext ==
    \/ \E p \in Paths, text, expected \in Texts, create \in BOOLEAN :
            StartWrite(p, text, expected, create)
    \/ \E p \in Records, text \in Texts : StartCreate(p, text)
    \/ \E p \in Paths : StartRead(p) \/ StartValidate(p)
    \/ \E p, dest \in Records, expected \in Texts :
            StartDelete(p, expected) \/ StartMove(p, dest, expected)
    \/ \E P \in Procs, p \in Paths, text, expected \in Texts : StartFix(P, p, text, expected)
    \/ \E P \in Procs :
        \/ StartAudit(P) \/ Check(P) \/ CheckFails(P) \/ Recheck(P) \/ RecheckFails(P)
        \/ Put(P) \/ Remove(P) \/ Move(P) \/ ReplaceFails(P) \/ Mark(P)
        \/ Evaluate(P) \/ Verify(P) \/ Reconcile(P) \/ Expand(P)
        \/ (\E p \in Paths : Take(P, p)) \/ Through(P) \/ Sweep(P) \/ Crash(P)
    \/ \E p \in Paths, content \in Texts \cup {Absent} : AgentWrites(p, content)

DocumentsSpec == DocumentsInit /\ [][DocumentsNext]_vars

-----------------------------------------------------------------------------
DocumentsTypeOK ==
    /\ disk \in [Paths -> Texts \cup {Absent}]
    /\ findings \in [Paths -> {Nothing} \cup (Texts \X (Texts \cup {Absent}))]
    /\ ops \in [Procs -> Operations]
    /\ started \in 0..MaxOps
    /\ outside \in 0..MaxOutside
    /\ stale \in SUBSET Paths

(* What a client may change unseen: nothing, but for what others write     *)
(* between the last comparison of a file and its replacement, a system     *)
(* call later, or, for the destination of a move, between the look whether *)
(* it is there and the rename.  createOnly replaces nothing at all         *)
(* ("without replacing even a concurrent empty file").                     *)
Replaces(P, p) ==
    /\ At(P, "replace") /\ ops'[P].stage # "replace"
    /\ p \in {ops[P].path, ops[P].dest}
    /\ disk'[p] # disk[p]
WasSeen(o, p) ==
    \/ p = o.path /\ disk[p] = o.expected
    \/ p = o.path /\ disk[p] = Absent /\ o.expected = Empty
    \/ p = o.dest /\ disk[p] = Absent
NothingUnseenIsLost ==
    [][\A P \in Procs, p \in Paths : Replaces(P, p) =>
        /\ WasSeen(ops[P], p) \/ p \in ops[P].touched
        /\ ops[P].create => disk[p] = Absent]_vars

(* When nothing is under way, the findings in the database are those of    *)
(* the files and the template that are there, except for what others wrote *)
(* or a crash left behind since: every operation brings all it bears on in *)
(* line, for a template every record of its folder, and an audit           *)
(* everything.                                                             *)
FindingsAgree == Idle => \A p \in Paths \ stale : Agrees(p)
=============================================================================
