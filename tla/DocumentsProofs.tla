---------------------------- MODULE DocumentsProofs ----------------------------
(***************************************************************************)
(* The findings of a workspace's files, for any number of records, texts   *)
(* and operations (Documents).  The invariant follows the debt: OwesOf an  *)
(* operation are the paths whose findings it may have put out of line and  *)
(* is yet to bring in line, and every path that is not known to be stale   *)
(* agrees with its file or is owed by somebody (InLine).  An operation     *)
(* that nobody interfered with (quiet) owes what is left of its work; one  *)
(* that was disturbed owes all it bears on or has seen, and when it ends   *)
(* that is stale.  A created file is the one that is let off early: it is  *)
(* read after it was evaluated, so that what its evaluation was of must be *)
(* known until then (CreatedAreInLine).                                    *)
(***************************************************************************)
EXTENDS Documents, TLAPS

(* The stages in which an operation has changed nothing yet, and those in  *)
(* which it has a file under evaluation.                                   *)
Early == {"idle", "check", "recheck", "replace"}
Busy == {"evaluate", "verify", "reconcile"}
AtHand(o) == IF o.stage \in Busy THEN {o.at} ELSE {}

(* What is left to do of an operation that nobody interfered with.         *)
Pending(o) ==
    CASE o.stage = "mark" -> Bears(o)
      [] o.mode = "batch" -> o.todo \cup AtHand(o)
      [] o.mode = "own" /\ o.stage # "mark" /\ o.kind # "read" -> Bears(o) \cap Present
      [] OTHER -> {}

(* The paths whose findings an operation may have put out of line.         *)
OwesOf(o) ==
    IF o.stage \in Early THEN {}
    ELSE IF o.quiet THEN Pending(o) ELSE Bears(o) \cup o.seen
OthersOwe(P, p) == \E Q \in Procs \ {P} : p \in OwesOf(ops[Q])
InLine == \A p \in Paths \ stale : Agrees(p) \/ \E P \in Procs : p \in OwesOf(ops[P])

(* The course of an operation.                                             *)
CourseOf(o) ==
    /\ o.stage = "idle" => o = NoOp
    /\ o.stage # "idle" /\ o.kind # "audit" => o.path \in Paths
    /\ o.kind = "move" => o.path \in Records /\ o.dest \in Records /\ o.path # o.dest
    /\ o.kind \in {"create", "delete"} => o.path \in Records
    /\ o.kind # "move" => o.dest = Nothing
    /\ o.kind = "audit" => o.path = Nothing
    /\ o.create => o.kind = "write"
    /\ o.stage \in Early => o.mode = "own" /\ o.kind \notin {"audit", "validate"}
    /\ o.stage \in {"recheck", "replace"} => o.kind # "read"
    /\ o.stage = "mark" => o.kind \in {"delete", "move"} /\ o.mode = "own"
    /\ o.stage = "expand" => o.kind \in {"write", "fix", "validate"} /\ o.mode = "own"
    /\ o.kind = "audit" <=> o.mode = "audit"
    /\ o.stage = "next" => o.mode # "own"
    /\ o.stage = "sweep" => o.mode = "audit"
    /\ o.stage = "verify" => o.mode = "batch"
    /\ o.stage \in Busy => o.at \in Paths
    /\ o.stage \in Busy /\ o.mode = "own" =>
            /\ o.kind \in {"write", "create", "read", "move"}
            /\ o.at = IF o.kind = "move" THEN o.dest ELSE o.path
    /\ o.stage \in {"verify", "reconcile"} => o.contract # Nothing
    /\ o.mode = "batch" =>
            /\ o.kind \in {"write", "fix", "validate"}
            /\ o.todo \subseteq Bears(o) /\ AtHand(o) \subseteq Bears(o)
    /\ o.kind = "create" \/ (o.stage \in Early \cup {"mark"} /\ o.kind # "read") => o.seen = {}

CoursesAreKept == (\A P \in Procs : CourseOf(ops[P])) /\ ops[Cli].kind # "create"

(* An operation that nobody interfered with knows the files it is about.   *)
KnowsItsFiles(o) ==
    /\ \A p \in o.seen : Agrees(p)
    /\ o.stage = "replace" => Same(o)
    /\ o.stage = "mark" => disk[o.path] = Absent
    /\ o.stage = "mark" /\ o.kind = "move" => disk[o.dest] = o.expected
    /\ o.stage \in Busy => disk[o.at] = o.content
    /\ o.stage \in {"verify", "reconcile"} => o.contract = disk[Template]
    /\ o.mode = "audit" /\ o.stage \notin {"idle", "sweep"} =>
            /\ ~o.failed /\ o.todo \subseteq Present
            /\ Present \subseteq o.seen \cup o.todo \cup AtHand(o)
    /\ o.stage = "sweep" => o.todo \cap Present = {} /\ \A p \in Paths \ o.todo : Agrees(p)
    /\ o.stage \in Busy /\ o.mode = "own" /\ o.kind = "move" => o.path \in o.seen

QuietOnesKnow ==
    \A P \in Procs : ops[P].quiet => KnowsItsFiles(ops[P])

(* A created file is in line before it is read, or known not to be.        *)
Creates(o) == o.kind = "create" /\ o.stage \in {"evaluate", "reconcile"}
CreatedIsInLine(o) ==
    disk[o.path] = o.content /\ (o.stage = "reconcile" => o.contract = disk[Template])
CreatedAreInLine ==
    \A P \in Procs : Creates(ops[P]) =>
        /\ \A Q \in Procs \ {P} : At(Q, "idle") \/ ~ops[Q].quiet
        /\ CreatedIsInLine(ops[P]) \/ ops[P].path \in stale \/ OthersOwe(P, ops[P].path)

(* What is about to be replaced was compared, or others wrote it since.    *)
WasCompared(o) ==
    /\ o.stage = "replace" => Same(o) \/ o.path \in o.touched
    /\ o.stage \in {"recheck", "replace"} /\ o.kind = "move" =>
            disk[o.dest] = Absent \/ o.dest \in o.touched

ReplacementsAreCompared == \A P \in Procs : WasCompared(ops[P])

DocumentsInv ==
    /\ DocumentsTypeOK
    /\ CoursesAreKept
    /\ InLine
    /\ QuietOnesKnow
    /\ CreatedAreInLine
    /\ ReplacementsAreCompared

LEMMA Fields ==
    ASSUME NEW r \in Operations
    PROVE  /\ r.path \in Paths \cup {Nothing} /\ r.dest \in Records \cup {Nothing}
           /\ r.text \in Texts /\ r.expected \in Texts /\ r.create \in BOOLEAN
           /\ r.at \in Paths \cup {Nothing} /\ r.content \in Texts
           /\ r.contract \in Texts \cup {Absent, Nothing} /\ r.todo \subseteq Paths
           /\ r.seen \subseteq Paths /\ r.failed \in BOOLEAN /\ r.again \in BOOLEAN
           /\ r.touched \subseteq Paths /\ r.quiet \in BOOLEAN
BY DEF Operations

LEMMA NoOpIsNothing ==
    /\ NoOp \in Operations /\ NoOp.stage = "idle" /\ NoOp.kind = "read" /\ NoOp.mode = "own"
    /\ NoOp.seen = {} /\ NoOp.quiet /\ NoOp.path = Nothing /\ NoOp.dest = Nothing
    /\ ~NoOp.create /\ NoOp.touched = {} /\ NoOp.todo = {} /\ NoOp.expected = Empty
    /\ ~NoOp.failed /\ ~NoOp.again
BY FoldersAssumption DEF NoOp, Operations

LEMMA FoldersAreNamed ==
    /\ Template \in Paths /\ Records \subseteq Paths /\ Nothing \notin Paths
    /\ Template \notin Records /\ Empty \in Texts /\ Absent \notin Texts /\ Nothing \notin Texts
    /\ Nothing # Absent
    /\ Procs = {Server, Cli} /\ Server # Cli
BY FoldersAssumption DEF Paths, Procs

LEMMA BearingIsOfPaths ==
    ASSUME NEW o \in Operations
    PROVE  /\ Bears(o) \subseteq Paths
           /\ o.path \in Records /\ o.dest = Nothing => Bears(o) = {o.path}
           /\ o.path \in Records /\ o.dest \in Records => Bears(o) = {o.path, o.dest}
           /\ o.path = Template => Bears(o) = Paths
           /\ o.path = Nothing /\ o.dest = Nothing => Bears(o) = {}
           /\ o.path \in Paths => o.path \in Bears(o)
           /\ o.dest \in Paths => o.dest \in Bears(o)
BY FoldersAreNamed, Fields DEF Bears, Depends, Paths

LEMMA PendingBears ==
    ASSUME NEW o \in Operations, CourseOf(o)
    PROVE  Pending(o) \subseteq Bears(o)
BY DEF Pending, CourseOf

LEMMA DisturbedOnes ==
    ASSUME ops \in [Procs -> Operations], NEW C \in SUBSET Paths, NEW Q \in Procs,
           NEW d, d = Disturb(C)[Q]
    PROVE  /\ d \in Operations
           /\ At(Q, "idle") => d = ops[Q]
           /\ ~At(Q, "idle") => ~d.quiet
           /\ d.kind = ops[Q].kind /\ d.path = ops[Q].path /\ d.dest = ops[Q].dest
           /\ d.text = ops[Q].text /\ d.expected = ops[Q].expected /\ d.create = ops[Q].create
           /\ d.stage = ops[Q].stage /\ d.mode = ops[Q].mode /\ d.at = ops[Q].at
           /\ d.content = ops[Q].content /\ d.contract = ops[Q].contract /\ d.todo = ops[Q].todo
           /\ d.seen = ops[Q].seen /\ d.failed = ops[Q].failed /\ d.again = ops[Q].again
           /\ d.stage \in {"recheck", "replace"} => d.touched = ops[Q].touched \cup C
<1>1. CASE At(Q, "idle")
  <2>1. d = ops[Q]
    BY <1>1 DEF Disturb
  <2> QED BY <1>1, <2>1 DEF At
<1>2. CASE ~At(Q, "idle")
  <2> DEFINE t == IF ops[Q].stage \in {"recheck", "replace"} THEN ops[Q].touched \cup C ELSE {}
  <2>1. d = [ops[Q] EXCEPT !.quiet = FALSE, !.touched = t]
    BY <1>2 DEF Disturb
  <2>2. t \in SUBSET Paths
    BY DEF Operations
  <2>3. ops[Q].stage \in {"recheck", "replace"} => t = ops[Q].touched \cup C
    OBVIOUS
  <2>4. ops[Q] \in Operations
    OBVIOUS
  <2> HIDE DEF t
  <2>5. d \in Operations
    BY <2>1, <2>2, <2>4 DEF Operations
  <2>6. ~d.quiet /\ d.touched = t
    BY <2>1, <2>2, <2>4 DEF Operations
  <2>7. /\ d.kind = ops[Q].kind /\ d.path = ops[Q].path /\ d.dest = ops[Q].dest
        /\ d.text = ops[Q].text /\ d.expected = ops[Q].expected /\ d.create = ops[Q].create
    BY <2>1, <2>2, <2>4 DEF Operations
  <2>8. /\ d.stage = ops[Q].stage /\ d.mode = ops[Q].mode /\ d.at = ops[Q].at
        /\ d.content = ops[Q].content /\ d.contract = ops[Q].contract /\ d.todo = ops[Q].todo
        /\ d.seen = ops[Q].seen /\ d.failed = ops[Q].failed /\ d.again = ops[Q].again
    BY <2>1, <2>2, <2>4 DEF Operations
  <2> QED BY <1>2, <2>3, <2>5, <2>6, <2>7, <2>8
<1> QED BY <1>1, <1>2

(* What Q is at after a step of another: the same, or it is disturbed.     *)
LEMMA OthersGoOn ==
    ASSUME DocumentsInv, NEW C \in SUBSET Paths, NEW Q \in Procs, NEW d \in Operations,
           \/ d = ops[Q] /\ UNCHANGED <<disk, findings>>
           \/ d = Disturb(C)[Q],
           \A p \in Paths \ C : disk'[p] = disk[p]
    PROVE  /\ CourseOf(d) /\ (Q = Cli => d.kind # "create")
           /\ OwesOf(ops[Q]) \subseteq OwesOf(d)'
           /\ d.quiet => KnowsItsFiles(d)'
           /\ WasCompared(d)'
           /\ At(Q, "idle") \/ ~ops[Q].quiet => d.stage = "idle" \/ ~d.quiet
           /\ d.path = ops[Q].path /\ d.content = ops[Q].content /\ d.contract = ops[Q].contract
           /\ d.kind = ops[Q].kind /\ d.stage = ops[Q].stage
<1>1. /\ ops \in [Procs -> Operations] /\ CourseOf(ops[Q]) /\ ops[Q] \in Operations
      /\ (Q = Cli => ops[Q].kind # "create") /\ (ops[Q].quiet => KnowsItsFiles(ops[Q]))
      /\ WasCompared(ops[Q])
    BY DEF DocumentsInv, DocumentsTypeOK, CoursesAreKept, QuietOnesKnow, ReplacementsAreCompared
<1>2. CASE d = ops[Q] /\ UNCHANGED <<disk, findings>>
  <2>1. OwesOf(d)' = OwesOf(d)
    BY <1>2 DEF OwesOf, Pending, Present
  <2>2. KnowsItsFiles(d) => KnowsItsFiles(d)'
    BY <1>2 DEF KnowsItsFiles, Agrees, Same, Bytes, Present
  <2>3. WasCompared(d) => WasCompared(d)'
    BY <1>2 DEF WasCompared, Same, Bytes
  <2> QED BY <1>1, <1>2, <2>1, <2>2, <2>3 DEF At
<1>3. CASE d = Disturb(C)[Q]
  <2>1. CASE At(Q, "idle")
    <3>1. d = NoOp /\ d = ops[Q]
      BY <1>1, <1>3, <2>1, DisturbedOnes DEF CourseOf, At
    <3>2. OwesOf(ops[Q]) = {}
      BY <3>1, NoOpIsNothing DEF OwesOf, Early
    <3>3. KnowsItsFiles(d)' /\ WasCompared(d)'
      BY <3>1, NoOpIsNothing DEF KnowsItsFiles, WasCompared, Busy
    <3> QED BY <1>1, <3>1, <3>2, <3>3, NoOpIsNothing
  <2>2. CASE ~At(Q, "idle")
    <3>0. /\ ~d.quiet /\ d.kind = ops[Q].kind /\ d.path = ops[Q].path /\ d.dest = ops[Q].dest
          /\ d.text = ops[Q].text /\ d.expected = ops[Q].expected /\ d.create = ops[Q].create
          /\ d.stage = ops[Q].stage /\ d.mode = ops[Q].mode /\ d.at = ops[Q].at
          /\ d.content = ops[Q].content /\ d.contract = ops[Q].contract /\ d.todo = ops[Q].todo
          /\ d.seen = ops[Q].seen
          /\ d.stage \in {"recheck", "replace"} => d.touched = ops[Q].touched \cup C
      BY <1>1, <1>3, <2>2, DisturbedOnes
    <3>1. Bears(d) = Bears(ops[Q]) /\ AtHand(d) = AtHand(ops[Q])
      BY <3>0 DEF Bears, AtHand
    <3>2. CourseOf(d)
      BY <1>1, <2>2, <3>0, <3>1 DEF CourseOf, At
    <3>3. OwesOf(ops[Q]) \subseteq OwesOf(d)'
      <4>1. Bears(d)' = Bears(d)
        BY DEF Bears
      <4>2. Pending(ops[Q]) \subseteq Bears(ops[Q])
        BY <1>1, PendingBears
      <4> QED BY <3>0, <3>1, <4>1, <4>2 DEF OwesOf
    <3>4. WasCompared(d)'
      <4>1. d.stage \in {"recheck", "replace"} => d.path \in Paths
        BY <3>0, <1>1 DEF CourseOf, Early
      <4>2. Same(ops[Q]) /\ d.path \notin C /\ d.path \in Paths => Same(d)'
        BY <3>0 DEF Same, Bytes, Writes
      <4>3. d.kind = "move" => d.dest \in Paths
        BY <3>2, FoldersAreNamed DEF CourseOf
      <4> QED BY <1>1, <3>0, <4>1, <4>2, <4>3 DEF WasCompared
    <3> QED BY <1>1, <3>0, <3>2, <3>3, <3>4
  <2> QED BY <2>1, <2>2
<1> QED BY <1>2, <1>3

(* An operation at another stage is an operation.                          *)
LEMMA AtStage ==
    ASSUME NEW o \in Operations
    PROVE  /\ [o EXCEPT !.stage = "next"] \in Operations
           /\ [o EXCEPT !.stage = "expand"] \in Operations
           /\ [o EXCEPT !.stage = "mark"] \in Operations
           /\ [o EXCEPT !.stage = "check", !.kind = "read"] \in Operations
BY DEF Operations

(* What is said of what P is at is said of the record that it goes on with. *)
LEMMA GoesOnAs ==
    ASSUME NEW P, NEW o, ops'[P] = o
    PROVE  /\ OwesOf(ops[P])' = OwesOf(o)'
           /\ KnowsItsFiles(ops[P])' <=> KnowsItsFiles(o)'
           /\ WasCompared(ops[P])' <=> WasCompared(o)'
           /\ CreatedIsInLine(ops[P])' <=> CreatedIsInLine(o)'
<1>1. OwesOf(ops[P])' = OwesOf(o)'
    BY DEF OwesOf, Pending, Bears, Present, AtHand
<1>2. KnowsItsFiles(ops[P])' <=> KnowsItsFiles(o)'
    BY DEF KnowsItsFiles, Same, Bytes, Writes, Agrees, Present, AtHand
<1>3. WasCompared(ops[P])' <=> WasCompared(o)'
    BY DEF WasCompared, Same, Bytes, Writes
<1>4. CreatedIsInLine(ops[P])' <=> CreatedIsInLine(o)'
    BY DEF CreatedIsInLine
<1> QED BY <1>1, <1>2, <1>3, <1>4

(* A step of P, which goes on with o: with C it disturbs the others.       *)
LEMMA StepOf ==
    ASSUME DocumentsInv, NEW P \in Procs, NEW o \in Operations, NEW C \in SUBSET Paths,
           \/ Goes(P, o) /\ UNCHANGED <<disk, findings>>
           \/ Changes(P, C, o),
           disk' \in [Paths -> Texts \cup {Absent}],
           findings' \in [Paths -> {Nothing} \cup (Texts \X (Texts \cup {Absent}))],
           started' \in 0..MaxOps, outside' \in 0..MaxOutside, stale' \in SUBSET Paths,
           \A p \in Paths \ C : disk'[p] = disk[p],
           CourseOf(o), P = Cli => o.kind # "create",
           o.quiet => KnowsItsFiles(o)', WasCompared(o)',
           \A p \in Paths \ stale' : Agrees(p)' \/ p \in OwesOf(o)' \/ OthersOwe(P, p),
           \/ ops[P].quiet /\ ~At(P, "idle")
           \/ ops[P].kind = "create"
           \/ /\ stale \subseteq stale' /\ OwesOf(ops[P]) \subseteq OwesOf(o)' \cup stale'
              /\ \A p \in Paths : disk'[p] # disk[p] \/ disk'[Template] # disk[Template] =>
                        p \in OwesOf(o)' \cup stale',
           o.quiet /\ o.stage # "idle" => (ops[P].quiet /\ ~At(P, "idle")) \/ Idle,
           Creates(o) => /\ Changes(P, C, o) \/ Creates(ops[P])
                         /\ CreatedIsInLine(o)' \/ o.path \in stale' \/ OthersOwe(P, o.path)
    PROVE  DocumentsInv'
<1>0. ops \in [Procs -> Operations]
    BY DEF DocumentsInv, DocumentsTypeOK
<1>1. ops'[P] = o /\ ops' \in [Procs -> Operations]
  <2>1. CASE Goes(P, o)
    BY <1>0, <2>1 DEF Goes
  <2>2. CASE Changes(P, C, o)
    <3>1. ops' = [Disturb(C) EXCEPT ![P] = o]
      BY <2>2 DEF Changes
    <3>2. Disturb(C) \in [Procs -> Operations]
      <4>1. \A Q \in Procs : Disturb(C)[Q] \in Operations
        BY <1>0, DisturbedOnes
      <4>2. Disturb(C) = [Q \in Procs |-> Disturb(C)[Q]]
        BY DEF Disturb
      <4> HIDE DEF Disturb
      <4> QED BY <4>1, <4>2
    <3> QED BY <3>1, <3>2
  <2> QED BY <2>1, <2>2
<1>2. /\ \A Q \in Procs \ {P} : \/ ops'[Q] = ops[Q] /\ UNCHANGED <<disk, findings>>
                                \/ ops'[Q] = Disturb(C)[Q]
      /\ Changes(P, C, o) => \A Q \in Procs \ {P} : ops'[Q] = Disturb(C)[Q]
  <2>1. Changes(P, C, o) => \A Q \in Procs \ {P} : ops'[Q] = Disturb(C)[Q]
    <3>1. Disturb(C) = [Q \in Procs |-> Disturb(C)[Q]]
      BY DEF Disturb
    <3> HIDE DEF Disturb
    <3> QED BY <3>1 DEF Changes
  <2>2. Goes(P, o) => \A Q \in Procs \ {P} : ops'[Q] = ops[Q]
    BY <1>0 DEF Goes
  <2> QED BY <2>1, <2>2
<1>3. ASSUME NEW Q \in Procs \ {P}
      PROVE  /\ CourseOf(ops'[Q]) /\ (Q = Cli => ops'[Q].kind # "create")
             /\ OwesOf(ops[Q]) \subseteq OwesOf(ops[Q])'
             /\ ops'[Q].quiet => KnowsItsFiles(ops[Q])'
             /\ WasCompared(ops[Q])'
             /\ At(Q, "idle") \/ ~ops[Q].quiet => ops'[Q].stage = "idle" \/ ~ops'[Q].quiet
             /\ ops'[Q].path = ops[Q].path /\ ops'[Q].content = ops[Q].content
             /\ ops'[Q].contract = ops[Q].contract
             /\ ops'[Q].kind = ops[Q].kind /\ ops'[Q].stage = ops[Q].stage
  <2>1. PICK d \in Operations : d = ops'[Q]
    BY <1>1
  <2>2. /\ CourseOf(d) /\ (Q = Cli => d.kind # "create")
        /\ OwesOf(ops[Q]) \subseteq OwesOf(d)'
        /\ d.quiet => KnowsItsFiles(d)'
        /\ WasCompared(d)'
        /\ At(Q, "idle") \/ ~ops[Q].quiet => d.stage = "idle" \/ ~d.quiet
        /\ d.path = ops[Q].path /\ d.content = ops[Q].content /\ d.contract = ops[Q].contract
        /\ d.kind = ops[Q].kind /\ d.stage = ops[Q].stage
    BY <1>2, <2>1, OthersGoOn
  <2> QED BY <2>1, <2>2, GoesOnAs
<1>4. DocumentsTypeOK'
    BY <1>1 DEF DocumentsTypeOK
<1>5. CoursesAreKept'
    BY <1>1, <1>3, FoldersAreNamed DEF CoursesAreKept, DocumentsInv
<1>6. \A p \in Paths : OthersOwe(P, p) => \E Q \in Procs \ {P} : p \in OwesOf(ops[Q])'
    BY <1>3 DEF OthersOwe
<1>7. InLine'
    BY <1>1, <1>6, GoesOnAs DEF InLine
<1>8. QuietOnesKnow'
    BY <1>1, <1>3, GoesOnAs DEF QuietOnesKnow
<1>9. ReplacementsAreCompared'
    BY <1>1, <1>3, GoesOnAs DEF ReplacementsAreCompared
<1>10. CreatedAreInLine'
  <2> SUFFICES ASSUME NEW Q \in Procs, Creates(ops'[Q])
               PROVE  /\ \A R \in Procs \ {Q} : ops'[R].stage = "idle" \/ ~ops'[R].quiet
                      /\ \/ CreatedIsInLine(ops[Q])'
                         \/ ops'[Q].path \in stale'
                         \/ \E R \in Procs \ {Q} : ops'[Q].path \in OwesOf(ops[R])'
    BY DEF CreatedAreInLine, OthersOwe, At
  <2>1. CASE Q = P
    <3>1. \A R \in Procs \ {P} : ops'[R].stage = "idle" \/ ~ops'[R].quiet
      <4>1. CASE Changes(P, C, o)
        BY <1>0, <1>2, <4>1, DisturbedOnes DEF At
      <4>2. CASE Creates(ops[P])
        BY <1>3, <4>2 DEF DocumentsInv, CreatedAreInLine
      <4> QED BY <1>1, <2>1, <4>1, <4>2
    <3>2. o.path \in Paths
      BY <1>1, <2>1, FoldersAreNamed DEF Creates, CourseOf
    <3> QED BY <1>1, <1>6, <2>1, <3>1, <3>2, GoesOnAs
  <2>2. CASE Q # P
    <3>1. Creates(ops[Q]) /\ ops'[Q].path = ops[Q].path /\ ops[Q].path \in Records
      BY <1>3, <2>2 DEF Creates, DocumentsInv, CoursesAreKept, CourseOf
    <3>2. Procs = {P, Q} /\ P = Cli
      BY <2>2, <3>1, FoldersAreNamed DEF Creates, DocumentsInv, CoursesAreKept
    <3>3. At(P, "idle") \/ ~ops[P].quiet
      BY <2>2, <3>1 DEF DocumentsInv, CreatedAreInLine
    <3>4. ~At(Q, "idle") /\ ~Idle
      BY <3>1 DEF Creates, At, Idle
    <3>5. o.stage = "idle" \/ ~o.quiet
      BY <3>3, <3>4
    <3>6. /\ stale \subseteq stale' /\ OwesOf(ops[P]) \subseteq OwesOf(o)' \cup stale'
          /\ \A p \in Paths : disk'[p] # disk[p] \/ disk'[Template] # disk[Template] =>
                        p \in OwesOf(o)' \cup stale'
      BY <3>2, <3>3 DEF DocumentsInv, CoursesAreKept
    <3>7. ops[Q].path \in Paths
      BY <3>1, FoldersAreNamed
    <3>8. CreatedIsInLine(ops[Q]) \/ ops[Q].path \in stale \/ ops[Q].path \in OwesOf(ops[P])
      BY <3>1, <3>2, <2>2 DEF DocumentsInv, CreatedAreInLine, OthersOwe
    <3>9. CASE ops[Q].path \in OwesOf(o)' \cup stale'
      BY <1>1, <1>3, <2>2, <3>1, <3>2, <3>5, <3>9, GoesOnAs
    <3>10. CASE ops[Q].path \notin OwesOf(o)' \cup stale'
      <4>1. CreatedIsInLine(ops[Q]) /\ disk'[ops[Q].path] = disk[ops[Q].path]
            /\ disk'[Template] = disk[Template]
        BY <3>6, <3>7, <3>8, <3>10
      <4>2. CreatedIsInLine(ops[Q])'
        BY <1>3, <2>2, <4>1 DEF CreatedIsInLine
      <4> QED BY <1>1, <2>2, <3>2, <3>5, <4>2
    <3> QED BY <3>9, <3>10
  <2> QED BY <2>1, <2>2
<1> QED BY <1>4, <1>5, <1>7, <1>8, <1>9, <1>10 DEF DocumentsInv

(* What is known of the operation of P.                                    *)
LEMMA OperationOf ==
    ASSUME DocumentsInv, NEW P \in Procs
    PROVE  /\ ops \in [Procs -> Operations] /\ ops[P] \in Operations
           /\ CourseOf(ops[P]) /\ WasCompared(ops[P])
           /\ P = Cli => ops[P].kind # "create"
           /\ ops[P].quiet => KnowsItsFiles(ops[P])
           /\ \A p \in Paths \ stale : Agrees(p) \/ p \in OwesOf(ops[P]) \/ OthersOwe(P, p)
           /\ disk \in [Paths -> Texts \cup {Absent}] /\ stale \in SUBSET Paths
           /\ findings \in [Paths -> {Nothing} \cup (Texts \X (Texts \cup {Absent}))]
           /\ started \in 0..MaxOps /\ outside \in 0..MaxOutside
BY DEF DocumentsInv, DocumentsTypeOK, CoursesAreKept, InLine, OthersOwe, QuietOnesKnow,
       ReplacementsAreCompared

LEMMA FilesStand ==
    ASSUME UNCHANGED <<disk, findings>>, NEW o, NEW p
    PROVE  /\ OwesOf(o)' = OwesOf(o) /\ (KnowsItsFiles(o)' <=> KnowsItsFiles(o))
           /\ (WasCompared(o)' <=> WasCompared(o)) /\ (CreatedIsInLine(o)' <=> CreatedIsInLine(o))
           /\ (Agrees(p)' <=> Agrees(p))
<1>1. OwesOf(o)' = OwesOf(o)
    BY DEF OwesOf, Pending, Bears, Present, AtHand
<1>2. KnowsItsFiles(o)' <=> KnowsItsFiles(o)
    BY DEF KnowsItsFiles, Same, Bytes, Writes, Agrees, Present, AtHand
<1>3. WasCompared(o)' <=> WasCompared(o)
    BY DEF WasCompared, Same, Bytes, Writes
<1>4. (CreatedIsInLine(o)' <=> CreatedIsInLine(o)) /\ (Agrees(p)' <=> Agrees(p))
    BY DEF CreatedIsInLine, Agrees
<1> QED BY <1>1, <1>2, <1>3, <1>4

(* A step that changes neither files nor findings, and goes on owing.      *)
LEMMA GoesOn ==
    ASSUME DocumentsInv, NEW P \in Procs, NEW o \in Operations, Goes(P, o),
           UNCHANGED <<disk, findings, outside, stale>>, started' \in 0..MaxOps,
           CourseOf(o), P = Cli => o.kind # "create",
           o.quiet => KnowsItsFiles(o), WasCompared(o),
           OwesOf(ops[P]) \subseteq OwesOf(o),
           o.quiet /\ o.stage # "idle" => (ops[P].quiet /\ ~At(P, "idle")) \/ Idle,
           Creates(o) => /\ Creates(ops[P]) /\ o.path = ops[P].path
                         /\ CreatedIsInLine(ops[P]) => CreatedIsInLine(o)
    PROVE  DocumentsInv'
<1>1. /\ disk' \in [Paths -> Texts \cup {Absent}] /\ stale' \in SUBSET Paths
      /\ findings' \in [Paths -> {Nothing} \cup (Texts \X (Texts \cup {Absent}))]
      /\ outside' \in 0..MaxOutside
    BY OperationOf
<1>2. /\ OwesOf(o)' = OwesOf(o) /\ (o.quiet => KnowsItsFiles(o)') /\ WasCompared(o)'
      /\ (CreatedIsInLine(o) => CreatedIsInLine(o)')
    BY FilesStand
<1>3. \A p \in Paths \ stale' : Agrees(p)' \/ p \in OwesOf(o)' \/ OthersOwe(P, p)
    BY <1>2, OperationOf, FilesStand
<1>4. Creates(o) => CreatedIsInLine(o)' \/ o.path \in stale' \/ OthersOwe(P, o.path)
    BY <1>2 DEF DocumentsInv, CreatedAreInLine
<1>5. \A p \in Paths \ {} : disk'[p] = disk[p]
    OBVIOUS
<1>6. {} \in SUBSET Paths
    OBVIOUS
<1> QED BY <1>1, <1>2, <1>3, <1>4, <1>5, <1>6, StepOf

LEMMA RefuseKeeps ==
    ASSUME DocumentsInv, NEW P \in Procs, Refuse(P), ops[P].stage \in Early
    PROVE  DocumentsInv'
<1>1. Goes(P, NoOp) /\ UNCHANGED <<disk, findings, started, outside, stale>>
    BY DEF Refuse
<1>2. CourseOf(NoOp) /\ ~Creates(NoOp) /\ KnowsItsFiles(NoOp) /\ WasCompared(NoOp)
    BY NoOpIsNothing DEF CourseOf, Creates, KnowsItsFiles, WasCompared, Busy, Early
<1>3. OwesOf(ops[P]) = {}
    BY DEF OwesOf
<1> QED BY <1>1, <1>2, <1>3, NoOpIsNothing, OperationOf, GoesOn

LEMMA BeginKeeps ==
    ASSUME DocumentsInv, NEW P \in Procs, NEW o \in Operations, Begin(P, o),
           CourseOf(o), P = Cli => o.kind # "create", o.seen = {},
           o.stage \in {"check", "expand", "next"},
           o.mode = "audit" => ~o.failed /\ o.todo = Present
    PROVE  DocumentsInv'
<1> DEFINE b == [o EXCEPT !.quiet = Idle]
<1>1. /\ At(P, "idle") /\ started < MaxOps /\ started' = started + 1 /\ Goes(P, b)
      /\ UNCHANGED <<disk, findings, outside, stale>>
    BY DEF Begin
<1>2. Idle \in BOOLEAN
    BY DEF Idle
<1>3. b \in Operations /\ (b.quiet <=> Idle)
    BY <1>2 DEF Operations
<1>4. /\ b.kind = o.kind /\ b.path = o.path /\ b.dest = o.dest /\ b.create = o.create
      /\ b.stage = o.stage /\ b.mode = o.mode /\ b.at = o.at /\ b.todo = o.todo
      /\ b.seen = o.seen /\ b.failed = o.failed
    BY DEF Operations
<1> HIDE DEF b
<1>5. CourseOf(b)
    BY <1>4 DEF CourseOf, Bears, AtHand
<1>6. KnowsItsFiles(b) /\ WasCompared(b) /\ ~Creates(b)
    BY <1>4 DEF KnowsItsFiles, WasCompared, Creates, Busy
<1>7. OwesOf(ops[P]) = {}
    BY <1>1 DEF OwesOf, Early, At
<1>8. started' \in 0..MaxOps
    BY <1>1, OperationOf, FoldersAssumption
<1> QED BY <1>1, <1>3, <1>4, <1>5, <1>6, <1>7, <1>8, GoesOn

LEMMA StartsKeep ==
    ASSUME DocumentsInv, NEW text \in Texts, NEW expected \in Texts
    PROVE  /\ \A p \in Paths, create \in BOOLEAN :
                    StartWrite(p, text, expected, create) => DocumentsInv'
           /\ \A p \in Records : StartCreate(p, text) => DocumentsInv'
           /\ \A p \in Paths : StartRead(p) \/ StartValidate(p) => DocumentsInv'
           /\ \A p \in Records : StartDelete(p, expected) => DocumentsInv'
           /\ \A p, dest \in Records : StartMove(p, dest, expected) => DocumentsInv'
           /\ \A P \in Procs, p \in Paths : StartFix(P, p, text, expected) => DocumentsInv'
           /\ \A P \in Procs : StartAudit(P) => DocumentsInv'
<1>1. ASSUME NEW p \in Paths, NEW create \in BOOLEAN, StartWrite(p, text, expected, create)
      PROVE  DocumentsInv'
  <2> DEFINE o == [NoOp EXCEPT !.kind = "write", !.path = p, !.text = text,
                               !.expected = expected, !.create = create, !.stage = "check"]
  <2>1. o \in Operations /\ CourseOf(o)
    BY FoldersAreNamed, FoldersAssumption DEF NoOp, Operations, CourseOf, Early, Busy
  <2>2. o.seen = {} /\ o.stage = "check" /\ o.mode = "own" /\ o.kind = "write"
    BY DEF NoOp
  <2>3. Begin(Server, o)
    BY <1>1 DEF StartWrite
  <2> HIDE DEF o
  <2> QED BY <2>1, <2>2, <2>3, FoldersAreNamed, BeginKeeps
<1>2. ASSUME NEW p \in Records, StartCreate(p, text)
      PROVE  DocumentsInv'
  <2> DEFINE o == [NoOp EXCEPT !.kind = "create", !.path = p, !.text = text, !.stage = "check"]
  <2>1. o \in Operations /\ CourseOf(o)
    BY FoldersAreNamed, FoldersAssumption DEF NoOp, Operations, CourseOf, Early, Busy
  <2>2. o.seen = {} /\ o.stage = "check" /\ o.mode = "own" /\ o.kind = "create"
    BY DEF NoOp
  <2>3. Begin(Server, o)
    BY <1>2 DEF StartCreate
  <2> HIDE DEF o
  <2> QED BY <2>1, <2>2, <2>3, FoldersAreNamed, BeginKeeps
<1>3. ASSUME NEW p \in Paths, StartRead(p) PROVE DocumentsInv'
  <2> DEFINE o == [NoOp EXCEPT !.path = p, !.stage = "check"]
  <2>1. o \in Operations /\ CourseOf(o)
    BY FoldersAreNamed, FoldersAssumption DEF NoOp, Operations, CourseOf, Early, Busy
  <2>2. o.seen = {} /\ o.stage = "check" /\ o.mode = "own" /\ o.kind = "read"
    BY DEF NoOp
  <2>3. Begin(Server, o)
    BY <1>3 DEF StartRead
  <2> HIDE DEF o
  <2> QED BY <2>1, <2>2, <2>3, FoldersAreNamed, BeginKeeps
<1>4. ASSUME NEW p \in Paths, StartValidate(p) PROVE DocumentsInv'
  <2> DEFINE o == [NoOp EXCEPT !.kind = "validate", !.path = p, !.stage = "expand"]
  <2>1. o \in Operations /\ CourseOf(o)
    BY FoldersAreNamed, FoldersAssumption DEF NoOp, Operations, CourseOf, Early, Busy
  <2>2. o.seen = {} /\ o.stage = "expand" /\ o.mode = "own" /\ o.kind = "validate"
    BY DEF NoOp
  <2>3. Begin(Cli, o)
    BY <1>4 DEF StartValidate
  <2> HIDE DEF o
  <2> QED BY <2>1, <2>2, <2>3, FoldersAreNamed, BeginKeeps
<1>5. ASSUME NEW p \in Records, StartDelete(p, expected) PROVE DocumentsInv'
  <2> DEFINE o == [NoOp EXCEPT !.kind = "delete", !.path = p, !.expected = expected,
                               !.stage = "check"]
  <2>1. o \in Operations /\ CourseOf(o)
    BY FoldersAreNamed, FoldersAssumption DEF NoOp, Operations, CourseOf, Early, Busy
  <2>2. o.seen = {} /\ o.stage = "check" /\ o.mode = "own" /\ o.kind = "delete"
    BY DEF NoOp
  <2>3. Begin(Server, o)
    BY <1>5 DEF StartDelete
  <2> HIDE DEF o
  <2> QED BY <2>1, <2>2, <2>3, FoldersAreNamed, BeginKeeps
<1>6. ASSUME NEW p \in Records, NEW dest \in Records, StartMove(p, dest, expected)
      PROVE  DocumentsInv'
  <2> DEFINE o == [NoOp EXCEPT !.kind = "move", !.path = p, !.dest = dest,
                               !.expected = expected, !.stage = "check"]
  <2>0. p # dest
    BY <1>6 DEF StartMove
  <2>1. o \in Operations /\ CourseOf(o)
    BY <2>0, FoldersAreNamed, FoldersAssumption DEF NoOp, Operations, CourseOf, Early, Busy
  <2>2. o.seen = {} /\ o.stage = "check" /\ o.mode = "own" /\ o.kind = "move"
    BY DEF NoOp
  <2>3. Begin(Server, o)
    BY <1>6 DEF StartMove
  <2> HIDE DEF o
  <2> QED BY <2>1, <2>2, <2>3, FoldersAreNamed, BeginKeeps
<1>7. ASSUME NEW P \in Procs, NEW p \in Paths, StartFix(P, p, text, expected)
      PROVE  DocumentsInv'
  <2> DEFINE o == [NoOp EXCEPT !.kind = "fix", !.path = p, !.text = text,
                               !.expected = expected, !.stage = "check"]
  <2>1. o \in Operations /\ CourseOf(o)
    BY FoldersAreNamed, FoldersAssumption DEF NoOp, Operations, CourseOf, Early, Busy
  <2>2. o.seen = {} /\ o.stage = "check" /\ o.mode = "own" /\ o.kind = "fix"
    BY DEF NoOp
  <2>3. Begin(P, o)
    BY <1>7 DEF StartFix
  <2> HIDE DEF o
  <2> QED BY <2>1, <2>2, <2>3, FoldersAreNamed, BeginKeeps
<1>8. ASSUME NEW P \in Procs, StartAudit(P)
      PROVE  DocumentsInv'
  <2> DEFINE o == [NoOp EXCEPT !.kind = "audit", !.mode = "audit", !.todo = Present,
                               !.stage = "next"]
  <2>0. Present \subseteq Paths
    BY DEF Present
  <2>1. o \in Operations /\ CourseOf(o)
    BY <2>0, FoldersAreNamed, FoldersAssumption DEF NoOp, Operations, CourseOf, Early, Busy
  <2>2. o.seen = {} /\ o.stage = "next" /\ o.kind = "audit" /\ ~o.failed /\ o.todo = Present
    BY DEF NoOp
  <2>3. Begin(P, o)
    BY <1>8 DEF StartAudit
  <2> HIDE DEF o
  <2> QED BY <2>1, <2>2, <2>3, FoldersAreNamed, BeginKeeps
<1> QED BY <1>1, <1>2, <1>3, <1>4, <1>5, <1>6, <1>7, <1>8

LEMMA CheckKeeps ==
    ASSUME DocumentsInv, NEW P \in Procs, Check(P)
    PROVE  DocumentsInv'
<1> DEFINE r == ops[P]
           looked == [r EXCEPT !.stage = "evaluate", !.at = r.path, !.content = disk[r.path]]
           compared == [r EXCEPT !.stage = "recheck", !.touched = {}]
<1>1. /\ r.stage = "check" /\ Accepts(r) /\ UNCHANGED <<disk, findings, started, outside, stale>>
      /\ Goes(P, IF r.kind = "read" THEN looked ELSE compared)
    BY DEF Check, At
<1>2. /\ r \in Operations /\ CourseOf(r) /\ (P = Cli => r.kind # "create")
      /\ (r.quiet => KnowsItsFiles(r)) /\ disk \in [Paths -> Texts \cup {Absent}]
      /\ started \in 0..MaxOps
    BY OperationOf
<1>3. r.path \in Paths /\ r.mode = "own" /\ r.kind \notin {"audit", "validate"} /\ OwesOf(r) = {}
      /\ ~At(P, "idle")
    BY <1>1, <1>2 DEF CourseOf, Early, OwesOf, At
<1>4. CASE r.kind = "read"
  <2>1. disk[r.path] \in Texts
    BY <1>1, <1>2, <1>3, <1>4 DEF Accepts, Writes
  <2>2. looked \in Operations
    BY <1>2, <1>3, <2>1 DEF Operations
  <2>3. /\ looked.kind = "read" /\ looked.path = r.path /\ looked.dest = r.dest
        /\ looked.create = r.create /\ looked.stage = "evaluate" /\ looked.mode = "own"
        /\ looked.at = r.path /\ looked.content = disk[r.path] /\ looked.seen = r.seen
        /\ looked.quiet = r.quiet
    BY <1>2, <1>3, <1>4 DEF Operations
  <2>4. Goes(P, looked)
    BY <1>1, <1>4
  <2> HIDE DEF r, looked
  <2>5. CourseOf(looked)
    BY <1>2, <1>3, <1>4, <2>3 DEF CourseOf, Early, Busy
  <2>6. looked.quiet => KnowsItsFiles(looked)
    BY <1>2, <2>3 DEF KnowsItsFiles, Busy
  <2>7. WasCompared(looked) /\ ~Creates(looked)
    BY <2>3 DEF WasCompared, Creates
  <2> QED BY <1>1, <1>2, <1>3, <2>2, <2>3, <2>4, <2>5, <2>6, <2>7, GoesOn DEF r
<1>5. CASE r.kind # "read"
  <2>1. compared \in Operations
    BY <1>2 DEF Operations
  <2>2. /\ compared.kind = r.kind /\ compared.path = r.path /\ compared.dest = r.dest
        /\ compared.create = r.create /\ compared.stage = "recheck" /\ compared.mode = "own"
        /\ compared.seen = r.seen /\ compared.quiet = r.quiet /\ compared.expected = r.expected
    BY <1>2, <1>3 DEF Operations
  <2>3. Goes(P, compared)
    BY <1>1, <1>5
  <2> HIDE DEF r, compared
  <2>4. CourseOf(compared)
    BY <1>1, <1>2, <1>3, <1>5, <2>2 DEF CourseOf, Early, Busy
  <2>5. compared.quiet => KnowsItsFiles(compared)
    BY <1>2, <2>2 DEF KnowsItsFiles, Busy
  <2>6. WasCompared(compared) /\ ~Creates(compared)
    BY <1>1, <2>2 DEF WasCompared, Creates, Accepts
  <2> QED BY <1>1, <1>2, <1>3, <2>1, <2>2, <2>3, <2>4, <2>5, <2>6, GoesOn DEF r
<1> QED BY <1>4, <1>5

LEMMA RecheckKeeps ==
    ASSUME DocumentsInv, NEW P \in Procs, Recheck(P)
    PROVE  DocumentsInv'
<1> DEFINE r == ops[P]
           o == [r EXCEPT !.stage = "replace", !.touched = r.touched \ {r.path}]
<1>1. /\ r.stage = "recheck" /\ Same(r) /\ UNCHANGED <<disk, findings, started, outside, stale>>
      /\ Goes(P, o)
    BY DEF Recheck, At
<1>2. /\ r \in Operations /\ CourseOf(r) /\ (P = Cli => r.kind # "create")
      /\ (r.quiet => KnowsItsFiles(r)) /\ WasCompared(r) /\ started \in 0..MaxOps
    BY OperationOf
<1>3. r.path \in Paths /\ r.mode = "own" /\ r.kind \notin {"audit", "validate"} /\ OwesOf(r) = {}
      /\ ~At(P, "idle")
    BY <1>1, <1>2 DEF CourseOf, Early, OwesOf, At
<1>4. o \in Operations
    BY <1>2 DEF Operations
<1>5. /\ o.kind = r.kind /\ o.path = r.path /\ o.dest = r.dest /\ o.create = r.create
      /\ o.stage = "replace" /\ o.mode = "own" /\ o.seen = r.seen /\ o.quiet = r.quiet
      /\ o.expected = r.expected /\ o.touched = r.touched \ {r.path}
    BY <1>2, <1>3 DEF Operations
<1> HIDE DEF r, o
<1>6. CourseOf(o)
    BY <1>1, <1>2, <1>3, <1>5 DEF CourseOf, Early, Busy
<1>7. Same(o)
    BY <1>1, <1>5 DEF Same, Writes
<1>8. o.quiet => KnowsItsFiles(o)
    BY <1>2, <1>5, <1>7 DEF KnowsItsFiles, Busy
<1>9. WasCompared(o) /\ ~Creates(o)
    BY <1>1, <1>2, <1>5, <1>6, <1>7 DEF WasCompared, Creates, CourseOf
<1> QED BY <1>1, <1>2, <1>3, <1>4, <1>5, <1>6, <1>8, <1>9, GoesOn DEF r

LEMMA EvaluateKeeps ==
    ASSUME DocumentsInv, NEW P \in Procs, Evaluate(P)
    PROVE  DocumentsInv'
<1> DEFINE r == ops[P]
           o == [r EXCEPT !.contract = disk[Template],
                          !.stage = IF r.mode = "batch" THEN "verify" ELSE "reconcile"]
<1>1. /\ r.stage = "evaluate" /\ UNCHANGED <<disk, findings, started, outside, stale>>
      /\ Goes(P, o) /\ ~At(P, "idle")
    BY DEF Evaluate, At
<1>2. /\ r \in Operations /\ CourseOf(r) /\ (P = Cli => r.kind # "create")
      /\ (r.quiet => KnowsItsFiles(r)) /\ disk \in [Paths -> Texts \cup {Absent}]
      /\ started \in 0..MaxOps
    BY OperationOf
<1>3. disk[Template] \in Texts \cup {Absent}
    BY <1>2, FoldersAreNamed
<1>4. o \in Operations
    BY <1>2, <1>3 DEF Operations
<1>5. /\ o.kind = r.kind /\ o.path = r.path /\ o.dest = r.dest /\ o.create = r.create
      /\ o.stage = (IF r.mode = "batch" THEN "verify" ELSE "reconcile") /\ o.mode = r.mode
      /\ o.at = r.at /\ o.content = r.content /\ o.contract = disk[Template] /\ o.todo = r.todo
      /\ o.seen = r.seen /\ o.failed = r.failed /\ o.quiet = r.quiet
    BY <1>2 DEF Operations
<1> HIDE DEF r, o
<1>6. Bears(o) = Bears(r) /\ AtHand(o) = AtHand(r)
    BY <1>1, <1>5 DEF Bears, AtHand, Busy
<1>7. CourseOf(o)
    BY <1>1, <1>2, <1>3, <1>5, <1>6, FoldersAreNamed DEF CourseOf, Early, Busy
<1>8. o.quiet => KnowsItsFiles(o)
    BY <1>1, <1>2, <1>5, <1>6 DEF KnowsItsFiles, Busy
<1>9. WasCompared(o) /\ OwesOf(r) \subseteq OwesOf(o)
    BY <1>1, <1>5, <1>6 DEF WasCompared, OwesOf, Pending, Early
<1>10. Creates(o) => Creates(r) /\ o.path = r.path /\ (CreatedIsInLine(r) => CreatedIsInLine(o))
    BY <1>1, <1>5 DEF Creates, CreatedIsInLine
<1> QED BY <1>1, <1>2, <1>4, <1>5, <1>7, <1>8, <1>9, <1>10, GoesOn DEF r

(* A quiet batch finds the text that it has read.                          *)
LEMMA VerifyKeeps ==
    ASSUME DocumentsInv, NEW P \in Procs, Verify(P)
    PROVE  DocumentsInv'
<1> DEFINE r == ops[P]
           now == disk[r.at]
           same == [r EXCEPT !.stage = "reconcile"]
           again == [r EXCEPT !.stage = "evaluate", !.content = now, !.again = TRUE]
           next == [r EXCEPT !.stage = "next"]
<1>1. /\ r.stage = "verify" /\ UNCHANGED <<disk, findings, started, outside, stale>>
      /\ ~At(P, "idle")
      /\ \/ now = r.content /\ Goes(P, same)
         \/ now \notin {r.content, Absent} /\ Goes(P, again)
         \/ now # r.content /\ Goes(P, next)
    BY DEF Verify, At
<1>2. /\ r \in Operations /\ CourseOf(r) /\ (P = Cli => r.kind # "create")
      /\ (r.quiet => KnowsItsFiles(r)) /\ disk \in [Paths -> Texts \cup {Absent}]
      /\ started \in 0..MaxOps
    BY OperationOf
<1>3. r.at \in Paths /\ r.mode = "batch" /\ r.kind # "audit" /\ now \in Texts \cup {Absent}
    BY <1>1, <1>2 DEF CourseOf, Busy
<1>4. now # r.content => ~r.quiet
    BY <1>1, <1>2 DEF KnowsItsFiles, Busy
<1>5. CASE now = r.content /\ Goes(P, same)
  <2>1. same \in Operations
    BY <1>2 DEF Operations
  <2>2. /\ same.kind = r.kind /\ same.path = r.path /\ same.dest = r.dest /\ same.create = r.create
        /\ same.stage = "reconcile" /\ same.mode = r.mode /\ same.at = r.at
        /\ same.content = r.content /\ same.contract = r.contract /\ same.todo = r.todo
        /\ same.seen = r.seen /\ same.failed = r.failed /\ same.quiet = r.quiet
    BY <1>2 DEF Operations
  <2> HIDE DEF r, same, now
  <2>3. Bears(same) = Bears(r) /\ AtHand(same) = AtHand(r)
    BY <1>1, <2>2 DEF Bears, AtHand, Busy
  <2>4. CourseOf(same)
    BY <1>1, <1>2, <1>3, <2>2, <2>3 DEF CourseOf, Early, Busy
  <2>5. same.quiet => KnowsItsFiles(same)
    BY <1>1, <1>2, <1>3, <2>2, <2>3 DEF KnowsItsFiles, Busy
  <2>6. WasCompared(same) /\ OwesOf(r) \subseteq OwesOf(same)
    BY <1>1, <2>2, <2>3 DEF WasCompared, OwesOf, Pending, Early
  <2>7. ~Creates(same)
    BY <1>3, <2>2, <2>4 DEF Creates, CourseOf, Busy
  <2> QED BY <1>1, <1>2, <1>5, <2>1, <2>2, <2>4, <2>5, <2>6, <2>7, GoesOn DEF r
<1>6. CASE now \notin {r.content, Absent} /\ Goes(P, again)
  <2>1. again \in Operations
    BY <1>2, <1>3, <1>6 DEF Operations
  <2>2. /\ again.kind = r.kind /\ again.path = r.path /\ again.dest = r.dest
        /\ again.create = r.create /\ again.stage = "evaluate" /\ again.mode = r.mode
        /\ again.at = r.at /\ again.todo = r.todo /\ again.seen = r.seen /\ again.quiet = r.quiet
    BY <1>2 DEF Operations
  <2> HIDE DEF r, again, now
  <2>3. Bears(again) = Bears(r) /\ AtHand(again) = AtHand(r)
    BY <1>1, <2>2 DEF Bears, AtHand, Busy
  <2>4. CourseOf(again)
    BY <1>1, <1>2, <1>3, <2>2, <2>3 DEF CourseOf, Early, Busy
  <2>5. ~again.quiet
    BY <1>4, <1>6, <2>2
  <2>6. WasCompared(again) /\ OwesOf(r) \subseteq OwesOf(again)
    BY <1>1, <2>2, <2>3 DEF WasCompared, OwesOf, Pending, Early
  <2>7. ~Creates(again)
    BY <1>3, <2>2, <2>4 DEF Creates, CourseOf, Busy
  <2> QED BY <1>1, <1>2, <1>6, <2>1, <2>2, <2>4, <2>5, <2>6, <2>7, GoesOn DEF r
<1>7. CASE now # r.content /\ Goes(P, next)
  <2>1. next \in Operations
    BY <1>2 DEF Operations
  <2>2. /\ next.kind = r.kind /\ next.path = r.path /\ next.dest = r.dest
        /\ next.create = r.create /\ next.stage = "next" /\ next.mode = r.mode
        /\ next.todo = r.todo /\ next.seen = r.seen /\ next.quiet = r.quiet
    BY <1>2 DEF Operations
  <2> HIDE DEF r, next, now
  <2>3. Bears(next) = Bears(r) /\ AtHand(next) = {}
    BY <1>1, <2>2 DEF Bears, AtHand, Busy
  <2>4. CourseOf(next)
    BY <1>1, <1>2, <1>3, <2>2, <2>3 DEF CourseOf, Early, Busy
  <2>5. ~next.quiet /\ ~r.quiet
    BY <1>4, <1>7, <2>2
  <2>6. WasCompared(next) /\ OwesOf(r) \subseteq OwesOf(next) /\ ~Creates(next)
    BY <1>1, <2>2, <2>3, <2>5 DEF WasCompared, OwesOf, Early, Creates
  <2> QED BY <1>1, <1>2, <1>7, <2>1, <2>2, <2>4, <2>5, <2>6, GoesOn DEF r
<1> QED BY <1>1, <1>5, <1>6, <1>7

LEMMA ExpandKeeps ==
    ASSUME DocumentsInv, NEW P \in Procs, Expand(P)
    PROVE  DocumentsInv'
<1> DEFINE r == ops[P]
           todo == {r.path} \cup (IF r.path = Template THEN Present ELSE {})
           o == [r EXCEPT !.stage = "next", !.mode = "batch", !.todo = todo]
<1>1. /\ r.stage = "expand" /\ UNCHANGED <<disk, findings, started, outside, stale>>
      /\ Goes(P, o) /\ ~At(P, "idle")
    BY DEF Expand, At
<1>2. /\ r \in Operations /\ CourseOf(r) /\ (P = Cli => r.kind # "create")
      /\ (r.quiet => KnowsItsFiles(r)) /\ started \in 0..MaxOps
    BY OperationOf
<1>3. r.path \in Paths /\ r.dest = Nothing /\ r.kind \in {"write", "fix", "validate"} /\ r.mode = "own"
    BY <1>1, <1>2 DEF CourseOf
<1>4. /\ todo \subseteq Bears(r) /\ Bears(r) \cap Present \subseteq todo /\ Bears(r) \subseteq Paths
    BY <1>2, <1>3, BearingIsOfPaths DEF Present, Paths
<1> HIDE DEF todo
<1>5. o \in Operations
    BY <1>2, <1>4 DEF Operations
<1>6. /\ o.kind = r.kind /\ o.path = r.path /\ o.dest = r.dest /\ o.create = r.create
      /\ o.stage = "next" /\ o.mode = "batch" /\ o.todo = todo
      /\ o.seen = r.seen /\ o.quiet = r.quiet
    BY <1>2 DEF Operations
<1> HIDE DEF r, o
<1>7. Bears(o) = Bears(r) /\ AtHand(o) = {}
    BY <1>1, <1>6 DEF Bears, AtHand, Busy
<1>8. CourseOf(o)
    BY <1>1, <1>2, <1>3, <1>4, <1>6, <1>7 DEF CourseOf, Early, Busy
<1>9. o.quiet => KnowsItsFiles(o)
    BY <1>2, <1>6 DEF KnowsItsFiles, Busy
<1>10. WasCompared(o) /\ ~Creates(o)
    BY <1>6 DEF WasCompared, Creates
<1>11. OwesOf(r) \subseteq OwesOf(o)
    BY <1>1, <1>3, <1>4, <1>6, <1>7 DEF OwesOf, Pending, Early
<1> QED BY <1>1, <1>2, <1>5, <1>6, <1>8, <1>9, <1>10, <1>11, GoesOn DEF r

LEMMA FailuresKeep ==
    ASSUME DocumentsInv, NEW P \in Procs, CheckFails(P) \/ RecheckFails(P) \/ ReplaceFails(P)
    PROVE  DocumentsInv'
BY RefuseKeeps DEF CheckFails, RecheckFails, ReplaceFails, At, Early

(* An operation ends: what is not in line is stale, or another's.          *)
LEMMA EndsKeep ==
    ASSUME DocumentsInv, NEW P \in Procs,
           \/ Goes(P, NoOp) /\ UNCHANGED findings
           \/ Changes(P, {}, NoOp),
           UNCHANGED <<disk, started>>, outside' \in 0..MaxOutside, stale' \in SUBSET Paths,
           findings' \in [Paths -> {Nothing} \cup (Texts \X (Texts \cup {Absent}))],
           \A p \in Paths \ stale' : Agrees(p)' \/ OthersOwe(P, p),
           \/ ops[P].quiet /\ ~At(P, "idle")
           \/ stale \subseteq stale' /\ OwesOf(ops[P]) \subseteq stale'
    PROVE  DocumentsInv'
<1>1. /\ disk' \in [Paths -> Texts \cup {Absent}] /\ started' \in 0..MaxOps
    BY OperationOf
<1>2. CourseOf(NoOp) /\ ~Creates(NoOp) /\ KnowsItsFiles(NoOp)' /\ WasCompared(NoOp)'
    BY NoOpIsNothing DEF CourseOf, Creates, KnowsItsFiles, WasCompared, Busy, Early
<1>3. {} \in SUBSET Paths /\ \A p \in Paths \ {} : disk'[p] = disk[p]
    OBVIOUS
<1> QED BY <1>1, <1>2, <1>3, NoOpIsNothing, StepOf

LEMMA CrashKeeps ==
    ASSUME DocumentsInv, NEW P \in Procs, Crash(P)
    PROVE  DocumentsInv'
<1> DEFINE r == ops[P]
<1>1. /\ outside < MaxOutside /\ outside' = outside + 1 /\ Goes(P, NoOp)
      /\ stale' = stale \cup Bears(r) \cup (IF r.quiet THEN {} ELSE r.seen)
      /\ UNCHANGED <<disk, findings, started>>
    BY DEF Crash
<1>2. /\ r \in Operations /\ CourseOf(r) /\ stale \in SUBSET Paths
      /\ \A p \in Paths \ stale : Agrees(p) \/ p \in OwesOf(r) \/ OthersOwe(P, p)
      /\ findings \in [Paths -> {Nothing} \cup (Texts \X (Texts \cup {Absent}))]
    BY OperationOf
<1>3. outside' \in 0..MaxOutside
    BY <1>1, OperationOf, FoldersAssumption
<1>4. Pending(r) \subseteq Bears(r) /\ Bears(r) \subseteq Paths /\ r.seen \subseteq Paths
    BY <1>2, PendingBears, BearingIsOfPaths, Fields
<1>5. stale' \in SUBSET Paths /\ stale \subseteq stale'
    BY <1>1, <1>2, <1>4
<1>6. OwesOf(r) \subseteq stale'
    BY <1>1, <1>4 DEF OwesOf
<1>7. \A p \in Paths \ stale' : Agrees(p)' \/ OthersOwe(P, p)
    BY <1>1, <1>2, <1>5, <1>6 DEF Agrees
<1> HIDE DEF r
<1> QED BY <1>1, <1>2, <1>3, <1>5, <1>6, <1>7, EndsKeep DEF r

(* What was brought in line is, unless somebody interfered.                *)
LEMMA SettlesKeep ==
    ASSUME DocumentsInv, NEW P \in Procs, ops[P].stage \notin Early,
           NEW o \in Operations, o.quiet = ops[P].quiet, o.kind = ops[P].kind,
           Bears(o) = Bears(ops[P]), ops[P].seen \subseteq o.seen,
           \/ Goes(P, NoOp) /\ UNCHANGED findings
           \/ Changes(P, {}, NoOp),
           UNCHANGED <<disk, started, outside>>, stale' = Settled(o),
           findings' \in [Paths -> {Nothing} \cup (Texts \X (Texts \cup {Absent}))],
           \A p \in Paths \ o.seen : findings'[p] = findings[p],
           o.quiet => /\ \A p \in o.seen : Agrees(p)'
                      /\ \A p \in Pending(ops[P]) : Agrees(p)'
                      /\ o.kind = "audit" => \A p \in Paths : Agrees(p)'
    PROVE  DocumentsInv'
<1>1. /\ ops[P] \in Operations /\ stale \in SUBSET Paths
      /\ \A p \in Paths \ stale : Agrees(p) \/ p \in OwesOf(ops[P]) \/ OthersOwe(P, p)
      /\ outside \in 0..MaxOutside
    BY OperationOf
<1>2. o.seen \subseteq Paths /\ Bears(o) \subseteq Paths
    BY Fields, BearingIsOfPaths
<1>3. stale' \in SUBSET Paths /\ outside' \in 0..MaxOutside
    BY <1>1, <1>2 DEF Settled
<1>4. ~At(P, "idle")
    BY DEF At, Early
<1>5. \A p \in Paths : findings'[p] = findings[p] /\ Agrees(p) => Agrees(p)'
    BY DEF Agrees
<1>6. ASSUME o.quiet, NEW p \in Paths \ stale'
      PROVE  Agrees(p)' \/ OthersOwe(P, p)
  <2>1. CASE p \in o.seen \/ o.kind = "audit"
    BY <1>6, <2>1
  <2>2. CASE p \notin o.seen /\ o.kind # "audit"
    <3>1. p \notin stale
      BY <1>6, <2>2 DEF Settled
    <3>2. OwesOf(ops[P]) = Pending(ops[P])
      BY <1>6 DEF OwesOf
    <3> QED BY <1>1, <1>5, <1>6, <2>2, <3>1, <3>2
  <2> QED BY <2>1, <2>2
<1>7. ASSUME ~o.quiet
      PROVE  /\ stale \subseteq stale' /\ OwesOf(ops[P]) \subseteq stale'
             /\ \A p \in Paths \ stale' : Agrees(p)' \/ OthersOwe(P, p)
  <2>1. stale' = stale \cup o.seen \cup Bears(o)
    BY <1>7 DEF Settled
  <2>2. OwesOf(ops[P]) \subseteq stale'
    BY <1>7, <2>1 DEF OwesOf
  <2> QED BY <1>1, <1>5, <2>1, <2>2
<1> QED BY <1>3, <1>4, <1>6, <1>7, EndsKeep

(* A step that brings findings in line, and goes on with the rest.         *)
LEMMA WorksOn ==
    ASSUME DocumentsInv, NEW P \in Procs, ~At(P, "idle"), NEW o \in Operations,
           Changes(P, {}, o), UNCHANGED <<disk, started, outside, stale>>,
           findings' \in [Paths -> {Nothing} \cup (Texts \X (Texts \cup {Absent}))],
           CourseOf(o), P = Cli => o.kind # "create", o.quiet = ops[P].quiet,
           o.quiet => KnowsItsFiles(o)', o.stage \notin {"recheck", "replace"}, ~Creates(o),
           \A p \in Paths : findings'[p] = findings[p] \/ Agrees(p)' \/ p \in OwesOf(o)',
           \A p \in OwesOf(ops[P]) : p \in OwesOf(o)' \/ (o.quiet /\ Agrees(p)')
    PROVE  DocumentsInv'
<1>1. /\ disk' \in [Paths -> Texts \cup {Absent}] /\ stale' \in SUBSET Paths
      /\ started' \in 0..MaxOps /\ outside' \in 0..MaxOutside
    BY OperationOf
<1>2. {} \in SUBSET Paths /\ \A p \in Paths \ {} : disk'[p] = disk[p]
    OBVIOUS
<1>3. WasCompared(o)'
    BY DEF WasCompared
<1>4. \A p \in Paths : findings'[p] = findings[p] /\ Agrees(p) => Agrees(p)'
    BY DEF Agrees
<1>5. \A p \in Paths \ stale' : Agrees(p)' \/ p \in OwesOf(o)' \/ OthersOwe(P, p)
    BY <1>4, OperationOf
<1>6. \/ ops[P].quiet /\ ~At(P, "idle")
      \/ stale \subseteq stale' /\ OwesOf(ops[P]) \subseteq OwesOf(o)' \cup stale'
    OBVIOUS
<1> QED BY <1>1, <1>2, <1>3, <1>5, <1>6, StepOf

LEMMA TakeKeeps ==
    ASSUME DocumentsInv, NEW P \in Procs, NEW p \in Paths, Take(P, p)
    PROVE  DocumentsInv'
<1> DEFINE r == ops[P]
           todo == r.todo \ {p}
           taken == [r EXCEPT !.todo = todo, !.stage = "evaluate", !.at = p, !.content = disk[p],
                              !.again = FALSE]
           gone == [r EXCEPT !.todo = todo, !.seen = r.seen \cup {p}]
           failed == [r EXCEPT !.todo = todo, !.failed = TRUE]
<1>1. /\ r \in Operations /\ CourseOf(r) /\ (P = Cli => r.kind # "create")
      /\ (r.quiet => KnowsItsFiles(r)) /\ disk \in [Paths -> Texts \cup {Absent}]
      /\ findings \in [Paths -> {Nothing} \cup (Texts \X (Texts \cup {Absent}))]
      /\ started \in 0..MaxOps
    BY OperationOf
<1>2. /\ r.stage = "next" /\ p \in r.todo /\ UNCHANGED <<disk, started, outside, stale>>
      /\ ~At(P, "idle")
      /\ \/ disk[p] # Absent /\ Goes(P, taken) /\ findings' = findings
         \/ /\ disk[p] = Absent /\ r.mode = "batch"
            /\ findings' = [findings EXCEPT ![p] = Nothing]
            /\ Changes(P, {}, gone)
         \/ disk[p] = Absent /\ r.mode = "audit" /\ Goes(P, failed) /\ findings' = findings
  <2> DEFINE t == [r EXCEPT !.todo = todo]
  <2>1. t.mode = r.mode /\ t.seen = r.seen
    BY <1>1 DEF Operations
  <2>2. /\ [t EXCEPT !.stage = "evaluate", !.at = p, !.content = disk[p], !.again = FALSE] = taken
        /\ [t EXCEPT !.seen = r.seen \cup {p}] = gone
        /\ [t EXCEPT !.failed = TRUE] = failed
    BY <1>1 DEF Operations
  <2> HIDE DEF taken, gone, failed
  <2> QED BY <2>1, <2>2 DEF Take, At
<1>3. /\ r.mode \in {"batch", "audit"} /\ (r.kind = "audit" <=> r.mode = "audit")
      /\ todo \subseteq Paths
    BY <1>1, <1>2 DEF CourseOf, Operations
<1>4. CASE disk[p] # Absent /\ Goes(P, taken) /\ findings' = findings
  <2>1. disk[p] \in Texts
    BY <1>1, <1>4
  <2>2. taken \in Operations
    BY <1>1, <1>3, <2>1 DEF Operations
  <2>3. /\ taken.kind = r.kind /\ taken.path = r.path /\ taken.dest = r.dest
        /\ taken.create = r.create /\ taken.stage = "evaluate" /\ taken.mode = r.mode
        /\ taken.at = p /\ taken.content = disk[p] /\ taken.todo = todo
        /\ taken.seen = r.seen /\ taken.failed = r.failed /\ taken.quiet = r.quiet
    BY <1>1, <1>3 DEF Operations
  <2> HIDE DEF r, taken
  <2>4. Bears(taken) = Bears(r) /\ AtHand(taken) = {p} /\ AtHand(r) = {}
    BY <1>2, <2>3 DEF Bears, AtHand, Busy
  <2>5. CourseOf(taken)
    BY <1>1, <1>2, <1>3, <2>3, <2>4 DEF CourseOf, Early, Busy
  <2>6. taken.quiet => KnowsItsFiles(taken)
    BY <1>1, <1>2, <1>3, <2>3, <2>4 DEF KnowsItsFiles, Busy
  <2>7. WasCompared(taken) /\ ~Creates(taken)
    BY <1>1, <1>3, <2>3, <2>5 DEF WasCompared, Creates, CourseOf
  <2>8. OwesOf(r) \subseteq OwesOf(taken)
    BY <1>2, <1>3, <2>3, <2>4 DEF OwesOf, Pending, Early
  <2> QED BY <1>1, <1>2, <1>4, <2>2, <2>3, <2>5, <2>6, <2>7, <2>8, GoesOn DEF r
<1>5. CASE /\ disk[p] = Absent /\ r.mode = "batch"
           /\ findings' = [findings EXCEPT ![p] = Nothing]
           /\ Changes(P, {}, gone)
  <2>1. gone \in Operations
    BY <1>1, <1>3 DEF Operations
  <2>0. PICK g \in Operations : g = gone
    BY <2>1
  <2>2. /\ g.kind = r.kind /\ g.path = r.path /\ g.dest = r.dest
        /\ g.create = r.create /\ g.stage = "next" /\ g.mode = "batch"
        /\ g.todo = todo /\ g.seen = r.seen \cup {p} /\ g.quiet = r.quiet
    BY <1>1, <1>2, <1>3, <1>5, <2>0 DEF Operations
  <2>10. Changes(P, {}, g)
    BY <1>5, <2>0
  <2> HIDE DEF r
  <2>3. /\ Bears(g) = Bears(r) /\ Bears(g)' = Bears(r)
        /\ AtHand(g) = {} /\ AtHand(g)' = {} /\ AtHand(r) = {}
    BY <1>2, <2>2 DEF Bears, AtHand, Busy
  <2>4. CourseOf(g)
    BY <1>1, <1>2, <1>3, <1>5, <2>2, <2>3 DEF CourseOf, Early, Busy
  <2>5. /\ findings' \in [Paths -> {Nothing} \cup (Texts \X (Texts \cup {Absent}))]
        /\ Agrees(p)' /\ \A q \in Paths \ {p} : findings'[q] = findings[q]
    BY <1>1, <1>2, <1>5 DEF Agrees
  <2>6. \A q \in Paths \ {p} : Agrees(q) => Agrees(q)'
    BY <1>2, <2>5 DEF Agrees
  <2>7. g.quiet => KnowsItsFiles(g)'
    <3>1. g.quiet => \A q \in g.seen : Agrees(q)'
      BY <1>1, <2>2, <2>5, <2>6, Fields DEF KnowsItsFiles
    <3> QED BY <2>2, <3>1 DEF KnowsItsFiles, Busy
  <2>8. ~Creates(g)
    BY <2>2 DEF Creates
  <2>9. \A q \in OwesOf(r) : q \in OwesOf(g)' \/ (g.quiet /\ Agrees(q)')
    BY <1>2, <1>5, <2>2, <2>3, <2>5 DEF OwesOf, Pending, Early
  <2> QED BY <1>1, <1>2, <2>2, <2>4, <2>5, <2>7, <2>8, <2>9, <2>10, WorksOn DEF r
<1>6. CASE disk[p] = Absent /\ r.mode = "audit" /\ Goes(P, failed) /\ findings' = findings
  <2>1. failed \in Operations
    BY <1>1, <1>3 DEF Operations
  <2>2. /\ failed.kind = r.kind /\ failed.path = r.path /\ failed.dest = r.dest
        /\ failed.create = r.create /\ failed.stage = "next" /\ failed.mode = "audit"
        /\ failed.seen = r.seen /\ failed.quiet = r.quiet
    BY <1>1, <1>2, <1>3, <1>6 DEF Operations
  <2> HIDE DEF r, failed
  <2>3. Bears(failed) = Bears(r)
    BY <2>2 DEF Bears
  <2>4. CourseOf(failed)
    BY <1>1, <1>2, <1>3, <1>6, <2>2, <2>3 DEF CourseOf, Early, Busy
  <2>5. ~failed.quiet
    BY <1>1, <1>2, <1>6, <2>2 DEF KnowsItsFiles, Present
  <2>6. WasCompared(failed) /\ ~Creates(failed)
    BY <2>2 DEF WasCompared, Creates
  <2>7. OwesOf(r) \subseteq OwesOf(failed)
    BY <1>2, <2>2, <2>3, <2>5 DEF OwesOf, Early
  <2> QED BY <1>1, <1>2, <1>6, <2>1, <2>2, <2>4, <2>5, <2>6, <2>7, GoesOn DEF r
<1> QED BY <1>2, <1>4, <1>5, <1>6

LEMMA ThroughKeeps ==
    ASSUME DocumentsInv, NEW P \in Procs, Through(P)
    PROVE  DocumentsInv'
<1> DEFINE r == ops[P]
           todo == {p \in Paths \ r.seen : findings[p] # Nothing}
           o == [r EXCEPT !.stage = "sweep", !.todo = todo]
<1>1. /\ r \in Operations /\ CourseOf(r) /\ (P = Cli => r.kind # "create")
      /\ (r.quiet => KnowsItsFiles(r)) /\ disk \in [Paths -> Texts \cup {Absent}]
      /\ findings \in [Paths -> {Nothing} \cup (Texts \X (Texts \cup {Absent}))]
      /\ started \in 0..MaxOps
    BY OperationOf
<1>2. /\ r.stage = "next" /\ r.todo = {} /\ UNCHANGED <<disk, findings, started, outside>>
      /\ ~At(P, "idle")
      /\ \/ r.mode = "audit" /\ ~r.failed /\ Goes(P, o) /\ stale' = stale
         \/ ~(r.mode = "audit" /\ ~r.failed) /\ Goes(P, NoOp) /\ stale' = Settled(r)
    BY DEF Through, At
<1>3. r.mode # "own" /\ (r.kind = "audit" <=> r.mode = "audit") /\ AtHand(r) = {}
    BY <1>1, <1>2 DEF CourseOf, Operations, AtHand, Busy
<1>4. CASE r.mode = "audit" /\ ~r.failed /\ Goes(P, o) /\ stale' = stale
  <2>1. o \in Operations
    BY <1>1 DEF Operations
  <2>2. /\ o.kind = r.kind /\ o.path = r.path /\ o.dest = r.dest
        /\ o.create = r.create /\ o.stage = "sweep" /\ o.mode = r.mode
        /\ o.seen = r.seen /\ o.todo = todo /\ o.quiet = r.quiet
    BY <1>1 DEF Operations
  <2>3. todo \subseteq Paths \ r.seen /\ \A p \in Paths \ todo : p \in r.seen \/ findings[p] = Nothing
    OBVIOUS
  <2> HIDE DEF r, o, todo
  <2>4. Bears(o) = Bears(r)
    BY <2>2 DEF Bears
  <2>5. CourseOf(o)
    BY <1>1, <1>2, <1>3, <1>4, <2>2, <2>4 DEF CourseOf, Early, Busy
  <2>6. o.quiet => KnowsItsFiles(o)
    <3>1. r.quiet => Present \subseteq r.seen /\ \A p \in r.seen : Agrees(p)
      BY <1>1, <1>2, <1>3, <1>4 DEF KnowsItsFiles
    <3>2. r.quiet => todo \cap Present = {} /\ \A p \in Paths \ todo : Agrees(p)
      BY <2>3, <3>1 DEF Agrees, Present
    <3> QED BY <2>2, <3>1, <3>2 DEF KnowsItsFiles, Busy
  <2>7. WasCompared(o) /\ ~Creates(o) /\ OwesOf(r) \subseteq OwesOf(o)
    BY <1>2, <1>4, <2>2, <2>4 DEF WasCompared, Creates, OwesOf, Pending, Early
  <2> QED BY <1>1, <1>2, <1>4, <2>1, <2>2, <2>5, <2>6, <2>7, GoesOn DEF r
<1>5. CASE ~(r.mode = "audit" /\ ~r.failed) /\ Goes(P, NoOp) /\ stale' = Settled(r)
  <2> HIDE DEF r
  <2>1. r.quiet => /\ r.mode = "batch" /\ Pending(r) = {}
                   /\ \A p \in r.seen : Agrees(p)'
    BY <1>1, <1>2, <1>3, <1>5 DEF KnowsItsFiles, Pending, Agrees, Operations
  <2>2. r.stage \notin Early
    BY <1>2 DEF Early
  <2> QED BY <1>1, <1>2, <1>3, <1>5, <2>1, <2>2, SettlesKeep DEF r
<1> QED BY <1>2, <1>4, <1>5

LEMMA SweepKeeps ==
    ASSUME DocumentsInv, NEW P \in Procs, Sweep(P)
    PROVE  DocumentsInv'
<1> DEFINE r == ops[P]
<1>1. /\ r \in Operations /\ CourseOf(r) /\ (P = Cli => r.kind # "create")
      /\ (r.quiet => KnowsItsFiles(r)) /\ disk \in [Paths -> Texts \cup {Absent}]
      /\ findings \in [Paths -> {Nothing} \cup (Texts \X (Texts \cup {Absent}))]
    BY OperationOf
<1>2. /\ r.stage = "sweep" /\ UNCHANGED <<disk, started, outside>> /\ ~At(P, "idle")
      /\ \/ \E p \in r.todo :
                /\ findings' = IF disk[p] = Absent THEN [findings EXCEPT ![p] = Nothing]
                               ELSE findings
                /\ Changes(P, {}, [r EXCEPT !.todo = r.todo \ {p}])
                /\ stale' = stale
         \/ r.todo = {} /\ Goes(P, NoOp) /\ findings' = findings /\ stale' = Settled(r)
    BY DEF Sweep, At
<1>3. r.mode = "audit" /\ r.kind = "audit" /\ Pending(r) = {}
    BY <1>1, <1>2 DEF CourseOf, Pending
<1>4. ASSUME NEW p \in r.todo,
             findings' = IF disk[p] = Absent THEN [findings EXCEPT ![p] = Nothing] ELSE findings,
             Changes(P, {}, [r EXCEPT !.todo = r.todo \ {p}]),
             stale' = stale
      PROVE  DocumentsInv'
  <2>1. p \in Paths /\ [r EXCEPT !.todo = r.todo \ {p}] \in Operations
    BY <1>1 DEF Operations
  <2>0. PICK o \in Operations : o = [r EXCEPT !.todo = r.todo \ {p}]
    BY <2>1
  <2>2. /\ o.kind = r.kind /\ o.path = r.path /\ o.dest = r.dest
        /\ o.create = r.create /\ o.stage = "sweep" /\ o.mode = r.mode
        /\ o.seen = r.seen /\ o.todo = r.todo \ {p} /\ o.quiet = r.quiet
    BY <1>1, <1>2, <2>0 DEF Operations
  <2>3. Changes(P, {}, o)
    BY <1>4, <2>0
  <2> HIDE DEF r
  <2>4. Bears(o) = Bears(r) /\ Bears(o)' = Bears(r)
    BY <2>2 DEF Bears
  <2>5. CourseOf(o)
    BY <1>1, <1>2, <1>3, <2>2, <2>4 DEF CourseOf, Early, Busy
  <2>6. /\ findings' \in [Paths -> {Nothing} \cup (Texts \X (Texts \cup {Absent}))]
        /\ \A q \in Paths : findings'[q] = findings[q] \/ Agrees(q)'
    BY <1>1, <1>2, <1>4, <2>1 DEF Agrees
  <2>7. r.quiet => Agrees(p)'
    BY <1>1, <1>2, <1>4, <2>1 DEF Agrees, KnowsItsFiles, Present
  <2>8. \A q \in Paths : Agrees(q) => Agrees(q)'
    BY <1>1, <1>2, <1>4, <2>1, <2>6 DEF Agrees
  <2>9. o.quiet => KnowsItsFiles(o)'
    <3>1. Present' = Present
      BY <1>2 DEF Present
    <3>2. r.quiet => /\ \A q \in r.seen : Agrees(q)'
                     /\ r.todo \cap Present = {} /\ \A q \in Paths \ r.todo : Agrees(q)'
      BY <1>1, <1>2, <2>8, Fields DEF KnowsItsFiles
    <3> QED BY <1>2, <2>2, <2>7, <3>1, <3>2 DEF KnowsItsFiles, Busy
  <2>10. ~Creates(o)
    BY <2>2 DEF Creates
  <2>11. \A q \in OwesOf(r) : q \in OwesOf(o)'
    BY <1>2, <1>3, <2>2, <2>4 DEF OwesOf, Early
  <2> QED BY <1>1, <1>2, <1>4, <2>2, <2>3, <2>5, <2>6, <2>9, <2>10, <2>11, WorksOn DEF r
<1>5. CASE r.todo = {} /\ Goes(P, NoOp) /\ findings' = findings /\ stale' = Settled(r)
  <2> HIDE DEF r
  <2>1. r.quiet => \A p \in Paths : Agrees(p)'
    BY <1>1, <1>2, <1>5 DEF KnowsItsFiles, Agrees
  <2>2. r.stage \notin Early /\ r.seen \subseteq Paths
    BY <1>1, <1>2, Fields DEF Early
  <2> QED BY <1>1, <1>2, <1>3, <1>5, <2>1, <2>2, SettlesKeep DEF r
<1> QED BY <1>2, <1>4, <1>5

(* A change of the files C, which P goes on to bring in line.              *)
LEMMA ReplacesKeep ==
    ASSUME DocumentsInv, NEW P \in Procs, At(P, "replace"), NEW o \in Operations,
           NEW C \in SUBSET Paths, Changes(P, C, o),
           UNCHANGED <<findings, started, outside, stale>>,
           disk' \in [Paths -> Texts \cup {Absent}], \A p \in Paths \ C : disk'[p] = disk[p],
           CourseOf(o), P = Cli => o.kind # "create", o.quiet = ops[P].quiet,
           o.quiet => KnowsItsFiles(o)', o.stage \notin {"recheck", "replace"},
           Creates(o) => CreatedIsInLine(o)',
           C \subseteq Bears(o), Template \in C => Bears(o) = Paths,
           \A p \in Bears(o) : p \in OwesOf(o)' \/ (o.quiet /\ p \notin C /\ disk[p] = Absent)
    PROVE  DocumentsInv'
<1>1. /\ findings' \in [Paths -> {Nothing} \cup (Texts \X (Texts \cup {Absent}))]
      /\ stale' \in SUBSET Paths /\ started' \in 0..MaxOps /\ outside' \in 0..MaxOutside
      /\ \A p \in Paths \ stale : Agrees(p) \/ p \in OwesOf(ops[P]) \/ OthersOwe(P, p)
    BY OperationOf
<1>2. OwesOf(ops[P]) = {} /\ ~At(P, "idle") /\ WasCompared(o)'
    BY DEF OwesOf, Early, At, WasCompared
<1>3. \A p \in Paths : Agrees(p) => Agrees(p)' \/ p \in OwesOf(o)'
  <2> SUFFICES ASSUME NEW p \in Paths, Agrees(p), p \notin OwesOf(o)'
               PROVE  Agrees(p)'
    OBVIOUS
  <2>1. CASE p \in Bears(o)
    BY <2>1 DEF Agrees
  <2>2. CASE p \notin Bears(o)
    BY <2>2, FoldersAreNamed DEF Agrees
  <2> QED BY <2>1, <2>2
<1>4. \A p \in Paths \ stale' : Agrees(p)' \/ p \in OwesOf(o)' \/ OthersOwe(P, p)
    BY <1>1, <1>2, <1>3
<1>5. \/ ops[P].quiet /\ ~At(P, "idle")
      \/ /\ stale \subseteq stale' /\ OwesOf(ops[P]) \subseteq OwesOf(o)' \cup stale'
         /\ \A p \in Paths : disk'[p] # disk[p] \/ disk'[Template] # disk[Template] =>
                   p \in OwesOf(o)' \cup stale'
    BY <1>2, FoldersAreNamed
<1> QED BY <1>1, <1>2, <1>4, <1>5, StepOf

LEMMA PutKeeps ==
    ASSUME DocumentsInv, NEW P \in Procs, Put(P)
    PROVE  DocumentsInv'
<1>1. PICK r \in Operations : r = ops[P]
    BY OperationOf
<1>2. /\ CourseOf(r) /\ (P = Cli => r.kind # "create") /\ (r.quiet => KnowsItsFiles(r))
      /\ disk \in [Paths -> Texts \cup {Absent}]
    BY <1>1, OperationOf
<1> DEFINE e == [r EXCEPT !.stage = "expand"]
           v == [r EXCEPT !.stage = "evaluate", !.at = r.path, !.content = r.text]
<1>3. /\ r.stage = "replace" /\ (Writes(r) \/ r.kind = "fix")
      /\ disk' = [disk EXCEPT ![r.path] = r.text]
      /\ Changes(P, {r.path}, IF r.kind = "fix" THEN e ELSE v)
      /\ UNCHANGED <<findings, started, outside, stale>>
    BY <1>1 DEF Put, At
<1>4. r.kind \in {"write", "create", "fix"}
    BY <1>3 DEF Writes
<1>5. /\ r.path \in Paths /\ r.dest = Nothing /\ r.mode = "own" /\ r.seen = {} /\ r.text \in Texts
    BY <1>2, <1>3, <1>4, Fields DEF CourseOf, Early
<1>6. PICK o \in Operations : o = IF r.kind = "fix" THEN e ELSE v
  <2>1. e \in Operations
    BY DEF Operations
  <2>2. v \in Operations
    BY <1>5 DEF Operations
  <2> QED BY <2>1, <2>2
<1>7. /\ o.kind = r.kind /\ o.path = r.path /\ o.dest = r.dest /\ o.create = r.create
      /\ o.mode = "own" /\ o.seen = {} /\ o.quiet = r.quiet
      /\ r.kind = "fix" => o.stage = "expand"
      /\ r.kind # "fix" => o.stage = "evaluate" /\ o.at = r.path /\ o.content = r.text
    BY <1>5, <1>6 DEF Operations
<1>8. Changes(P, {r.path}, o)
    BY <1>3, <1>6
<1> HIDE DEF e, v
<1>9. CourseOf(o)
    BY <1>2, <1>3, <1>4, <1>5, <1>7 DEF CourseOf, Early, Busy
<1>10. /\ disk' \in [Paths -> Texts \cup {Absent}] /\ disk'[r.path] = r.text
       /\ \A p \in Paths \ {r.path} : disk'[p] = disk[p]
    BY <1>2, <1>3, <1>5
<1>11. o.quiet => KnowsItsFiles(o)'
    BY <1>4, <1>7, <1>10 DEF KnowsItsFiles, Busy
<1>12. Creates(o) => CreatedIsInLine(o)'
    BY <1>4, <1>7, <1>10 DEF Creates, CreatedIsInLine
<1>13. {r.path} \subseteq Bears(o) /\ (Template \in {r.path} => Bears(o) = Paths)
       /\ Bears(o) \subseteq Paths
    BY <1>5, <1>7, BearingIsOfPaths
<1>14. Bears(o)' = Bears(o)
    BY DEF Bears
<1>15. \A p \in Bears(o) : p \in OwesOf(o)' \/ (o.quiet /\ p \notin {r.path} /\ disk[p] = Absent)
  <2> SUFFICES ASSUME NEW p \in Bears(o), p \notin OwesOf(o)'
               PROVE  o.quiet /\ p \notin {r.path} /\ disk[p] = Absent
    OBVIOUS
  <2>1. OwesOf(o)' = IF o.quiet THEN Bears(o) \cap Present' ELSE Bears(o) \cup o.seen
    BY <1>4, <1>7, <1>14 DEF OwesOf, Pending, Early
  <2> QED BY <1>5, <1>10, <1>13, <2>1, FoldersAreNamed DEF Present
<1>16. o.stage \notin {"recheck", "replace"} /\ {r.path} \in SUBSET Paths
    BY <1>5, <1>7
<1> QED BY <1>1, <1>2, <1>3, <1>7, <1>8, <1>9, <1>10, <1>11, <1>12, <1>13, <1>15, <1>16,
           ReplacesKeep DEF At

LEMMA RemoveKeeps ==
    ASSUME DocumentsInv, NEW P \in Procs, Remove(P) \/ Move(P)
    PROVE  DocumentsInv'
<1>1. PICK r \in Operations : r = ops[P]
    BY OperationOf
<1>2. /\ CourseOf(r) /\ (P = Cli => r.kind # "create") /\ (r.quiet => KnowsItsFiles(r))
      /\ disk \in [Paths -> Texts \cup {Absent}]
    BY <1>1, OperationOf
<1>3. PICK o \in Operations : o = [r EXCEPT !.stage = "mark"]
    BY AtStage
<1>4. /\ o.kind = r.kind /\ o.path = r.path /\ o.dest = r.dest /\ o.create = r.create
      /\ o.mode = r.mode /\ o.seen = r.seen /\ o.quiet = r.quiet /\ o.expected = r.expected
      /\ o.stage = "mark"
    BY <1>3 DEF Operations
<1> DEFINE C == IF r.kind = "move" THEN {r.path, r.dest} ELSE {r.path}
<1>5. /\ r.stage = "replace" /\ r.kind \in {"delete", "move"} /\ disk[r.path] # Absent
      /\ disk' = IF r.kind = "move" THEN [disk EXCEPT ![r.path] = Absent, ![r.dest] = disk[r.path]]
                 ELSE [disk EXCEPT ![r.path] = Absent]
      /\ Changes(P, C, o)
      /\ UNCHANGED <<findings, started, outside, stale>>
    BY <1>1, <1>3 DEF Remove, Move, At
<1>6. /\ r.path \in Records /\ r.path \in Paths /\ r.path # Template
      /\ r.mode = "own" /\ r.seen = {}
      /\ r.kind = "move" => /\ r.dest \in Records /\ r.dest \in Paths
                            /\ r.dest # r.path /\ r.dest # Template
      /\ r.kind # "move" => r.dest = Nothing
    BY <1>2, <1>5, FoldersAreNamed DEF CourseOf, Early
<1>7. /\ disk' \in [Paths -> Texts \cup {Absent}] /\ disk'[r.path] = Absent
      /\ r.kind = "move" => disk'[r.dest] = disk[r.path]
      /\ \A p \in Paths \ C : disk'[p] = disk[p]
  <2>1. CASE r.kind = "move"
    BY <1>2, <1>5, <1>6, <2>1
  <2>2. CASE r.kind # "move"
    BY <1>2, <1>5, <1>6, <2>2
  <2> QED BY <2>1, <2>2
<1>8. CourseOf(o)
    BY <1>2, <1>4, <1>5, <1>6 DEF CourseOf, Early, Busy
<1>9. o.quiet => KnowsItsFiles(o)'
  <2>1. r.quiet => disk[r.path] = r.expected
    BY <1>2, <1>5 DEF KnowsItsFiles, Same, Bytes
  <2> QED BY <1>4, <1>5, <1>6, <1>7, <2>1 DEF KnowsItsFiles, Busy
<1>10. /\ C \subseteq Bears(o) /\ C \in SUBSET Paths /\ Template \notin C
    BY <1>4, <1>6, BearingIsOfPaths
<1>11. Bears(o)' = Bears(o)
    BY DEF Bears
<1>12. Bears(o) \subseteq OwesOf(o)'
    BY <1>4, <1>6, <1>11 DEF OwesOf, Pending, Early
<1>13. o.stage \notin {"recheck", "replace"} /\ ~Creates(o)
    BY <1>4 DEF Creates
<1> HIDE DEF C
<1> QED BY <1>1, <1>2, <1>4, <1>5, <1>7, <1>8, <1>9, <1>10, <1>12, <1>13, ReplacesKeep DEF At

LEMMA MarkKeeps ==
    ASSUME DocumentsInv, NEW P \in Procs, Mark(P)
    PROVE  DocumentsInv'
<1>1. PICK r \in Operations : r = ops[P]
    BY OperationOf
<1>2. /\ CourseOf(r) /\ (P = Cli => r.kind # "create") /\ (r.quiet => KnowsItsFiles(r))
      /\ disk \in [Paths -> Texts \cup {Absent}]
      /\ findings \in [Paths -> {Nothing} \cup (Texts \X (Texts \cup {Absent}))]
    BY <1>1, OperationOf
<1> DEFINE s == [r EXCEPT !.seen = {r.path}]
           m == [r EXCEPT !.stage = "evaluate", !.at = r.dest, !.content = r.expected,
                          !.seen = {r.path}]
<1>3. /\ r.stage = "mark" /\ findings' = [findings EXCEPT ![r.path] = Nothing]
      /\ \/ r.kind = "delete" /\ Changes(P, {}, NoOp) /\ stale' = Settled(s)
         \/ r.kind # "delete" /\ Changes(P, {}, m) /\ stale' = stale
      /\ UNCHANGED <<disk, started, outside>> /\ ~At(P, "idle")
    BY <1>1 DEF Mark, At
<1>4. /\ r.path \in Records /\ r.path \in Paths /\ r.mode = "own" /\ r.seen = {}
      /\ r.kind \in {"delete", "move"}
      /\ r.kind = "move" => r.dest \in Records /\ r.dest \in Paths /\ r.dest # r.path
      /\ r.kind # "move" => r.dest = Nothing
    BY <1>2, <1>3, FoldersAreNamed DEF CourseOf, Early
<1>5. /\ findings' \in [Paths -> {Nothing} \cup (Texts \X (Texts \cup {Absent}))]
      /\ findings'[r.path] = Nothing
      /\ \A p \in Paths \ {r.path} : findings'[p] = findings[p]
    BY <1>2, <1>3, <1>4
<1>6. r.quiet => Agrees(r.path)'
    BY <1>2, <1>3, <1>5 DEF Agrees, KnowsItsFiles
<1>7. CASE r.kind = "delete" /\ Changes(P, {}, NoOp) /\ stale' = Settled(s)
  <2>1. s \in Operations
    BY <1>4 DEF Operations
  <2>2. /\ s.kind = r.kind /\ s.path = r.path /\ s.dest = r.dest /\ s.seen = {r.path}
        /\ s.quiet = r.quiet
    BY DEF Operations
  <2> HIDE DEF s
  <2>3. Bears(s) = Bears(r) /\ Bears(r) = {r.path} /\ Pending(r) = {r.path}
    BY <1>3, <1>4, <1>7, <2>2, BearingIsOfPaths DEF Bears, Pending
  <2>4. r.stage \notin Early
    BY <1>3 DEF Early
  <2> QED BY <1>1, <1>3, <1>4, <1>5, <1>6, <1>7, <2>1, <2>2, <2>3, <2>4, SettlesKeep
<1>8. CASE r.kind # "delete" /\ Changes(P, {}, m) /\ stale' = stale
  <2>1. PICK o \in Operations : o = m
    BY <1>4, <1>8 DEF Operations
  <2>2. /\ o.kind = "move" /\ o.path = r.path /\ o.dest = r.dest /\ o.create = r.create
        /\ o.stage = "evaluate" /\ o.mode = "own" /\ o.at = r.dest /\ o.content = r.expected
        /\ o.seen = {r.path} /\ o.quiet = r.quiet
    BY <1>4, <1>8, <2>1 DEF Operations
  <2>3. Changes(P, {}, o)
    BY <1>8, <2>1
  <2> HIDE DEF m
  <2>4. CourseOf(o)
    BY <1>2, <1>3, <1>4, <1>8, <2>2 DEF CourseOf, Early, Busy
  <2>5. o.quiet => KnowsItsFiles(o)'
    BY <1>2, <1>3, <1>4, <1>6, <1>8, <2>2 DEF KnowsItsFiles, Busy
  <2>6. ~Creates(o) /\ WasCompared(o)
    BY <2>2 DEF Creates, WasCompared
  <2>7. Bears(o)' = {r.path, r.dest} /\ Bears(r) = {r.path, r.dest}
    <3>1. Bears(o) = {r.path, r.dest} /\ Bears(r) = {r.path, r.dest}
      BY <1>4, <1>8, <2>2, BearingIsOfPaths
    <3> QED BY <3>1 DEF Bears
  <2>8. r.quiet => disk[r.dest] # Absent
    BY <1>2, <1>3, <1>4, <1>8, FoldersAreNamed, Fields DEF KnowsItsFiles
  <2>9. \A p \in OwesOf(r) : p \in OwesOf(o)' \/ (o.quiet /\ Agrees(p)')
    <3>1. OwesOf(r) = {r.path, r.dest}
      BY <1>3, <1>4, <2>7 DEF OwesOf, Pending, Early
    <3>2. r.quiet => r.dest \in OwesOf(o)'
      BY <1>3, <1>4, <1>8, <2>2, <2>7, <2>8 DEF OwesOf, Pending, Early, Present
    <3>3. ~r.quiet => {r.path, r.dest} \subseteq OwesOf(o)'
      BY <2>2, <2>7 DEF OwesOf, Early
    <3> QED BY <1>6, <2>2, <3>1, <3>2, <3>3
  <2>10. \A p \in Paths : findings'[p] = findings[p] \/ Agrees(p)' \/ p \in OwesOf(o)'
    <3>1. ~r.quiet => r.path \in OwesOf(o)'
      BY <2>2, <2>7 DEF OwesOf, Early
    <3> QED BY <1>5, <1>6, <3>1
  <2> QED BY <1>1, <1>3, <1>5, <1>8, <2>2, <2>3, <2>4, <2>5, <2>6, <2>9, <2>10, WorksOn
<1> QED BY <1>3, <1>7, <1>8

LEMMA ReconcileKeeps ==
    ASSUME DocumentsInv, NEW P \in Procs, Reconcile(P)
    PROVE  DocumentsInv'
<1>1. PICK r \in Operations : r = ops[P]
    BY OperationOf
<1>2. /\ CourseOf(r) /\ (P = Cli => r.kind # "create") /\ (r.quiet => KnowsItsFiles(r))
      /\ disk \in [Paths -> Texts \cup {Absent}] /\ stale \in SUBSET Paths
      /\ findings \in [Paths -> {Nothing} \cup (Texts \X (Texts \cup {Absent}))]
      /\ \A p \in Paths \ stale : Agrees(p) \/ p \in OwesOf(r) \/ OthersOwe(P, p)
      /\ started \in 0..MaxOps /\ outside \in 0..MaxOutside
    BY <1>1, OperationOf
<1>3. PICK s \in Operations : s = [r EXCEPT !.seen = r.seen \cup {r.at}]
  <2>1. r.stage = "reconcile"
    BY <1>1 DEF Reconcile, At
  <2>2. r.at \in Paths /\ r.seen \subseteq Paths
    BY <1>2, <2>1, Fields DEF CourseOf, Busy
  <2> QED BY <2>2 DEF Operations
<1>4. /\ s.kind = r.kind /\ s.path = r.path /\ s.dest = r.dest /\ s.create = r.create
      /\ s.stage = r.stage /\ s.mode = r.mode /\ s.at = r.at /\ s.content = r.content
      /\ s.contract = r.contract /\ s.todo = r.todo /\ s.failed = r.failed /\ s.quiet = r.quiet
      /\ s.seen = r.seen \cup {r.at}
    BY <1>3 DEF Operations
<1>5. /\ r.stage = "reconcile" /\ UNCHANGED <<disk, started, outside>> /\ ~At(P, "idle")
      /\ findings' = [findings EXCEPT ![r.at] = <<r.content, r.contract>>]
      /\ \/ r.mode # "own" /\ Changes(P, {}, [s EXCEPT !.stage = "next"]) /\ stale' = stale
         \/ /\ r.mode = "own" /\ r.kind = "write" /\ r.path = Template
            /\ Changes(P, {}, [s EXCEPT !.stage = "expand"]) /\ stale' = stale
         \/ /\ r.mode = "own" /\ r.kind = "create"
            /\ Changes(P, {}, [s EXCEPT !.stage = "check", !.kind = "read"]) /\ stale' = stale
         \/ /\ r.mode = "own"
            /\ r.kind \in {"read", "move"} \/ (r.kind = "write" /\ r.path # Template)
            /\ Changes(P, {}, NoOp) /\ stale' = Settled(s)
    BY <1>1, <1>3, <1>4 DEF Reconcile, At
<1>6. /\ r.at \in Paths /\ r.content \in Texts /\ r.contract \in Texts \cup {Absent}
      /\ r.seen \subseteq Paths
    BY <1>2, <1>5, Fields DEF CourseOf, Busy
<1>7. /\ findings' \in [Paths -> {Nothing} \cup (Texts \X (Texts \cup {Absent}))]
      /\ findings'[r.at] = <<r.content, r.contract>>
      /\ \A p \in Paths \ {r.at} : findings'[p] = findings[p] /\ (Agrees(p) => Agrees(p)')
    BY <1>2, <1>5, <1>6 DEF Agrees
<1>8. r.quiet => /\ Agrees(r.at)' /\ \A p \in s.seen : Agrees(p)'
                 /\ disk[r.at] # Absent
  <2>1. r.quiet => disk[r.at] = r.content /\ r.contract = disk[Template]
    BY <1>2, <1>5 DEF KnowsItsFiles, Busy
  <2>2. r.quiet => Agrees(r.at)' /\ disk[r.at] # Absent
    BY <1>5, <1>6, <1>7, <2>1, FoldersAreNamed DEF Agrees
  <2> QED BY <1>2, <1>4, <1>6, <1>7, <2>2 DEF KnowsItsFiles
<1>9. CASE r.mode # "own" /\ Changes(P, {}, [s EXCEPT !.stage = "next"]) /\ stale' = stale
  <2>1. PICK o \in Operations : o = [s EXCEPT !.stage = "next"]
    BY AtStage
  <2>2. /\ o.kind = r.kind /\ o.path = r.path /\ o.dest = r.dest /\ o.create = r.create
        /\ o.stage = "next" /\ o.mode = r.mode /\ o.todo = r.todo /\ o.failed = r.failed
        /\ o.seen = r.seen \cup {r.at} /\ o.quiet = r.quiet
    BY <1>4, <2>1 DEF Operations
  <2>3. Changes(P, {}, o)
    BY <1>9, <2>1
  <2>4. Bears(o) = Bears(r) /\ Bears(o)' = Bears(r) /\ AtHand(r) = {r.at} /\ AtHand(o) = {}
        /\ AtHand(o)' = {}
    BY <1>5, <2>2 DEF Bears, AtHand, Busy
  <2>5. r.mode \in {"batch", "audit"} /\ r.kind # "create"
    BY <1>2, <1>9 DEF CourseOf, Operations
  <2>6. CourseOf(o)
    BY <1>2, <1>5, <2>2, <2>4, <2>5 DEF CourseOf, Early, Busy
  <2>7. Present' = Present
    BY <1>5 DEF Present
  <2>8. o.quiet => KnowsItsFiles(o)'
    BY <1>2, <1>4, <1>5, <1>8, <2>2, <2>4, <2>7 DEF KnowsItsFiles, Busy
  <2>9. \A p \in OwesOf(r) : p \in OwesOf(o)' \/ (o.quiet /\ Agrees(p)')
    BY <1>5, <1>8, <2>2, <2>4, <2>5 DEF OwesOf, Pending, Early
  <2>10. \A p \in Paths : findings'[p] = findings[p] \/ Agrees(p)' \/ p \in OwesOf(o)'
    <3>1. ~r.quiet => r.at \in OwesOf(o)'
      BY <2>2 DEF OwesOf, Early
    <3> QED BY <1>7, <1>8, <3>1
  <2> QED BY <1>1, <1>2, <1>5, <1>7, <1>9, <2>2, <2>3, <2>5, <2>6, <2>8, <2>9, <2>10, WorksOn
         DEF Creates
<1>10. CASE /\ r.mode = "own" /\ r.kind = "write" /\ r.path = Template
            /\ Changes(P, {}, [s EXCEPT !.stage = "expand"]) /\ stale' = stale
  <2>1. PICK o \in Operations : o = [s EXCEPT !.stage = "expand"]
    BY AtStage
  <2>2. /\ o.kind = r.kind /\ o.path = r.path /\ o.dest = r.dest /\ o.create = r.create
        /\ o.stage = "expand" /\ o.mode = "own"
        /\ o.seen = r.seen \cup {r.at} /\ o.quiet = r.quiet
    BY <1>4, <1>10, <2>1 DEF Operations
  <2>3. Changes(P, {}, o)
    BY <1>10, <2>1
  <2>4. Bears(o)' = Bears(r)
    BY <2>2 DEF Bears
  <2>5. CourseOf(o)
    BY <1>2, <1>5, <1>10, <2>2 DEF CourseOf, Early, Busy
  <2>6. Present' = Present
    BY <1>5 DEF Present
  <2>7. o.quiet => KnowsItsFiles(o)'
    BY <1>4, <1>8, <2>2 DEF KnowsItsFiles, Busy
  <2>8. \A p \in OwesOf(r) : p \in OwesOf(o)' \/ (o.quiet /\ Agrees(p)')
    BY <1>5, <1>10, <2>2, <2>4, <2>6 DEF OwesOf, Pending, Early
  <2>9. \A p \in Paths : findings'[p] = findings[p] \/ Agrees(p)' \/ p \in OwesOf(o)'
    <3>1. ~r.quiet => r.at \in OwesOf(o)'
      BY <2>2 DEF OwesOf, Early
    <3> QED BY <1>7, <1>8, <3>1
  <2> QED BY <1>1, <1>2, <1>5, <1>7, <1>10, <2>2, <2>3, <2>5, <2>7, <2>8, <2>9, WorksOn
         DEF Creates
<1>11. CASE /\ r.mode = "own" /\ r.kind = "create"
            /\ Changes(P, {}, [s EXCEPT !.stage = "check", !.kind = "read"]) /\ stale' = stale
  <2>1. PICK o \in Operations : o = [s EXCEPT !.stage = "check", !.kind = "read"]
    BY AtStage
  <2>2. /\ o.kind = "read" /\ o.path = r.path /\ o.dest = r.dest /\ o.create = r.create
        /\ o.stage = "check" /\ o.mode = "own" /\ o.seen = r.seen \cup {r.at} /\ o.quiet = r.quiet
    BY <1>4, <1>11, <2>1 DEF Operations
  <2>3. Changes(P, {}, o)
    BY <1>11, <2>1
  <2>4. /\ r.path \in Records /\ r.path \in Paths /\ r.dest = Nothing /\ r.at = r.path
        /\ r.seen = {} /\ ~r.create
    BY <1>2, <1>5, <1>11, FoldersAreNamed DEF CourseOf, Busy
  <2>5. CourseOf(o)
    BY <2>2, <2>4, FoldersAreNamed DEF CourseOf, Early, Busy
  <2>6. o.quiet => KnowsItsFiles(o)'
    BY <1>4, <1>8, <2>2 DEF KnowsItsFiles, Busy
  <2>7. OwesOf(r) \subseteq {r.path}
    BY <1>5, <1>11, <2>4, BearingIsOfPaths DEF OwesOf, Pending, Early
  <2>8. CreatedIsInLine(r) \/ r.path \in stale \/ OthersOwe(P, r.path)
    BY <1>1, <1>5, <1>11 DEF DocumentsInv, CreatedAreInLine, Creates
  <2>9. CreatedIsInLine(r) => Agrees(r.path)'
    BY <1>5, <1>6, <1>7, <2>4, FoldersAreNamed DEF CreatedIsInLine, Agrees
  <2>10. \A p \in Paths \ stale' : Agrees(p)' \/ p \in OwesOf(o)' \/ OthersOwe(P, p)
    BY <1>2, <1>7, <1>11, <2>4, <2>7, <2>8, <2>9
  <2>11. WasCompared(o)' /\ ~Creates(o)
    BY <2>2 DEF WasCompared, Creates
  <2>12. /\ disk' \in [Paths -> Texts \cup {Absent}] /\ stale' \in SUBSET Paths
         /\ started' \in 0..MaxOps /\ outside' \in 0..MaxOutside
         /\ {} \in SUBSET Paths /\ \A p \in Paths \ {} : disk'[p] = disk[p]
    BY <1>2, <1>5, <1>11
  <2> QED BY <1>1, <1>5, <1>7, <1>11, <2>2, <2>3, <2>5, <2>6, <2>10, <2>11, <2>12, StepOf
<1>12. CASE /\ r.mode = "own"
            /\ r.kind \in {"read", "move"} \/ (r.kind = "write" /\ r.path # Template)
            /\ Changes(P, {}, NoOp) /\ stale' = Settled(s)
  <2>1. r.path \in Paths /\ r.at = (IF r.kind = "move" THEN r.dest ELSE r.path)
        /\ (r.kind = "move" => r.path \in Records /\ r.dest \in Records)
        /\ (r.kind # "move" => r.dest = Nothing)
    BY <1>2, <1>5, <1>12 DEF CourseOf, Busy
  <2>2. r.quiet => \A p \in Pending(r) : Agrees(p)'
    <3>1. CASE r.kind = "read"
      BY <1>5, <1>12, <3>1 DEF Pending
    <3>2. CASE r.kind = "move"
      <4>1. Bears(r) = {r.path, r.dest}
        BY <2>1, <3>2, BearingIsOfPaths
      <4>2. Pending(r) \subseteq Bears(r)
        BY <1>2, PendingBears
      <4>3. r.quiet => r.path \in r.seen
        BY <1>2, <1>5, <1>12, <3>2 DEF KnowsItsFiles, Busy
      <4> QED BY <1>4, <1>8, <2>1, <3>2, <4>1, <4>2, <4>3
    <3>3. CASE r.kind = "write" /\ r.path # Template
      <4>1. Bears(r) = {r.path}
        BY <2>1, <3>3, BearingIsOfPaths DEF Paths
      <4>2. Pending(r) \subseteq Bears(r)
        BY <1>2, PendingBears
      <4> QED BY <1>8, <2>1, <3>3, <4>1, <4>2
    <3> QED BY <1>12, <3>1, <3>2, <3>3
  <2>3. Bears(s) = Bears(r) /\ r.seen \subseteq s.seen /\ r.stage \notin Early /\ s.kind # "audit"
    BY <1>4, <1>5, <1>12 DEF Bears, Early
  <2>4. \A p \in Paths \ s.seen : findings'[p] = findings[p]
    BY <1>4, <1>7
  <2> QED BY <1>1, <1>4, <1>5, <1>7, <1>8, <1>12, <2>2, <2>3, <2>4, SettlesKeep
<1> QED BY <1>5, <1>9, <1>10, <1>11, <1>12

(* What others write puts the findings of all it bears on out of date, and *)
(* no operation that is under way is quiet any more.                       *)
LEMMA OutsideKeeps ==
    ASSUME DocumentsInv, NEW p \in Paths, NEW content \in Texts \cup {Absent},
           AgentWrites(p, content)
    PROVE  DocumentsInv'
<1>1. /\ outside < MaxOutside /\ outside' = outside + 1
      /\ disk' = [disk EXCEPT ![p] = content] /\ ops' = Disturb({p})
      /\ stale' = stale \cup Depends(p) /\ UNCHANGED <<findings, started>>
    BY DEF AgentWrites
<1>2. /\ ops \in [Procs -> Operations] /\ disk \in [Paths -> Texts \cup {Absent}]
      /\ stale \in SUBSET Paths /\ started \in 0..MaxOps
      /\ findings \in [Paths -> {Nothing} \cup (Texts \X (Texts \cup {Absent}))]
    BY DEF DocumentsInv, DocumentsTypeOK
<1>3. \A q \in Paths \ {p} : disk'[q] = disk[q]
    BY <1>1, <1>2
<1>4. /\ p \in Depends(p) /\ Depends(p) \subseteq Paths
      /\ \A q \in Paths \ Depends(p) : q # p /\ p # Template
    BY FoldersAreNamed DEF Depends
<1>5. ASSUME NEW Q \in Procs
      PROVE  /\ ops'[Q] \in Operations
             /\ CourseOf(ops'[Q]) /\ (Q = Cli => ops'[Q].kind # "create")
             /\ OwesOf(ops[Q]) \subseteq OwesOf(ops[Q])'
             /\ ops'[Q].quiet => KnowsItsFiles(ops[Q])'
             /\ WasCompared(ops[Q])'
             /\ ops'[Q].stage = "idle" \/ ~ops'[Q].quiet
             /\ ops'[Q].path = ops[Q].path /\ ops'[Q].content = ops[Q].content
             /\ ops'[Q].contract = ops[Q].contract
             /\ ops'[Q].kind = ops[Q].kind /\ ops'[Q].stage = ops[Q].stage
  <2>1. ops'[Q] = Disturb({p})[Q]
    BY <1>1
  <2>2. PICK d \in Operations : d = Disturb({p})[Q] /\ d = ops'[Q]
    BY <1>2, <2>1, DisturbedOnes
  <2>3. d.stage = "idle" \/ ~d.quiet
    BY <1>2, <2>2, DisturbedOnes DEF At
  <2>4. /\ CourseOf(d) /\ (Q = Cli => d.kind # "create")
        /\ OwesOf(ops[Q]) \subseteq OwesOf(d)'
        /\ d.quiet => KnowsItsFiles(d)'
        /\ WasCompared(d)'
        /\ d.path = ops[Q].path /\ d.content = ops[Q].content /\ d.contract = ops[Q].contract
        /\ d.kind = ops[Q].kind /\ d.stage = ops[Q].stage
    <3>1. PICK C \in SUBSET Paths : C = {p}
      OBVIOUS
    <3>2. /\ d = Disturb(C)[Q] \/ (d = ops[Q] /\ UNCHANGED <<disk, findings>>)
          /\ \A q \in Paths \ C : disk'[q] = disk[q]
      BY <1>3, <2>2, <3>1
    <3> HIDE DEF DocumentsInv
    <3> QED BY <3>2, OthersGoOn
  <2> QED BY <2>2, <2>3, <2>4, GoesOnAs
<1>6. DocumentsTypeOK'
  <2>1. ops' = [Q \in Procs |-> ops'[Q]]
    BY <1>1 DEF Disturb
  <2>2. ops' \in [Procs -> Operations]
    BY <1>5, <2>1
  <2>3. outside' \in 0..MaxOutside
    BY <1>1, OperationOf, FoldersAreNamed, FoldersAssumption
  <2> QED BY <1>1, <1>2, <1>4, <2>2, <2>3 DEF DocumentsTypeOK
<1>7. CoursesAreKept'
    BY <1>5, FoldersAreNamed DEF CoursesAreKept
<1>8. \A q \in Paths \ stale' : Agrees(q) => Agrees(q)'
    BY <1>1, <1>3, <1>4, FoldersAreNamed DEF Agrees
<1>9. InLine'
    BY <1>1, <1>5, <1>8 DEF InLine, DocumentsInv
<1>10. QuietOnesKnow' /\ ReplacementsAreCompared'
    BY <1>5 DEF QuietOnesKnow, ReplacementsAreCompared
<1>11. CreatedAreInLine'
  <2> SUFFICES ASSUME NEW Q \in Procs, Creates(ops'[Q])
               PROVE  /\ \A R \in Procs \ {Q} : ops'[R].stage = "idle" \/ ~ops'[R].quiet
                      /\ \/ CreatedIsInLine(ops[Q])'
                         \/ ops'[Q].path \in stale'
                         \/ \E R \in Procs \ {Q} : ops'[Q].path \in OwesOf(ops[R])'
    BY DEF CreatedAreInLine, OthersOwe, At
  <2>1. Creates(ops[Q]) /\ ops'[Q].path = ops[Q].path /\ ops[Q].path \in Paths
    BY <1>5, FoldersAreNamed DEF Creates, CourseOf
  <2>2. \/ CreatedIsInLine(ops[Q]) \/ ops[Q].path \in stale
        \/ \E R \in Procs \ {Q} : ops[Q].path \in OwesOf(ops[R])
    BY <2>1 DEF DocumentsInv, CreatedAreInLine, OthersOwe
  <2>3. CreatedIsInLine(ops[Q]) /\ ops[Q].path \notin stale' => CreatedIsInLine(ops[Q])'
    <3> SUFFICES ASSUME CreatedIsInLine(ops[Q]), ops[Q].path \notin stale'
                 PROVE  CreatedIsInLine(ops[Q])'
      OBVIOUS
    <3>1. ops[Q].path # p /\ p # Template
      BY <1>1, <1>4, <2>1
    <3>2. disk'[ops[Q].path] = disk[ops[Q].path] /\ disk'[Template] = disk[Template]
      BY <1>3, <2>1, <3>1, FoldersAreNamed
    <3> QED BY <1>5, <2>1, <3>2 DEF CreatedIsInLine
  <2> QED BY <1>1, <1>5, <2>1, <2>2, <2>3
<1> QED BY <1>6, <1>7, <1>9, <1>10, <1>11 DEF DocumentsInv

LEMMA DocumentsStart ==
    DocumentsInit => DocumentsInv
<1> SUFFICES ASSUME DocumentsInit PROVE DocumentsInv
    OBVIOUS
<1>1. /\ disk \in [Paths -> Texts \cup {Absent}]
      /\ findings = [p \in Paths |-> IF disk[p] = Absent THEN Nothing
                                     ELSE <<disk[p], disk[Template]>>]
      /\ \A P \in Procs : ops[P] = NoOp
      /\ ops \in [Procs -> Operations]
      /\ started = 0 /\ outside = 0 /\ stale = {}
    BY NoOpIsNothing DEF DocumentsInit
<1>2. DocumentsTypeOK
  <2>1. started \in 0..MaxOps /\ outside \in 0..MaxOutside
    BY <1>1, FoldersAssumption
  <2>2. findings \in [Paths -> {Nothing} \cup (Texts \X (Texts \cup {Absent}))]
    <3>1. \A p \in Paths : disk[p] # Absent => disk[p] \in Texts
      BY <1>1
    <3>2. disk[Template] \in Texts \cup {Absent}
      BY <1>1, FoldersAreNamed
    <3> QED BY <1>1, <3>1, <3>2
  <2> QED BY <1>1, <2>1, <2>2 DEF DocumentsTypeOK
<1>3. CourseOf(NoOp) /\ ~Creates(NoOp) /\ KnowsItsFiles(NoOp) /\ WasCompared(NoOp)
    BY NoOpIsNothing DEF CourseOf, Creates, KnowsItsFiles, WasCompared, Busy, Early
<1>4. InLine
    BY <1>1 DEF InLine, Agrees
<1> QED BY <1>1, <1>2, <1>3, <1>4, NoOpIsNothing, FoldersAreNamed
        DEF DocumentsInv, CoursesAreKept, QuietOnesKnow, CreatedAreInLine, ReplacementsAreCompared

LEMMA DocumentsStep ==
    DocumentsInv /\ [DocumentsNext]_vars => DocumentsInv'
<1> SUFFICES ASSUME DocumentsInv, [DocumentsNext]_vars PROVE DocumentsInv'
    OBVIOUS
<1>1. CASE DocumentsNext
  <2>1. \A p \in Paths, text, expected \in Texts, create \in BOOLEAN :
            StartWrite(p, text, expected, create) => DocumentsInv'
    BY StartsKeep
  <2>2. \A p \in Records, text \in Texts : StartCreate(p, text) => DocumentsInv'
    BY StartsKeep
  <2>3. \A p \in Paths : StartRead(p) \/ StartValidate(p) => DocumentsInv'
    BY StartsKeep, FoldersAreNamed
  <2>4. \A p, dest \in Records, expected \in Texts :
            StartDelete(p, expected) \/ StartMove(p, dest, expected) => DocumentsInv'
    BY StartsKeep
  <2>5. \A P \in Procs, p \in Paths, text, expected \in Texts :
            StartFix(P, p, text, expected) => DocumentsInv'
    BY StartsKeep
  <2>6. \A P \in Procs : StartAudit(P) => DocumentsInv'
    BY StartsKeep, FoldersAreNamed
  <2>7. ASSUME NEW P \in Procs,
               \/ Check(P) \/ CheckFails(P) \/ Recheck(P) \/ RecheckFails(P)
               \/ Put(P) \/ Remove(P) \/ Move(P) \/ ReplaceFails(P) \/ Mark(P)
        PROVE  DocumentsInv'
    BY <2>7, CheckKeeps, FailuresKeep, RecheckKeeps, PutKeeps, RemoveKeeps, MarkKeeps
  <2>8. ASSUME NEW P \in Procs,
               \/ Evaluate(P) \/ Verify(P) \/ Reconcile(P) \/ Expand(P)
               \/ (\E p \in Paths : Take(P, p)) \/ Through(P) \/ Sweep(P) \/ Crash(P)
        PROVE  DocumentsInv'
    BY <2>8, EvaluateKeeps, VerifyKeeps, ReconcileKeeps, ExpandKeeps, TakeKeeps, ThroughKeeps,
       SweepKeeps, CrashKeeps
  <2>9. \A p \in Paths, content \in Texts \cup {Absent} : AgentWrites(p, content) => DocumentsInv'
    BY OutsideKeeps
  <2> QED BY <1>1, <2>1, <2>2, <2>3, <2>4, <2>5, <2>6, <2>7, <2>8, <2>9 DEF DocumentsNext
<1>2. CASE UNCHANGED vars
  <2>1. UNCHANGED <<disk, findings, ops, started, outside, stale>>
    BY <1>2 DEF vars
  <2>2. \A o, p : OwesOf(o)' = OwesOf(o) /\ (KnowsItsFiles(o)' <=> KnowsItsFiles(o))
            /\ (WasCompared(o)' <=> WasCompared(o)) /\ (CreatedIsInLine(o)' <=> CreatedIsInLine(o))
            /\ (Agrees(p)' <=> Agrees(p))
    BY <2>1, FilesStand
  <2>3. DocumentsTypeOK' /\ CoursesAreKept'
    BY <2>1 DEF DocumentsTypeOK, CoursesAreKept, DocumentsInv
  <2>4. \A P \in Procs :
            /\ OwesOf(ops[P])' = OwesOf(ops[P])
            /\ (ops[P].quiet => KnowsItsFiles(ops[P])) => (ops'[P].quiet => KnowsItsFiles(ops[P])')
            /\ WasCompared(ops[P])' /\ (CreatedIsInLine(ops[P]) => CreatedIsInLine(ops[P])')
    BY <2>1, <2>2, GoesOnAs DEF DocumentsInv, ReplacementsAreCompared
  <2>5. InLine' /\ QuietOnesKnow' /\ ReplacementsAreCompared'
    BY <2>1, <2>2, <2>4 DEF InLine, QuietOnesKnow, ReplacementsAreCompared, DocumentsInv
  <2>6. CreatedAreInLine'
    BY <2>1, <2>4 DEF CreatedAreInLine, OthersOwe, At, DocumentsInv
  <2> QED BY <2>3, <2>5, <2>6 DEF DocumentsInv
<1> QED BY <1>1, <1>2

(* The invariant of the workspace's files: the findings of a path are      *)
(* those of its text and its template, or an operation that is under way   *)
(* is yet to bring them in line, or the path is one that others wrote or a *)
(* crash left behind.                                                      *)
THEOREM DocumentsAreInOrder == DocumentsSpec => []DocumentsInv
BY DocumentsStart, DocumentsStep, PTL DEF DocumentsSpec

(* Files, findings and operations keep their forms: what a file is         *)
(* evaluated against, and with which text, is always one that was read.    *)
THEOREM DocumentsTypeCorrect == DocumentsSpec => []DocumentsTypeOK
<1>1. DocumentsInv => DocumentsTypeOK
    BY DEF DocumentsInv
<1> QED BY <1>1, DocumentsAreInOrder, PTL

(* When nothing is under way, the findings in the maintainer's database    *)
(* are those of the files and templates that are there, but for what       *)
(* others wrote or a crash left behind: a write, a move, a deletion, a     *)
(* template's records and an audit are all brought in line before the      *)
(* request ends, also when the server and the command line work on the     *)
(* same files.                                                             *)
THEOREM FindingsAreOfTheFiles == DocumentsSpec => []FindingsAgree
<1>1. DocumentsInv => FindingsAgree
  <2> SUFFICES ASSUME DocumentsInv, Idle, NEW p \in Paths \ stale PROVE Agrees(p)
    BY DEF FindingsAgree
  <2>1. \A P \in Procs : OwesOf(ops[P]) = {}
    BY DEF Idle, At, OwesOf, Early
  <2> QED BY <2>1 DEF DocumentsInv, InLine
<1> QED BY <1>1, DocumentsAreInOrder, PTL

(* Files change where they are put, removed or moved, or others write.     *)
LEMMA FilesChange ==
    ASSUME DocumentsNext
    PROVE  \/ UNCHANGED disk
           \/ \E Q \in Procs : Put(Q) \/ Remove(Q) \/ Move(Q)
           \/ \E p \in Paths, content \in Texts \cup {Absent} : AgentWrites(p, content)
<1>1. \A P, o : Begin(P, o) => UNCHANGED disk
    BY DEF Begin
<1>2. \A p, text, expected, create : StartWrite(p, text, expected, create) => UNCHANGED disk
    BY <1>1 DEF StartWrite
<1>3. \A p, text : StartCreate(p, text) => UNCHANGED disk
    BY <1>1 DEF StartCreate
<1>4. \A p : StartRead(p) \/ StartValidate(p) => UNCHANGED disk
    BY <1>1 DEF StartRead, StartValidate
<1>5. \A p, dest, expected : StartDelete(p, expected) \/ StartMove(p, dest, expected) => UNCHANGED disk
    BY <1>1 DEF StartDelete, StartMove
<1>6. \A P, p, text, expected : StartFix(P, p, text, expected) => UNCHANGED disk
    BY <1>1 DEF StartFix
<1>7. \A P : StartAudit(P) => UNCHANGED disk
    BY <1>1 DEF StartAudit
<1>8. \A P : (\/ Check(P) \/ CheckFails(P) \/ Recheck(P) \/ RecheckFails(P)
              \/ ReplaceFails(P) \/ Mark(P))
             => UNCHANGED disk
    BY DEF Check, CheckFails, Recheck, RecheckFails, ReplaceFails, Mark, Refuse
<1>9. \A P : (\/ Evaluate(P) \/ Verify(P) \/ Reconcile(P) \/ Expand(P)
              \/ Through(P) \/ Sweep(P) \/ Crash(P))
             => UNCHANGED disk
    BY DEF Evaluate, Verify, Reconcile, Expand, Through, Sweep, Crash
<1>10. \A P, p : Take(P, p) => UNCHANGED disk
    BY DEF Take
<1> QED BY <1>2, <1>3, <1>4, <1>5, <1>6, <1>7, <1>8, <1>9, <1>10 DEF DocumentsNext

(* A request replaces, removes or moves only a text that its client saw,   *)
(* but for what others write between the second comparison and the system  *)
(* call, and createOnly replaces nothing: writeFile, deleteFile and        *)
(* moveFile compare the revision again once the new file is ready.         *)
THEOREM NothingUnseenIsReplaced == DocumentsSpec => NothingUnseenIsLost
<1>1. ASSUME DocumentsInv, [DocumentsNext]_vars, NEW P \in Procs, NEW p \in Paths, Replaces(P, p)
      PROVE  /\ WasSeen(ops[P], p) \/ p \in ops[P].touched
             /\ ops[P].create => disk[p] = Absent
  <2>1. PICK r \in Operations : r = ops[P]
    BY <1>1, OperationOf
  <2>2. /\ r.stage = "replace" /\ ops'[P].stage # "replace" /\ p \in {r.path, r.dest}
        /\ disk'[p] # disk[p]
    BY <1>1, <2>1 DEF Replaces, At
  <2>3. /\ ops \in [Procs -> Operations] /\ CourseOf(r) /\ disk \in [Paths -> Texts \cup {Absent}]
        /\ WasCompared(r)
    BY <1>1, <2>1, OperationOf
  <2>4. r.path \in Paths /\ (r.create => r.kind = "write")
        /\ (r.kind = "move" => r.dest \in Paths /\ r.dest # r.path)
    BY <2>2, <2>3, FoldersAreNamed DEF CourseOf, Early
  <2>5. \A C \in SUBSET Paths : Disturb(C)[P].stage = "replace"
    BY <2>1, <2>2, <2>3, DisturbedOnes
  <2>6. \A o : \A Q \in Procs, C \in SUBSET Paths : Changes(Q, C, o) => Q = P
    <3> SUFFICES ASSUME NEW o, NEW Q \in Procs, NEW C \in SUBSET Paths, Changes(Q, C, o), Q # P
                 PROVE  FALSE
      OBVIOUS
    <3>1. Disturb(C) = [R \in Procs |-> Disturb(C)[R]]
      BY DEF Disturb
    <3>2. ops' = [Disturb(C) EXCEPT ![Q] = o]
      BY DEF Changes
    <3> HIDE DEF Disturb
    <3>3. ops'[P] = Disturb(C)[P]
      BY <3>1, <3>2
    <3> QED BY <2>2, <2>5, <3>3
  <2>7. \A content : \A q \in Paths : ~AgentWrites(q, content)
    <3> SUFFICES ASSUME NEW content, NEW q \in Paths, AgentWrites(q, content)
                 PROVE  FALSE
      OBVIOUS
    <3>1. ops' = Disturb({q}) /\ {q} \in SUBSET Paths
      BY DEF AgentWrites
    <3> QED BY <2>2, <2>5, <3>1
  <2>8. DocumentsNext
    BY <1>1, <2>2 DEF vars
  <2>9. PICK Q \in Procs : Put(Q) \/ Remove(Q) \/ Move(Q)
    BY <2>2, <2>7, <2>8, FilesChange
  <2>10. Q = P
    <3>1. \A q \in Procs : ops[q].path \in Paths \/ ops[q].stage = "idle" \/ ops[q].kind = "audit"
      BY <1>1, OperationOf DEF CourseOf
    <3>2. ops[Q].path \in Paths /\ (ops[Q].kind = "move" => ops[Q].dest \in Paths)
      BY <1>1, <2>9, OperationOf, FoldersAreNamed DEF Put, Remove, Move, At, CourseOf, Early
    <3>3. {ops[Q].path} \in SUBSET Paths
          /\ (ops[Q].kind = "move" => {ops[Q].path, ops[Q].dest} \in SUBSET Paths)
      BY <3>2
    <3> QED BY <2>6, <2>9, <3>3 DEF Put, Remove, Move
  <2>11. Same(r) => WasSeen(r, r.path)
    BY DEF Same, Bytes, WasSeen
  <2>12. CASE Put(P) \/ Remove(P)
    <3>1. /\ \A q \in Paths \ {r.path} : disk'[q] = disk[q]
          /\ r.create => disk[r.path] = Absent
      BY <2>1, <2>3, <2>4, <2>12 DEF Put, Remove
    <3>2. p = r.path
      BY <2>2, <3>1
    <3> QED BY <2>1, <2>2, <2>3, <2>11, <3>1, <3>2 DEF WasCompared
  <2>13. CASE Move(P)
    <3>1. r.kind = "move"
      BY <2>1, <2>13 DEF Move
    <3>2. r.dest \in r.touched \/ WasSeen(r, r.dest)
      BY <2>2, <2>3, <3>1 DEF WasCompared, WasSeen
    <3> QED BY <2>1, <2>2, <2>3, <2>4, <2>11, <3>1, <3>2 DEF WasCompared
  <2> QED BY <2>9, <2>10, <2>12, <2>13
<1>2. DocumentsInv /\ [DocumentsNext]_vars =>
        [\A P \in Procs, p \in Paths : Replaces(P, p) =>
            /\ WasSeen(ops[P], p) \/ p \in ops[P].touched
            /\ ops[P].create => disk[p] = Absent]_vars
    BY <1>1
<1> QED BY <1>2, DocumentsAreInOrder, PTL DEF DocumentsSpec, NothingUnseenIsLost
=============================================================================
