------------------------------- MODULE Calendar -------------------------------
(***************************************************************************)
(* Appointments made in the workspace UI                                   *)
(* (packages/workspace-ui: server/calendar.ts and client/openui/calendar). *)
(*                                                                         *)
(* A calendar is a Remind file and the files it includes.  The editor of a *)
(* new appointment is opened on a calendar that was loaded, and saves with *)
(* the revision of that load and a requestId of its own, once for every    *)
(* press of the button that no other save of it is waiting for.  create    *)
(* reads the files, has Remind evaluate them with the new line, which may  *)
(* take up to five seconds in which the server does other things, reads    *)
(* the files again and writes.  Agents and other programs write to the     *)
(* same files at any time.                                                 *)
(*                                                                         *)
(* A revision is the hash of all the files, so it is taken to be their     *)
(* content.  The main file is the sequence of its lines: an appointment's  *)
(* requestId (its TAG) and fields.  A synchronous run of the server is one *)
(* step.                                                                   *)
(***************************************************************************)
EXTENDS Integers, Sequences

LOCAL INSTANCE SequencesExt

CONSTANTS Requests,    \* requestIds: each is one opening of the editor
          Foreign,     \* the TAG of a line that was not made in the UI
          MaxCalls,    \* bound: POST requests to /api/workspace/calendar
          MaxForeign   \* bound: changes made by other programs

ASSUME CalendarBounds == MaxCalls \in Nat /\ MaxForeign \in Nat /\ Foreign \notin Requests

VARIABLES
    root,     \* the lines of the calendar's main file
    include,  \* the content of the file it includes
    editors,  \* the editor of each requestId
    posts,    \* the POST requests and how far create is with each
    foreign   \* how many changes other programs made

calendarVars == <<root, include, editors, posts, foreign>>

-----------------------------------------------------------------------------
(* What the user entered: any of two variants.                             *)
Fields == 1..2
Line(r, fields) == [tag |-> r, fields |-> fields]
Lines == [tag : Requests \cup {Foreign}, fields : Fields]

(* snapshot: all the files of the calendar, which its revision is of.      *)
Snapshot == [root |-> root, include |-> include]
NoSnapshot == [root |-> <<>>, include |-> 0]

(* The appointment has its TAG in the main file.                           *)
OnFile(r) == \E i \in DOMAIN root : root[i].tag = r

(* The first such line has the fields of the request (matches).            *)
SameOnFile(r, fields) ==
    \E i \in DOMAIN root : /\ root[i] = Line(r, fields)
                           /\ \A k \in 1..(i - 1) : root[k].tag # r

EditorStages == {"new", "open", "saving", "closed"}
Results == {"saved", "revision_conflict", "request_conflict", "failed"}
PostStages == {"unsent", "sent", "replaying", "evaluating", "loading", "over"} \cup Results

NoPost == [stage |-> "unsent", request |-> Foreign, fields |-> 1, expected |-> NoSnapshot,
           same |-> FALSE]

(* Request n is answered, if its editor still waits for it.                *)
Awaited(n) == \E r \in Requests : editors[r].post = n
AnsweredWith(n, result) ==
    posts' = [posts EXCEPT ![n] =
        [NoPost EXCEPT !.stage = IF Awaited(n) THEN result ELSE "over"]]

CalendarInit ==
    /\ root = <<>>
    /\ include = 1
    /\ editors = [r \in Requests |-> [stage |-> "new", fields |-> 1, shown |-> NoSnapshot, post |-> 0]]
    /\ posts = [n \in 1..MaxCalls |-> NoPost]
    /\ foreign = 0

-----------------------------------------------------------------------------
(* The client.  A new appointment is begun on the calendar as the view     *)
(* loaded it; while the editor is open nothing is loaded again.            *)
NewAppointment(r) ==
    /\ editors[r].stage = "new"
    /\ editors' = [editors EXCEPT ![r].stage = "open", ![r].shown = Snapshot]
    /\ UNCHANGED <<root, include, posts, foreign>>

EditFields(r) ==
    /\ editors[r].stage = "open"
    /\ \E f \in Fields \ {editors[r].fields} : editors' = [editors EXCEPT ![r].fields = f]
    /\ UNCHANGED <<root, include, posts, foreign>>

(* onSubmit, unless a save is waiting (savingRef).                         *)
SaveAppointment(r) ==
    /\ editors[r].stage = "open"
    /\ \E n \in 1..MaxCalls :
        /\ \A k \in 1..MaxCalls : posts[k].stage = "unsent" <=> k >= n
        /\ posts' = [posts EXCEPT ![n] =
                [NoPost EXCEPT !.stage = "sent", !.request = r, !.fields = editors[r].fields,
                               !.expected = editors[r].shown]]
        /\ editors' = [editors EXCEPT ![r].stage = "saving", ![r].post = n]
    /\ UNCHANGED <<root, include, foreign>>

(* The answer: the editor closes, or shows the error and stays open.       *)
SaveAnswered(r) ==
    LET n == editors[r].post
    IN  /\ editors[r].stage = "saving"
        /\ posts[n].stage \in Results
        /\ editors' = [editors EXCEPT ![r].post = 0,
                ![r].stage = IF posts[n].stage = "saved" THEN "closed" ELSE "open"]
        /\ posts' = [posts EXCEPT ![n] = [NoPost EXCEPT !.stage = "over"]]
        /\ UNCHANGED <<root, include, foreign>>

(* The connection breaks: the editor shows the error, and the server goes  *)
(* on with the request.                                                    *)
ConnectionBreaks(r) ==
    /\ editors[r].stage = "saving"
    /\ editors' = [editors EXCEPT ![r].stage = "open", ![r].post = 0]
    /\ UNCHANGED <<root, include, posts, foreign>>

CancelEditor(r) ==
    /\ editors[r].stage = "open"
    /\ editors' = [editors EXCEPT ![r].stage = "closed"]
    /\ UNCHANGED <<root, include, posts, foreign>>

-----------------------------------------------------------------------------
(* create, up to the first await: a request that is on file is replayed,   *)
(* one that expects another revision is refused, any other is evaluated    *)
(* with its line added to what was read, which is what it expects.         *)
BeginsRebased(n) ==
    /\ posts[n].stage = "sent"
    /\ posts' = [posts EXCEPT ![n].stage = "evaluating", ![n].expected = Snapshot]
    /\ UNCHANGED <<root, include, editors, foreign>>
Begins(n) ==
    LET p == posts[n]
    IN  /\ p.stage = "sent"
        /\ IF OnFile(p.request)
           THEN posts' = [posts EXCEPT ![n].stage = "replaying",
                                       ![n].same = SameOnFile(p.request, p.fields)]
           ELSE IF Snapshot # p.expected
           THEN AnsweredWith(n, "revision_conflict")
           ELSE posts' = [posts EXCEPT ![n].stage = "evaluating"]
        /\ UNCHANGED <<root, include, editors, foreign>>

(* Remind has evaluated the replayed calendar, or failed.                  *)
Replays(n) ==
    /\ posts[n].stage = "replaying"
    /\ \E result \in {IF posts[n].same THEN "saved" ELSE "request_conflict", "failed"} :
        AnsweredWith(n, result)
    /\ UNCHANGED <<root, include, editors, foreign>>

(* Remind failed on the calendar with the new line, or gave other fields.  *)
EvaluationFails(n) ==
    /\ posts[n].stage = "evaluating"
    /\ AnsweredWith(n, "failed")
    /\ UNCHANGED <<root, include, editors, foreign>>

(* It succeeded: the files are read again, and the main file is written    *)
(* with the line that was added to what was read first.                    *)
UnchangedRoot(p) == root = p.expected.root
Unchanged(p) == Snapshot = p.expected
WritesFile(n) ==
    LET p == posts[n]
    IN  /\ p.stage = "evaluating"
        /\ IF Unchanged(p)
           THEN /\ root' = Append(p.expected.root, Line(p.request, p.fields))
                /\ posts' = [posts EXCEPT ![n].stage = "loading"]
           ELSE AnsweredWith(n, "revision_conflict") /\ UNCHANGED root
        /\ UNCHANGED <<include, editors, foreign>>

(* The calendar is loaded once more for the answer.  An error here is the  *)
(* answer to a request that was carried out.                               *)
LoadsAgain(n) ==
    /\ posts[n].stage = "loading"
    /\ \E result \in {"saved", "failed"} : AnsweredWith(n, result)
    /\ UNCHANGED <<root, include, editors, foreign>>

(* The server is stopped and started: what it was doing is gone.           *)
ServerRestarts ==
    /\ \E n \in 1..MaxCalls : posts[n].stage \notin Results \cup {"unsent", "over"}
    /\ posts' = [n \in 1..MaxCalls |->
            IF posts[n].stage = "unsent" THEN NoPost ELSE [NoPost EXCEPT !.stage = "over"]]
    /\ editors' = [r \in Requests |->
            IF editors[r].stage = "saving"
            THEN [editors[r] EXCEPT !.stage = "open", !.post = 0] ELSE editors[r]]
    /\ UNCHANGED <<root, include, foreign>>

-----------------------------------------------------------------------------
(* Other programs add and remove lines, and change the included file.      *)
OthersWrite ==
    /\ foreign < MaxForeign
    /\ foreign' = foreign + 1
    /\ \/ root' = Append(root, Line(Foreign, 1)) /\ UNCHANGED include
       \/ \E i \in DOMAIN root : root' = RemoveAt(root, i) /\ UNCHANGED include
       \/ include' = 3 - include /\ UNCHANGED root
    /\ UNCHANGED <<editors, posts>>

CalendarNext ==
    \/ \E r \in Requests :
        \/ NewAppointment(r) \/ EditFields(r) \/ SaveAppointment(r)
        \/ SaveAnswered(r) \/ ConnectionBreaks(r) \/ CancelEditor(r)
    \/ \E n \in 1..MaxCalls :
        Begins(n) \/ Replays(n) \/ EvaluationFails(n) \/ WritesFile(n) \/ LoadsAgain(n)
    \/ ServerRestarts
    \/ OthersWrite

CalendarSpec == CalendarInit /\ [][CalendarNext]_calendarVars

-----------------------------------------------------------------------------
Snapshots == [root : Seq(Lines), include : 0..2]

CalendarTypeOK ==
    /\ root \in Seq(Lines)
    /\ include \in 1..2
    /\ editors \in [Requests -> [stage : EditorStages, fields : Fields, shown : Snapshots,
                                 post : 0..MaxCalls]]
    /\ posts \in [1..MaxCalls -> [stage : PostStages, request : Requests \cup {Foreign},
                                  fields : Fields, expected : Snapshots, same : BOOLEAN]]
    /\ foreign \in 0..MaxForeign

(* An appointment is on file once, however often its editor saved it: with *)
(* answers that were lost, two of its requests evaluated at the same time, *)
(* and errors after the file had been written.                             *)
OncePerRequest ==
    \A i, k \in DOMAIN root :
        root[i].tag = root[k].tag /\ root[i].tag # Foreign => i = k

(* The UI changes a calendar only by adding an appointment to exactly the  *)
(* files its user was shown: no line another program wrote during the      *)
(* evaluation is lost, and no included file is another one by then.        *)
JoinsWhatWasShown ==
    [][foreign' = foreign /\ root' # root =>
        \E r \in Requests, f \in Fields : /\ root' = Append(root, Line(r, f))
                                          /\ Snapshot = editors[r].shown]_calendarVars
=============================================================================
