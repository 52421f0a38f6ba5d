-------------------------------- MODULE Editor --------------------------------
(***************************************************************************)
(* The document editor of a browser tab                                    *)
(* (packages/workspace-ui/src/client/App.tsx).                             *)
(*                                                                         *)
(* The tab holds a file as it was loaded or saved last, and a draft.  Its  *)
(* asynchronous functions keep the file and the draft that they captured   *)
(* when they began, and what they are answered is applied to a tab that    *)
(* may show another file by then.  At once there may be under way: the     *)
(* loading of the file opened last (answers to earlier ones are dropped),  *)
(* one save, one of rename, move and delete, one of creating and fixing a  *)
(* file, and the refresh of the file shown every ten seconds.  The server  *)
(* compares revisions and acts in one step; agents edit the workspace      *)
(* behind it.                                                              *)
(*                                                                         *)
(* Dialogs lie over the page, but they neither keep the focus nor take the *)
(* keyboard: the editor and the shortcuts work under them, and the dialogs *)
(* of creating and fixing can be closed while their request is under way.  *)
(* So no dialog keeps the user from anything in this model.                *)
(*                                                                         *)
(* A text names the document it belongs to, so that one can tell when it   *)
(* ends in another: an edit is a new text of the document whose text was   *)
(* edited.  A revision is the hash of a text, and so the text stands for   *)
(* it.  Memory documents, artifacts, skills, ignored findings and the      *)
(* other tabs are left out.                                                *)
(***************************************************************************)
EXTENDS Integers, FiniteSets

CONSTANTS Paths,       \* paths of the workspace
          Documents,   \* the documents that are there at first: a subset of the paths
          NoPath,      \* no file is shown
          MaxEdits,    \* bound: texts typed, by the user or by agents
          MaxRequests  \* bound: files opened, saved, renamed, created and deleted

ASSUME EditorNames ==
    /\ Documents \subseteq Paths /\ NoPath \notin Paths
    /\ MaxEdits \in Nat /\ MaxRequests \in Nat

VARIABLES
    disk,      \* the text at each path
    file,      \* the file shown: its path, and its text as last loaded or saved
    draft,     \* the text in the editor
    opening,   \* openFile: the request of the latest sequence number
    saving,    \* save(): what it captured, and what follows it
    dialog,    \* the file that "Keep your draft?" asks about, if it is open
    fileOp,    \* rename, move or delete: its dialog, and then its request
    making,    \* the creation of a file, or the fix of a finding in one
    sync,      \* syncWorkspace: what it captured
    conflict,  \* the conflict message is shown
    failed,    \* documentError: another message, with a button to retry, is shown
    edits,     \* how many texts have been typed
    requests,  \* how many requests have been made
    crossed,   \* history: a save was answered when another document was shown
    overtaken, \* history: a draft was left to be replaced by what did not ask for it
    unsaved    \* history: the last text of the user that is neither saved nor discarded

editorVars == <<disk, file, draft, opening, saving, dialog, fileOp, making, sync, conflict,
                failed, edits, requests, crossed, overtaken, unsaved>>

-----------------------------------------------------------------------------
NoText == [document |-> NoPath, n |-> 0]
NoFile == [path |-> NoPath, text |-> NoText]
Closed == "closed"
NotOpening == [stage |-> "off", path |-> NoPath, text |-> NoText]
NotSaving == [stage |-> "off", path |-> NoPath, text |-> NoText, base |-> NoText, next |-> Closed]
NoOp == [stage |-> "off", kind |-> "none", from |-> NoPath, to |-> NoPath, base |-> NoText,
         shown |-> FALSE]
NotMaking == [stage |-> "off", kind |-> "none", path |-> NoPath, base |-> NoText,
              text |-> NoText]
NotSyncing == [stage |-> "off", path |-> NoPath, base |-> NoText, text |-> NoText]

Dirty == file.path # NoPath /\ file.text # draft

(* A request is under way that is to replace the draft when it is answered:*)
(* a save that something follows, a file operation on the file shown, or   *)
(* the making of a file, which is opened at the end.                       *)
Replacing ==
    \/ saving.next # Closed
    \/ fileOp.stage \notin {"off", "asked"} /\ fileOp.shown
    \/ making.stage # "off"

Asked == requests < MaxRequests /\ requests' = requests + 1

(* What is put on screen in place of the file and the draft.               *)
Put(path, text) ==
    /\ file' = [path |-> path, text |-> text]
    /\ draft' = text

Opens(path) == opening' = [stage |-> "sent", path |-> path, text |-> NoText]

(* To another file, or to none.                                            *)
GoTo(path) ==
    IF path = NoPath
    THEN Put(NoPath, NoText) /\ UNCHANGED opening
    ELSE Opens(path) /\ UNCHANGED <<file, draft>>

-----------------------------------------------------------------------------
(* The editor is read-only while a file is loading.                        *)
Type ==
    /\ file.path # NoPath /\ opening.stage = "off"
    /\ edits < MaxEdits
    /\ edits' = edits + 1
    /\ draft' = [document |-> draft.document, n |-> edits + 1]
    /\ unsaved' = edits + 1
    /\ overtaken' = (overtaken \/ Replacing)
    /\ UNCHANGED <<disk, file, opening, saving, dialog, fileOp, making, sync, conflict,
                   failed, requests, crossed>>

(* requestOpenFile, and the Back button, which also asks about the file    *)
(* that is shown.                                                          *)
AskToOpen(path) ==
    /\ path = file.path => Dirty
    /\ Asked
    /\ IF Dirty
       THEN dialog' = path /\ UNCHANGED <<file, draft, opening, conflict, failed>>
       ELSE GoTo(path) /\ conflict' = FALSE /\ failed' = FALSE /\ UNCHANGED dialog
    /\ UNCHANGED <<disk, saving, fileOp, making, sync, edits, crossed,
                   overtaken, unsaved>>

(* "Retry", beside whatever message is shown, opens the file shown again   *)
(* and asks for no draft.                                                  *)
Reopen ==
    /\ failed /\ file.path # NoPath
    /\ Asked
    /\ Opens(file.path) /\ conflict' = FALSE /\ failed' = FALSE
    /\ overtaken' = (overtaken \/ Dirty)
    /\ UNCHANGED <<disk, file, draft, saving, dialog, fileOp, making, sync, edits, crossed,
                   unsaved>>

OpenReads ==
    /\ opening.stage = "sent"
    /\ opening' = [opening EXCEPT !.stage = "read", !.text = disk[opening.path]]
    /\ UNCHANGED <<disk, file, draft, saving, dialog, fileOp, making, sync, conflict, failed,
                   edits, requests, crossed, overtaken, unsaved>>

(* The draft of the file shown before is kept.                             *)
OpensUnderDraft ==
    /\ opening.stage = "read"
    /\ opening' = NotOpening
    /\ file' = IF opening.text = NoText THEN file
               ELSE [path |-> opening.path, text |-> opening.text]
    /\ UNCHANGED <<disk, draft, saving, dialog, fileOp, making, sync, conflict, failed, edits,
                   requests, crossed, overtaken, unsaved>>

(* A file that is gone leaves what is shown, with a message.               *)
Opened ==
    /\ opening.stage = "read"
    /\ opening' = NotOpening
    /\ IF opening.text = NoText THEN failed' = TRUE /\ UNCHANGED <<file, draft>>
       ELSE Put(opening.path, opening.text) /\ UNCHANGED failed
    /\ UNCHANGED <<disk, saving, dialog, fileOp, making, sync, conflict, edits, requests,
                   crossed, overtaken, unsaved>>

KeepEditing ==
    /\ dialog # Closed
    /\ dialog' = Closed
    /\ UNCHANGED <<disk, file, draft, opening, saving, fileOp, making, sync, conflict, failed,
                   edits, requests, crossed, overtaken, unsaved>>

Discard ==
    /\ dialog # Closed
    /\ dialog' = Closed
    /\ unsaved' = 0
    /\ IF dialog = NoPath
       THEN Put(NoPath, NoText) /\ UNCHANGED <<opening, conflict, failed>>
       ELSE /\ draft' = file.text /\ Opens(dialog) /\ UNCHANGED file
            /\ conflict' = FALSE /\ failed' = FALSE
    /\ UNCHANGED <<disk, saving, fileOp, making, sync, edits, requests, crossed, overtaken>>

-----------------------------------------------------------------------------
(* save(), of the button and the shortcut, and before what is to follow.   *)
StartSave(next) ==
    /\ file.path # NoPath /\ saving.stage = "off"
    /\ saving' = [stage |-> "sent", path |-> file.path, text |-> draft, base |-> file.text,
                  next |-> next]
    /\ conflict' = FALSE /\ failed' = FALSE

Save ==
    /\ Dirty
    /\ Asked
    /\ StartSave(Closed)
    /\ UNCHANGED <<disk, file, draft, opening, dialog, fileOp, making, sync, edits, crossed,
                   overtaken, unsaved>>

SaveAndContinue ==
    /\ dialog # Closed
    /\ Asked
    /\ StartSave(dialog)
    /\ UNCHANGED <<disk, file, draft, opening, dialog, fileOp, making, sync, edits, crossed,
                   overtaken, unsaved>>

SaveReachesServer ==
    /\ saving.stage = "sent"
    /\ IF disk[saving.path] = saving.base
       THEN /\ disk' = [disk EXCEPT ![saving.path] = saving.text]
            /\ saving' = [saving EXCEPT !.stage = "saved"]
            /\ unsaved' = IF unsaved = saving.text.n THEN 0 ELSE unsaved
       ELSE saving' = [saving EXCEPT !.stage = "conflict"] /\ UNCHANGED <<disk, unsaved>>
    /\ UNCHANGED <<file, draft, opening, dialog, fileOp, making, sync, conflict, failed,
                   edits, requests, crossed, overtaken>>

(* The file that was saved is shown with the draft that there is by now;   *)
(* then the tree and the diagnostics are loaded again.                     *)
Saved ==
    /\ saving.stage = "saved"
    /\ saving' = [saving EXCEPT !.stage = "listing"]
    /\ file' = [path |-> saving.path, text |-> saving.text]
    /\ crossed' = (crossed \/ file.path # saving.path
                           \/ file.text.document # saving.text.document)
    /\ UNCHANGED <<disk, draft, opening, dialog, fileOp, making, sync, conflict, failed,
                   edits, requests, overtaken, unsaved>>

(* What was to follow the save begins.                                     *)
SaveEnds ==
    /\ saving.stage = "listing"
    /\ saving' = NotSaving
    /\ IF saving.next = Closed THEN UNCHANGED <<file, draft, opening, dialog>>
       ELSE GoTo(saving.next) /\ dialog' = Closed
    /\ conflict' = (conflict /\ saving.next \notin Paths)
    /\ failed' = (failed /\ saving.next \notin Paths)
    /\ fileOp' = IF fileOp.stage = "saving" THEN [fileOp EXCEPT !.stage = "sent"] ELSE fileOp
    /\ making' = IF making.stage = "saving" THEN [making EXCEPT !.stage = "sent"] ELSE making
    /\ UNCHANGED <<disk, sync, edits, requests, crossed, overtaken, unsaved>>

(* A conflict, a call that does not arrive, an answer that is lost, or a   *)
(* tree that cannot be loaded.  What was to follow does not: the dialog    *)
(* of a rename stays, and so would the one of a creation.                  *)
SaveFails ==
    /\ saving.stage # "off"
    /\ saving' = NotSaving
    /\ conflict' = (conflict \/ saving.stage = "conflict")
    /\ failed' = (failed \/ saving.stage # "conflict")
    /\ fileOp' = IF fileOp.stage = "saving" THEN [fileOp EXCEPT !.stage = "asked"] ELSE fileOp
    /\ making' = IF making.stage = "saving" THEN NotMaking ELSE making
    /\ UNCHANGED <<disk, file, draft, opening, dialog, sync, edits, requests, crossed,
                   overtaken, unsaved>>

-----------------------------------------------------------------------------
(* requestRename, requestMove and requestDelete, of the file shown or of   *)
(* another one in the tree: the revision of the file shown is captured.    *)
AskOp(kind, path) ==
    /\ fileOp.stage = "off"
    /\ disk[path] # NoText \/ file.path = path
    /\ Asked
    /\ fileOp' = [NoOp EXCEPT !.stage = "asked", !.kind = kind, !.from = path,
                              !.base = IF file.path = path THEN file.text ELSE NoText]
    /\ UNCHANGED <<disk, file, draft, opening, saving, dialog, making, sync, conflict, failed,
                   edits, crossed, overtaken, unsaved>>

CancelOp ==
    /\ fileOp.stage = "asked"
    /\ fileOp' = NoOp
    /\ UNCHANGED <<disk, file, draft, opening, saving, dialog, making, sync, conflict, failed,
                   edits, requests, crossed, overtaken, unsaved>>

(* handleRename and handleMove: a dirty draft is saved first, but the      *)
(* revision is the one from before the save.                               *)
Rename(to) ==
    LET shown == file.path = fileOp.from
        begun == [fileOp EXCEPT !.stage = "sent", !.to = to, !.shown = shown,
                                !.base = IF shown THEN file.text ELSE fileOp.base]
    IN  /\ fileOp.stage = "asked" /\ fileOp.kind = "rename" /\ to # fileOp.from
        /\ IF shown /\ Dirty
           THEN StartSave(Closed) /\ fileOp' = [begun EXCEPT !.stage = "saving"]
           ELSE fileOp' = begun /\ UNCHANGED <<saving, conflict, failed>>
        /\ UNCHANGED <<disk, file, draft, opening, dialog, making, sync, edits, requests,
                       crossed, overtaken, unsaved>>

(* deleteFile                                                              *)
Delete ==
    /\ fileOp.stage = "asked" /\ fileOp.kind = "delete"
    /\ fileOp' = [fileOp EXCEPT !.stage = "sent", !.shown = file.path = fileOp.from]
    /\ conflict' = FALSE /\ failed' = FALSE
    /\ UNCHANGED <<disk, file, draft, opening, saving, dialog, making, sync, edits, requests,
                   crossed, overtaken, unsaved>>

(* Without a revision the present one is asked for first.                  *)
OpReachesServer ==
    LET from == fileOp.from
        to == fileOp.to
        renames == fileOp.kind = "rename"
        allowed == /\ disk[from] # NoText /\ fileOp.base \in {NoText, disk[from]}
                   /\ renames => disk[to] = NoText
    IN  /\ fileOp.stage = "sent"
        /\ fileOp' = [fileOp EXCEPT !.stage =
                          IF allowed THEN "done"
                          ELSE IF ~renames /\ disk[from] = NoText THEN "gone" ELSE "refused"]
        /\ disk' = IF ~allowed THEN disk
                   ELSE [p \in Paths |-> IF p = from THEN NoText
                                         ELSE IF renames /\ p = to THEN disk[from]
                                         ELSE disk[p]]
        /\ UNCHANGED <<file, draft, opening, saving, dialog, making, sync, conflict, failed,
                       edits, requests, crossed, overtaken, unsaved>>

(* If the file was shown when it was confirmed, the new path is opened, or *)
(* the editor closed, whatever is shown by now.                            *)
OpDone ==
    /\ fileOp.stage = "done"
    /\ fileOp' = NoOp
    /\ IF ~fileOp.shown THEN UNCHANGED <<file, draft, opening, conflict, failed, unsaved>>
       ELSE /\ GoTo(fileOp.to)
            /\ conflict' = FALSE /\ failed' = FALSE
            /\ unsaved' = IF fileOp.to = NoPath /\ file.path = fileOp.from THEN 0 ELSE unsaved
    /\ UNCHANGED <<disk, saving, dialog, making, sync, edits, requests, crossed, overtaken>>

(* A deletion of a file that is gone closes whatever is shown.             *)
OpGone ==
    /\ fileOp.stage = "gone"
    /\ fileOp' = NoOp
    /\ Put(NoPath, NoText)
    /\ conflict' = FALSE /\ failed' = TRUE
    /\ overtaken' = (overtaken \/ (Dirty /\ file.path # fileOp.from))
    /\ unsaved' = IF file.path = fileOp.from THEN 0 ELSE unsaved
    /\ UNCHANGED <<disk, opening, saving, dialog, making, sync, edits, requests, crossed>>

(* The dialog of a rename stays, with the message; a deletion of a file    *)
(* that has changed shows the conflict.  Any other failure, and a lost     *)
(* answer, leaves the dialog as well.                                      *)
OpRefused ==
    /\ fileOp.stage \in {"done", "gone", "refused"}
    /\ IF fileOp.kind = "delete" /\ fileOp.stage = "refused"
       THEN fileOp' = NoOp /\ conflict' = TRUE /\ UNCHANGED failed
       ELSE /\ fileOp' = [fileOp EXCEPT !.stage = "asked", !.to = NoPath, !.shown = FALSE]
            /\ failed' = (failed \/ fileOp.kind = "delete")
            /\ UNCHANGED conflict
    /\ UNCHANGED <<disk, file, draft, opening, saving, dialog, making, sync, edits, requests,
                   crossed, overtaken, unsaved>>

-----------------------------------------------------------------------------
(* handleCreateFile: a dirty draft is saved first.                         *)
Create(path) ==
    LET begun == [NotMaking EXCEPT !.stage = "sent", !.kind = "create", !.path = path,
                                   !.text = [document |-> path, n |-> 0]]
    IN  /\ making.stage = "off"
        /\ Asked
        /\ IF Dirty
           THEN StartSave(Closed) /\ making' = [begun EXCEPT !.stage = "saving"]
           ELSE making' = begun /\ UNCHANGED <<saving, conflict, failed>>
        /\ UNCHANGED <<disk, file, draft, opening, dialog, fileOp, sync, edits, crossed,
                       overtaken, unsaved>>

(* The fix of a finding in the file shown, as it was previewed, be there a *)
(* draft or not.                                                           *)
Fix ==
    /\ making.stage = "off"
    /\ file.path # NoPath /\ disk[file.path] # NoText
    /\ Asked
    /\ edits < MaxEdits
    /\ edits' = edits + 1
    /\ making' = [stage |-> "sent", kind |-> "fix", path |-> file.path, base |-> disk[file.path],
                  text |-> [disk[file.path] EXCEPT !.n = edits + 1]]
    /\ overtaken' = (overtaken \/ Dirty)
    /\ UNCHANGED <<disk, file, draft, opening, saving, dialog, fileOp, sync, conflict, failed,
                   crossed, unsaved>>

MakingReachesServer ==
    /\ making.stage = "sent"
    /\ IF disk[making.path] = making.base
       THEN /\ disk' = [disk EXCEPT ![making.path] = making.text]
            /\ making' = [making EXCEPT !.stage = "done"]
       ELSE making' = [making EXCEPT !.stage = "refused"] /\ UNCHANGED disk
    /\ UNCHANGED <<file, draft, opening, saving, dialog, fileOp, sync, conflict, failed, edits,
                   requests, crossed, overtaken, unsaved>>

(* After a creation the dialog is closed, and the tree, the diagnostics    *)
(* and more are loaded.                                                    *)
Created ==
    /\ making.stage = "done" /\ making.kind = "create"
    /\ making' = [making EXCEPT !.stage = "listing"]
    /\ UNCHANGED <<disk, file, draft, opening, saving, dialog, fileOp, sync, conflict, failed,
                   edits, requests, crossed, overtaken, unsaved>>

(* The file is opened, whatever is shown and typed by now.                 *)
MadeIsOpened ==
    /\ making.stage = IF making.kind = "create" THEN "listing" ELSE "done"
    /\ making' = NotMaking
    /\ Opens(making.path) /\ conflict' = FALSE /\ failed' = FALSE
    /\ UNCHANGED <<disk, file, draft, saving, dialog, fileOp, sync, edits, requests, crossed,
                   overtaken, unsaved>>

(* Refused, or the answer is lost: the dialog, if it is still there, says  *)
(* so.                                                                     *)
MakingFails ==
    /\ making.stage \in {"done", "refused"}
    /\ making' = NotMaking
    /\ UNCHANGED <<disk, file, draft, opening, saving, dialog, fileOp, sync, conflict, failed,
                   edits, requests, crossed, overtaken, unsaved>>

-----------------------------------------------------------------------------
(* syncWorkspace                                                           *)
SyncStarts ==
    /\ sync.stage = "off" /\ file.path # NoPath
    /\ sync' = [stage |-> "sent", path |-> file.path, base |-> file.text, text |-> NoText]
    /\ UNCHANGED <<disk, file, draft, opening, saving, dialog, fileOp, making, conflict,
                   failed, edits, requests, crossed, overtaken, unsaved>>

SyncReads ==
    /\ sync.stage = "sent"
    /\ sync' = [sync EXCEPT !.stage = "read", !.text = disk[sync.path]]
    /\ UNCHANGED <<disk, file, draft, opening, saving, dialog, fileOp, making, conflict,
                   failed, edits, requests, crossed, overtaken, unsaved>>

(* Nothing happens when the file shown is no longer the one captured, at   *)
(* its revision.  A clean file follows the disk, a draft is kept.          *)
StillShown == file.path = sync.path /\ file.text = sync.base
(* A draft is replaced like a clean file.                                  *)
SyncedOverDraft ==
    /\ sync.stage = "read"
    /\ sync' = NotSyncing
    /\ IF ~StillShown \/ sync.text = sync.base
       THEN UNCHANGED <<file, draft>>
       ELSE Put(IF sync.text = NoText THEN NoPath ELSE sync.path, sync.text)
    /\ UNCHANGED <<disk, opening, saving, dialog, fileOp, making, conflict, failed, edits,
                   requests, crossed, overtaken, unsaved>>

(* A file that is gone stays on screen.                                    *)
SyncedKeepsDeleted ==
    /\ sync.stage = "read"
    /\ sync' = NotSyncing
    /\ IF ~StillShown \/ sync.text \in {sync.base, NoText} \/ Dirty
       THEN UNCHANGED <<file, draft>>
       ELSE Put(sync.path, sync.text)
    /\ UNCHANGED <<disk, opening, saving, dialog, fileOp, making, conflict, failed, edits,
                   requests, crossed, overtaken, unsaved>>

Synced ==
    /\ sync.stage = "read"
    /\ sync' = NotSyncing
    /\ IF ~StillShown \/ sync.text = sync.base
       THEN UNCHANGED <<file, draft, conflict, failed>>
       ELSE IF Dirty
       THEN conflict' = TRUE /\ UNCHANGED <<file, draft, failed>>
       ELSE /\ conflict' = FALSE
            /\ failed' = (failed \/ sync.text = NoText)
            /\ Put(IF sync.text = NoText THEN NoPath ELSE sync.path, sync.text)
    /\ UNCHANGED <<disk, opening, saving, dialog, fileOp, making, edits, requests, crossed,
                   overtaken, unsaved>>

(* An agent edits or deletes a document.                                   *)
AgentEdits(p) ==
    /\ disk[p] # NoText
    /\ edits < MaxEdits
    /\ edits' = edits + 1
    /\ \/ disk' = [disk EXCEPT ![p].n = edits + 1]
       \/ disk' = [disk EXCEPT ![p] = NoText]
    /\ UNCHANGED <<file, draft, opening, saving, dialog, fileOp, making, sync, conflict,
                   failed, requests, crossed, overtaken, unsaved>>

-----------------------------------------------------------------------------
EditorInit ==
    /\ disk = [p \in Paths |-> IF p \in Documents THEN [document |-> p, n |-> 0] ELSE NoText]
    /\ file = NoFile /\ draft = NoText
    /\ opening = NotOpening /\ saving = NotSaving /\ sync = NotSyncing
    /\ dialog = Closed /\ fileOp = NoOp /\ making = NotMaking
    /\ conflict = FALSE /\ failed = FALSE
    /\ edits = 0 /\ requests = 0
    /\ crossed = FALSE /\ overtaken = FALSE /\ unsaved = 0

Answers ==
    \/ OpenReads \/ Opened
    \/ SaveReachesServer \/ Saved \/ SaveEnds \/ SaveFails
    \/ OpReachesServer \/ OpDone \/ OpGone \/ OpRefused
    \/ MakingReachesServer \/ Created \/ MadeIsOpened \/ MakingFails
Refresh == SyncStarts \/ SyncReads \/ Synced
UserActs ==
    \/ Type \/ KeepEditing \/ Discard \/ Save \/ SaveAndContinue \/ Reopen
    \/ \E path \in Paths \cup {NoPath} : AskToOpen(path)
    \/ \E kind \in {"rename", "delete"}, path \in Paths : AskOp(kind, path)
    \/ CancelOp \/ Delete \/ Fix
    \/ \E path \in Paths : Rename(path) \/ Create(path)

EditorNext == Answers \/ Refresh \/ UserActs \/ \E p \in Paths : AgentEdits(p)

EditorSpec == EditorInit /\ [][EditorNext]_editorVars

(* Calls are answered, and the tab, which is visible, is refreshed.        *)
EditorFairness == WF_editorVars(Answers) /\ WF_editorVars(Refresh)
FairEditorSpec == EditorSpec /\ EditorFairness

-----------------------------------------------------------------------------
EditorTypeOK ==
    LET places == Paths \cup {NoPath}
        texts == [document : places, n : 0..MaxEdits]
    IN  /\ disk \in [Paths -> texts]
        /\ file \in [path : places, text : texts] /\ draft \in texts
        /\ opening \in [stage : {"off", "sent", "read"}, path : places, text : texts]
        /\ saving \in [stage : {"off", "sent", "saved", "conflict", "listing"}, path : places,
                       text : texts,
                       base : texts, next : places \cup {Closed}]
        /\ dialog \in places \cup {Closed}
        /\ fileOp \in [stage : {"off", "asked", "saving", "sent", "done", "refused", "gone"},
                       kind : {"none", "rename", "delete"}, from : places, to : places,
                       base : texts, shown : BOOLEAN]
        /\ making \in [stage : {"off", "saving", "sent", "done", "refused", "listing"},
                       kind : {"none", "create", "fix"}, path : places, base : texts,
                       text : texts]
        /\ sync \in [stage : {"off", "sent", "read"}, path : places, base : texts, text : texts]
        /\ edits \in 0..MaxEdits /\ unsaved \in 0..MaxEdits /\ requests \in 0..MaxRequests
        /\ {conflict, failed, crossed, overtaken} \subseteq BOOLEAN

(* The text of one document is never saved in another, unless a save was   *)
(* answered after another document had been opened, be it one that was     *)
(* moved to the same path: the answer brings the saved file back to the    *)
(* screen, with the other document's text as its draft.                    *)
TextsStayHome ==
    [][\A p \in Paths :
          disk[p] # NoText /\ disk'[p] # NoText /\ ~crossed => disk'[p].document = disk[p].document
      ]_editorVars

(* An edit is not lost: it is saved or discarded, or stays in the editor,  *)
(* also when the file is refreshed, opened late, renamed or deleted        *)
(* elsewhere, or another one deleted.  Excepted are a save that is         *)
(* answered under another document, and a draft that the code replaces     *)
(* without asking: one that was typed while a request that replaces it was *)
(* under way, that "Retry" or a fix loads over, or that is on screen when  *)
(* the deletion of another file finds that one gone.                       *)
DraftsSurvive == unsaved # 0 /\ ~crossed /\ ~overtaken => draft.n = unsaved

(* What App.test.tsx calls "protects a dirty draft before switching        *)
(* documents", of a document that has just been created: it is not put in  *)
(* the place of a draft.  The dialog is closed by the answer, and the file *)
(* is opened later.                                                        *)
CreatedLeavesDrafts ==
    [][draft'.document # draft.document /\ draft'.document \in Paths \ Documents =>
           unsaved = 0
      ]_editorVars

(* handleRename answers a 409 with "The file was modified elsewhere or the *)
(* target name already exists.": the revision it sends is the one from     *)
(* before its own save.                                                    *)
RefusalsAreTrue ==
    [][fileOp.kind = "rename" /\ fileOp.stage = "sent" /\ fileOp'.stage = "refused" =>
           \/ disk[fileOp.to] # NoText
           \/ file # [path |-> fileOp.from, text |-> disk[fileOp.from]]
      ]_editorVars

(* What changes on disk under the file shown reaches the tab: a clean file *)
(* follows it, over a draft the conflict is shown, or something else is    *)
(* done with it.                                                           *)
ChangesAreNoticed ==
    \A p \in Paths :
        (file.path = p /\ disk[p] # file.text) ~>
            (file.path # p \/ disk[p] = file.text \/ (Dirty /\ conflict))
=============================================================================
