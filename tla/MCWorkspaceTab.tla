---------------------------- MODULE MCWorkspaceTab ----------------------------
(* A browser tab of the workspace UI, for TLC.  Its chat page, document    *)
(* editor and calendar share no state: what they do is what each does,     *)
(* side by side.  A behaviour of this run is one of them, chosen at the    *)
(* start.                                                                  *)
EXTENDS ChatTab, Editor, Calendar

VARIABLE part

WorkspaceTabInit ==
    TabInit /\ EditorInit /\ CalendarInit /\ part \in {"chat", "documents", "calendar"}

OnChatPage == part = "chat" /\ TabNext /\ UNCHANGED <<editorVars, calendarVars, part>>
InDocuments == part = "documents" /\ EditorNext /\ UNCHANGED <<tabVars, calendarVars, part>>
InCalendar == part = "calendar" /\ CalendarNext /\ UNCHANGED <<tabVars, editorVars, part>>

WorkspaceTabSpec ==
    /\ WorkspaceTabInit
    /\ [][OnChatPage \/ InDocuments \/ InCalendar]_<<tabVars, editorVars, calendarVars, part>>
    /\ TabFairness /\ EditorFairness

TypesOK == TabTypeOK /\ EditorTypeOK /\ CalendarTypeOK
=============================================================================
