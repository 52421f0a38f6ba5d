------------------------------- MODULE ChatTab -------------------------------
(***************************************************************************)
(* One browser tab on the chat page                                        *)
(* (packages/workspace-ui/src/client/ChatPage.tsx).                        *)
(*                                                                         *)
(* The tab shows one conversation: its messages and its latest run.  Each  *)
(* of its asynchronous functions keeps what it captured when it started,   *)
(* and several are under way at once: the loading of the conversation last *)
(* selected and of those before it, the observer that polls the run shown, *)
(* and one of the actions that the busy flag keeps apart.  An answer is    *)
(* read at the server in one step and reaches the tab in a later one.      *)
(*                                                                         *)
(* The server is what ChatDispatch makes of it: a key is admitted once, a  *)
(* conversation with a run under way refuses another.  Run r of a          *)
(* conversation is its r-th, and its transcript counts the runs whose      *)
(* answer it holds.  Drafts' text, live events, approvals and the list of  *)
(* conversations are left out.                                             *)
(***************************************************************************)
EXTENDS Integers, Sequences, FiniteSets

CONSTANTS Conversations, \* sessions the tab may write to
          None,          \* no session selected
          MaxSelects,    \* bound: conversations opened
          MaxTurns,      \* bound: runs of each conversation
          MaxActs        \* bound: actions started

ASSUME TabNames ==
    /\ None \notin Conversations
    /\ MaxSelects \in Nat /\ MaxTurns \in Nat /\ MaxActs \in Nat

VARIABLES
    server,      \* each conversation's runs, and whether the last one is under way
    pending,     \* sessionStorage chat-pending: the key of each conversation's message
    drafts,      \* which message the draft of each conversation holds
    selected,    \* the conversation shown
    generation,  \* how often another conversation has been opened
    run,         \* the run shown
    messages,    \* the messages shown: of which conversations, up to which run
    ready,       \* conversationReady
    loads,       \* by generation: what select() has got so far
    observer,    \* the polling of the run shown
    act,         \* the action that keeps the tab busy
    acts,        \* how many actions there have been
    flipped,     \* history: an action's answer has changed what is shown of another conversation
    undone,      \* history: a late answer has replaced what the observer showed last
    dropped      \* history: conversations whose key was dropped while it was admitted

tabVars == <<server, pending, drafts, selected, generation, run, messages, ready, loads, observer,
             act, acts, flipped, undone, dropped>>

-----------------------------------------------------------------------------
NoRun == [of |-> None, turn |-> 0, status |-> "none"]
Nothing == [of |-> {}, upto |-> 0]
NoLoad == [of |-> None, upto |-> -1, run |-> NoRun, stage |-> "none"]
NoPoll == [turn |-> 0, of |-> None, stage |-> "off", status |-> "none", upto |-> 0]
NoAct == [kind |-> "none", of |-> None, version |-> 0, run |-> NoRun, key |-> 0,
          told |-> "waiting", upto |-> 0]

Turns(s) == Len(server[s].runs)
(* How many runs the transcript holds the answers of.                      *)
Answered(s) == IF server[s].live THEN Turns(s) - 1 ELSE Turns(s)
StatusOf(s, turn) == IF server[s].live /\ turn = Turns(s) THEN "active" ELSE "ended"
LatestRun(s) ==
    IF Turns(s) = 0 THEN NoRun
    ELSE [of |-> s, turn |-> Turns(s), status |-> StatusOf(s, Turns(s))]

(* The effect that depends on the run's and the conversation's id: when    *)
(* one of them changes the observer is aborted, and a run that is not      *)
(* over gets a new one.                                                    *)
Watch(newRun, newSelected) ==
    observer' =
        IF newRun.of = run.of /\ newRun.turn = run.turn /\ newSelected = selected
        THEN observer
        ELSE IF newRun.status = "active" /\ newSelected # None
             THEN [NoPoll EXCEPT !.turn = newRun.turn, !.of = newRun.of, !.stage = "idle"]
             ELSE NoPoll

(* Showing a run that the tab shows as over already as under way, or with  *)
(* messages of before, undoes that end; the observer does not start again. *)
Undoes(newRun, again) ==
    /\ run.status = "ended" /\ run.of = newRun.of /\ run.turn = newRun.turn
    /\ newRun.status = "active" \/ again

Show(newRun, again) ==
    /\ run' = newRun
    /\ Watch(newRun, selected)
    /\ undone' = (undone \/ Undoes(newRun, again))

-----------------------------------------------------------------------------
(* select(): everything shown is cleared, and the messages and the run are *)
(* asked for at once.                                                      *)
Switch(s) ==
    /\ generation < MaxSelects
    /\ generation' = generation + 1
    /\ selected' = s
    /\ run' = NoRun /\ messages' = Nothing /\ ready' = FALSE
    /\ Watch(NoRun, s)
    /\ loads' = [loads EXCEPT ![generation + 1] = [NoLoad EXCEPT !.of = s, !.stage = "reading"]]
    /\ flipped' = FALSE /\ undone' = FALSE

Select(s) ==
    /\ Switch(s)
    /\ UNCHANGED <<server, pending, drafts, act, acts, dropped>>

(* onSource: the other list is shown, and no conversation.                 *)
Leave ==
    /\ selected # None
    /\ generation < MaxSelects
    /\ generation' = generation + 1
    /\ selected' = None
    /\ run' = NoRun /\ messages' = Nothing
    /\ Watch(NoRun, None)
    /\ UNCHANGED <<server, pending, drafts, ready, loads, act, acts, flipped, undone,
                   dropped>>

LoadMessages(v) ==
    /\ loads[v].stage = "reading" /\ loads[v].upto = -1
    /\ loads' = [loads EXCEPT ![v].upto = Answered(loads[v].of)]
    /\ UNCHANGED <<server, pending, drafts, selected, generation, run, messages, ready, observer,
                   act, acts, flipped, undone, dropped>>

LoadRun(v) ==
    /\ loads[v].stage = "reading"
    /\ loads' = [loads EXCEPT ![v].run = LatestRun(loads[v].of), ![v].stage = "read"]
    /\ UNCHANGED <<server, pending, drafts, selected, generation, run, messages, ready, observer,
                   act, acts, flipped, undone, dropped>>

(* Whichever answer comes last is shown.                                   *)
LoadedLate(v) ==
    /\ loads[v].stage = "read" /\ loads[v].upto # -1
    /\ loads' = [loads EXCEPT ![v] = NoLoad]
    /\ messages' = [of |-> {loads[v].of}, upto |-> loads[v].upto]
    /\ Show(loads[v].run, TRUE)
    /\ ready' = TRUE
    /\ UNCHANGED <<server, pending, drafts, selected, generation, act, acts, flipped, dropped>>

(* The run's answer is not waited for by the messages'.                    *)
LoadedTooEarly(v) ==
    /\ loads[v].stage = "read" /\ v = generation
    /\ loads' = [loads EXCEPT ![v] = NoLoad]
    /\ messages' = [of |-> {loads[v].of}, upto |-> loads[v].upto]
    /\ Show(loads[v].run, TRUE)
    /\ ready' = TRUE
    /\ UNCHANGED <<server, pending, drafts, selected, generation, act, acts, flipped, dropped>>

(* Both have answered, each with what was asked for or an error.  A run    *)
(* that could not be looked up is shown as unknown, messages that could    *)
(* not are left out, and nothing can be sent unless both are there.        *)
Loaded(v) ==
    LET load == loads[v]
        unknown == [of |-> load.of, turn |-> 0, status |-> "unknown"]
    IN  /\ load.stage = "read" /\ load.upto # -1
        /\ loads' = [loads EXCEPT ![v] = NoLoad]
        /\ IF v # generation
           THEN UNCHANGED <<run, messages, ready, observer, undone>>
           ELSE \E heard, known \in BOOLEAN :
                   /\ messages' = IF heard THEN [of |-> {load.of}, upto |-> load.upto] ELSE messages
                   /\ Show(IF known THEN load.run ELSE unknown, TRUE)
                   /\ ready' = (heard /\ known)
        /\ UNCHANGED <<server, pending, drafts, selected, generation, act, acts, flipped, dropped>>

-----------------------------------------------------------------------------
(* poll(): asks for the status, and for the messages when the run is over. *)
(* An observer that has been aborted ignores what it is answered.          *)
PollReads ==
    /\ observer.stage = "idle"
    /\ observer' = [observer EXCEPT !.stage = "told",
                                    !.status = StatusOf(observer.of, observer.turn)]
    /\ UNCHANGED <<server, pending, drafts, selected, generation, run, messages, ready, loads,
                   act, acts, flipped, undone, dropped>>

(* The status is asked for once.                                           *)
PollsOnce ==
    /\ observer.stage = "told"
    /\ observer' = [observer EXCEPT !.stage = IF observer.status = "ended" THEN "ended"
                                             ELSE "off"]
    /\ UNCHANGED <<server, pending, drafts, selected, generation, run, messages, ready, loads,
                   act, acts, flipped, undone, dropped>>

PollTold ==
    /\ observer.stage = "told"
    /\ \/ /\ observer.status = "ended"
          /\ observer' = [observer EXCEPT !.stage = "ended"]
          /\ UNCHANGED run
       \/ /\ observer.status = "active"
          /\ observer' = [observer EXCEPT !.stage = "idle"]
          /\ run' = [of |-> observer.of, turn |-> observer.turn, status |-> "active"]
    /\ UNCHANGED <<server, pending, drafts, selected, generation, messages, ready, loads,
                   act, acts, flipped, undone, dropped>>

PollHistory ==
    /\ observer.stage = "ended"
    /\ observer' = [observer EXCEPT !.stage = "history", !.upto = Answered(selected)]
    /\ UNCHANGED <<server, pending, drafts, selected, generation, run, messages, ready, loads,
                   act, acts, flipped, undone, dropped>>

(* What was streamed is left as it is.                                     *)
SettlesAsStreamed ==
    /\ observer.stage = "history"
    /\ run' = [of |-> observer.of, turn |-> observer.turn, status |-> "ended"]
    /\ observer' = [observer EXCEPT !.stage = "settled"]
    /\ UNCHANGED <<server, pending, drafts, selected, generation, messages, ready, loads,
                   act, acts, flipped, undone, dropped>>

(* The saved transcript replaces what was streamed, and the observer is    *)
(* done.                                                                   *)
PollSettles ==
    /\ observer.stage = "history"
    /\ messages' = [of |-> {selected}, upto |-> observer.upto]
    /\ run' = [of |-> observer.of, turn |-> observer.turn, status |-> "ended"]
    /\ observer' = [observer EXCEPT !.stage = "settled"]
    /\ UNCHANGED <<server, pending, drafts, selected, generation, ready, loads,
                   act, acts, flipped, undone, dropped>>

-----------------------------------------------------------------------------
(* act(): one action at a time; opening another conversation is not one.   *)
Free == act.kind = "none" /\ acts < MaxActs
Active == run.status = "active"

Begin(record) ==
    /\ Free /\ selected # None
    /\ act' = [record EXCEPT !.of = selected, !.version = generation]
    /\ acts' = acts + 1

(* Pinning or renaming, archiving or deleting, older messages, the three   *)
(* controls of a run, and the refresh of its status.                       *)
BeginAct(kind) ==
    /\ Begin([NoAct EXCEPT !.kind = kind, !.run = run])
    /\ kind = "close" => ~Active
    /\ kind = "control" => Active
    /\ kind = "status" => run.turn # 0
    /\ UNCHANGED <<server, pending, drafts, selected, generation, run, messages, ready, loads,
                   observer, flipped, undone, dropped>>

(* send(): the key of an earlier attempt is taken again.                   *)
BeginSend ==
    /\ selected # None
    /\ ready /\ ~Active /\ run.status # "unknown"
    /\ LET key == IF pending[selected] # 0 THEN pending[selected] ELSE acts + 1
       IN  /\ pending' = [pending EXCEPT ![selected] = key]
           /\ Begin([NoAct EXCEPT !.kind = "send", !.key = key])
    /\ UNCHANGED <<server, drafts, selected, generation, run, messages, ready, loads, observer,
                   flipped, undone, dropped>>

-----------------------------------------------------------------------------
TurnsOf(s, key) == {i \in 1..Turns(s) : server[s].runs[i].key = key}
Answer(told) == act' = [act EXCEPT !.told = told]

(* The request reaches the server: an earlier run of the key is returned,  *)
(* a run under way refuses it, and otherwise it is admitted.               *)
ServerSends ==
    LET s == act.of
    IN  /\ act.kind = "send" /\ act.told = "waiting"
        /\ \/ /\ TurnsOf(s, act.key) # {}
              /\ act' = [act EXCEPT !.told = "run",
                             !.run = LET i == CHOOSE j \in TurnsOf(s, act.key) : TRUE
                                     IN  [of |-> s, turn |-> i, status |-> StatusOf(s, i)]]
              /\ UNCHANGED server
           \/ /\ TurnsOf(s, act.key) = {} /\ server[s].live
              /\ Answer("conflict")
              /\ UNCHANGED server
           \/ /\ TurnsOf(s, act.key) = {} /\ ~server[s].live
              /\ Turns(s) < MaxTurns
              /\ server' = [server EXCEPT ![s].runs = Append(@, [key |-> act.key,
                                                                 draft |-> drafts[s]]),
                                          ![s].live = TRUE]
              /\ act' = [act EXCEPT !.told = "run",
                             !.run = [of |-> s, turn |-> Turns(s) + 1, status |-> "active"]]
        /\ UNCHANGED <<pending, drafts, selected, generation, run, messages, ready, loads,
                       observer, acts, flipped, undone, dropped>>

(* The other requests: only what they are answered matters.                *)
ServerActs ==
    /\ act.told = "waiting" /\ act.kind \in {"pin", "close", "older", "control", "status"}
    /\ act' = [act EXCEPT !.told = "done",
                   !.run = IF act.run.turn = 0 THEN act.run
                           ELSE [act.run EXCEPT !.status = StatusOf(act.run.of, act.run.turn)]]
    /\ UNCHANGED <<server, pending, drafts, selected, generation, run, messages, ready, loads,
                   observer, acts, flipped, undone, dropped>>

(* A failed call drops the key.                                            *)
FailureDropsKey ==
    /\ act.told \in {"waiting", "run", "done"}
    /\ act' = NoAct
    /\ pending' = IF act.kind = "send" THEN [pending EXCEPT ![act.of] = 0] ELSE pending
    /\ UNCHANGED <<server, drafts, selected, generation, run, messages, ready, loads,
                   observer, acts, flipped, undone, dropped>>

(* A call fails on the way, or it is refused with 400, 401, 403, 404, 422  *)
(* or 429.                                                                 *)
ActFails ==
    /\ act.told \in {"waiting", "run", "done"}
    /\ \/ act' = NoAct
       \/ act.kind = "send" /\ act.told = "waiting" /\ Answer("refused")
    /\ UNCHANGED <<server, pending, drafts, selected, generation, run, messages, ready, loads,
                   observer, acts, flipped, undone, dropped>>

-----------------------------------------------------------------------------
(* send() goes on: the key is dropped for an answer that is definitive and *)
(* kept for any other.                                                     *)
SendRefused ==
    LET s == act.of
    IN  /\ act.kind = "send" /\ act.told \in {"refused", "conflict"}
        /\ pending' = IF act.told = "refused" THEN [pending EXCEPT ![s] = 0] ELSE pending
        /\ dropped' = IF act.told = "refused" /\ TurnsOf(s, act.key) # {}
                      THEN dropped \cup {s} ELSE dropped
        /\ act' = NoAct
        /\ UNCHANGED <<server, drafts, selected, generation, run, messages, ready, loads,
                       observer, acts, flipped, undone>>

(* The run is shown if the conversation still is.  One that is over has    *)
(* its messages loaded next.                                               *)
Sent ==
    LET s == act.of
    IN  /\ act.kind = "send" /\ act.told = "run"
        /\ pending' = [pending EXCEPT ![s] = 0]
        /\ drafts' = [drafts EXCEPT ![s] = @ + 1]
        /\ IF selected # s
           THEN act' = NoAct /\ UNCHANGED <<run, observer, undone>>
           ELSE /\ Show(act.run, FALSE)
                /\ act' = IF act.run.status = "ended"
                          THEN [act EXCEPT !.told = "history", !.upto = -1] ELSE NoAct
        /\ UNCHANGED <<server, selected, generation, messages, ready, loads, acts, flipped,
                       dropped>>

SentHistory ==
    /\ act.told = "history"
    /\ IF act.upto = -1
       THEN act' = [act EXCEPT !.upto = Answered(act.of)] /\ UNCHANGED messages
       ELSE /\ act' = NoAct
            /\ messages' = IF selected = act.of THEN [of |-> {act.of}, upto |-> act.upto]
                           ELSE messages
    /\ UNCHANGED <<server, pending, drafts, selected, generation, run, ready, loads, observer,
                   acts, flipped, undone, dropped>>

(* Pinning and renaming show the conversation that they captured again.    *)
Pinned ==
    /\ act.kind = "pin" /\ act.told = "done"
    /\ selected' = act.of
    /\ Watch(run, act.of)
    /\ flipped' = (flipped \/ selected # act.of)
    /\ act' = NoAct
    /\ UNCHANGED <<server, pending, drafts, generation, run, messages, ready, loads, acts,
                   undone, dropped>>

(* Archiving and deleting show none, whichever is shown by now.            *)
Archived ==
    /\ act.kind = "close" /\ act.told = "done"
    /\ selected' = None
    /\ Watch(run, None)
    /\ act' = NoAct
    /\ UNCHANGED <<server, pending, drafts, generation, run, messages, ready, loads, acts,
                   flipped, undone, dropped>>

(* Older messages are put before whatever is shown by now.                 *)
Prepended ==
    /\ act.kind = "older" /\ act.told = "done"
    /\ messages' = [messages EXCEPT !.of = @ \cup {act.of}]
    /\ flipped' = (flipped \/ selected # act.of)
    /\ act' = NoAct
    /\ UNCHANGED <<server, pending, drafts, selected, generation, run, ready, loads, observer,
                   acts, undone, dropped>>

(* A control shows the status it has asked for afterwards, the refresh     *)
(* only if the same run is shown; both only in the generation they were    *)
(* started in.                                                             *)
StatusShown ==
    /\ act.kind \in {"control", "status"} /\ act.told = "done"
    /\ LET same == run.of = act.run.of /\ run.turn = act.run.turn
       IN  IF act.version = generation /\ (act.kind = "control" \/ same)
           THEN Show(act.run, FALSE)
           ELSE UNCHANGED <<run, observer, undone>>
    /\ act' = NoAct
    /\ UNCHANGED <<server, pending, drafts, selected, generation, messages, ready, loads, acts,
                   flipped, dropped>>

-----------------------------------------------------------------------------
TurnEnds(s) ==
    /\ server[s].live
    /\ server' = [server EXCEPT ![s].live = FALSE]
    /\ UNCHANGED <<pending, drafts, selected, generation, run, messages, ready, loads, observer,
                   act, acts, flipped, undone, dropped>>

TabInit ==
    /\ server = [s \in Conversations |-> [runs |-> <<>>, live |-> FALSE]]
    /\ pending = [s \in Conversations |-> 0]
    /\ drafts = [s \in Conversations |-> 1]
    /\ selected = None
    /\ generation = 0
    /\ run = NoRun
    /\ messages = Nothing
    /\ ready = FALSE
    /\ loads = [v \in 1..MaxSelects |-> NoLoad]
    /\ observer = NoPoll
    /\ act = NoAct
    /\ acts = 0
    /\ flipped = FALSE
    /\ undone = FALSE
    /\ dropped = {}

Loading == \E v \in 1..MaxSelects : LoadMessages(v) \/ LoadRun(v) \/ Loaded(v)
Polling == PollReads \/ PollTold \/ PollHistory \/ PollSettles
Acting == \/ ServerSends \/ ServerActs \/ SendRefused \/ Sent \/ SentHistory
          \/ Pinned \/ Archived \/ Prepended \/ StatusShown
User == \/ \E s \in Conversations : Select(s)
        \/ \E kind \in {"pin", "close", "older", "control", "status"} : BeginAct(kind)
        \/ Leave \/ BeginSend

TabNext == Loading \/ Polling \/ Acting \/ User \/ ActFails \/ \E s \in Conversations : TurnEnds(s)

TabSpec == TabInit /\ [][TabNext]_tabVars

(* The interval polls every 1.5 seconds, and runs end.                     *)
TabFairness == WF_tabVars(Polling) /\ \A s \in Conversations : WF_tabVars(TurnEnds(s))
FairTabSpec == TabSpec /\ TabFairness

-----------------------------------------------------------------------------
TabTypeOK ==
    LET turns == 0..MaxTurns
        shownRuns == [of : Conversations \cup {None}, turn : turns,
                      status : {"none", "active", "ended", "unknown"}]
    IN  /\ pending \in [Conversations -> 0..MaxActs]
        /\ selected \in Conversations \cup {None}
        /\ generation \in 0..MaxSelects
        /\ run \in shownRuns
        /\ messages \in [of : SUBSET Conversations, upto : turns]
        /\ observer \in [turn : turns, of : Conversations \cup {None},
                         stage : {"off", "idle", "told", "ended", "history", "settled"},
                         status : {"none", "active", "ended"}, upto : turns]
        /\ act.run \in shownRuns
        /\ \A s \in Conversations : Len(server[s].runs) <= MaxTurns

(* What is on screen is of the conversation that is selected: no late      *)
(* answer of one opened before shows through, unless a header action or    *)
(* older messages were answered after another conversation was opened.     *)
ShownIsSelected ==
    selected # None /\ ~flipped =>
        /\ messages.of \subseteq {selected}
        /\ run.of \in {selected, None}

(* A run whose end the observer showed has its answer on screen, unless    *)
(* what a late answer brought replaced it.                                 *)
EndedRunsAreAnswered ==
    observer.stage = "settled" /\ ~flipped /\ ~undone =>
        observer.turn <= messages.upto

(* One message makes one run, however often it was sent and however the    *)
(* answers were lost, unless a retry of an admitted one was refused.       *)
OneRunPerMessage ==
    \A s \in Conversations \ dropped :
        \A i, j \in 1..Turns(s) :
            server[s].runs[i].draft = server[s].runs[j].draft => i = j

(* A run that is shown as under way comes to be shown as over, or another  *)
(* conversation is opened, unless a late answer of an action undid it.     *)
ShownRunsSettle ==
    (Active /\ selected # None) ~> (~Active \/ selected = None \/ undone)
=============================================================================
