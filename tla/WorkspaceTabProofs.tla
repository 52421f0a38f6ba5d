-------------------------- MODULE WorkspaceTabProofs --------------------------
(***************************************************************************)
(* What the workspace page keeps, for any number of conversations, files,  *)
(* appointments and requests: the chat page (ChatTab), the document editor *)
(* (Editor) and the calendar (Calendar), each from an inductive invariant  *)
(* of its own.  The three share the page and no state.                     *)
(***************************************************************************)
EXTENDS MCWorkspaceTab, TLAPS

LOCAL INSTANCE SequencesExt

-----------------------------------------------------------------------------
(* The chat page. Two ideas carry the proof. The generation: a load, or an *)
(* action that compares it, is of the selected conversation as long as its *)
(* generation is the present one. And growth: the runs and answers of the  *)
(* server only grow, so that what was known of a run (Known), and the end  *)
(* of a run that was seen, stay true.                                      *)

RunRecords == [of : Conversations \cup {None}, turn : 0..MaxTurns,
               status : {"none", "active", "ended", "unknown"}]
Kept == [key : 1..MaxActs, draft : Nat]
Loads == [of : Conversations \cup {None}, upto : -1..MaxTurns, run : RunRecords,
          stage : {"none", "reading", "read"}]
Polls == [turn : 0..MaxTurns, of : Conversations \cup {None},
          stage : {"off", "idle", "told", "ended", "history", "settled"},
          status : {"none", "active", "ended"}, upto : 0..MaxTurns]
Asks == {"pin", "close", "older", "control", "status"}
Acts == [kind : Asks \cup {"none", "send"}, of : Conversations \cup {None},
         version : 0..MaxSelects, run : RunRecords, key : 0..MaxActs,
         told : {"waiting", "run", "done", "conflict", "refused", "history"},
         upto : -1..MaxTurns]

TabTypes ==
    /\ server \in [Conversations -> [runs : Seq(Kept), live : BOOLEAN]]
    /\ pending \in [Conversations -> 0..MaxActs]
    /\ drafts \in [Conversations -> Nat]
    /\ selected \in Conversations \cup {None}
    /\ generation \in 0..MaxSelects
    /\ run \in RunRecords
    /\ messages \in [of : SUBSET Conversations, upto : 0..MaxTurns]
    /\ ready \in BOOLEAN
    /\ loads \in [1..MaxSelects -> Loads]
    /\ observer \in Polls
    /\ act \in Acts
    /\ acts \in 0..MaxActs
    /\ flipped \in BOOLEAN /\ undone \in BOOLEAN
    /\ dropped \subseteq Conversations

(* A conversation that is busy has a run that it is busy with.             *)
RunsAreBounded ==
    \A s \in Conversations : Turns(s) <= MaxTurns /\ (server[s].live => Turns(s) # 0)

(* Keys are given out once, and the key that a conversation's message has  *)
(* is that of its last run, if it is that of any.                          *)
KeysAreOfTheLastRun ==
    /\ act.key <= acts
    /\ \A s \in Conversations :
        /\ pending[s] <= acts
        /\ \A i \in 1..Turns(s) : /\ server[s].runs[i].key <= acts
                                  /\ server[s].runs[i].key = pending[s] => i = Turns(s)

(* A run of the message in the editor has the key that it is sent with.    *)
DraftsHaveTheirKey ==
    \A s \in Conversations : \A i \in 1..Turns(s) :
        /\ server[s].runs[i].draft <= drafts[s]
        /\ s \notin dropped /\ server[s].runs[i].draft = drafts[s] =>
                server[s].runs[i].key = pending[s]

(* What is known of a run is of one that there is.                         *)
Known(conversations, r) ==
    \/ r = NoRun
    \/ /\ r.of \in Conversations /\ r.turn <= Len(conversations[r.of].runs)
       /\ r.status \in {"active", "ended"} <=> r.turn # 0

RunsAreKnown ==
    /\ Known(server, run) /\ Known(server, act.run)
    /\ \A v \in 1..MaxSelects : Known(server, loads[v].run)

ActsAreUnderWay ==
    /\ act.kind # "none" => act.of \in Conversations
    /\ act.version <= generation
    /\ act.told = "done" => act.kind \in Asks
    /\ act.told \in {"run", "refused", "conflict", "history"} => act.kind = "send"
    /\ act.kind = "send" /\ act.told # "history" => act.key # 0 /\ pending[act.of] = act.key
    /\ act.told = "run" => /\ act.run.of = act.of
                           /\ act.run.turn = Turns(act.of)
                           /\ act.run.status = "ended" => ~server[act.of].live
    /\ act.told = "history" => /\ ~server[act.of].live
                               /\ act.upto \in {-1, Turns(act.of)}
    /\ act.kind \in {"control", "status"} /\ act.version = generation /\ selected # None /\ ~flipped =>
            act.run.of \in {selected, None}

LoadsAreOfTheirConversation ==
    \A v \in 1..MaxSelects : loads[v].stage # "none" =>
        /\ v <= generation /\ loads[v].of \in Conversations
        /\ loads[v].run.of \in {loads[v].of, None}
        /\ v = generation /\ selected # None /\ ~flipped => loads[v].of = selected

ObserverWatchesTheRun ==
    observer.stage # "off" =>
        /\ observer.of \in Conversations /\ observer.turn # 0 /\ selected # None
        /\ run.of = observer.of /\ run.turn = observer.turn
        /\ observer.stage = "told" => observer.status \in {"active", "ended"}
        /\ observer.stage = "ended" \/ (observer.stage = "told" /\ observer.status = "ended") =>
                observer.turn <= Answered(observer.of)
        /\ observer.stage = "history" /\ ~flipped => observer.turn <= observer.upto
        /\ observer.stage = "settled" /\ ~undone => run.status = "ended"

TabInv ==
    /\ TabTypes
    /\ RunsAreBounded
    /\ KeysAreOfTheLastRun
    /\ DraftsHaveTheirKey
    /\ OneRunPerMessage
    /\ RunsAreKnown
    /\ ActsAreUnderWay
    /\ LoadsAreOfTheirConversation
    /\ ShownIsSelected
    /\ ObserverWatchesTheRun
    /\ EndedRunsAreAnswered

LEMMA EmptyTabRecords ==
    /\ NoRun \in RunRecords /\ NoLoad \in Loads /\ NoPoll \in Polls /\ NoAct \in Acts
    /\ Nothing \in [of : SUBSET Conversations, upto : 0..MaxTurns]
    /\ NoRun.of = None /\ NoRun.turn = 0 /\ NoRun.status = "none" /\ NoPoll.stage = "off"
    /\ Nothing.of = {} /\ NoLoad.stage = "none" /\ NoLoad.run = NoRun /\ NoLoad.upto = -1
    /\ NoAct.kind = "none" /\ NoAct.run = NoRun /\ NoAct.key = 0 /\ NoAct.told = "waiting"
    /\ NoAct.upto = 0 /\ NoAct.version = 0
    /\ {0, 1} \subseteq Nat
<1>1. 0 \in 0..MaxTurns /\ 0 \in -1..MaxTurns /\ -1 \in -1..MaxTurns /\ 0 \in 0..MaxSelects
      /\ 0 \in 0..MaxActs
    BY TabNames
<1>2. NoRun \in RunRecords
    BY <1>1 DEF NoRun, RunRecords
<1>3. NoLoad \in Loads /\ NoLoad.stage = "none" /\ NoLoad.run = NoRun /\ NoLoad.upto = -1
    BY <1>1, <1>2 DEF NoLoad, Loads
<1>4. NoPoll \in Polls /\ NoPoll.stage = "off"
    BY <1>1 DEF NoPoll, Polls
<1>5. NoAct \in Acts
    BY <1>1, <1>2 DEF NoAct, Acts
<1>6. Nothing \in [of : SUBSET Conversations, upto : 0..MaxTurns] /\ Nothing.of = {}
    BY <1>1 DEF Nothing
<1> QED BY <1>2, <1>3, <1>4, <1>5, <1>6 DEF NoRun, NoAct

LEMMA TabStarts == TabInit => TabInv
<1> SUFFICES ASSUME TabInit PROVE TabInv
    OBVIOUS
<1>1. ready \in BOOLEAN /\ flipped \in BOOLEAN /\ undone \in BOOLEAN
    BY Zenon DEF TabInit
<1>2. server \in [Conversations -> [runs : Seq(Kept), live : BOOLEAN]]
  <2>1. [runs |-> <<>>, live |-> FALSE] \in [runs : Seq(Kept), live : BOOLEAN]
    <3>1. <<>> \in Seq(Kept) /\ FALSE \in BOOLEAN
      OBVIOUS
    <3> QED BY <3>1
  <2> QED BY <2>1 DEF TabInit
<1>3. TabTypes
    BY <1>1, <1>2, EmptyTabRecords, TabNames DEF TabInit, TabTypes
<1>4. \A s \in Conversations : Turns(s) = 0 /\ ~server[s].live
    BY DEF TabInit, Turns
<1>5. RunsAreBounded /\ KeysAreOfTheLastRun /\ DraftsHaveTheirKey /\ OneRunPerMessage
    BY <1>4, EmptyTabRecords, TabNames
    DEF TabInit, RunsAreBounded, KeysAreOfTheLastRun, DraftsHaveTheirKey, OneRunPerMessage
<1>6. RunsAreKnown /\ ActsAreUnderWay /\ LoadsAreOfTheirConversation
    BY EmptyTabRecords DEF TabInit, RunsAreKnown, Known, ActsAreUnderWay,
       LoadsAreOfTheirConversation, Asks
<1>7. ShownIsSelected /\ ObserverWatchesTheRun /\ EndedRunsAreAnswered
    BY EmptyTabRecords DEF TabInit, ShownIsSelected, ObserverWatchesTheRun, EndedRunsAreAnswered
<1> QED BY <1>3, <1>5, <1>6, <1>7 DEF TabInv

LEMMA TabFields ==
    ASSUME TabTypes
    PROVE  /\ \A v \in 1..MaxSelects : /\ loads[v] \in Loads /\ loads[v].run \in RunRecords
                                       /\ loads[v].of \in Conversations \cup {None}
                                       /\ loads[v].upto \in -1..MaxTurns
           /\ act.run \in RunRecords /\ act.key \in 0..MaxActs /\ act.version \in 0..MaxSelects
           /\ act.of \in Conversations \cup {None} /\ act.upto \in -1..MaxTurns
           /\ run.of \in Conversations \cup {None} /\ run.turn \in 0..MaxTurns
           /\ observer.turn \in 0..MaxTurns /\ observer.of \in Conversations \cup {None}
           /\ observer.upto \in 0..MaxTurns
           /\ messages.of \subseteq Conversations /\ messages.upto \in 0..MaxTurns
           /\ acts \in Nat /\ generation \in Nat
           /\ \A s \in Conversations : /\ server[s].runs \in Seq(Kept) /\ server[s].live \in BOOLEAN
                                       /\ Turns(s) \in Nat /\ drafts[s] \in Nat
                                       /\ pending[s] \in 0..MaxActs
                                       /\ \A i \in 1..Turns(s) :
                                            /\ server[s].runs[i].key \in 1..MaxActs
                                            /\ server[s].runs[i].draft \in Nat
<1>1. \A v \in 1..MaxSelects : /\ loads[v] \in Loads /\ loads[v].run \in RunRecords
                               /\ loads[v].of \in Conversations \cup {None}
                               /\ loads[v].upto \in -1..MaxTurns
    BY DEF TabTypes, Loads
<1>2. /\ act.run \in RunRecords /\ act.key \in 0..MaxActs /\ act.version \in 0..MaxSelects
      /\ act.of \in Conversations \cup {None} /\ act.upto \in -1..MaxTurns
    BY DEF TabTypes, Acts
<1>3. run.of \in Conversations \cup {None} /\ run.turn \in 0..MaxTurns
    BY DEF TabTypes, RunRecords
<1>4. /\ observer.turn \in 0..MaxTurns /\ observer.of \in Conversations \cup {None}
      /\ observer.upto \in 0..MaxTurns
    BY DEF TabTypes, Polls
<1>5. /\ messages.of \subseteq Conversations /\ messages.upto \in 0..MaxTurns
      /\ acts \in Nat /\ generation \in Nat
    BY DEF TabTypes
<1>6. ASSUME NEW s \in Conversations
      PROVE  /\ server[s].runs \in Seq(Kept) /\ server[s].live \in BOOLEAN
             /\ Turns(s) \in Nat /\ drafts[s] \in Nat /\ pending[s] \in 0..MaxActs
             /\ \A i \in 1..Turns(s) : /\ server[s].runs[i].key \in 1..MaxActs
                                       /\ server[s].runs[i].draft \in Nat
  <2>1. server[s].runs \in Seq(Kept) /\ server[s].live \in BOOLEAN
    BY DEF TabTypes
  <2>2. drafts[s] \in Nat /\ pending[s] \in 0..MaxActs
    BY DEF TabTypes
  <2>3. \A i \in 1..Turns(s) : server[s].runs[i] \in Kept
    BY <2>1 DEF Turns
  <2> QED BY <2>1, <2>2, <2>3 DEF Turns, Kept
<1> QED BY <1>1, <1>2, <1>3, <1>4, <1>5, <1>6

(* What the server says of its runs.                                       *)
LEMMA AnswersAreCounted ==
    ASSUME TabTypes, RunsAreBounded, NEW s \in Conversations
    PROVE  /\ Answered(s) \in 0..MaxTurns /\ Answered(s) <= Turns(s)
           /\ \A turn \in 1..Turns(s) :
                /\ StatusOf(s, turn) \in {"active", "ended"}
                /\ StatusOf(s, turn) = "ended" => turn <= Answered(s)
<1>1. Turns(s) \in Nat /\ Turns(s) <= MaxTurns /\ (server[s].live => Turns(s) # 0)
    BY TabFields DEF RunsAreBounded
<1> HIDE DEF Turns
<1> QED BY <1>1, TabNames DEF Answered, StatusOf

LEMMA LatestRunIsKnown ==
    ASSUME TabTypes, RunsAreBounded, NEW s \in Conversations
    PROVE  /\ LatestRun(s) \in RunRecords /\ Known(server, LatestRun(s))
           /\ LatestRun(s).of \in {s, None}
<1>1. Turns(s) \in Nat /\ Turns(s) <= MaxTurns
    BY TabFields DEF RunsAreBounded
<1>2. CASE Turns(s) = 0
    BY <1>2, EmptyTabRecords DEF LatestRun, Known
<1>3. CASE Turns(s) # 0
  <2>1. StatusOf(s, Turns(s)) \in {"active", "ended"}
    BY DEF StatusOf
  <2>2. LatestRun(s) = [of |-> s, turn |-> Turns(s), status |-> StatusOf(s, Turns(s))]
    BY <1>3 DEF LatestRun
  <2>3. Turns(s) \in 0..MaxTurns
    BY <1>1, TabNames
  <2> QED BY <1>1, <1>3, <2>1, <2>2, <2>3 DEF RunRecords, Known, Turns
<1> QED BY <1>2, <1>3

(* A step that leaves the server and the keys alone.                       *)
LEMMA ServerStands ==
    ASSUME TabInv, UNCHANGED <<server, pending, drafts, dropped>>,
           act'.key <= acts', acts' \in Nat, acts <= acts'
    PROVE  RunsAreBounded' /\ KeysAreOfTheLastRun' /\ DraftsHaveTheirKey' /\ OneRunPerMessage'
<1>1. RunsAreBounded' /\ DraftsHaveTheirKey' /\ OneRunPerMessage'
    BY DEF TabInv, RunsAreBounded, DraftsHaveTheirKey, OneRunPerMessage, Turns
<1>2. ASSUME NEW s \in Conversations
      PROVE  /\ pending'[s] <= acts'
             /\ \A i \in 1..Turns(s)' :
                    /\ server'[s].runs[i].key <= acts'
                    /\ server'[s].runs[i].key = pending'[s] => i = Turns(s)'
  <2>1. /\ pending[s] \in Nat /\ acts \in Nat
        /\ \A i \in 1..Turns(s) : server[s].runs[i].key \in Nat
    <3>1. TabTypes
      BY DEF TabInv
    <3>2. pending[s] \in 0..MaxActs /\ acts \in Nat
      BY <3>1, TabFields
    <3>3. \A i \in 1..Turns(s) : server[s].runs[i].key \in 1..MaxActs
      BY <3>1, TabFields
    <3> HIDE DEF Turns
    <3> QED BY <3>2, <3>3, TabNames
  <2>2. /\ pending[s] <= acts
        /\ \A i \in 1..Turns(s) : /\ server[s].runs[i].key <= acts
                                  /\ server[s].runs[i].key = pending[s] => i = Turns(s)
    BY DEF TabInv, KeysAreOfTheLastRun
  <2> QED BY <2>1, <2>2 DEF Turns
<1> QED BY <1>1, <1>2 DEF KeysAreOfTheLastRun

(* A step that shows newRun, of newSelected, with the effect that watches  *)
(* the run.                                                                *)
LEMMA WatchKeeps ==
    ASSUME TabInv, NEW newRun \in RunRecords, NEW newSelected, Known(server, newRun),
           Watch(newRun, newSelected), run' = newRun, selected' = newSelected, UNCHANGED server,
           newRun.of = run.of /\ newRun.turn = run.turn /\ observer.stage # "off" =>
               /\ flipped => flipped'
               /\ undone => undone'
               /\ run.status = "ended" /\ newRun.status = "active" => undone'
    PROVE  /\ observer' \in Polls /\ ObserverWatchesTheRun'
           /\ \/ observer'.stage \in {"off", "idle"}
              \/ /\ observer' = observer /\ newSelected = selected
                 /\ newRun.of = run.of /\ newRun.turn = run.turn
<1>0. observer \in Polls /\ NoPoll \in Polls /\ NoPoll.stage = "off"
    BY EmptyTabRecords DEF TabInv, TabTypes
<1>1. CASE newRun.of = run.of /\ newRun.turn = run.turn /\ newSelected = selected
  <2>1. observer' = observer
    BY <1>1 DEF Watch
  <2>2. newRun.turn # 0 => newRun.status \in {"active", "ended"}
    BY EmptyTabRecords DEF Known
  <2>3. ObserverWatchesTheRun'
    BY <1>1, <2>1, <2>2 DEF TabInv, ObserverWatchesTheRun, Answered, Turns
  <2> QED BY <1>0, <1>1, <2>1, <2>3
<1>2. CASE /\ ~(newRun.of = run.of /\ newRun.turn = run.turn /\ newSelected = selected)
           /\ newRun.status = "active" /\ newSelected # None
  <2> DEFINE new == [NoPoll EXCEPT !.turn = newRun.turn, !.of = newRun.of, !.stage = "idle"]
  <2>1. observer' = new
    BY <1>2 DEF Watch
  <2>2. newRun.of \in Conversations /\ newRun.turn # 0 /\ newRun.turn \in 0..MaxTurns
    BY <1>2, EmptyTabRecords DEF Known, RunRecords
  <2>3. /\ new \in Polls /\ new.stage = "idle" /\ new.of = newRun.of /\ new.turn = newRun.turn
    BY <2>2, <1>0 DEF Polls
  <2> HIDE DEF new
  <2>5. ObserverWatchesTheRun'
    BY <1>2, <2>1, <2>2, <2>3 DEF ObserverWatchesTheRun
  <2> QED BY <2>1, <2>3, <2>5
<1>3. CASE /\ ~(newRun.of = run.of /\ newRun.turn = run.turn /\ newSelected = selected)
           /\ ~(newRun.status = "active" /\ newSelected # None)
  <2>1. observer' = NoPoll
    BY <1>3 DEF Watch
  <2> QED BY <1>0, <2>1 DEF ObserverWatchesTheRun
<1> QED BY <1>1, <1>2, <1>3

(* The conversation shown stays, unless it is marked.                      *)
StaysOnScreen == selected' # None /\ ~flipped' => selected' = selected /\ ~flipped

LEMMA ActsStand ==
    ASSUME TabInv, UNCHANGED <<server, act, pending>>, generation' \in Nat, generation <= generation',
           generation' = generation => StaysOnScreen
    PROVE  ActsAreUnderWay'
<1>1. act.version \in Nat /\ generation \in Nat /\ act.version <= generation
    BY TabFields DEF TabInv, ActsAreUnderWay
<1>2. act.version = generation' => generation' = generation
    BY <1>1
<1> QED BY <1>1, <1>2 DEF TabInv, ActsAreUnderWay, StaysOnScreen, Turns

LEMMA LoadsStand ==
    ASSUME TabInv, generation' = generation, StaysOnScreen,
           \A v \in 1..MaxSelects : loads'[v].stage # "none" =>
               /\ loads[v].stage # "none" /\ loads'[v].of = loads[v].of
               /\ loads'[v].run.of \in {loads[v].of, None}
    PROVE  LoadsAreOfTheirConversation'
BY DEF TabInv, LoadsAreOfTheirConversation, StaysOnScreen

LEMMA LoadsUnchanged ==
    ASSUME TabInv, UNCHANGED <<loads, generation>>, StaysOnScreen
    PROVE  LoadsAreOfTheirConversation'
BY DEF TabInv, LoadsAreOfTheirConversation, StaysOnScreen

LEMMA RunsKnownStand ==
    ASSUME TabInv, UNCHANGED <<server, run, act, loads>>
    PROVE  RunsAreKnown'
BY DEF TabInv, RunsAreKnown

LEMMA ObserverStands ==
    ASSUME TabInv, UNCHANGED <<server, run, selected, observer>>, flipped => flipped', undone => undone'
    PROVE  ObserverWatchesTheRun'
BY DEF TabInv, ObserverWatchesTheRun, Answered, Turns

LEMMA ScreenStands ==
    ASSUME TabInv, UNCHANGED <<run, selected, messages>>, flipped => flipped'
    PROVE  ShownIsSelected'
BY DEF TabInv, ShownIsSelected

LEMMA AnswersStand ==
    ASSUME TabInv, observer' = observer \/ observer'.stage # "settled", UNCHANGED messages,
           flipped => flipped', undone => undone'
    PROVE  EndedRunsAreAnswered'
BY DEF TabInv, EndedRunsAreAnswered

LEMMA NothingIsShown ==
    ASSUME TabInv, run' = NoRun, messages' = Nothing, Watch(NoRun, selected'),
           UNCHANGED <<server, act>>, loads' \in [1..MaxSelects -> Loads],
           \A v \in 1..MaxSelects : loads'[v].run \in {loads[v].run, NoRun}
    PROVE  /\ observer' \in Polls /\ observer'.stage = "off"
           /\ RunsAreKnown' /\ ShownIsSelected' /\ ObserverWatchesTheRun' /\ EndedRunsAreAnswered'
<1>1. observer'.stage = "off" /\ observer' \in Polls
    BY EmptyTabRecords, TabNames DEF TabInv, TabTypes, Watch, ObserverWatchesTheRun
<1>2. RunsAreKnown'
    BY DEF TabInv, RunsAreKnown, Known
<1>3. ShownIsSelected'
    BY EmptyTabRecords DEF ShownIsSelected
<1> QED BY <1>1, <1>2, <1>3 DEF ObserverWatchesTheRun, EndedRunsAreAnswered

LEMMA SelectKeeps ==
    ASSUME TabInv, NEW s \in Conversations, Select(s)
    PROVE  TabInv'
<1> DEFINE load == [NoLoad EXCEPT !.of = s, !.stage = "reading"]
<1>1. /\ UNCHANGED <<server, pending, drafts, act, acts, dropped>>
      /\ generation < MaxSelects /\ generation' = generation + 1 /\ selected' = s
      /\ run' = NoRun /\ messages' = Nothing /\ Watch(NoRun, selected')
      /\ loads' = [loads EXCEPT ![generation + 1] = load]
      /\ ready' = FALSE /\ flipped' = FALSE /\ undone' = FALSE
    BY DEF Select, Switch
<1>2. load \in Loads /\ load.of = s /\ load.run = NoRun
    BY EmptyTabRecords DEF Loads
<1> HIDE DEF load
<1>3. generation \in Nat /\ generation' \in 0..MaxSelects /\ generation' \in Nat
      /\ generation + 1 \in 1..MaxSelects
    BY <1>1, TabNames DEF TabInv, TabTypes
<1>4. loads' \in [1..MaxSelects -> Loads]
    BY <1>1, <1>2 DEF TabInv, TabTypes
<1>5. \A v \in 1..MaxSelects : loads'[v].run \in {loads[v].run, NoRun}
    BY <1>1, <1>2 DEF TabInv, TabTypes
<1>6. /\ observer' \in Polls
      /\ RunsAreKnown' /\ ShownIsSelected' /\ ObserverWatchesTheRun' /\ EndedRunsAreAnswered'
    BY <1>1, <1>4, <1>5, NothingIsShown
<1>7. RunsAreBounded' /\ KeysAreOfTheLastRun' /\ DraftsHaveTheirKey' /\ OneRunPerMessage'
    BY <1>1, ServerStands, TabFields DEF TabInv, KeysAreOfTheLastRun
<1>8. ActsAreUnderWay'
    BY <1>1, <1>3, ActsStand
<1>9. LoadsAreOfTheirConversation'
  <2> SUFFICES ASSUME NEW v \in 1..MaxSelects, loads'[v].stage # "none"
               PROVE  /\ v <= generation' /\ loads'[v].of \in Conversations
                      /\ loads'[v].run.of \in {loads'[v].of, None}
                      /\ v = generation' => loads'[v].of = selected'
    BY DEF LoadsAreOfTheirConversation
  <2>1. CASE v = generation + 1
    BY <1>1, <1>2, <1>3, <2>1, EmptyTabRecords DEF TabInv, TabTypes
  <2>2. CASE v # generation + 1
    <3>1. loads'[v] = loads[v]
      BY <1>1, <2>2 DEF TabInv, TabTypes
    <3>2. v <= generation /\ loads[v].of \in Conversations /\ loads[v].run.of \in {loads[v].of, None}
      BY <3>1 DEF TabInv, LoadsAreOfTheirConversation
    <3> QED BY <1>1, <1>3, <3>1, <3>2
  <2> QED BY <2>1, <2>2
<1>10. TabTypes'
    BY <1>1, <1>3, <1>4, <1>6, EmptyTabRecords DEF TabInv, TabTypes
<1> QED BY <1>6, <1>7, <1>8, <1>9, <1>10 DEF TabInv

LEMMA LeaveKeeps ==
    ASSUME TabInv, Leave
    PROVE  TabInv'
<1>1. /\ UNCHANGED <<server, pending, drafts, ready, loads, act, acts, flipped, undone, dropped>>
      /\ generation < MaxSelects /\ generation' = generation + 1 /\ selected' = None
      /\ run' = NoRun /\ messages' = Nothing /\ Watch(NoRun, selected')
    BY DEF Leave
<1>2. generation \in Nat /\ generation' \in 0..MaxSelects /\ generation' \in Nat
    BY <1>1, TabNames DEF TabInv, TabTypes
<1>3. /\ observer' \in Polls
      /\ RunsAreKnown' /\ ShownIsSelected' /\ ObserverWatchesTheRun' /\ EndedRunsAreAnswered'
    BY <1>1, NothingIsShown DEF TabInv, TabTypes
<1>4. RunsAreBounded' /\ KeysAreOfTheLastRun' /\ DraftsHaveTheirKey' /\ OneRunPerMessage'
    BY <1>1, ServerStands, TabFields DEF TabInv, KeysAreOfTheLastRun
<1>5. ActsAreUnderWay'
    BY <1>1, <1>2, ActsStand
<1>6. LoadsAreOfTheirConversation'
    BY <1>1, <1>2 DEF TabInv, LoadsAreOfTheirConversation
<1>7. TabTypes'
    BY <1>1, <1>2, <1>3, EmptyTabRecords DEF TabInv, TabTypes
<1> QED BY <1>3, <1>4, <1>5, <1>6, <1>7 DEF TabInv

(* Only the load of generation v changes.                                  *)
LEMMA LoadStep ==
    ASSUME TabInv, NEW v \in 1..MaxSelects, NEW load \in Loads, loads[v].stage # "none",
           loads' = [loads EXCEPT ![v] = load], Known(server, load.run),
           load.of = loads[v].of, load.run.of \in {loads[v].of, None},
           UNCHANGED <<server, pending, drafts, selected, generation, run, messages, ready,
                       observer,
                       act, acts, flipped, undone, dropped>>
    PROVE  TabInv'
<1>1. loads' \in [1..MaxSelects -> Loads]
    BY DEF TabInv, TabTypes
<1>2. \A w \in 1..MaxSelects : loads'[w] = IF w = v THEN load ELSE loads[w]
    BY DEF TabInv, TabTypes
<1>3. TabTypes'
    BY <1>1 DEF TabInv, TabTypes
<1>4. RunsAreKnown'
    BY <1>2 DEF TabInv, RunsAreKnown
<1>5. StaysOnScreen
    BY DEF StaysOnScreen
<1>6. LoadsAreOfTheirConversation'
  <2>1. \A w \in 1..MaxSelects : loads'[w].stage # "none" =>
            /\ loads[w].stage # "none" /\ loads'[w].of = loads[w].of
            /\ loads'[w].run.of \in {loads[w].of, None}
    BY <1>2 DEF TabInv, LoadsAreOfTheirConversation
  <2> QED BY <1>5, <2>1, LoadsStand
<1>7. RunsAreBounded' /\ KeysAreOfTheLastRun' /\ DraftsHaveTheirKey' /\ OneRunPerMessage'
  <2>1. act' = act /\ acts' = acts /\ acts \in Nat /\ act.key <= acts
    BY TabFields DEF TabInv, KeysAreOfTheLastRun
  <2> QED BY <2>1, ServerStands
<1>8. ActsAreUnderWay' /\ ShownIsSelected' /\ ObserverWatchesTheRun' /\ EndedRunsAreAnswered'
    BY <1>5, ActsStand, ScreenStands, ObserverStands, AnswersStand, TabFields DEF TabInv
<1> QED BY <1>3, <1>4, <1>6, <1>7, <1>8 DEF TabInv

LEMMA LoadMessagesKeeps ==
    ASSUME TabInv, NEW v \in 1..MaxSelects, LoadMessages(v)
    PROVE  TabInv'
<1> DEFINE load == [loads[v] EXCEPT !.upto = Answered(loads[v].of)]
<1>1. loads[v] \in Loads /\ loads[v].stage # "none" /\ loads[v].of \in Conversations
      /\ loads[v].run.of \in {loads[v].of, None} /\ Known(server, loads[v].run)
    BY TabFields DEF TabInv, LoadMessages, LoadsAreOfTheirConversation, RunsAreKnown
<1>2. Answered(loads[v].of) \in -1..MaxTurns
    BY <1>1, AnswersAreCounted, TabNames DEF TabInv
<1>3. load \in Loads /\ load.of = loads[v].of /\ load.run = loads[v].run
    BY <1>1, <1>2 DEF Loads
<1>4. loads' = [loads EXCEPT ![v] = load]
    BY DEF LoadMessages, TabInv, TabTypes, Loads
<1> HIDE DEF load
<1> QED BY <1>1, <1>3, <1>4, LoadStep DEF LoadMessages

LEMMA LoadRunKeeps ==
    ASSUME TabInv, NEW v \in 1..MaxSelects, LoadRun(v)
    PROVE  TabInv'
<1> DEFINE latest == LatestRun(loads[v].of)
           load == [loads[v] EXCEPT !.run = latest, !.stage = "read"]
<1>1. loads[v] \in Loads /\ loads[v].stage # "none" /\ loads[v].of \in Conversations
    BY TabFields DEF TabInv, LoadRun, LoadsAreOfTheirConversation
<1>2. latest \in RunRecords /\ Known(server, latest) /\ latest.of \in {loads[v].of, None}
    BY <1>1, LatestRunIsKnown DEF TabInv
<1> HIDE DEF latest
<1>3. load \in Loads /\ load.of = loads[v].of /\ load.run = latest
    BY <1>1, <1>2 DEF Loads
<1>4. loads' = [loads EXCEPT ![v] = load]
    BY DEF LoadRun, TabInv, TabTypes, Loads, latest
<1> HIDE DEF load
<1> QED BY <1>1, <1>2, <1>3, <1>4, LoadStep DEF LoadRun

LEMMA LoadedKeeps ==
    ASSUME TabInv, NEW v \in 1..MaxSelects, Loaded(v)
    PROVE  TabInv'
<1> DEFINE load == loads[v]
           unknown == [of |-> load.of, turn |-> 0, status |-> "unknown"]
<1>0. load \in Loads /\ load.run \in RunRecords /\ load.of \in Conversations /\ load.upto \in 0..MaxTurns
      /\ load.stage = "read" /\ Known(server, load.run) /\ load.run.of \in {load.of, None}
  <2>1. load \in Loads /\ load.run \in RunRecords /\ load.upto \in -1..MaxTurns
    BY TabFields DEF TabInv
  <2>2. load.stage = "read" /\ load.upto # -1
    BY DEF Loaded
  <2>3. load.of \in Conversations /\ Known(server, load.run) /\ load.run.of \in {load.of, None}
    BY <2>2 DEF TabInv, LoadsAreOfTheirConversation, RunsAreKnown
  <2>4. load.upto \in 0..MaxTurns
    BY <2>1, <2>2, TabNames
  <2> QED BY <2>1, <2>2, <2>3, <2>4
<1>1. /\ UNCHANGED <<server, pending, drafts, selected, generation, act, acts, flipped, dropped>>
      /\ loads' = [loads EXCEPT ![v] = NoLoad]
    BY DEF Loaded
<1>2. loads' \in [1..MaxSelects -> Loads] /\ \A w \in 1..MaxSelects : loads'[w] \in {loads[w], NoLoad}
    BY <1>1, EmptyTabRecords DEF TabInv, TabTypes
<1>3. StaysOnScreen
    BY <1>1 DEF StaysOnScreen
<1>4. RunsAreBounded' /\ KeysAreOfTheLastRun' /\ DraftsHaveTheirKey' /\ OneRunPerMessage'
  <2>1. act' = act /\ acts' = acts /\ acts \in Nat /\ act.key <= acts
    BY <1>1, TabFields DEF TabInv, KeysAreOfTheLastRun
  <2> QED BY <1>1, <2>1, ServerStands
<1>5. ActsAreUnderWay'
    BY <1>1, <1>3, ActsStand, TabFields DEF TabInv
<1>6. LoadsAreOfTheirConversation'
  <2>1. \A w \in 1..MaxSelects : loads'[w].stage # "none" =>
            /\ loads[w].stage # "none" /\ loads'[w].of = loads[w].of
            /\ loads'[w].run.of \in {loads[w].of, None}
    BY <1>2, EmptyTabRecords DEF TabInv, LoadsAreOfTheirConversation
  <2> QED BY <1>1, <1>3, <2>1, LoadsStand
<1>7. ASSUME /\ run' \in RunRecords /\ messages' \in [of : SUBSET Conversations, upto : 0..MaxTurns]
             /\ ready' \in BOOLEAN /\ observer' \in Polls /\ undone' \in BOOLEAN /\ Known(server, run')
             /\ ShownIsSelected' /\ ObserverWatchesTheRun' /\ EndedRunsAreAnswered'
      PROVE  TabInv'
  <2>1. TabTypes'
    BY <1>1, <1>2, <1>7 DEF TabInv, TabTypes
  <2>2. RunsAreKnown'
    BY <1>1, <1>2, <1>7, EmptyTabRecords DEF TabInv, RunsAreKnown, Known
  <2> QED BY <1>4, <1>5, <1>6, <1>7, <2>1, <2>2 DEF TabInv
<1>8. ASSUME v = generation, NEW new \in RunRecords, Show(new, TRUE), Known(server, new),
             new.of \in {load.of, None},
             messages' \in [of : SUBSET Conversations, upto : 0..MaxTurns],
             messages'.of \in {messages.of, {load.of}}, ready' \in BOOLEAN
      PROVE  TabInv'
  <2>1. run' = new /\ Watch(new, selected') /\ undone' = (undone \/ Undoes(new, TRUE))
    BY <1>1, <1>8 DEF Show
  <2>2. undone' \in BOOLEAN
    BY <2>1 DEF Undoes
  <2>3. run.status = "ended" /\ run.of = new.of /\ run.turn = new.turn => undone'
    BY <2>1 DEF Undoes
  <2>4. /\ observer' \in Polls /\ ObserverWatchesTheRun'
        /\ \/ observer'.stage \in {"off", "idle"}
           \/ /\ observer' = observer /\ new.of = run.of /\ new.turn = run.turn
    BY <1>1, <1>8, <2>1, <2>3, WatchKeeps
  <2>5. EndedRunsAreAnswered'
    BY <1>1, <2>1, <2>3, <2>4 DEF TabInv, ObserverWatchesTheRun, EndedRunsAreAnswered
  <2>6. ShownIsSelected'
    BY <1>0, <1>1, <1>8, <2>1 DEF TabInv, ShownIsSelected, LoadsAreOfTheirConversation
  <2> QED BY <1>7, <1>8, <2>1, <2>2, <2>4, <2>5, <2>6
<1>9. CASE v # generation
  <2>1. UNCHANGED <<run, messages, ready, observer, undone>>
    BY <1>9 DEF Loaded
  <2>2. ShownIsSelected' /\ ObserverWatchesTheRun' /\ EndedRunsAreAnswered'
    BY <1>1, <2>1, ScreenStands, ObserverStands, AnswersStand
  <2> QED BY <1>7, <2>1, <2>2 DEF TabInv, TabTypes, RunsAreKnown
<1>10. CASE v = generation
  <2>1. unknown \in RunRecords /\ Known(server, unknown) /\ unknown.of = load.of
    <3>1. 0 \in 0..MaxTurns
      BY TabNames
    <3>2. Len(server[load.of].runs) >= 0
      BY <1>0, TabFields DEF TabInv, Turns
    <3> QED BY <1>0, <3>1, <3>2 DEF RunRecords, Known
  <2> HIDE DEF unknown
  <2>2. PICK heard \in BOOLEAN, known \in BOOLEAN :
            /\ messages' = IF heard THEN [of |-> {load.of}, upto |-> load.upto] ELSE messages
            /\ Show(IF known THEN load.run ELSE unknown, TRUE)
            /\ ready' = (heard /\ known)
    BY <1>10 DEF Loaded, unknown
  <2>3. messages' \in [of : SUBSET Conversations, upto : 0..MaxTurns]
        /\ messages'.of \in {messages.of, {load.of}}
    BY <1>0, <2>2 DEF TabInv, TabTypes
  <2>4. ready' \in BOOLEAN
    BY <2>2
  <2>5. CASE known
    BY <1>0, <1>8, <1>10, <2>2, <2>3, <2>4, <2>5
  <2>6. CASE ~known
    BY <1>8, <1>10, <2>1, <2>2, <2>3, <2>4, <2>6
  <2> QED BY <2>5, <2>6
<1> QED BY <1>9, <1>10

(* What the tab shows, and the action that keeps it busy.                  *)
ScreenOK ==
    /\ selected \in Conversations \cup {None}
    /\ run \in RunRecords /\ Known(server, run)
    /\ messages \in [of : SUBSET Conversations, upto : 0..MaxTurns]
    /\ observer \in Polls
    /\ flipped \in BOOLEAN /\ undone \in BOOLEAN
    /\ ShownIsSelected /\ ObserverWatchesTheRun /\ EndedRunsAreAnswered

ActOK ==
    /\ act \in Acts /\ act.key <= acts /\ acts \in 0..MaxActs /\ Known(server, act.run)
    /\ ActsAreUnderWay

LEMMA ScreenUnchanged ==
    ASSUME TabInv, UNCHANGED <<server, selected, run, messages, observer, flipped, undone>>
    PROVE  ScreenOK'
<1>1. ShownIsSelected' /\ ObserverWatchesTheRun' /\ EndedRunsAreAnswered'
    BY ScreenStands, ObserverStands, AnswersStand
<1> QED BY <1>1 DEF TabInv, TabTypes, RunsAreKnown, ScreenOK

LEMMA ActUnchanged ==
    ASSUME TabInv, UNCHANGED <<server, act, acts, pending, generation>>, StaysOnScreen
    PROVE  ActOK'
<1>1. ActsAreUnderWay'
    BY ActsStand, TabFields DEF TabInv
<1> QED BY <1>1 DEF TabInv, TabTypes, RunsAreKnown, KeysAreOfTheLastRun, ActOK

LEMMA QuietStep ==
    ASSUME TabInv, UNCHANGED <<server, pending, drafts, dropped, loads, generation, ready>>,
           StaysOnScreen, acts <= acts', ScreenOK', ActOK'
    PROVE  TabInv'
<1>1. TabTypes'
    BY DEF TabInv, TabTypes, ScreenOK, ActOK
<1>2. RunsAreBounded' /\ KeysAreOfTheLastRun' /\ DraftsHaveTheirKey' /\ OneRunPerMessage'
  <2>1. acts' \in Nat
    BY TabNames DEF ActOK
  <2> QED BY <2>1, ServerStands DEF ActOK
<1>3. RunsAreKnown'
    BY DEF TabInv, RunsAreKnown, ScreenOK, ActOK
<1>4. LoadsAreOfTheirConversation'
    BY LoadsUnchanged
<1> QED BY <1>1, <1>2, <1>3, <1>4 DEF TabInv, ScreenOK, ActOK

(* The observer reads and shows the run that it watches.                   *)
LEMMA PollStep ==
    ASSUME TabInv, UNCHANGED <<server, pending, drafts, selected, generation, ready, loads, act, acts,
                               flipped, undone, dropped>>,
           run' \in RunRecords, Known(server, run'), run'.of = run.of,
           observer' \in Polls, ObserverWatchesTheRun',
           messages' \in [of : SUBSET Conversations, upto : 0..MaxTurns],
           messages'.of \in {messages.of, {selected}},
           observer'.stage = "settled" /\ ~flipped => observer'.turn <= messages'.upto
    PROVE  TabInv'
<1>1. StaysOnScreen
    BY DEF StaysOnScreen
<1>2. ShownIsSelected' /\ EndedRunsAreAnswered'
    BY DEF TabInv, ShownIsSelected, EndedRunsAreAnswered
<1>3. ScreenOK'
    BY <1>2 DEF TabInv, TabTypes, ScreenOK
<1>4. acts <= acts'
    BY TabFields DEF TabInv
<1> QED BY <1>1, <1>3, <1>4, ActUnchanged, QuietStep

LEMMA PollReadsKeeps ==
    ASSUME TabInv, PollReads
    PROVE  TabInv'
<1> DEFINE status == StatusOf(observer.of, observer.turn)
<1>1. /\ observer.stage = "idle" /\ observer.of \in Conversations /\ observer.turn \in 1..Turns(observer.of)
      /\ observer \in Polls
  <2>1. /\ observer.stage = "idle" /\ observer.of \in Conversations /\ observer.turn # 0
        /\ run.of = observer.of /\ run.turn = observer.turn
    BY DEF TabInv, PollReads, ObserverWatchesTheRun
  <2>2. observer.turn <= Len(server[observer.of].runs)
    BY <2>1, EmptyTabRecords DEF TabInv, RunsAreKnown, Known
  <2>3. observer.turn \in Nat /\ Turns(observer.of) \in Nat
    BY <2>1, TabFields, TabNames DEF TabInv
  <2> QED BY <2>1, <2>2, <2>3 DEF Turns, TabInv, TabTypes
<1>2. status \in {"active", "ended"} /\ (status = "ended" => observer.turn <= Answered(observer.of))
    BY <1>1, AnswersAreCounted DEF TabInv
<1>3. observer' = [observer EXCEPT !.stage = "told", !.status = status]
    BY DEF PollReads
<1> HIDE DEF status
<1>4. /\ observer' \in Polls /\ observer'.stage = "told" /\ observer'.status = status
      /\ observer'.of = observer.of /\ observer'.turn = observer.turn
    BY <1>1, <1>2, <1>3 DEF Polls
<1>5. ObserverWatchesTheRun'
    BY <1>1, <1>2, <1>4 DEF TabInv, ObserverWatchesTheRun, PollReads, Answered, Turns
<1> QED BY <1>4, <1>5, PollStep DEF TabInv, TabTypes, RunsAreKnown, PollReads

(* The record of the run that the observer watches.                        *)
LEMMA WatchedRun ==
    ASSUME TabInv, observer.stage # "off", NEW status \in {"active", "ended"}
    PROVE  LET watched == [of |-> observer.of, turn |-> observer.turn, status |-> status]
           IN  watched \in RunRecords /\ Known(server, watched)
<1>1. /\ observer.of \in Conversations /\ observer.turn # 0
      /\ run.of = observer.of /\ run.turn = observer.turn
    BY DEF TabInv, ObserverWatchesTheRun
<1>2. observer.turn <= Len(server[observer.of].runs)
    BY <1>1, EmptyTabRecords DEF TabInv, RunsAreKnown, Known
<1>3. observer.turn \in 0..MaxTurns
    BY TabFields DEF TabInv
<1> QED BY <1>1, <1>2, <1>3 DEF RunRecords, Known

LEMMA PollToldKeeps ==
    ASSUME TabInv, PollTold
    PROVE  TabInv'
<1>1. UNCHANGED <<server, pending, drafts, selected, generation, messages, ready, loads, act, acts,
                  flipped, undone, dropped>> /\ observer.stage = "told" /\ observer \in Polls
    BY DEF PollTold, TabInv, TabTypes
<1>2. /\ run.of = observer.of /\ run.turn = observer.turn /\ observer.of \in Conversations
      /\ observer.turn # 0 /\ selected # None
    BY <1>1 DEF TabInv, ObserverWatchesTheRun
<1>3. CASE /\ observer.status = "ended" /\ UNCHANGED run
           /\ observer' = [observer EXCEPT !.stage = "ended"]
  <2>1. /\ observer' \in Polls /\ observer'.stage = "ended"
        /\ observer'.of = observer.of /\ observer'.turn = observer.turn
    BY <1>1, <1>3 DEF Polls
  <2>2. ObserverWatchesTheRun'
    BY <1>1, <1>3, <2>1 DEF TabInv, ObserverWatchesTheRun, Answered, Turns
  <2> QED BY <1>1, <1>3, <2>1, <2>2, PollStep DEF TabInv, TabTypes, RunsAreKnown
<1>4. CASE /\ observer' = [observer EXCEPT !.stage = "idle"]
           /\ run' = [of |-> observer.of, turn |-> observer.turn, status |-> "active"]
  <2>1. /\ observer' \in Polls /\ observer'.stage = "idle"
        /\ observer'.of = observer.of /\ observer'.turn = observer.turn
    BY <1>1, <1>4 DEF Polls
  <2>2. run' \in RunRecords /\ Known(server, run') /\ run'.of = run.of /\ run'.turn = observer.turn
    BY <1>1, <1>2, <1>4, WatchedRun
  <2>3. ObserverWatchesTheRun'
    BY <1>1, <1>2, <2>1, <2>2 DEF ObserverWatchesTheRun
  <2> QED BY <1>1, <2>1, <2>2, <2>3, PollStep DEF TabInv, TabTypes
<1> QED BY <1>3, <1>4 DEF PollTold

LEMMA PollHistoryKeeps ==
    ASSUME TabInv, PollHistory
    PROVE  TabInv'
<1>1. /\ observer.stage = "ended" /\ observer \in Polls
      /\ observer' = [observer EXCEPT !.stage = "history", !.upto = Answered(selected)]
      /\ UNCHANGED <<server, pending, drafts, selected, generation, run, messages, ready, loads,
                     act, acts, flipped, undone, dropped>>
    BY DEF PollHistory, TabInv, TabTypes
<1>2. /\ run.of = observer.of /\ run.turn = observer.turn /\ observer.of \in Conversations
      /\ observer.turn # 0 /\ selected # None /\ observer.turn <= Answered(observer.of)
    BY <1>1 DEF TabInv, ObserverWatchesTheRun
<1>3. Answered(selected) \in 0..MaxTurns
    BY <1>2, AnswersAreCounted DEF TabInv, TabTypes
<1>4. /\ observer' \in Polls /\ observer'.stage = "history" /\ observer'.upto = Answered(selected)
      /\ observer'.of = observer.of /\ observer'.turn = observer.turn
    BY <1>1, <1>3 DEF Polls
<1>5. ~flipped => selected = observer.of
    BY <1>2, TabNames DEF TabInv, ShownIsSelected
<1>6. ObserverWatchesTheRun'
    BY <1>1, <1>2, <1>4, <1>5 DEF ObserverWatchesTheRun
<1> QED BY <1>1, <1>4, <1>6, PollStep DEF TabInv, TabTypes, RunsAreKnown

LEMMA PollSettlesKeeps ==
    ASSUME TabInv, PollSettles
    PROVE  TabInv'
<1>1. /\ observer.stage = "history" /\ observer \in Polls
      /\ messages' = [of |-> {selected}, upto |-> observer.upto]
      /\ run' = [of |-> observer.of, turn |-> observer.turn, status |-> "ended"]
      /\ observer' = [observer EXCEPT !.stage = "settled"]
      /\ UNCHANGED <<server, pending, drafts, selected, generation, ready, loads, act, acts, flipped,
                     undone, dropped>>
    BY DEF PollSettles, TabInv, TabTypes
<1>2. /\ run.of = observer.of /\ run.turn = observer.turn /\ observer.of \in Conversations
      /\ observer.turn # 0 /\ selected # None /\ (~flipped => observer.turn <= observer.upto)
      /\ selected \in Conversations
    BY <1>1 DEF TabInv, TabTypes, ObserverWatchesTheRun
<1>3. /\ observer' \in Polls /\ observer'.stage = "settled"
      /\ observer'.of = observer.of /\ observer'.turn = observer.turn
    BY <1>1 DEF Polls
<1>4. run' \in RunRecords /\ Known(server, run') /\ run'.of = run.of /\ run'.turn = observer.turn
      /\ run'.status = "ended"
    BY <1>1, <1>2, WatchedRun
<1>5. ObserverWatchesTheRun'
    BY <1>1, <1>2, <1>3, <1>4 DEF ObserverWatchesTheRun
<1>6. messages' \in [of : SUBSET Conversations, upto : 0..MaxTurns] /\ messages'.of = {selected}
      /\ messages'.upto = observer.upto
    BY <1>1, <1>2, TabFields DEF TabInv
<1> QED BY <1>1, <1>2, <1>3, <1>4, <1>5, <1>6, PollStep

LEMMA ActIsOver ==
    ASSUME TabInv, act' = NoAct, UNCHANGED <<acts, generation>>
    PROVE  ActOK'
<1>1. generation \in Nat /\ acts \in Nat /\ acts \in 0..MaxActs
    BY TabFields DEF TabInv, TabTypes
<1>2. NoAct.key <= acts /\ Known(server', NoAct.run)
    BY <1>1, EmptyTabRecords DEF Known
<1>3. ActsAreUnderWay'
    BY <1>1, EmptyTabRecords DEF ActsAreUnderWay
<1> QED BY <1>1, <1>2, <1>3, EmptyTabRecords DEF ActOK

LEMMA BeginActKeeps ==
    ASSUME TabInv, NEW kind \in Asks, BeginAct(kind)
    PROVE  TabInv'
<1> DEFINE new == [[NoAct EXCEPT !.kind = kind, !.run = run] EXCEPT !.of = selected, !.version = generation]
<1>1. /\ UNCHANGED <<server, pending, drafts, selected, generation, run, messages, ready, loads,
                     observer, flipped, undone, dropped>>
      /\ acts < MaxActs /\ acts' = acts + 1 /\ selected # None /\ act' = new
    BY DEF BeginAct, Begin, Free
<1>2. acts \in Nat /\ acts' \in 0..MaxActs /\ acts <= acts' /\ generation \in 0..MaxSelects
      /\ run \in RunRecords /\ selected \in Conversations
    BY <1>1, TabNames DEF TabInv, TabTypes
<1>3. /\ new \in Acts /\ new.kind = kind /\ new.run = run /\ new.of = selected
      /\ new.version = generation /\ new.key = 0 /\ new.told = "waiting"
  <2> DEFINE blank == [NoAct EXCEPT !.kind = kind, !.run = run]
  <2>1. /\ blank \in Acts /\ blank.kind = kind /\ blank.run = run /\ blank.key = 0
        /\ blank.told = "waiting"
    BY <1>2, EmptyTabRecords DEF Acts
  <2> HIDE DEF blank
  <2>2. new = [blank EXCEPT !.of = selected, !.version = generation]
    BY DEF blank
  <2> HIDE DEF new
  <2> QED BY <1>2, <2>1, <2>2 DEF Acts
<1> HIDE DEF new
<1>4. ActsAreUnderWay'
    BY <1>1, <1>2, <1>3, EmptyTabRecords DEF TabInv, ActsAreUnderWay, ShownIsSelected, Asks
<1>5. ActOK'
    BY <1>1, <1>2, <1>3, <1>4 DEF TabInv, RunsAreKnown, ActOK
<1>6. StaysOnScreen
    BY <1>1 DEF StaysOnScreen
<1> QED BY <1>1, <1>2, <1>5, <1>6, ScreenUnchanged, QuietStep

LEMMA ServerActsKeeps ==
    ASSUME TabInv, ServerActs
    PROVE  TabInv'
<1> DEFINE told == IF act.run.turn = 0 THEN act.run
                   ELSE [act.run EXCEPT !.status = StatusOf(act.run.of, act.run.turn)]
           new == [act EXCEPT !.told = "done", !.run = told]
<1>1. /\ UNCHANGED <<server, pending, drafts, selected, generation, run, messages, ready, loads,
                     observer, acts, flipped, undone, dropped>>
      /\ act.kind \in Asks /\ act.told = "waiting" /\ act' = new
    BY DEF ServerActs, Asks
<1>2. act \in Acts /\ act.run \in RunRecords /\ Known(server, act.run)
    BY TabFields DEF TabInv, TabTypes, RunsAreKnown
<1>3. told \in RunRecords /\ Known(server, told) /\ told.of = act.run.of
  <2>1. CASE act.run.turn = 0
    BY <1>2, <2>1
  <2>2. CASE act.run.turn # 0
    <3> DEFINE status == StatusOf(act.run.of, act.run.turn)
    <3>1. told = [act.run EXCEPT !.status = status] /\ status \in {"active", "ended"}
      BY <2>2 DEF StatusOf
    <3> HIDE DEF status
    <3>2. /\ told \in RunRecords /\ told.of = act.run.of /\ told.turn = act.run.turn
          /\ told.status = status
      BY <1>2, <3>1 DEF RunRecords
    <3> QED BY <1>2, <2>2, <3>1, <3>2, EmptyTabRecords DEF Known
  <2> QED BY <2>1, <2>2
<1> HIDE DEF told
<1>4. /\ new \in Acts /\ new.kind = act.kind /\ new.run = told /\ new.of = act.of
      /\ new.version = act.version /\ new.key = act.key /\ new.told = "done"
    BY <1>2, <1>3 DEF Acts
<1> HIDE DEF new
<1>5. ActsAreUnderWay'
    BY <1>1, <1>3, <1>4 DEF TabInv, ActsAreUnderWay, Asks
<1>6. ActOK'
    BY <1>1, <1>3, <1>4, <1>5 DEF TabInv, TabTypes, KeysAreOfTheLastRun, ActOK
<1>7. StaysOnScreen /\ acts <= acts'
    BY <1>1, TabFields DEF StaysOnScreen, TabInv
<1> QED BY <1>1, <1>6, <1>7, ScreenUnchanged, QuietStep

(* An answer that says nothing of a run.                                   *)
LEMMA SendIsTold ==
    ASSUME TabInv, act.kind = "send", act.told # "history", NEW told \in {"refused", "conflict"},
           act' = [act EXCEPT !.told = told], UNCHANGED <<server, pending, acts, generation>>,
           StaysOnScreen
    PROVE  ActOK'
<1> DEFINE new == [act EXCEPT !.told = told]
<1>1. act \in Acts
    BY DEF TabInv, TabTypes
<1>2. /\ new \in Acts /\ new.kind = act.kind /\ new.run = act.run /\ new.of = act.of
      /\ new.version = act.version /\ new.key = act.key /\ new.told = told /\ act' = new
    BY <1>1 DEF Acts
<1> HIDE DEF new
<1>3. ActsAreUnderWay'
    BY <1>2 DEF TabInv, ActsAreUnderWay
<1> QED BY <1>2, <1>3 DEF TabInv, TabTypes, KeysAreOfTheLastRun, RunsAreKnown, ActOK

LEMMA ActFailsKeeps ==
    ASSUME TabInv, ActFails
    PROVE  TabInv'
<1>1. UNCHANGED <<server, pending, drafts, selected, generation, run, messages, ready, loads,
                  observer, acts, flipped, undone, dropped>>
    BY DEF ActFails
<1>2. StaysOnScreen /\ acts <= acts'
    BY <1>1, TabFields DEF StaysOnScreen, TabInv
<1>3. CASE act' = NoAct
    BY <1>1, <1>2, <1>3, ActIsOver, ScreenUnchanged, QuietStep
<1>4. CASE act.kind = "send" /\ act.told = "waiting" /\ Answer("refused")
  <2>1. act' = [act EXCEPT !.told = "refused"]
    BY <1>4 DEF Answer
  <2> QED BY <1>1, <1>2, <1>4, <2>1, SendIsTold, ScreenUnchanged, QuietStep
<1> QED BY <1>3, <1>4 DEF ActFails

LEMMA SentHistoryKeeps ==
    ASSUME TabInv, SentHistory
    PROVE  TabInv'
<1>1. UNCHANGED <<server, pending, drafts, selected, generation, run, ready, loads, observer,
                  acts, flipped, undone, dropped>> /\ act.told = "history"
    BY DEF SentHistory
<1>2. StaysOnScreen /\ acts <= acts'
    BY <1>1, TabFields DEF StaysOnScreen, TabInv
<1>3. act.kind = "send" /\ act.of \in Conversations /\ ~server[act.of].live
      /\ act.upto \in {-1, Turns(act.of)} /\ act \in Acts
    BY <1>1 DEF TabInv, TabTypes, ActsAreUnderWay
<1>4. CASE act.upto = -1
  <2> DEFINE new == [act EXCEPT !.upto = Answered(act.of)]
  <2>1. Answered(act.of) = Turns(act.of) /\ Answered(act.of) \in -1..MaxTurns
    BY <1>3, AnswersAreCounted, TabNames DEF Answered, TabInv
  <2>2. act' = new /\ UNCHANGED messages
    BY <1>4 DEF SentHistory
  <2>3. /\ new \in Acts /\ new.kind = act.kind /\ new.run = act.run /\ new.of = act.of
        /\ new.version = act.version /\ new.key = act.key /\ new.told = act.told
        /\ new.upto = Turns(act.of)
    BY <1>3, <2>1 DEF Acts
  <2> HIDE DEF new
  <2>4. ActsAreUnderWay'
    BY <1>1, <1>3, <2>2, <2>3 DEF TabInv, ActsAreUnderWay, Turns
  <2>5. ActOK'
    BY <1>1, <2>2, <2>3, <2>4 DEF TabInv, TabTypes, KeysAreOfTheLastRun, RunsAreKnown, ActOK
  <2> QED BY <1>1, <1>2, <2>2, <2>5, ScreenUnchanged, QuietStep
<1>5. CASE act.upto # -1
  <2>1. act' = NoAct
    BY <1>5 DEF SentHistory
  <2>2. CASE selected # act.of
    BY <1>1, <1>2, <1>5, <2>1, <2>2, ActIsOver, ScreenUnchanged, QuietStep DEF SentHistory
  <2>3. CASE selected = act.of
    <3>1. messages' = [of |-> {act.of}, upto |-> act.upto]
      BY <1>5, <2>3 DEF SentHistory
    <3>2. act.upto = Turns(act.of) /\ act.upto \in 0..MaxTurns
      BY <1>3, <1>5, TabFields, TabNames DEF TabInv
    <3>3. messages' \in [of : SUBSET Conversations, upto : 0..MaxTurns]
          /\ messages'.of = {selected} /\ messages'.upto = Turns(selected)
      BY <1>3, <2>3, <3>1, <3>2
    <3>4. ShownIsSelected'
      BY <1>1, <3>3 DEF TabInv, ShownIsSelected
    <3>5. ObserverWatchesTheRun'
      BY <1>1, ObserverStands
    <3>6. observer.stage = "settled" /\ ~flipped => observer.turn <= Turns(selected)
      <4> SUFFICES ASSUME observer.stage = "settled", ~flipped PROVE observer.turn <= Turns(selected)
        OBVIOUS
      <4>1. /\ run.of = observer.of /\ run.turn = observer.turn /\ observer.of \in Conversations
            /\ selected # None
        BY DEF TabInv, ObserverWatchesTheRun
      <4>2. observer.of = selected
        BY <4>1, TabNames DEF TabInv, ShownIsSelected
      <4> QED BY <4>1, <4>2, EmptyTabRecords, TabNames DEF TabInv, RunsAreKnown, Known, Turns
    <3>7. EndedRunsAreAnswered'
      BY <1>1, <3>3, <3>6 DEF EndedRunsAreAnswered
    <3>8. ScreenOK'
      BY <1>1, <3>3, <3>4, <3>5, <3>7 DEF TabInv, TabTypes, RunsAreKnown, ScreenOK
    <3> QED BY <1>1, <1>2, <2>1, <3>8, ActIsOver, QuietStep
  <2> QED BY <2>2, <2>3
<1> QED BY <1>4, <1>5

(* A step that shows newRun, which the server knows, and leaves the rest   *)
(* of the screen alone.                                                    *)
LEMMA ShowStep ==
    ASSUME TabInv, NEW newRun \in RunRecords, Known(server, newRun), Show(newRun, FALSE),
           selected # None /\ ~flipped => newRun.of \in {selected, None},
           UNCHANGED <<server, selected, messages, flipped>>
    PROVE  ScreenOK'
<1>1. run' = newRun /\ Watch(newRun, selected') /\ undone' = (undone \/ Undoes(newRun, FALSE))
    BY DEF Show
<1>2. undone' \in BOOLEAN /\ (undone => undone')
      /\ (run.status = "ended" /\ run.of = newRun.of /\ run.turn = newRun.turn
            /\ newRun.status = "active" => undone')
    BY <1>1 DEF Undoes
<1>3. observer' \in Polls /\ ObserverWatchesTheRun'
      /\ (observer' = observer \/ observer'.stage # "settled")
    BY <1>1, <1>2, WatchKeeps
<1>4. EndedRunsAreAnswered'
    BY <1>2, <1>3, AnswersStand
<1>5. ShownIsSelected'
    BY <1>1 DEF TabInv, ShownIsSelected
<1> QED BY <1>1, <1>2, <1>3, <1>4, <1>5 DEF TabInv, TabTypes, ScreenOK

(* A step that goes to another conversation and leaves what is shown.      *)
LEMMA GoStep ==
    ASSUME TabInv, NEW to \in Conversations \cup {None}, selected' = to, Watch(run, to),
           UNCHANGED <<server, run, messages, undone>>, flipped' \in BOOLEAN, flipped => flipped',
           to # None /\ ~flipped' => selected = to
    PROVE  ScreenOK'
<1>1. run \in RunRecords /\ Known(server, run)
    BY DEF TabInv, TabTypes, RunsAreKnown
<1>2. observer' \in Polls /\ ObserverWatchesTheRun'
      /\ (observer' = observer \/ observer'.stage # "settled")
    BY <1>1, WatchKeeps
<1>3. EndedRunsAreAnswered'
    BY <1>2, AnswersStand
<1>4. ShownIsSelected'
    BY DEF TabInv, ShownIsSelected
<1> QED BY <1>1, <1>2, <1>3, <1>4 DEF TabInv, TabTypes, ScreenOK

LEMMA PinnedKeeps ==
    ASSUME TabInv, Pinned
    PROVE  TabInv'
<1>1. /\ UNCHANGED <<server, pending, drafts, generation, run, messages, ready, loads, acts, undone,
                     dropped>>
      /\ act' = NoAct /\ selected' = act.of /\ Watch(run, act.of)
      /\ flipped' = (flipped \/ selected # act.of)
      /\ act.of \in Conversations
    BY DEF Pinned, TabInv, ActsAreUnderWay
<1>2. flipped' \in BOOLEAN /\ (flipped => flipped') /\ (~flipped' => selected = act.of)
    BY <1>1 DEF TabInv, TabTypes
<1>3. StaysOnScreen /\ acts <= acts'
    BY <1>1, <1>2, TabFields DEF StaysOnScreen, TabInv
<1>4. ScreenOK'
    BY <1>1, <1>2, GoStep
<1> QED BY <1>1, <1>3, <1>4, ActIsOver, QuietStep

LEMMA ArchivedKeeps ==
    ASSUME TabInv, Archived
    PROVE  TabInv'
<1>1. /\ UNCHANGED <<server, pending, drafts, generation, run, messages, ready, loads, acts, flipped,
                     undone, dropped>>
      /\ act' = NoAct /\ selected' = None /\ Watch(run, None)
    BY DEF Archived
<1>2. StaysOnScreen /\ acts <= acts' /\ flipped' \in BOOLEAN
    BY <1>1, TabFields DEF StaysOnScreen, TabInv, TabTypes
<1>3. ScreenOK'
    BY <1>1, <1>2, GoStep
<1> QED BY <1>1, <1>2, <1>3, ActIsOver, QuietStep

LEMMA PrependedKeeps ==
    ASSUME TabInv, Prepended
    PROVE  TabInv'
<1>1. /\ UNCHANGED <<server, pending, drafts, selected, generation, run, ready, loads, observer, acts,
                     undone, dropped>>
      /\ messages' = [messages EXCEPT !.of = messages.of \cup {act.of}]
      /\ flipped' = (flipped \/ selected # act.of) /\ act' = NoAct /\ act.of \in Conversations
    BY DEF Prepended, TabInv, ActsAreUnderWay
<1>2. flipped' \in BOOLEAN /\ (flipped => flipped') /\ (~flipped' => selected = act.of)
    BY <1>1 DEF TabInv, TabTypes
<1>3. StaysOnScreen /\ acts <= acts'
    BY <1>1, <1>2, TabFields DEF StaysOnScreen, TabInv
<1>4. /\ messages' \in [of : SUBSET Conversations, upto : 0..MaxTurns]
      /\ messages'.of = messages.of \cup {act.of} /\ messages'.upto = messages.upto
    BY <1>1 DEF TabInv, TabTypes
<1>5. ShownIsSelected'
    BY <1>1, <1>2, <1>4 DEF TabInv, ShownIsSelected
<1>6. ObserverWatchesTheRun'
    BY <1>1, <1>2, ObserverStands
<1>7. EndedRunsAreAnswered'
    BY <1>1, <1>2, <1>4 DEF TabInv, EndedRunsAreAnswered
<1>8. ScreenOK'
    BY <1>1, <1>2, <1>4, <1>5, <1>6, <1>7 DEF TabInv, TabTypes, RunsAreKnown, ScreenOK
<1> QED BY <1>1, <1>3, <1>8, ActIsOver, QuietStep

LEMMA StatusShownKeeps ==
    ASSUME TabInv, StatusShown
    PROVE  TabInv'
<1>1. /\ UNCHANGED <<server, pending, drafts, selected, generation, messages, ready, loads, acts,
                     flipped, dropped>>
      /\ act' = NoAct /\ act.kind \in {"control", "status"}
    BY DEF StatusShown
<1>2. StaysOnScreen /\ acts <= acts'
    BY <1>1, TabFields DEF StaysOnScreen, TabInv
<1>3. CASE UNCHANGED <<run, observer, undone>>
    BY <1>1, <1>2, <1>3, ScreenUnchanged, ActIsOver, QuietStep
<1>4. CASE act.version = generation /\ Show(act.run, FALSE)
  <2>1. act.run \in RunRecords /\ Known(server, act.run)
    BY TabFields DEF TabInv, RunsAreKnown
  <2>2. selected # None /\ ~flipped => act.run.of \in {selected, None}
    BY <1>1, <1>4 DEF TabInv, ActsAreUnderWay
  <2>3. ScreenOK'
    BY <1>1, <1>4, <2>1, <2>2, ShowStep
  <2> QED BY <1>1, <1>2, <2>3, ActIsOver, QuietStep
<1> QED BY <1>3, <1>4 DEF StatusShown

(* A step that changes the keys and drafts of conversations, and not what  *)
(* the server has.                                                         *)
LEMMA KeysStep ==
    ASSUME TabInv, UNCHANGED <<server, selected, loads, generation, ready, flipped>>,
           pending' \in [Conversations -> 0..MaxActs], drafts' \in [Conversations -> Nat],
           dropped' \subseteq Conversations, dropped \subseteq dropped',
           KeysAreOfTheLastRun', DraftsHaveTheirKey', ScreenOK', ActOK'
    PROVE  TabInv'
<1>1. TabTypes'
    BY DEF TabInv, TabTypes, ScreenOK, ActOK
<1>2. RunsAreBounded' /\ OneRunPerMessage'
    BY DEF TabInv, RunsAreBounded, OneRunPerMessage, Turns
<1>3. RunsAreKnown'
    BY DEF TabInv, RunsAreKnown, ScreenOK, ActOK
<1>4. LoadsAreOfTheirConversation'
    BY LoadsUnchanged DEF StaysOnScreen
<1> QED BY <1>1, <1>2, <1>3, <1>4 DEF TabInv, ScreenOK, ActOK

LEMMA BeginSendKeeps ==
    ASSUME TabInv, BeginSend
    PROVE  TabInv'
<1> DEFINE s == selected
           key == IF pending[s] # 0 THEN pending[s] ELSE acts + 1
           new == [[NoAct EXCEPT !.kind = "send", !.key = key]
                        EXCEPT !.of = selected, !.version = generation]
<1>1. /\ UNCHANGED <<server, drafts, selected, generation, run, messages, ready, loads, observer,
                     flipped, undone, dropped>>
      /\ selected \in Conversations /\ acts < MaxActs /\ acts' = acts + 1
      /\ pending' = [pending EXCEPT ![s] = key] /\ act' = new
    BY DEF BeginSend, Begin, Free, TabInv, TabTypes
<1>2. acts \in Nat /\ acts' \in 0..MaxActs /\ generation \in 0..MaxSelects
    BY <1>1, TabNames DEF TabInv, TabTypes
<1>3. pending[s] \in 0..MaxActs /\ pending[s] <= acts
    BY <1>1, TabFields DEF TabInv, KeysAreOfTheLastRun
<1>4. key \in 1..MaxActs /\ key <= acts'
    BY <1>1, <1>2, <1>3, TabNames
<1>5. pending[s] # 0 => key = pending[s]
    OBVIOUS
<1>6. pending[s] = 0 => key = acts + 1
    OBVIOUS
<1> HIDE DEF key
<1>7. /\ new \in Acts /\ new.kind = "send" /\ new.run = NoRun /\ new.of = selected
      /\ new.version = generation /\ new.key = key /\ new.told = "waiting"
  <2> DEFINE blank == [NoAct EXCEPT !.kind = "send", !.key = key]
  <2>1. /\ blank \in Acts /\ blank.kind = "send" /\ blank.run = NoRun /\ blank.key = key
        /\ blank.told = "waiting"
    <3>1. key \in 0..MaxActs
      BY <1>4, TabNames
    <3>2. NoAct \in Acts /\ NoAct.run = NoRun /\ NoAct.told = "waiting"
      BY EmptyTabRecords
    <3> QED BY <3>1, <3>2 DEF Acts
  <2> HIDE DEF blank
  <2>2. new = [blank EXCEPT !.of = selected, !.version = generation]
    BY DEF blank
  <2> HIDE DEF new
  <2> QED BY <1>1, <1>2, <2>1, <2>2 DEF Acts
<1> HIDE DEF new
<1>8. pending' \in [Conversations -> 0..MaxActs]
      /\ \A c \in Conversations : pending'[c] = IF c = s THEN key ELSE pending[c]
    BY <1>1, <1>4 DEF TabInv, TabTypes
<1>9. ASSUME NEW c \in Conversations
      PROVE  /\ pending'[c] <= acts'
             /\ \A i \in 1..Turns(c)' : /\ server'[c].runs[i].key <= acts'
                                        /\ server'[c].runs[i].key = pending'[c] => i = Turns(c)'
             /\ \A i \in 1..Turns(c)' : server'[c].runs[i].key = pending[c] =>
                                            server'[c].runs[i].key = pending'[c]
  <2>1. /\ pending[c] \in Nat
        /\ \A i \in 1..Turns(c) : server[c].runs[i].key \in Nat /\ server[c].runs[i].key # 0
    <3>1. pending[c] \in 0..MaxActs /\ \A i \in 1..Turns(c) : server[c].runs[i].key \in 1..MaxActs
      BY TabFields DEF TabInv
    <3> HIDE DEF Turns
    <3> QED BY <3>1, TabNames
  <2>2. /\ pending[c] <= acts
        /\ \A i \in 1..Turns(c) : /\ server[c].runs[i].key <= acts
                                  /\ server[c].runs[i].key = pending[c] => i = Turns(c)
    BY DEF TabInv, KeysAreOfTheLastRun
  <2>3. Turns(c)' = Turns(c) /\ server' = server
    BY <1>1 DEF Turns
  <2> HIDE DEF Turns
  <2>4. CASE c # s \/ pending[s] # 0
    BY <1>1, <1>2, <1>5, <1>8, <2>1, <2>2, <2>3, <2>4
  <2>5. CASE c = s /\ pending[s] = 0
    BY <1>1, <1>2, <1>6, <1>8, <2>1, <2>2, <2>3, <2>5
  <2> QED BY <2>4, <2>5
<1>10. KeysAreOfTheLastRun'
    BY <1>1, <1>4, <1>7, <1>9 DEF KeysAreOfTheLastRun
<1>11. DraftsHaveTheirKey'
    BY <1>1, <1>9 DEF TabInv, DraftsHaveTheirKey, Turns
<1>12. ActsAreUnderWay'
    BY <1>1, <1>2, <1>4, <1>7, <1>8 DEF ActsAreUnderWay, Asks
<1>13. ActOK'
    BY <1>1, <1>2, <1>4, <1>7, <1>12, EmptyTabRecords DEF ActOK, Known
<1> QED BY <1>1, <1>8, <1>10, <1>11, <1>13, ScreenUnchanged, KeysStep DEF TabInv, TabTypes

LEMMA SendRefusedKeeps ==
    ASSUME TabInv, SendRefused
    PROVE  TabInv'
<1> DEFINE s == act.of
<1>1. /\ UNCHANGED <<server, drafts, selected, generation, run, messages, ready, loads,
                     observer, acts, flipped, undone>>
      /\ act' = NoAct /\ s \in Conversations /\ act.key # 0 /\ pending[s] = act.key
    BY DEF SendRefused, TabInv, ActsAreUnderWay
<1>2. CASE act.told = "conflict"
  <2>1. UNCHANGED <<pending, dropped>>
    BY <1>2 DEF SendRefused
  <2>2. StaysOnScreen /\ acts <= acts'
    BY <1>1, TabFields DEF StaysOnScreen, TabInv
  <2> QED BY <1>1, <2>1, <2>2, ScreenUnchanged, ActIsOver, QuietStep
<1>3. CASE act.told = "refused"
  <2>1. /\ pending' = [pending EXCEPT ![s] = 0]
        /\ dropped' = IF TurnsOf(s, act.key) # {} THEN dropped \cup {s} ELSE dropped
    BY <1>3 DEF SendRefused
  <2>2. /\ pending' \in [Conversations -> 0..MaxActs]
        /\ \A c \in Conversations : pending'[c] = IF c = s THEN 0 ELSE pending[c]
        /\ dropped' \subseteq Conversations /\ dropped \subseteq dropped'
    BY <1>1, <2>1, TabNames DEF TabInv, TabTypes
  <2>3. acts' = acts /\ acts \in Nat /\ NoAct.key <= acts
    BY <1>1, TabFields, EmptyTabRecords DEF TabInv
  <2>4. ASSUME NEW c \in Conversations
        PROVE  /\ pending'[c] <= acts'
               /\ \A i \in 1..Turns(c)' : /\ server'[c].runs[i].key <= acts'
                                          /\ server'[c].runs[i].key = pending'[c] => i = Turns(c)'
               /\ \A i \in 1..Turns(c)' : /\ server'[c].runs[i].key = pending[c] /\ c \notin dropped'
                                            => server'[c].runs[i].key = pending'[c]
    <3>1. /\ pending[c] <= acts
          /\ \A i \in 1..Turns(c) : /\ server[c].runs[i].key <= acts
                                    /\ server[c].runs[i].key = pending[c] => i = Turns(c)
      BY DEF TabInv, KeysAreOfTheLastRun
    <3>2. \A i \in 1..Turns(c) : server[c].runs[i].key # 0
      <4>1. \A i \in 1..Turns(c) : server[c].runs[i].key \in 1..MaxActs
        BY TabFields DEF TabInv
      <4> HIDE DEF Turns
      <4> QED BY <4>1, TabNames
    <3>3. Turns(c)' = Turns(c) /\ server' = server
      BY <1>1 DEF Turns
    <3> HIDE DEF Turns
    <3>4. CASE c # s
      BY <2>2, <2>3, <3>1, <3>3, <3>4
    <3>5. CASE c = s
      <4>1. c \notin dropped' => TurnsOf(c, act.key) = {}
        BY <2>1, <3>5
      <4>2. c \notin dropped' => \A i \in 1..Turns(c) : server[c].runs[i].key # pending[c]
        BY <1>1, <3>5, <4>1 DEF TurnsOf
      <4> QED BY <2>2, <2>3, <3>1, <3>2, <3>3, <3>5, <4>2
    <3> QED BY <3>4, <3>5
  <2>5. KeysAreOfTheLastRun'
    BY <1>1, <2>3, <2>4 DEF KeysAreOfTheLastRun
  <2>6. DraftsHaveTheirKey'
    BY <1>1, <2>2, <2>4 DEF TabInv, DraftsHaveTheirKey, Turns
  <2> QED BY <1>1, <2>2, <2>5, <2>6, ScreenUnchanged, ActIsOver, KeysStep DEF TabInv, TabTypes
<1> QED BY <1>2, <1>3 DEF SendRefused

LEMMA SentKeeps ==
    ASSUME TabInv, Sent
    PROVE  TabInv'
<1> DEFINE s == act.of
           reading == [act EXCEPT !.told = "history", !.upto = -1]
<1>1. /\ UNCHANGED <<server, selected, generation, messages, ready, loads, acts, flipped, dropped>>
      /\ pending' = [pending EXCEPT ![s] = 0] /\ drafts' = [drafts EXCEPT ![s] = drafts[s] + 1]
      /\ act.kind = "send" /\ act.told = "run" /\ s \in Conversations
      /\ act.run.of = s /\ (act.run.status = "ended" => ~server[s].live)
    BY DEF Sent, TabInv, ActsAreUnderWay
<1>2. /\ pending' \in [Conversations -> 0..MaxActs] /\ drafts' \in [Conversations -> Nat]
      /\ \A c \in Conversations : /\ pending'[c] = IF c = s THEN 0 ELSE pending[c]
                                  /\ drafts'[c] = IF c = s THEN drafts[c] + 1 ELSE drafts[c]
    BY <1>1, TabNames DEF TabInv, TabTypes
<1>3. acts' = acts /\ acts \in Nat /\ NoAct.key <= acts /\ act.key <= acts
    BY <1>1, TabFields, EmptyTabRecords DEF TabInv, KeysAreOfTheLastRun
<1>4. ASSUME NEW c \in Conversations
      PROVE  /\ pending'[c] <= acts'
             /\ \A i \in 1..Turns(c)' :
                    /\ server'[c].runs[i].key <= acts'
                    /\ server'[c].runs[i].key = pending'[c] => i = Turns(c)'
                    /\ server'[c].runs[i].draft <= drafts'[c]
                    /\ c \notin dropped' /\ server'[c].runs[i].draft = drafts'[c] =>
                            server'[c].runs[i].key = pending'[c]
  <2>1. /\ pending[c] <= acts /\ drafts[c] \in Nat
        /\ \A i \in 1..Turns(c) : /\ server[c].runs[i].key <= acts
                                  /\ server[c].runs[i].key = pending[c] => i = Turns(c)
                                  /\ server[c].runs[i].draft <= drafts[c]
                                  /\ c \notin dropped /\ server[c].runs[i].draft = drafts[c] =>
                                        server[c].runs[i].key = pending[c]
    BY TabFields DEF TabInv, KeysAreOfTheLastRun, DraftsHaveTheirKey
  <2>2. \A i \in 1..Turns(c) : server[c].runs[i].key # 0 /\ server[c].runs[i].draft \in Nat
    <3>1. \A i \in 1..Turns(c) : server[c].runs[i].key \in 1..MaxActs /\ server[c].runs[i].draft \in Nat
      BY TabFields DEF TabInv
    <3> HIDE DEF Turns
    <3> QED BY <3>1, TabNames
  <2>3. Turns(c)' = Turns(c) /\ server' = server /\ dropped' = dropped
    BY <1>1 DEF Turns
  <2> HIDE DEF Turns
  <2>4. CASE c # s
    BY <1>2, <1>3, <2>1, <2>3, <2>4
  <2>5. CASE c = s
    BY <1>2, <1>3, <2>1, <2>2, <2>3, <2>5
  <2> QED BY <2>4, <2>5
<1>5. DraftsHaveTheirKey'
    BY <1>4 DEF DraftsHaveTheirKey
<1>6. act.run \in RunRecords /\ Known(server, act.run) /\ act \in Acts /\ acts \in 0..MaxActs
    BY TabFields DEF TabInv, TabTypes, RunsAreKnown
<1>7. /\ reading \in Acts /\ reading.kind = "send" /\ reading.run = act.run /\ reading.of = s
      /\ reading.version = act.version /\ reading.key = act.key /\ reading.told = "history"
      /\ reading.upto = -1
  <2>1. -1 \in -1..MaxTurns
    BY TabNames
  <2> QED BY <1>1, <1>6, <2>1 DEF Acts
<1> HIDE DEF reading
<1>8. ASSUME act' = reading, act.run.status = "ended"
      PROVE  ActOK'
  <2>1. ActsAreUnderWay'
    BY <1>1, <1>7, <1>8 DEF TabInv, ActsAreUnderWay
  <2> QED BY <1>1, <1>3, <1>6, <1>7, <1>8, <2>1 DEF ActOK
<1>9. ASSUME ActOK', ScreenOK' PROVE TabInv'
  <2>1. KeysAreOfTheLastRun'
    BY <1>4, <1>9 DEF KeysAreOfTheLastRun, ActOK
  <2> QED BY <1>1, <1>2, <1>5, <1>9, <2>1, KeysStep DEF TabInv, TabTypes
<1>10. CASE selected # s
  <2>1. act' = NoAct /\ UNCHANGED <<run, observer, undone>>
    BY <1>10 DEF Sent
  <2> QED BY <1>1, <1>9, <2>1, ActIsOver, ScreenUnchanged
<1>11. CASE selected = s
  <2>1. /\ Show(act.run, FALSE)
        /\ act' = IF act.run.status = "ended" THEN reading ELSE NoAct
    BY <1>11 DEF Sent, reading
  <2>2. ScreenOK'
    BY <1>1, <1>6, <1>11, <2>1, ShowStep
  <2>3. ActOK'
    BY <1>1, <1>8, <2>1, ActIsOver
  <2> QED BY <1>9, <2>2, <2>3
<1> QED BY <1>10, <1>11

(* What was known of a run stays known when the server's runs only grow.   *)
LEMMA KnownGrows ==
    ASSUME TabTypes, TabTypes', \A s \in Conversations : Turns(s) <= Turns(s)',
           NEW r \in RunRecords, Known(server, r)
    PROVE  Known(server', r)
<1>1. CASE r = NoRun
    BY <1>1 DEF Known
<1>2. CASE r # NoRun
  <2>1. r.of \in Conversations /\ r.turn <= Turns(r.of) /\ (r.status \in {"active", "ended"} <=> r.turn # 0)
    BY <1>2 DEF Known, Turns
  <2>2. r.turn \in Nat /\ Turns(r.of) \in Nat
    <3>1. r.turn \in 0..MaxTurns /\ Turns(r.of) \in Nat
      BY <2>1, TabFields DEF RunRecords
    <3> HIDE DEF Turns
    <3> QED BY <3>1, TabNames
  <2>3. server'[r.of].runs \in Seq(Kept)
    BY <2>1 DEF TabTypes
  <2>4. Turns(r.of)' \in Nat /\ Turns(r.of) <= Turns(r.of)' /\ Turns(r.of)' = Len(server'[r.of].runs)
    BY <2>1, <2>3 DEF Turns
  <2> HIDE DEF Turns
  <2>5. r.turn <= Len(server'[r.of].runs)
    BY <2>1, <2>2, <2>4
  <2> QED BY <2>1, <2>5 DEF Known
<1> QED BY <1>1, <1>2

(* A step of the server, whose runs and answers only grow.                 *)
LEMMA ServerStep ==
    ASSUME TabInv, UNCHANGED <<pending, drafts, selected, generation, run, messages, ready, loads,
                               observer, acts, flipped, undone, dropped>>,
           server' \in [Conversations -> [runs : Seq(Kept), live : BOOLEAN]], act' \in Acts,
           RunsAreBounded', KeysAreOfTheLastRun', DraftsHaveTheirKey', OneRunPerMessage',
           ActsAreUnderWay', act'.run = act.run \/ Known(server', act'.run),
           \A s \in Conversations : Turns(s) <= Turns(s)' /\ Answered(s) <= Answered(s)'
    PROVE  TabInv'
<1>1. TabTypes /\ TabTypes'
    BY DEF TabInv, TabTypes
<1>2. \A r \in RunRecords : Known(server, r) => Known(server', r)
    BY <1>1, KnownGrows
<1>3. RunsAreKnown'
  <2>1. Known(server, run) /\ Known(server, act.run) /\ \A v \in 1..MaxSelects : Known(server, loads[v].run)
    BY DEF TabInv, RunsAreKnown
  <2>2. run \in RunRecords /\ act.run \in RunRecords /\ \A v \in 1..MaxSelects : loads[v].run \in RunRecords
    BY <1>1, TabFields DEF TabTypes
  <2> QED BY <1>2, <2>1, <2>2 DEF RunsAreKnown
<1>4. LoadsAreOfTheirConversation' /\ ShownIsSelected' /\ EndedRunsAreAnswered'
    BY DEF TabInv, LoadsAreOfTheirConversation, ShownIsSelected, EndedRunsAreAnswered
<1>5. ObserverWatchesTheRun'
  <2> SUFFICES ASSUME observer.stage # "off",
                      observer.stage = "ended" \/ (observer.stage = "told" /\ observer.status = "ended")
               PROVE  observer.turn <= Answered(observer.of)'
    BY DEF TabInv, ObserverWatchesTheRun
  <2>1. observer.of \in Conversations /\ observer.turn <= Answered(observer.of)
    BY DEF TabInv, ObserverWatchesTheRun
  <2>2. Answered(observer.of) <= Answered(observer.of)'
    BY <2>1
  <2>3. observer.turn \in Int /\ Answered(observer.of) \in Int
    <3>1. observer.turn \in 0..MaxTurns /\ Answered(observer.of) \in 0..MaxTurns
      BY <1>1, <2>1, TabFields, AnswersAreCounted DEF TabInv
    <3> QED BY <3>1
  <2>4. Answered(observer.of)' \in Int
    <3>1. server'[observer.of].runs \in Seq(Kept)
      BY <1>1, <2>1 DEF TabTypes
    <3> QED BY <3>1 DEF Answered, Turns
  <2> HIDE DEF Answered
  <2> QED BY <2>1, <2>2, <2>3, <2>4
<1> QED BY <1>1, <1>3, <1>4, <1>5 DEF TabInv

LEMMA TurnEndsKeeps ==
    ASSUME TabInv, NEW s \in Conversations, TurnEnds(s)
    PROVE  TabInv'
<1>1. /\ UNCHANGED <<pending, drafts, selected, generation, run, messages, ready, loads, observer,
                     act, acts, flipped, undone, dropped>>
      /\ server' = [server EXCEPT ![s].live = FALSE]
    BY DEF TurnEnds
<1>2. server \in [Conversations -> [runs : Seq(Kept), live : BOOLEAN]]
    BY DEF TabInv, TabTypes
<1>3. /\ server' \in [Conversations -> [runs : Seq(Kept), live : BOOLEAN]]
      /\ \A c \in Conversations : /\ server'[c].runs = server[c].runs
                                  /\ server'[c].live => server[c].live
    BY <1>1, <1>2
<1>4. \A c \in Conversations : Turns(c)' = Turns(c) /\ Turns(c) \in Nat
    BY <1>3, TabFields DEF TabInv, Turns
<1>5. \A c \in Conversations : Answered(c) <= Answered(c)'
  <2> SUFFICES ASSUME NEW c \in Conversations PROVE Answered(c) <= Answered(c)'
    OBVIOUS
  <2>1. Turns(c)' = Turns(c) /\ Turns(c) \in Nat
    BY <1>4
  <2> HIDE DEF Turns
  <2> QED BY <1>3, <2>1 DEF Answered
<1>6. RunsAreBounded' /\ KeysAreOfTheLastRun' /\ DraftsHaveTheirKey' /\ OneRunPerMessage'
  <2>1. RunsAreBounded' /\ KeysAreOfTheLastRun'
    BY <1>1, <1>3, <1>4 DEF TabInv, RunsAreBounded, KeysAreOfTheLastRun
  <2>2. DraftsHaveTheirKey' /\ OneRunPerMessage'
    BY <1>1, <1>3, <1>4 DEF TabInv, DraftsHaveTheirKey, OneRunPerMessage
  <2> QED BY <2>1, <2>2
<1>7. ActsAreUnderWay'
    BY <1>1, <1>3, <1>4 DEF TabInv, ActsAreUnderWay
<1>8. act' \in Acts /\ \A c \in Conversations : Turns(c) <= Turns(c)'
    BY <1>1, <1>4 DEF TabInv, TabTypes
<1> QED BY <1>1, <1>3, <1>5, <1>6, <1>7, <1>8, ServerStep

(* The request is answered with the run of its key.                        *)
LEMMA SendIsAnswered ==
    ASSUME TabInv, NEW s \in Conversations, s = act.of, act.kind = "send", act.told = "waiting",
           NEW turn, NEW status \in {"active", "ended"},
           act' = [act EXCEPT !.told = "run",
                              !.run = [of |-> s, turn |-> turn, status |-> status]],
           turn = Turns(s)', turn # 0, turn \in 0..MaxTurns, status = "ended" => ~server'[s].live,
           UNCHANGED <<pending, acts, generation>>
    PROVE  /\ act' \in Acts /\ act'.key = act.key /\ ActsAreUnderWay'
           /\ act'.run \in RunRecords /\ Known(server', act'.run)
<1> DEFINE answer == [of |-> s, turn |-> turn, status |-> status]
           new == [act EXCEPT !.told = "run", !.run = answer]
<1>1. act \in Acts
    BY DEF TabInv, TabTypes
<1>2. answer \in RunRecords /\ answer.of = s /\ answer.turn = turn /\ answer.status = status
    BY DEF RunRecords
<1>3. act' = new
    OBVIOUS
<1> HIDE DEF answer
<1>4. /\ new \in Acts /\ new.kind = act.kind /\ new.run = answer /\ new.of = act.of
      /\ new.version = act.version /\ new.key = act.key /\ new.told = "run"
    BY <1>1, <1>2 DEF Acts
<1> HIDE DEF new
<1>5. Known(server', answer)
    BY <1>2 DEF Known, Turns
<1>6. ActsAreUnderWay'
  <2>1. Turns(act.of)' = Turns(s)'
    BY DEF Turns
  <2> QED BY <1>2, <1>3, <1>4, <2>1 DEF TabInv, ActsAreUnderWay, Turns
<1> QED BY <1>2, <1>3, <1>4, <1>5, <1>6

LEMMA ServerSendsKeeps ==
    ASSUME TabInv, ServerSends
    PROVE  TabInv'
<1>0. act.of \in Conversations
    BY DEF ServerSends, TabInv, ActsAreUnderWay
<1> SUFFICES ASSUME NEW s \in Conversations, s = act.of PROVE TabInv'
    BY <1>0
<1>1. /\ UNCHANGED <<pending, drafts, selected, generation, run, messages, ready, loads,
                     observer, acts, flipped, undone, dropped>>
      /\ act.kind = "send" /\ act.told = "waiting" /\ s \in Conversations
      /\ act.key # 0 /\ pending[s] = act.key
    BY DEF ServerSends, TabInv, ActsAreUnderWay
<1>2. StaysOnScreen /\ acts <= acts' /\ Turns(s) \in Nat /\ Turns(s) <= MaxTurns
    BY <1>1, TabFields DEF StaysOnScreen, TabInv, RunsAreBounded
<1>3. CASE TurnsOf(s, act.key) # {} /\ UNCHANGED server
           /\ act' = [act EXCEPT !.told = "run",
                          !.run = LET i == CHOOSE j \in TurnsOf(s, act.key) : TRUE
                                  IN  [of |-> s, turn |-> i, status |-> StatusOf(s, i)]]
  <2> DEFINE i == CHOOSE j \in TurnsOf(s, act.key) : TRUE
  <2>1. i \in TurnsOf(s, act.key)
    BY <1>3
  <2>2. act' = [act EXCEPT !.told = "run", !.run = [of |-> s, turn |-> i, status |-> StatusOf(s, i)]]
    BY <1>3
  <2> HIDE DEF i
  <2>3. i \in 1..Turns(s) /\ i = Turns(s)
    BY <1>1, <2>1 DEF TurnsOf, TabInv, KeysAreOfTheLastRun
  <2>4. /\ StatusOf(s, i) \in {"active", "ended"}
        /\ StatusOf(s, i) = "ended" => ~server'[s].live
        /\ Turns(s)' = Turns(s)
    BY <1>3, <2>3 DEF StatusOf, Turns
  <2>5. i # 0 /\ i \in 0..MaxTurns
    <3> HIDE DEF Turns
    <3> QED BY <1>2, <2>3, TabNames
  <2> HIDE DEF StatusOf
  <2>6. /\ act' \in Acts /\ act'.key = act.key /\ ActsAreUnderWay'
        /\ act'.run \in RunRecords /\ Known(server', act'.run)
    BY <1>1, <2>2, <2>3, <2>4, <2>5, SendIsAnswered
  <2>7. ActOK'
    BY <1>1, <2>6 DEF ActOK, TabInv, TabTypes, KeysAreOfTheLastRun
  <2> QED BY <1>1, <1>2, <1>3, <2>7, ScreenUnchanged, QuietStep
<1>4. CASE Answer("conflict") /\ UNCHANGED server
  <2>1. act' = [act EXCEPT !.told = "conflict"]
    BY <1>4 DEF Answer
  <2> QED BY <1>1, <1>2, <1>4, <2>1, SendIsTold, ScreenUnchanged, QuietStep
<1>5. CASE /\ TurnsOf(s, act.key) = {} /\ ~server[s].live /\ Turns(s) < MaxTurns
           /\ server' = [server EXCEPT ![s].runs = Append(@, [key |-> act.key, draft |-> drafts[s]]),
                                       ![s].live = TRUE]
           /\ act' = [act EXCEPT !.told = "run",
                          !.run = [of |-> s, turn |-> Turns(s) + 1, status |-> "active"]]
  <2> DEFINE new == [key |-> act.key, draft |-> drafts[s]]
  <2>1. act.key \in 1..MaxActs /\ drafts[s] \in Nat /\ act.key <= acts
    <3>1. act.key \in 0..MaxActs /\ drafts[s] \in Nat /\ act.key <= acts
      BY <1>1, TabFields DEF TabInv, KeysAreOfTheLastRun
    <3> QED BY <1>1, <3>1, TabNames
  <2>2. new \in Kept /\ new.key = act.key /\ new.draft = drafts[s]
    BY <2>1 DEF Kept
  <2> DEFINE more == Append(server[s].runs, new)
  <2>3. server' = [server EXCEPT ![s].runs = more, ![s].live = TRUE]
    BY <1>5
  <2> HIDE DEF new
  <2>4. \A c \in Conversations : server[c].runs \in Seq(Kept) /\ server[c].live \in BOOLEAN
    BY TabFields DEF TabInv
  <2>5. more \in Seq(Kept)
    BY <1>1, <2>2, <2>4
  <2> HIDE DEF more
  <2>6. /\ server' \in [Conversations -> [runs : Seq(Kept), live : BOOLEAN]]
        /\ server'[s].runs = more /\ server'[s].live
        /\ \A c \in Conversations \ {s} : server'[c] = server[c]
    BY <1>1, <2>3, <2>5 DEF TabInv, TabTypes
  <2>7. /\ Turns(s)' = Turns(s) + 1
        /\ server'[s].runs[Turns(s) + 1] = new
        /\ \A i \in 1..Turns(s) : server'[s].runs[i] = server[s].runs[i]
    BY <1>1, <2>2, <2>4, <2>6 DEF Turns, more
  <2>8. \A c \in Conversations \ {s} : Turns(c)' = Turns(c) /\ Answered(c)' = Answered(c)
    BY <2>6 DEF Turns, Answered
  <2>9. Answered(s)' = Answered(s)
    <3>1. Answered(s) = Turns(s) /\ Answered(s)' = Turns(s)' - 1
      BY <1>1, <1>5, <2>6 DEF Answered
    <3> HIDE DEF Turns
    <3> QED BY <1>2, <2>7, <3>1
  <2>10. \A c \in Conversations : /\ Turns(c) <= Turns(c)' /\ Answered(c) <= Answered(c)'
                                  /\ Turns(c)' <= MaxTurns /\ (server'[c].live => Turns(c)' # 0)
    <3>1. \A c \in Conversations : /\ Turns(c) \in Nat /\ Turns(c) <= MaxTurns /\ Answered(c) \in 0..MaxTurns
                                   /\ server[c].live => Turns(c) # 0
      BY TabFields, AnswersAreCounted DEF TabInv, RunsAreBounded
    <3> HIDE DEF Turns, Answered
    <3> QED BY <1>5, <2>6, <2>7, <2>8, <2>9, <3>1, TabNames
  <2>11. RunsAreBounded'
    BY <2>10 DEF RunsAreBounded
  <2>12. /\ Turns(s) + 1 \in 0..MaxTurns /\ Turns(s) + 1 # 0
    <3> HIDE DEF Turns
    <3> QED BY <1>2, <1>5, TabNames
  <2>13. /\ act' \in Acts /\ act'.key = act.key /\ ActsAreUnderWay'
         /\ act'.run \in RunRecords /\ Known(server', act'.run)
    BY <1>1, <1>5, <2>7, <2>12, SendIsAnswered
  <2>14. \A i \in 1..Turns(s) : /\ server[s].runs[i].key # act.key
                                /\ server[s].runs[i].draft <= drafts[s]
                                /\ s \notin dropped => server[s].runs[i].draft # drafts[s]
    BY <1>1, <1>5 DEF TurnsOf, TabInv, DraftsHaveTheirKey
  <2>15. KeysAreOfTheLastRun'
    <3> SUFFICES ASSUME NEW c \in Conversations, NEW i \in 1..Turns(c)'
                 PROVE  /\ server'[c].runs[i].key <= acts
                        /\ server'[c].runs[i].key = pending[c] => i = Turns(c)'
      BY <1>1, <2>1, <2>13 DEF TabInv, KeysAreOfTheLastRun
    <3>1. CASE c # s
      BY <2>6, <2>8, <3>1 DEF TabInv, KeysAreOfTheLastRun
    <3>2. CASE c = s /\ i = Turns(s) + 1
      BY <2>1, <2>2, <2>7, <3>2
    <3>3. CASE c = s /\ i # Turns(s) + 1
      <4>1. i \in 1..Turns(s)
        <5> HIDE DEF Turns
        <5> QED BY <1>2, <2>7, <3>3
      <4>2. server[s].runs[i].key <= acts
        BY <1>1, <4>1 DEF TabInv, KeysAreOfTheLastRun
      <4> QED BY <1>1, <2>7, <2>14, <3>3, <4>1, <4>2
    <3> QED BY <3>1, <3>2, <3>3
  <2>16. DraftsHaveTheirKey'
    <3> SUFFICES ASSUME NEW c \in Conversations, NEW i \in 1..Turns(c)'
                 PROVE  /\ server'[c].runs[i].draft <= drafts[c]
                        /\ c \notin dropped /\ server'[c].runs[i].draft = drafts[c] =>
                              server'[c].runs[i].key = pending[c]
      BY <1>1 DEF DraftsHaveTheirKey
    <3>1. CASE c # s
      BY <2>6, <2>8, <3>1 DEF TabInv, DraftsHaveTheirKey
    <3>2. CASE c = s /\ i = Turns(s) + 1
      BY <1>1, <2>1, <2>2, <2>7, <3>2
    <3>3. CASE c = s /\ i # Turns(s) + 1
      <4>1. i \in 1..Turns(s)
        <5> HIDE DEF Turns
        <5> QED BY <1>2, <2>7, <3>3
      <4> QED BY <2>7, <2>14, <3>3, <4>1
    <3> QED BY <3>1, <3>2, <3>3
  <2>17. OneRunPerMessage'
    <3> SUFFICES ASSUME NEW c \in Conversations \ dropped, NEW i \in 1..Turns(c)', NEW j \in 1..Turns(c)',
                        server'[c].runs[i].draft = server'[c].runs[j].draft
                 PROVE  i = j
      BY <1>1 DEF OneRunPerMessage
    <3>1. CASE c # s
      BY <2>6, <2>8, <3>1 DEF TabInv, OneRunPerMessage
    <3>2. CASE c = s
      <4>1. \A k \in 1..Turns(c)' : k \in 1..Turns(s) \/ k = Turns(s) + 1
        <5> HIDE DEF Turns
        <5> QED BY <1>2, <2>7, <3>2
      <4>2. \A k, l \in 1..Turns(s) : server[s].runs[k].draft = server[s].runs[l].draft => k = l
        BY <3>2 DEF TabInv, OneRunPerMessage
      <4> QED BY <2>2, <2>7, <2>14, <3>2, <4>1, <4>2
    <3> QED BY <3>1, <3>2
  <2> QED BY <1>1, <2>6, <2>10, <2>11, <2>13, <2>15, <2>16, <2>17, ServerStep
<1> QED BY <1>3, <1>4, <1>5 DEF ServerSends

(* Every step of the tab and of the server keeps the invariant.            *)
LEMMA TabStep == TabInv /\ [TabNext]_tabVars => TabInv'
<1> SUFFICES ASSUME TabInv, [TabNext]_tabVars PROVE TabInv'
    OBVIOUS
<1>1. CASE UNCHANGED tabVars
  <2>1. StaysOnScreen /\ acts <= acts'
    BY <1>1, TabFields DEF tabVars, StaysOnScreen, TabInv
  <2> QED BY <1>1, <2>1, ScreenUnchanged, ActUnchanged, QuietStep DEF tabVars
<1>2. CASE Loading
    BY <1>2, LoadMessagesKeeps, LoadRunKeeps, LoadedKeeps DEF Loading
<1>3. CASE Polling
    BY <1>3, PollReadsKeeps, PollToldKeeps, PollHistoryKeeps, PollSettlesKeeps DEF Polling
<1>4. CASE Acting
    BY <1>4, ServerSendsKeeps, ServerActsKeeps, SendRefusedKeeps, SentKeeps, SentHistoryKeeps,
       PinnedKeeps, ArchivedKeeps, PrependedKeeps, StatusShownKeeps DEF Acting
<1>5. CASE User
    BY <1>5, SelectKeeps, BeginActKeeps, LeaveKeeps, BeginSendKeeps DEF User, Asks
<1>6. CASE ActFails
    BY <1>6, ActFailsKeeps
<1>7. CASE \E s \in Conversations : TurnEnds(s)
    BY <1>7, TurnEndsKeeps
<1> QED BY <1>1, <1>2, <1>3, <1>4, <1>5, <1>6, <1>7 DEF TabNext

(* The invariant from which the three properties of the page follow: what  *)
(* is known of a run is of one that the server has, what is loaded is of   *)
(* the conversation it was asked for, and a message's runs have its key,   *)
(* whatever the order in which the answers of the chat service reach the   *)
(* page.                                                                   *)
THEOREM TabIsInOrder == TabSpec => []TabInv
<1> QED BY TabStarts, TabStep, PTL DEF TabSpec

(* The types that ChatTab states follow from those of the invariant.       *)
LEMMA TabIsTyped == TabInv => TabTypeOK
<1> SUFFICES ASSUME TabInv PROVE TabTypeOK
    OBVIOUS
<1>1. act.run \in RunRecords
    BY TabFields DEF TabInv
<1>2. \A s \in Conversations : Len(server[s].runs) <= MaxTurns
    BY DEF TabInv, RunsAreBounded, Turns
<1> QED BY <1>1, <1>2 DEF TabInv, TabTypes, TabTypeOK, RunRecords, Polls

(* The page shows messages and a run of the conversation that is selected  *)
(* and of no other, however late the answers of loadConversation, the      *)
(* observer and the actions are: each compares the generation first. Only  *)
(* the answer of an action that checks nothing (flipped) is excepted.      *)
THEOREM ShownConversationIsSelected == TabSpec => [](TabTypeOK /\ ShownIsSelected)
<1>1. TabInv => TabTypeOK /\ ShownIsSelected
    BY TabIsTyped DEF TabInv
<1> QED BY <1>1, TabIsInOrder, PTL

(* A run whose end observeRun showed has its answer on the screen, as the  *)
(* history is read again before the status is set.                         *)
THEOREM EndedRunsHaveAnswers == TabSpec => []EndedRunsAreAnswered
<1>1. TabInv => EndedRunsAreAnswered
    BY DEF TabInv
<1> QED BY <1>1, TabIsInOrder, PTL

(* One message makes one run at the server, however often it was sent: the *)
(* key of the pending message is kept until an answer says that it         *)
(* arrived, and the service returns the run of a key it has.               *)
THEOREM MessagesMakeOneRun == TabSpec => []OneRunPerMessage
<1>1. TabInv => OneRunPerMessage
    BY DEF TabInv
<1> QED BY <1>1, TabIsInOrder, PTL

-----------------------------------------------------------------------------
(* The document editor. The strengthening says where the last text typed   *)
(* can be while it counts as unsaved: in the editor, and in the save that  *)
(* is under way, and nowhere else (UnsavedIsNowhereElse); so a request     *)
(* under way that would replace the draft was begun when there was nothing *)
(* unsaved (ReplacedWhenSaved).                                            *)

(* No text is later than the last that was typed.                          *)
TextsAreNumbered ==
    /\ \A p \in Paths : disk[p].n <= edits
    /\ file.text.n <= edits /\ draft.n <= edits /\ opening.text.n <= edits
    /\ saving.text.n <= edits /\ sync.text.n <= edits /\ making.text.n <= edits
    /\ unsaved <= edits

(* The user's last text is in no file while it counts as unsaved.          *)
UnsavedIsNowhereElse ==
    unsaved # 0 =>
        /\ \A p \in Paths : disk[p].n # unsaved
        /\ file.text.n # unsaved /\ opening.text.n # unsaved /\ sync.text.n # unsaved
        /\ making.text.n # unsaved
        /\ saving.stage \in {"saved", "listing"} => saving.text.n # unsaved

(* What is under way is about a path of the workspace.                     *)
RequestsNamePaths ==
    /\ opening.stage # "off" => opening.path \in Paths
    /\ saving.stage # "off" => saving.path \in Paths
    /\ sync.stage # "off" => sync.path \in Paths
    /\ fileOp.stage # "off" => fileOp.from \in Paths
    /\ making.stage # "off" => making.path \in Paths

(* A deletion leads nowhere, and a rename saves the file that is shown.    *)
OpsKnowTheirFile ==
    /\ fileOp.kind = "delete" => fileOp.to = NoPath
    /\ fileOp.stage = "saving" => fileOp.kind = "rename" /\ fileOp.shown

(* What is about to replace the draft finds it saved, or asked about it.   *)
ReplacedWhenSaved ==
    ~crossed /\ ~overtaken /\ unsaved # 0 =>
        /\ file.path # NoPath /\ draft.n = unsaved
        /\ opening.stage = "off"
        /\ saving.next # Closed \/ fileOp.stage = "saving" \/ making.stage = "saving" =>
               saving.text.n = unsaved
        /\ making.stage \in {"off", "saving"}
        /\ fileOp.stage \in {"sent", "done"} /\ fileOp.shown =>
               fileOp.kind = "delete" /\ fileOp.from = file.path

(* The draft is of the document shown, a save is of the one it read, and   *)
(* a fix of the one it was previewed for.                                  *)
DraftsAreOfTheirFile ==
    /\ ~crossed => /\ file.text.document = draft.document
                   /\ saving.text.document = saving.base.document
    /\ making.base = NoText \/ making.text.document = making.base.document

Places == Paths \cup {NoPath}
Texts == [document : Places, n : 0..MaxEdits]
Openings == [stage : {"off", "sent", "read"}, path : Places, text : Texts]
Savings == [stage : {"off", "sent", "saved", "conflict", "listing"}, path : Places,
            text : Texts, base : Texts, next : Places \cup {Closed}]
FileOps == [stage : {"off", "asked", "saving", "sent", "done", "refused", "gone"},
            kind : {"none", "rename", "delete"}, from : Places, to : Places,
            base : Texts, shown : BOOLEAN]
Makings == [stage : {"off", "saving", "sent", "done", "refused", "listing"},
            kind : {"none", "create", "fix"}, path : Places, base : Texts, text : Texts]
Syncs == [stage : {"off", "sent", "read"}, path : Places, base : Texts, text : Texts]

EditorTypes ==
    /\ disk \in [Paths -> Texts]
    /\ file \in [path : Places, text : Texts]
    /\ draft \in Texts
    /\ opening \in Openings
    /\ saving \in Savings
    /\ dialog \in Places \cup {Closed}
    /\ fileOp \in FileOps
    /\ making \in Makings
    /\ sync \in Syncs
    /\ edits \in 0..MaxEdits /\ unsaved \in 0..MaxEdits /\ requests \in 0..MaxRequests
    /\ conflict \in BOOLEAN /\ failed \in BOOLEAN
    /\ crossed \in BOOLEAN /\ overtaken \in BOOLEAN

EditorInv ==
    /\ EditorTypes
    /\ TextsAreNumbered
    /\ UnsavedIsNowhereElse
    /\ RequestsNamePaths
    /\ OpsKnowTheirFile
    /\ ReplacedWhenSaved
    /\ DraftsAreOfTheirFile

LEMMA EditorTypesAreNamed == EditorTypeOK <=> EditorTypes
BY DEF EditorTypeOK, EditorTypes, Places, Texts, Openings, Savings, FileOps, Makings,
       Syncs

LEMMA EmptyRecords ==
    /\ NoText \in Texts /\ NoFile \in [path : Places, text : Texts]
    /\ NotOpening \in Openings /\ NotSaving \in Savings /\ NoOp \in FileOps /\ NotSyncing \in Syncs
    /\ NotMaking \in Makings /\ NotMaking.stage = "off" /\ NotMaking.base = NoText
    /\ NotMaking.text = NoText
    /\ NoText.n = 0 /\ NoText.document = NoPath /\ NotOpening.stage = "off" /\ NotOpening.text = NoText
    /\ NotSaving.stage = "off" /\ NotSaving.text = NoText /\ NotSaving.base = NoText
    /\ NotSaving.next = Closed
    /\ NoOp.stage = "off" /\ NoOp.kind = "none" /\ NoOp.to = NoPath
    /\ NotSyncing.text = NoText /\ NotSyncing.stage = "off"
<1>1. NoPath \in Places /\ 0 \in 0..MaxEdits
    BY EditorNames DEF Places
<1>2. NoText \in Texts /\ NoText.n = 0 /\ NoText.document = NoPath
    BY <1>1 DEF NoText, Texts
<1> QED BY <1>1, <1>2 DEF NoFile, NotOpening, NotSaving, NoOp, NotMaking, NotSyncing, Openings,
                          Savings, FileOps, Makings, Syncs

LEMMA EditorStarts == EditorInit => EditorInv
<1> SUFFICES ASSUME EditorInit PROVE EditorInv
    OBVIOUS
<1>1. \A p \in Paths : disk[p] \in Texts /\ disk[p].n = 0
    BY EmptyRecords, EditorNames DEF EditorInit, Texts, Places
<1>2. disk \in [Paths -> Texts]
    BY <1>1 DEF EditorInit
<1>3. crossed \in BOOLEAN /\ overtaken \in BOOLEAN /\ conflict \in BOOLEAN /\ failed \in BOOLEAN
    BY Zenon DEF EditorInit
<1>4. EditorTypes
    BY <1>2, <1>3, EmptyRecords, EditorNames DEF EditorInit, EditorTypes
<1>5. /\ TextsAreNumbered /\ UnsavedIsNowhereElse /\ RequestsNamePaths
      /\ OpsKnowTheirFile /\ DraftsAreOfTheirFile
      /\ ReplacedWhenSaved
    BY <1>1, EmptyRecords
    DEF EditorInit, TextsAreNumbered, UnsavedIsNowhereElse, RequestsNamePaths,
        OpsKnowTheirFile, DraftsAreOfTheirFile, ReplacedWhenSaved, NoFile
<1> QED BY <1>4, <1>5 DEF EditorInv

LEMMA FieldTypes ==
    ASSUME EditorTypes
    PROVE  /\ \A p \in Paths : disk[p] \in Texts
           /\ file.path \in Places /\ file.text \in Texts /\ draft \in Texts
           /\ opening.path \in Places /\ opening.text \in Texts
           /\ saving.path \in Places /\ saving.text \in Texts /\ saving.base \in Texts
           /\ saving.next \in Places \cup {Closed}
           /\ fileOp.from \in Places /\ fileOp.to \in Places /\ fileOp.base \in Texts
           /\ making.path \in Places /\ making.base \in Texts /\ making.text \in Texts
           /\ sync.path \in Places /\ sync.text \in Texts /\ sync.base \in Texts
           /\ {edits, unsaved, requests, MaxEdits} \subseteq Nat
BY EditorNames DEF EditorTypes, Openings, Savings, FileOps, Makings, Syncs

LEMMA PutTypes ==
    ASSUME NEW path \in Places, NEW text \in Texts, Put(path, text)
    PROVE  file' \in [path : Places, text : Texts] /\ draft' \in Texts
BY DEF Put

LEMMA OpensTypes ==
    ASSUME NEW path \in Places, Opens(path)
    PROVE  opening' \in Openings
BY EmptyRecords DEF Opens, Openings

LEMMA GoToTypes ==
    ASSUME EditorTypes, NEW path \in Places, GoTo(path)
    PROVE  file' \in [path : Places, text : Texts] /\ draft' \in Texts /\ opening' \in Openings
<1>1. NoPath \in Places
    BY DEF Places
<1> QED BY <1>1, EmptyRecords, PutTypes, OpensTypes DEF GoTo, EditorTypes

LEMMA StartSaveTypes ==
    ASSUME EditorTypes, NEW next \in Places \cup {Closed}, StartSave(next)
    PROVE  saving' \in Savings /\ conflict' \in BOOLEAN /\ failed' \in BOOLEAN
BY FieldTypes DEF StartSave, Savings

LEMMA AskedTypes ==
    ASSUME EditorTypes, Asked PROVE requests' \in 0..MaxRequests
BY EditorNames DEF Asked, EditorTypes

LEMMA TypeKeeps ==
    ASSUME EditorInv, Type
    PROVE  EditorInv'
<1>1. EditorTypes
    BY DEF EditorInv
<1>2. /\ UNCHANGED <<disk, file, opening, saving, dialog, fileOp, making, sync, conflict, failed,
                      requests, crossed>>
      /\ edits' = edits + 1 /\ draft' = [document |-> draft.document, n |-> edits + 1]
      /\ unsaved' = edits + 1 /\ overtaken' = (overtaken \/ Replacing)
      /\ file.path # NoPath /\ opening.stage = "off" /\ edits < MaxEdits
    BY DEF Type
<1>3. edits \in Nat /\ edits' \in 0..MaxEdits /\ draft' \in Texts
    BY <1>1, <1>2, EditorNames DEF EditorTypes, Texts
<1>4. EditorTypes'
    BY <1>1, <1>2, <1>3 DEF EditorTypes
<1>5. TextsAreNumbered'
    BY <1>2 DEF EditorInv, TextsAreNumbered, EditorTypes, Texts, Openings, Savings, Makings, Syncs
<1>6. UnsavedIsNowhereElse'
    BY <1>1, <1>2, <1>3
    DEF EditorInv, TextsAreNumbered, UnsavedIsNowhereElse, EditorTypes, Texts, Openings, Savings,
        Makings, Syncs
<1>7. ReplacedWhenSaved'
    BY <1>1, <1>2 DEF EditorInv, Replacing, OpsKnowTheirFile, ReplacedWhenSaved
<1>8. RequestsNamePaths' /\ OpsKnowTheirFile' /\ DraftsAreOfTheirFile'
    BY <1>1, <1>2 DEF EditorInv, RequestsNamePaths, OpsKnowTheirFile, DraftsAreOfTheirFile
<1> QED BY <1>4, <1>5, <1>6, <1>7, <1>8 DEF EditorInv

LEMMA AskToOpenKeeps ==
    ASSUME EditorInv, NEW path \in Places, AskToOpen(path)
    PROVE  EditorInv'
<1>1. EditorTypes'
  <2>1. CASE Dirty
    BY <2>1, AskedTypes DEF EditorInv, AskToOpen, EditorTypes
  <2>2. CASE ~Dirty
    BY <2>2, AskedTypes, GoToTypes DEF EditorInv, AskToOpen, EditorTypes
  <2> QED BY <2>1, <2>2
<1>2. TextsAreNumbered'
    BY EmptyRecords DEF EditorInv, AskToOpen, Put, Opens, GoTo, EditorTypes, TextsAreNumbered
<1>3. UnsavedIsNowhereElse'
    BY EmptyRecords DEF EditorInv, AskToOpen, Put, Opens, GoTo, UnsavedIsNowhereElse
<1>4. RequestsNamePaths'
    BY EmptyRecords DEF EditorInv, AskToOpen, Opens, GoTo, Places, RequestsNamePaths
<1>5. OpsKnowTheirFile'
    BY EmptyRecords DEF EditorInv, AskToOpen, OpsKnowTheirFile
<1>6. ReplacedWhenSaved'
    BY EmptyRecords DEF EditorInv, AskToOpen, Dirty, UnsavedIsNowhereElse, ReplacedWhenSaved
<1>7. DraftsAreOfTheirFile'
    BY EmptyRecords DEF EditorInv, AskToOpen, Put, GoTo, DraftsAreOfTheirFile
<1> QED BY <1>1, <1>2, <1>3, <1>4, <1>5, <1>6, <1>7 DEF EditorInv

LEMMA ReopenKeeps ==
    ASSUME EditorInv, Reopen
    PROVE  EditorInv'
<1>1. EditorTypes'
    BY AskedTypes, OpensTypes DEF EditorInv, Reopen, EditorTypes
<1>2. TextsAreNumbered'
    BY EmptyRecords DEF EditorInv, Reopen, Opens, EditorTypes, TextsAreNumbered
<1>3. UnsavedIsNowhereElse'
    BY EmptyRecords DEF EditorInv, Reopen, Opens, UnsavedIsNowhereElse
<1>4. RequestsNamePaths'
    BY EmptyRecords DEF EditorInv, Reopen, Opens, EditorTypes, Places, RequestsNamePaths
<1>5. OpsKnowTheirFile'
    BY EmptyRecords DEF EditorInv, Reopen, OpsKnowTheirFile
<1>6. ReplacedWhenSaved'
    BY EmptyRecords DEF EditorInv, Reopen, Dirty, UnsavedIsNowhereElse, ReplacedWhenSaved
<1>7. DraftsAreOfTheirFile'
    BY EmptyRecords DEF EditorInv, Reopen, DraftsAreOfTheirFile
<1> QED BY <1>1, <1>2, <1>3, <1>4, <1>5, <1>6, <1>7 DEF EditorInv

LEMMA OpenReadsKeeps ==
    ASSUME EditorInv, OpenReads
    PROVE  EditorInv'
<1>0. opening.path \in Paths /\ disk[opening.path] \in Texts
    BY FieldTypes DEF EditorInv, RequestsNamePaths, OpenReads
<1>1. EditorTypes'
    BY <1>0 DEF EditorInv, OpenReads, EditorTypes, Openings
<1>2. TextsAreNumbered'
    BY <1>0 DEF EditorInv, OpenReads, EditorTypes, Openings, TextsAreNumbered
<1>3. UnsavedIsNowhereElse'
    BY <1>0 DEF EditorInv, OpenReads, EditorTypes, Openings, UnsavedIsNowhereElse
<1>4. OpsKnowTheirFile'
    BY DEF EditorInv, OpenReads, OpsKnowTheirFile
<1>5. ReplacedWhenSaved'
    BY DEF EditorInv, OpenReads, ReplacedWhenSaved
<1>6. DraftsAreOfTheirFile'
    BY DEF EditorInv, OpenReads, DraftsAreOfTheirFile
<1>7. RequestsNamePaths'
    BY DEF EditorInv, OpenReads, RequestsNamePaths
<1> QED BY <1>1, <1>2, <1>3, <1>4, <1>5, <1>6, <1>7 DEF EditorInv

LEMMA OpenedKeeps ==
    ASSUME EditorInv, Opened
    PROVE  EditorInv'
<1>1. EditorTypes'
  <2>1. opening.path \in Places /\ opening.text \in Texts
    BY FieldTypes DEF EditorInv
  <2>2. CASE opening.text = NoText
    BY <2>2, EmptyRecords DEF EditorInv, Opened, EditorTypes
  <2>3. CASE opening.text # NoText
    BY <2>1, <2>3, PutTypes, EmptyRecords DEF EditorInv, Opened, EditorTypes
  <2> QED BY <2>2, <2>3
<1>2. TextsAreNumbered'
    BY EmptyRecords DEF EditorInv, Opened, Put, EditorTypes, TextsAreNumbered
<1>3. UnsavedIsNowhereElse'
    BY EmptyRecords DEF EditorInv, Opened, Put, UnsavedIsNowhereElse
<1>4. OpsKnowTheirFile'
    BY DEF EditorInv, Opened, OpsKnowTheirFile
<1>5. ReplacedWhenSaved'
    BY DEF EditorInv, Opened, ReplacedWhenSaved
<1>6. DraftsAreOfTheirFile'
    BY DEF EditorInv, Opened, Put, DraftsAreOfTheirFile
<1>7. RequestsNamePaths'
    BY EmptyRecords DEF EditorInv, Opened, RequestsNamePaths
<1> QED BY <1>1, <1>2, <1>3, <1>4, <1>5, <1>6, <1>7 DEF EditorInv

LEMMA KeepEditingKeeps ==
    ASSUME EditorInv, KeepEditing
    PROVE  EditorInv'
<1>1. EditorTypes'
    BY DEF EditorInv, KeepEditing, EditorTypes
<1>2. TextsAreNumbered'
    BY DEF EditorInv, KeepEditing, TextsAreNumbered
<1>3. UnsavedIsNowhereElse'
    BY DEF EditorInv, KeepEditing, UnsavedIsNowhereElse
<1>4. OpsKnowTheirFile'
    BY DEF EditorInv, KeepEditing, OpsKnowTheirFile
<1>5. ReplacedWhenSaved'
    BY DEF EditorInv, KeepEditing, ReplacedWhenSaved
<1>6. DraftsAreOfTheirFile'
    BY DEF EditorInv, KeepEditing, DraftsAreOfTheirFile
<1>7. RequestsNamePaths'
    BY DEF EditorInv, KeepEditing, RequestsNamePaths
<1> QED BY <1>1, <1>2, <1>3, <1>4, <1>5, <1>6, <1>7 DEF EditorInv

LEMMA DiscardKeeps ==
    ASSUME EditorInv, Discard
    PROVE  EditorInv'
<1>1. EditorTypes'
  <2>1. CASE dialog = NoPath
    <3>1. NoPath \in Places /\ 0 \in 0..MaxEdits
      BY EditorNames DEF Places
    <3> QED BY <2>1, <3>1, EmptyRecords, PutTypes DEF EditorInv, EditorTypes, Discard
  <2>2. CASE dialog # NoPath
    <3>1. dialog \in Places /\ file.text \in Texts /\ 0 \in 0..MaxEdits
      BY FieldTypes, EditorNames DEF EditorInv, EditorTypes, Discard
    <3>2. opening' \in Openings
      BY <2>2, <3>1, OpensTypes DEF Discard
    <3> QED BY <2>2, <3>1, <3>2 DEF EditorInv, EditorTypes, Discard
  <2> QED BY <2>1, <2>2
<1>2. TextsAreNumbered'
    BY EmptyRecords DEF EditorInv, Discard, Put, Opens, EditorTypes, TextsAreNumbered
<1>3. UnsavedIsNowhereElse'
    BY DEF EditorInv, Discard, UnsavedIsNowhereElse
<1>4. OpsKnowTheirFile'
    BY DEF EditorInv, Discard, OpsKnowTheirFile
<1>5. ReplacedWhenSaved'
    BY DEF EditorInv, Discard, ReplacedWhenSaved
<1>6. DraftsAreOfTheirFile'
    BY DEF EditorInv, Discard, Put, DraftsAreOfTheirFile
<1>7. RequestsNamePaths'
    BY DEF EditorInv, Discard, Opens, EditorTypes, Places, RequestsNamePaths
<1> QED BY <1>1, <1>2, <1>3, <1>4, <1>5, <1>6, <1>7 DEF EditorInv

LEMMA SaveKeeps ==
    ASSUME EditorInv, Save
    PROVE  EditorInv'
<1>1. EditorTypes'
    BY StartSaveTypes, AskedTypes DEF EditorInv, EditorTypes, Save
<1>2. TextsAreNumbered'
    BY DEF EditorInv, Save, StartSave, TextsAreNumbered
<1>3. UnsavedIsNowhereElse'
    BY DEF EditorInv, Save, StartSave, UnsavedIsNowhereElse
<1>4. OpsKnowTheirFile'
    BY DEF EditorInv, Save, StartSave, OpsKnowTheirFile
<1>5. ReplacedWhenSaved'
    BY DEF EditorInv, Save, StartSave, ReplacedWhenSaved
<1>6. DraftsAreOfTheirFile'
    BY DEF EditorInv, Save, StartSave, DraftsAreOfTheirFile
<1>7. RequestsNamePaths'
    BY DEF EditorInv, Save, StartSave, EditorTypes, Places, RequestsNamePaths
<1> QED BY <1>1, <1>2, <1>3, <1>4, <1>5, <1>6, <1>7 DEF EditorInv

LEMMA SaveAndContinueKeeps ==
    ASSUME EditorInv, SaveAndContinue
    PROVE  EditorInv'
<1>1. EditorTypes'
    BY StartSaveTypes, AskedTypes DEF EditorInv, EditorTypes, SaveAndContinue
<1>2. TextsAreNumbered'
    BY DEF EditorInv, SaveAndContinue, StartSave, TextsAreNumbered
<1>3. UnsavedIsNowhereElse'
    BY DEF EditorInv, SaveAndContinue, StartSave, UnsavedIsNowhereElse
<1>4. OpsKnowTheirFile'
    BY DEF EditorInv, SaveAndContinue, StartSave, OpsKnowTheirFile
<1>5. ReplacedWhenSaved'
    BY DEF EditorInv, SaveAndContinue, StartSave, ReplacedWhenSaved
<1>6. DraftsAreOfTheirFile'
    BY DEF EditorInv, SaveAndContinue, StartSave, DraftsAreOfTheirFile
<1>7. RequestsNamePaths'
    BY DEF EditorInv, SaveAndContinue, StartSave, EditorTypes, Places, RequestsNamePaths
<1> QED BY <1>1, <1>2, <1>3, <1>4, <1>5, <1>6, <1>7 DEF EditorInv

LEMMA SaveReachesServerKeeps ==
    ASSUME EditorInv, SaveReachesServer
    PROVE  EditorInv'
<1>1. EditorTypes'
    BY EmptyRecords DEF EditorInv, SaveReachesServer, EditorTypes, Texts, Savings
<1>2. TextsAreNumbered'
    BY FieldTypes DEF EditorInv, EditorTypes, Savings, SaveReachesServer, TextsAreNumbered
<1>3. UnsavedIsNowhereElse'
    BY DEF EditorInv, SaveReachesServer, EditorTypes, Savings, UnsavedIsNowhereElse
<1>4. OpsKnowTheirFile'
    BY DEF EditorInv, SaveReachesServer, EditorTypes, Savings, OpsKnowTheirFile
<1>5. ReplacedWhenSaved'
    BY DEF EditorInv, SaveReachesServer, EditorTypes, Savings, ReplacedWhenSaved
<1>6. DraftsAreOfTheirFile'
    BY DEF EditorInv, SaveReachesServer, EditorTypes, Savings, DraftsAreOfTheirFile
<1>7. RequestsNamePaths'
    BY DEF EditorInv, SaveReachesServer, EditorTypes, Savings, RequestsNamePaths
<1> QED BY <1>1, <1>2, <1>3, <1>4, <1>5, <1>6, <1>7 DEF EditorInv

LEMMA SavedKeeps ==
    ASSUME EditorInv, Saved
    PROVE  EditorInv'
<1>1. EditorTypes'
    BY DEF EditorInv, Saved, EditorTypes, Savings
<1>2. TextsAreNumbered'
    BY DEF EditorInv, Saved, TextsAreNumbered
<1>3. UnsavedIsNowhereElse'
    BY DEF EditorInv, Saved, UnsavedIsNowhereElse
<1>4. OpsKnowTheirFile'
    BY DEF EditorInv, Saved, OpsKnowTheirFile
<1>5. ReplacedWhenSaved'
    BY DEF EditorInv, Saved, EditorTypes, Savings, ReplacedWhenSaved
<1>6. DraftsAreOfTheirFile'
    BY DEF EditorInv, Saved, EditorTypes, Savings, DraftsAreOfTheirFile
<1>7. RequestsNamePaths'
    BY DEF EditorInv, Saved, RequestsNamePaths
<1> QED BY <1>1, <1>2, <1>3, <1>4, <1>5, <1>6, <1>7 DEF EditorInv

LEMMA SaveEndsKeeps ==
    ASSUME EditorInv, SaveEnds
    PROVE  EditorInv'
<1>1. EditorTypes'
    BY EmptyRecords
    DEF EditorInv, EditorTypes, SaveEnds, Put, Opens, GoTo, Openings, Savings, FileOps, Makings
<1>2. TextsAreNumbered'
    BY EmptyRecords
    DEF EditorInv, SaveEnds, Put, Opens, GoTo, EditorTypes, Makings, TextsAreNumbered
<1>3. UnsavedIsNowhereElse'
    BY EmptyRecords
    DEF EditorInv, SaveEnds, Put, Opens, GoTo, EditorTypes, Makings, UnsavedIsNowhereElse
<1>4. RequestsNamePaths'
    BY EmptyRecords
    DEF EditorInv, SaveEnds, Opens, GoTo, EditorTypes, Savings, FileOps, Makings, Places,
        RequestsNamePaths
<1>5. OpsKnowTheirFile'
    BY EmptyRecords DEF EditorInv, SaveEnds, EditorTypes, FileOps, OpsKnowTheirFile
<1>6. ReplacedWhenSaved'
    BY EmptyRecords
    DEF EditorInv, SaveEnds, EditorTypes, FileOps, Makings, UnsavedIsNowhereElse,
        OpsKnowTheirFile, ReplacedWhenSaved
<1>7. DraftsAreOfTheirFile'
    BY EmptyRecords
    DEF EditorInv, SaveEnds, Put, GoTo, EditorTypes, Makings, DraftsAreOfTheirFile
<1> QED BY <1>1, <1>2, <1>3, <1>4, <1>5, <1>6, <1>7 DEF EditorInv

LEMMA SaveFailsKeeps ==
    ASSUME EditorInv, SaveFails
    PROVE  EditorInv'
<1>1. EditorTypes'
    BY EmptyRecords DEF EditorInv, EditorTypes, SaveFails, FileOps
<1>2. TextsAreNumbered'
    BY EmptyRecords DEF EditorInv, SaveFails, EditorTypes, TextsAreNumbered
<1>3. UnsavedIsNowhereElse'
    BY EmptyRecords DEF EditorInv, SaveFails, UnsavedIsNowhereElse
<1>4. RequestsNamePaths'
    BY EmptyRecords DEF EditorInv, SaveFails, EditorTypes, FileOps, RequestsNamePaths
<1>5. OpsKnowTheirFile'
    BY EmptyRecords DEF EditorInv, SaveFails, EditorTypes, FileOps, OpsKnowTheirFile
<1>6. ReplacedWhenSaved'
    BY EmptyRecords DEF EditorInv, SaveFails, EditorTypes, FileOps, ReplacedWhenSaved
<1>7. DraftsAreOfTheirFile'
    BY EmptyRecords DEF EditorInv, SaveFails, DraftsAreOfTheirFile
<1> QED BY <1>1, <1>2, <1>3, <1>4, <1>5, <1>6, <1>7 DEF EditorInv

LEMMA AskOpKeeps ==
    ASSUME EditorInv, NEW kind \in {"rename", "delete"}, NEW path \in Paths, AskOp(kind, path)
    PROVE  EditorInv'
<1>1. EditorTypes'
  <2>1. path \in Places /\ fileOp' \in FileOps
    BY FieldTypes, EmptyRecords DEF EditorInv, AskOp, FileOps, Places
  <2> QED BY <2>1, AskedTypes DEF EditorInv, AskOp, EditorTypes
<1>2. TextsAreNumbered'
    BY EmptyRecords DEF EditorInv, AskOp, TextsAreNumbered
<1>3. UnsavedIsNowhereElse'
    BY EmptyRecords DEF EditorInv, AskOp, UnsavedIsNowhereElse
<1>4. RequestsNamePaths'
    BY EmptyRecords DEF EditorInv, AskOp, FileOps, RequestsNamePaths
<1>5. OpsKnowTheirFile'
    BY EmptyRecords DEF EditorInv, AskOp, FileOps, OpsKnowTheirFile
<1>6. ReplacedWhenSaved'
    BY EmptyRecords DEF EditorInv, AskOp, FileOps, ReplacedWhenSaved
<1>7. DraftsAreOfTheirFile'
    BY EmptyRecords DEF EditorInv, AskOp, DraftsAreOfTheirFile
<1> QED BY <1>1, <1>2, <1>3, <1>4, <1>5, <1>6, <1>7 DEF EditorInv

LEMMA CancelOpKeeps ==
    ASSUME EditorInv, CancelOp
    PROVE  EditorInv'
<1>1. EditorTypes'
    BY EmptyRecords DEF EditorInv, EditorTypes, CancelOp
<1>2. TextsAreNumbered'
    BY EmptyRecords DEF EditorInv, CancelOp, TextsAreNumbered
<1>3. UnsavedIsNowhereElse'
    BY EmptyRecords DEF EditorInv, CancelOp, UnsavedIsNowhereElse
<1>4. RequestsNamePaths'
    BY EmptyRecords DEF EditorInv, CancelOp, RequestsNamePaths
<1>5. OpsKnowTheirFile'
    BY EmptyRecords DEF EditorInv, CancelOp, OpsKnowTheirFile
<1>6. ReplacedWhenSaved'
    BY EmptyRecords DEF EditorInv, CancelOp, ReplacedWhenSaved
<1>7. DraftsAreOfTheirFile'
    BY EmptyRecords DEF EditorInv, CancelOp, DraftsAreOfTheirFile
<1> QED BY <1>1, <1>2, <1>3, <1>4, <1>5, <1>6, <1>7 DEF EditorInv

LEMMA RenameKeeps ==
    ASSUME EditorInv, NEW to \in Paths, Rename(to)
    PROVE  EditorInv'
<1>0. /\ fileOp'.from = fileOp.from /\ fileOp'.kind = "rename" /\ fileOp.stage = "asked"
      /\ fileOp'.shown = (file.path = fileOp.from)
      /\ fileOp'.stage = IF file.path = fileOp.from /\ Dirty THEN "saving" ELSE "sent"
    BY DEF EditorInv, EditorTypes, Rename, FileOps
<1>1. EditorTypes'
  <2>1. to \in Places /\ (file.path = fileOp.from) \in BOOLEAN
    BY DEF Places
  <2>2. fileOp' \in FileOps
    BY <2>1, FieldTypes DEF EditorInv, EditorTypes, Rename, FileOps
  <2>3. saving' \in Savings /\ conflict' \in BOOLEAN /\ failed' \in BOOLEAN
    BY StartSaveTypes DEF EditorInv, EditorTypes, Rename
  <2> QED BY <2>2, <2>3 DEF EditorInv, EditorTypes, Rename
<1>2. TextsAreNumbered'
    BY DEF EditorInv, Rename, StartSave, TextsAreNumbered
<1>3. UnsavedIsNowhereElse'
    BY DEF EditorInv, Rename, StartSave, UnsavedIsNowhereElse
<1>4. RequestsNamePaths'
    BY <1>0, FieldTypes DEF EditorInv, Rename, StartSave, Places, RequestsNamePaths
<1>5. OpsKnowTheirFile'
    BY <1>0 DEF EditorInv, Rename, OpsKnowTheirFile
<1>6. ReplacedWhenSaved'
  <2>1. CASE file.path = fileOp.from /\ Dirty
    <3>1. StartSave(Closed)
      BY <2>1 DEF Rename
    <3>2. /\ saving'.text = draft /\ saving'.next = Closed
          /\ UNCHANGED <<file, draft, opening, making, crossed, overtaken, unsaved>>
      BY <3>1 DEF Rename, StartSave
    <3> QED BY <1>0, <2>1, <3>2 DEF EditorInv, ReplacedWhenSaved
  <2>2. CASE ~(file.path = fileOp.from /\ Dirty)
    <3>1. UNCHANGED <<file, draft, opening, saving, making, crossed, overtaken, unsaved>>
      BY <2>2 DEF Rename
    <3> QED BY <1>0, <2>2, <3>1 DEF EditorInv, Dirty, UnsavedIsNowhereElse, ReplacedWhenSaved
  <2> QED BY <2>1, <2>2
<1>7. DraftsAreOfTheirFile'
    BY DEF EditorInv, Rename, StartSave, DraftsAreOfTheirFile
<1> QED BY <1>1, <1>2, <1>3, <1>4, <1>5, <1>6, <1>7 DEF EditorInv

LEMMA DeleteKeeps ==
    ASSUME EditorInv, Delete
    PROVE  EditorInv'
<1>1. EditorTypes'
    BY DEF EditorInv, EditorTypes, Delete, FileOps
<1>2. TextsAreNumbered'
    BY DEF EditorInv, Delete, TextsAreNumbered
<1>3. UnsavedIsNowhereElse'
    BY DEF EditorInv, Delete, UnsavedIsNowhereElse
<1>4. RequestsNamePaths'
    BY DEF EditorInv, Delete, EditorTypes, FileOps, RequestsNamePaths
<1>5. OpsKnowTheirFile'
    BY DEF EditorInv, Delete, EditorTypes, FileOps, OpsKnowTheirFile
<1>6. ReplacedWhenSaved'
    BY DEF EditorInv, Delete, EditorTypes, FileOps, ReplacedWhenSaved
<1>7. DraftsAreOfTheirFile'
    BY DEF EditorInv, Delete, DraftsAreOfTheirFile
<1> QED BY <1>1, <1>2, <1>3, <1>4, <1>5, <1>6, <1>7 DEF EditorInv

LEMMA OpReachesServerKeeps ==
    ASSUME EditorInv, OpReachesServer
    PROVE  EditorInv'
<1>1. EditorTypes'
  <2>1. fileOp' \in FileOps
    BY DEF EditorInv, OpReachesServer, EditorTypes, FileOps
  <2>2. fileOp.from \in Paths
    BY DEF EditorInv, OpReachesServer, RequestsNamePaths
  <2>3. disk' \in [Paths -> Texts]
    BY <2>2, EmptyRecords DEF EditorInv, OpReachesServer, EditorTypes
  <2> QED BY <2>1, <2>3 DEF EditorInv, EditorTypes, OpReachesServer
<1>0. /\ UNCHANGED <<file, draft, opening, saving, making, sync, edits, unsaved>>
      /\ \A p \in Paths :
            \/ disk'[p] = disk[p] \/ disk'[p].n = 0
            \/ fileOp.from \in Paths /\ disk'[p] = disk[fileOp.from]
    BY EmptyRecords DEF EditorInv, OpReachesServer, RequestsNamePaths
<1>2. TextsAreNumbered'
    BY <1>0, FieldTypes DEF EditorInv, TextsAreNumbered
<1>3. UnsavedIsNowhereElse'
    BY <1>0, FieldTypes DEF EditorInv, UnsavedIsNowhereElse
<1>4. OpsKnowTheirFile'
    BY DEF EditorInv, OpReachesServer, EditorTypes, FileOps, OpsKnowTheirFile
<1>5. ReplacedWhenSaved'
    BY DEF EditorInv, OpReachesServer, EditorTypes, FileOps, ReplacedWhenSaved
<1>6. DraftsAreOfTheirFile'
    BY DEF EditorInv, OpReachesServer, DraftsAreOfTheirFile
<1>7. RequestsNamePaths'
    BY DEF EditorInv, OpReachesServer, EditorTypes, FileOps, RequestsNamePaths
<1> QED BY <1>1, <1>2, <1>3, <1>4, <1>5, <1>6, <1>7 DEF EditorInv

LEMMA OpDoneKeeps ==
    ASSUME EditorInv, OpDone
    PROVE  EditorInv'
<1>1. EditorTypes'
  <2>1. fileOp.to \in Places /\ 0 \in 0..MaxEdits
    BY FieldTypes, EditorNames DEF EditorInv
  <2>2. CASE fileOp.shown
    BY <2>1, <2>2, GoToTypes, EmptyRecords DEF EditorInv, EditorTypes, OpDone
  <2>3. CASE ~fileOp.shown
    BY <2>3, EmptyRecords DEF EditorInv, EditorTypes, OpDone
  <2> QED BY <2>2, <2>3
<1>2. TextsAreNumbered'
    BY EmptyRecords DEF EditorInv, OpDone, Put, Opens, GoTo, EditorTypes, TextsAreNumbered
<1>3. UnsavedIsNowhereElse'
    BY EmptyRecords DEF EditorInv, OpDone, Put, Opens, GoTo, UnsavedIsNowhereElse
<1>4. RequestsNamePaths'
    BY EmptyRecords
    DEF EditorInv, OpDone, Opens, GoTo, EditorTypes, FileOps, Places, RequestsNamePaths
<1>5. OpsKnowTheirFile'
    BY EmptyRecords DEF EditorInv, OpDone, OpsKnowTheirFile
<1>6. ReplacedWhenSaved'
    BY EmptyRecords DEF EditorInv, OpDone, OpsKnowTheirFile, ReplacedWhenSaved
<1>7. DraftsAreOfTheirFile'
    BY EmptyRecords DEF EditorInv, OpDone, Put, GoTo, DraftsAreOfTheirFile
<1> QED BY <1>1, <1>2, <1>3, <1>4, <1>5, <1>6, <1>7 DEF EditorInv

LEMMA OpGoneKeeps ==
    ASSUME EditorInv, OpGone
    PROVE  EditorInv'
<1>1. EditorTypes'
  <2>1. NoPath \in Places /\ 0 \in 0..MaxEdits
    BY EditorNames DEF Places
  <2> QED BY <2>1, PutTypes, EmptyRecords DEF EditorInv, EditorTypes, OpGone
<1>2. TextsAreNumbered'
    BY EmptyRecords DEF EditorInv, OpGone, Put, EditorTypes, TextsAreNumbered
<1>3. UnsavedIsNowhereElse'
    BY EmptyRecords DEF EditorInv, OpGone, Put, UnsavedIsNowhereElse
<1>4. RequestsNamePaths'
    BY EmptyRecords DEF EditorInv, OpGone, RequestsNamePaths
<1>5. OpsKnowTheirFile'
    BY EmptyRecords DEF EditorInv, OpGone, OpsKnowTheirFile
<1>6. ReplacedWhenSaved'
    BY EmptyRecords DEF EditorInv, OpGone, Dirty, UnsavedIsNowhereElse, ReplacedWhenSaved
<1>7. DraftsAreOfTheirFile'
    BY EmptyRecords DEF EditorInv, OpGone, Put, DraftsAreOfTheirFile
<1> QED BY <1>1, <1>2, <1>3, <1>4, <1>5, <1>6, <1>7 DEF EditorInv

LEMMA OpRefusedKeeps ==
    ASSUME EditorInv, OpRefused
    PROVE  EditorInv'
<1>1. EditorTypes'
  <2>1. NoPath \in Places /\ fileOp' \in FileOps
    BY EmptyRecords DEF EditorInv, EditorTypes, OpRefused, FileOps, Places
  <2> QED BY <2>1 DEF EditorInv, EditorTypes, OpRefused
<1>2. TextsAreNumbered'
    BY EmptyRecords DEF EditorInv, OpRefused, TextsAreNumbered
<1>3. UnsavedIsNowhereElse'
    BY EmptyRecords DEF EditorInv, OpRefused, UnsavedIsNowhereElse
<1>4. RequestsNamePaths'
    BY EmptyRecords DEF EditorInv, OpRefused, EditorTypes, FileOps, RequestsNamePaths
<1>5. OpsKnowTheirFile'
    BY EmptyRecords DEF EditorInv, OpRefused, EditorTypes, FileOps, OpsKnowTheirFile
<1>6. ReplacedWhenSaved'
    BY EmptyRecords DEF EditorInv, OpRefused, EditorTypes, FileOps, ReplacedWhenSaved
<1>7. DraftsAreOfTheirFile'
    BY EmptyRecords DEF EditorInv, OpRefused, DraftsAreOfTheirFile
<1> QED BY <1>1, <1>2, <1>3, <1>4, <1>5, <1>6, <1>7 DEF EditorInv

LEMMA CreateKeeps ==
    ASSUME EditorInv, NEW path \in Paths, Create(path)
    PROVE  EditorInv'
<1>0. /\ making'.text.n = 0 /\ making'.base = NoText /\ making'.path = path
      /\ IF Dirty THEN making'.stage = "saving" ELSE making'.stage = "sent"
  <2> DEFINE begun == [NotMaking EXCEPT !.stage = "sent", !.kind = "create", !.path = path,
                                        !.text = [document |-> path, n |-> 0]]
  <2>1. /\ begun.text.n = 0 /\ begun.base = NoText /\ begun.path = path
        /\ begun.stage = "sent"
        /\ \A r : r = [begun EXCEPT !.stage = "saving"] =>
              r.stage = "saving" /\ r.text = begun.text /\ r.base = NoText /\ r.path = path
    BY DEF NotMaking
  <2>2. IF Dirty THEN making' = [begun EXCEPT !.stage = "saving"] ELSE making' = begun
    BY DEF Create
  <2> HIDE DEF begun
  <2> QED BY <2>1, <2>2
<1>1. EditorTypes'
  <2> DEFINE begun == [NotMaking EXCEPT !.stage = "sent", !.kind = "create", !.path = path,
                                        !.text = [document |-> path, n |-> 0]]
  <2>1. path \in Places /\ [document |-> path, n |-> 0] \in Texts
    BY EditorNames DEF Places, Texts
  <2>2. begun \in Makings /\ [begun EXCEPT !.stage = "saving"] \in Makings
    BY <2>1, EmptyRecords DEF Makings
  <2>3. making' \in Makings /\ requests' \in 0..MaxRequests
    BY <2>2, AskedTypes DEF EditorInv, Create
  <2>4. saving' \in Savings /\ conflict' \in BOOLEAN /\ failed' \in BOOLEAN
    BY StartSaveTypes DEF EditorInv, EditorTypes, Create
  <2> QED BY <2>3, <2>4 DEF EditorInv, EditorTypes, Create
<1>2. TextsAreNumbered'
    BY <1>0, EmptyRecords DEF EditorInv, Create, EditorTypes, StartSave, TextsAreNumbered
<1>3. UnsavedIsNowhereElse'
    BY <1>0, EmptyRecords DEF EditorInv, Create, StartSave, UnsavedIsNowhereElse
<1>4. RequestsNamePaths'
    BY <1>0, EmptyRecords
    DEF EditorInv, Create, StartSave, EditorTypes, Places, RequestsNamePaths
<1>5. OpsKnowTheirFile'
    BY EmptyRecords DEF EditorInv, Create, OpsKnowTheirFile
<1>6. ReplacedWhenSaved'
    BY <1>0, EmptyRecords
    DEF EditorInv, Create, Dirty, StartSave, UnsavedIsNowhereElse, ReplacedWhenSaved
<1>7. DraftsAreOfTheirFile'
    BY <1>0, EmptyRecords DEF EditorInv, Create, StartSave, DraftsAreOfTheirFile
<1> QED BY <1>1, <1>2, <1>3, <1>4, <1>5, <1>6, <1>7 DEF EditorInv

LEMMA FixKeeps ==
    ASSUME EditorInv, Fix
    PROVE  EditorInv'
<1>0. /\ file.path \in Paths /\ disk[file.path] \in Texts
      /\ edits' = edits + 1 /\ edits \in Nat /\ edits' \in 0..MaxEdits
      /\ making' \in Makings /\ making'.text.n = edits + 1 /\ making'.path = file.path
      /\ making'.text.document = making'.base.document
      /\ making'.stage = "sent" /\ overtaken' = (overtaken \/ Dirty)
  <2>1. file.path \in Paths /\ disk[file.path] \in Texts
    BY FieldTypes DEF EditorInv, Fix, Places
  <2>2. edits' = edits + 1 /\ edits \in Nat /\ edits' \in 0..MaxEdits
    BY FieldTypes, EditorNames DEF EditorInv, EditorTypes, Fix
  <2>3. [disk[file.path] EXCEPT !.n = edits + 1] \in Texts
    BY <2>1, <2>2 DEF Texts
  <2>4. making' \in Makings
    BY <2>1, <2>3 DEF Fix, Makings, Places
  <2> QED BY <2>1, <2>2, <2>4 DEF Fix, Texts
<1>1. EditorTypes'
    BY <1>0, AskedTypes DEF EditorInv, Fix, EditorTypes
<1>2. TextsAreNumbered'
    BY <1>0 DEF EditorInv, Fix, EditorTypes, Texts, Openings, Savings, Syncs, TextsAreNumbered
<1>3. UnsavedIsNowhereElse'
    BY <1>0 DEF EditorInv, Fix, EditorTypes, TextsAreNumbered, UnsavedIsNowhereElse
<1>4. RequestsNamePaths'
    BY <1>0 DEF EditorInv, Fix, RequestsNamePaths
<1>5. OpsKnowTheirFile'
    BY EmptyRecords DEF EditorInv, Fix, OpsKnowTheirFile
<1>6. ReplacedWhenSaved'
    BY <1>0, EmptyRecords DEF EditorInv, Fix, Dirty, UnsavedIsNowhereElse, ReplacedWhenSaved
<1>7. DraftsAreOfTheirFile'
    BY <1>0 DEF EditorInv, Fix, DraftsAreOfTheirFile
<1> QED BY <1>1, <1>2, <1>3, <1>4, <1>5, <1>6, <1>7 DEF EditorInv

LEMMA MakingReachesServerKeeps ==
    ASSUME EditorInv, MakingReachesServer
    PROVE  EditorInv'
<1>1. EditorTypes'
    BY FieldTypes DEF EditorInv, EditorTypes, MakingReachesServer, Makings
<1>2. TextsAreNumbered'
    BY DEF EditorInv, MakingReachesServer, EditorTypes, Makings, TextsAreNumbered
<1>3. UnsavedIsNowhereElse'
    BY DEF EditorInv, MakingReachesServer, EditorTypes, Makings, UnsavedIsNowhereElse
<1>4. RequestsNamePaths'
    BY DEF EditorInv, MakingReachesServer, EditorTypes, Makings, RequestsNamePaths
<1>5. OpsKnowTheirFile'
    BY DEF EditorInv, MakingReachesServer, OpsKnowTheirFile
<1>6. ReplacedWhenSaved'
    BY DEF EditorInv, MakingReachesServer, EditorTypes, Makings, ReplacedWhenSaved
<1>7. DraftsAreOfTheirFile'
    BY DEF EditorInv, MakingReachesServer, EditorTypes, Makings, DraftsAreOfTheirFile
<1> QED BY <1>1, <1>2, <1>3, <1>4, <1>5, <1>6, <1>7 DEF EditorInv

LEMMA CreatedKeeps ==
    ASSUME EditorInv, Created
    PROVE  EditorInv'
<1>1. EditorTypes'
    BY DEF EditorInv, EditorTypes, Created, Makings
<1>2. TextsAreNumbered'
    BY DEF EditorInv, Created, EditorTypes, Makings, TextsAreNumbered
<1>3. UnsavedIsNowhereElse'
    BY DEF EditorInv, Created, EditorTypes, Makings, UnsavedIsNowhereElse
<1>4. RequestsNamePaths'
    BY DEF EditorInv, Created, EditorTypes, Makings, RequestsNamePaths
<1>5. OpsKnowTheirFile'
    BY DEF EditorInv, Created, OpsKnowTheirFile
<1>6. ReplacedWhenSaved'
    BY DEF EditorInv, Created, EditorTypes, Makings, ReplacedWhenSaved
<1>7. DraftsAreOfTheirFile'
    BY DEF EditorInv, Created, EditorTypes, Makings, DraftsAreOfTheirFile
<1> QED BY <1>1, <1>2, <1>3, <1>4, <1>5, <1>6, <1>7 DEF EditorInv

LEMMA MadeIsOpenedKeeps ==
    ASSUME EditorInv, MadeIsOpened
    PROVE  EditorInv'
<1>1. EditorTypes'
    BY FieldTypes, OpensTypes, EmptyRecords DEF EditorInv, MadeIsOpened, EditorTypes
<1>2. TextsAreNumbered'
    BY EmptyRecords DEF EditorInv, MadeIsOpened, Opens, EditorTypes, TextsAreNumbered
<1>3. UnsavedIsNowhereElse'
    BY EmptyRecords DEF EditorInv, MadeIsOpened, Opens, UnsavedIsNowhereElse
<1>4. RequestsNamePaths'
    BY EmptyRecords DEF EditorInv, MadeIsOpened, Opens, EditorTypes, Makings, RequestsNamePaths
<1>5. OpsKnowTheirFile'
    BY EmptyRecords DEF EditorInv, MadeIsOpened, OpsKnowTheirFile
<1>6. ReplacedWhenSaved'
    BY EmptyRecords DEF EditorInv, MadeIsOpened, ReplacedWhenSaved
<1>7. DraftsAreOfTheirFile'
    BY EmptyRecords DEF EditorInv, MadeIsOpened, DraftsAreOfTheirFile
<1> QED BY <1>1, <1>2, <1>3, <1>4, <1>5, <1>6, <1>7 DEF EditorInv

LEMMA MakingFailsKeeps ==
    ASSUME EditorInv, MakingFails
    PROVE  EditorInv'
<1>1. EditorTypes'
    BY EmptyRecords DEF EditorInv, EditorTypes, MakingFails
<1>2. TextsAreNumbered'
    BY EmptyRecords DEF EditorInv, MakingFails, EditorTypes, TextsAreNumbered
<1>3. UnsavedIsNowhereElse'
    BY EmptyRecords DEF EditorInv, MakingFails, UnsavedIsNowhereElse
<1>4. RequestsNamePaths'
    BY EmptyRecords DEF EditorInv, MakingFails, RequestsNamePaths
<1>5. OpsKnowTheirFile'
    BY EmptyRecords DEF EditorInv, MakingFails, OpsKnowTheirFile
<1>6. ReplacedWhenSaved'
    BY EmptyRecords DEF EditorInv, MakingFails, ReplacedWhenSaved
<1>7. DraftsAreOfTheirFile'
    BY EmptyRecords DEF EditorInv, MakingFails, DraftsAreOfTheirFile
<1> QED BY <1>1, <1>2, <1>3, <1>4, <1>5, <1>6, <1>7 DEF EditorInv

LEMMA SyncStartsKeeps ==
    ASSUME EditorInv, SyncStarts
    PROVE  EditorInv'
<1>1. EditorTypes'
    BY EmptyRecords DEF EditorInv, SyncStarts, EditorTypes, Syncs
<1>2. TextsAreNumbered'
    BY EmptyRecords DEF EditorInv, SyncStarts, EditorTypes, TextsAreNumbered
<1>3. UnsavedIsNowhereElse'
    BY EmptyRecords DEF EditorInv, SyncStarts, UnsavedIsNowhereElse
<1>4. OpsKnowTheirFile'
    BY DEF EditorInv, SyncStarts, OpsKnowTheirFile
<1>5. ReplacedWhenSaved'
    BY DEF EditorInv, SyncStarts, ReplacedWhenSaved
<1>6. DraftsAreOfTheirFile'
    BY DEF EditorInv, SyncStarts, DraftsAreOfTheirFile
<1>7. RequestsNamePaths'
    BY DEF EditorInv, SyncStarts, EditorTypes, Places, RequestsNamePaths
<1> QED BY <1>1, <1>2, <1>3, <1>4, <1>5, <1>6, <1>7 DEF EditorInv

LEMMA SyncReadsKeeps ==
    ASSUME EditorInv, SyncReads
    PROVE  EditorInv'
<1>0. sync.path \in Paths /\ disk[sync.path] \in Texts
    BY FieldTypes DEF EditorInv, RequestsNamePaths, SyncReads
<1>1. EditorTypes'
    BY <1>0 DEF EditorInv, SyncReads, EditorTypes, Syncs
<1>2. TextsAreNumbered'
    BY <1>0 DEF EditorInv, SyncReads, EditorTypes, Syncs, TextsAreNumbered
<1>3. UnsavedIsNowhereElse'
    BY <1>0 DEF EditorInv, SyncReads, EditorTypes, Syncs, UnsavedIsNowhereElse
<1>4. OpsKnowTheirFile'
    BY DEF EditorInv, SyncReads, OpsKnowTheirFile
<1>5. ReplacedWhenSaved'
    BY DEF EditorInv, SyncReads, ReplacedWhenSaved
<1>6. DraftsAreOfTheirFile'
    BY DEF EditorInv, SyncReads, DraftsAreOfTheirFile
<1>7. RequestsNamePaths'
    BY DEF EditorInv, SyncReads, RequestsNamePaths
<1> QED BY <1>1, <1>2, <1>3, <1>4, <1>5, <1>6, <1>7 DEF EditorInv

LEMMA SyncedKeeps ==
    ASSUME EditorInv, Synced
    PROVE  EditorInv'
<1>1. EditorTypes'
  <2>1. (IF sync.text = NoText THEN NoPath ELSE sync.path) \in Places /\ sync.text \in Texts
    BY FieldTypes DEF EditorInv, Places
  <2> QED BY <2>1, PutTypes, EmptyRecords DEF EditorInv, EditorTypes, Synced
<1>2. TextsAreNumbered'
    BY EmptyRecords DEF EditorInv, Synced, Put, EditorTypes, TextsAreNumbered
<1>3. UnsavedIsNowhereElse'
    BY EmptyRecords DEF EditorInv, Synced, Put, UnsavedIsNowhereElse
<1>4. OpsKnowTheirFile'
    BY DEF EditorInv, Synced, OpsKnowTheirFile
<1>5. ReplacedWhenSaved'
    BY DEF EditorInv, Synced, Dirty, UnsavedIsNowhereElse, ReplacedWhenSaved
<1>6. DraftsAreOfTheirFile'
    BY DEF EditorInv, Synced, Put, DraftsAreOfTheirFile
<1>7. RequestsNamePaths'
    BY EmptyRecords DEF EditorInv, Synced, RequestsNamePaths
<1> QED BY <1>1, <1>2, <1>3, <1>4, <1>5, <1>6, <1>7 DEF EditorInv

LEMMA AgentEditsKeeps ==
    ASSUME EditorInv, NEW p \in Paths, AgentEdits(p)
    PROVE  EditorInv'
<1>0. edits' = edits + 1 /\ edits \in Nat /\ edits' \in 0..MaxEdits
    BY FieldTypes DEF EditorInv, EditorTypes, AgentEdits
<1>1. EditorTypes'
    BY <1>0, EmptyRecords DEF EditorInv, EditorTypes, AgentEdits, Texts
<1>2. TextsAreNumbered'
    BY EmptyRecords DEF EditorInv, AgentEdits, EditorTypes, Texts, Openings, Savings, Makings,
       Syncs,
       TextsAreNumbered
<1>3. UnsavedIsNowhereElse'
  <2>1. \A q \in Paths : disk'[q] = disk[q] \/ disk'[q].n \in {0, edits + 1}
    BY EmptyRecords DEF EditorInv, EditorTypes, AgentEdits, Texts
  <2>2. unsaved' <= edits /\ unsaved' = unsaved
    BY DEF EditorInv, TextsAreNumbered, AgentEdits
  <2> QED BY <1>0, <2>1, <2>2, FieldTypes DEF EditorInv, AgentEdits, UnsavedIsNowhereElse
<1>4. OpsKnowTheirFile'
    BY DEF EditorInv, AgentEdits, OpsKnowTheirFile
<1>5. ReplacedWhenSaved'
    BY DEF EditorInv, AgentEdits, ReplacedWhenSaved
<1>6. DraftsAreOfTheirFile'
    BY DEF EditorInv, AgentEdits, DraftsAreOfTheirFile
<1>7. RequestsNamePaths'
    BY DEF EditorInv, AgentEdits, RequestsNamePaths
<1> QED BY <1>1, <1>2, <1>3, <1>4, <1>5, <1>6, <1>7 DEF EditorInv

LEMMA EditorStep == EditorInv /\ [EditorNext]_editorVars => EditorInv'
<1> SUFFICES ASSUME EditorInv, [EditorNext]_editorVars PROVE EditorInv'
    OBVIOUS
<1>1. CASE UNCHANGED editorVars
    BY <1>1
    DEF editorVars, EditorInv, EditorTypes, TextsAreNumbered, UnsavedIsNowhereElse,
        RequestsNamePaths,
        OpsKnowTheirFile, ReplacedWhenSaved, DraftsAreOfTheirFile
<1>2. CASE Answers
    BY <1>2, OpenReadsKeeps, OpenedKeeps, SaveReachesServerKeeps, SavedKeeps, SaveEndsKeeps,
       SaveFailsKeeps, OpReachesServerKeeps, OpDoneKeeps, OpGoneKeeps, OpRefusedKeeps,
       MakingReachesServerKeeps, CreatedKeeps, MadeIsOpenedKeeps, MakingFailsKeeps DEF Answers
<1>3. CASE Refresh
    BY <1>3, SyncStartsKeeps, SyncReadsKeeps, SyncedKeeps DEF Refresh
<1>4. CASE UserActs
  <2>1. CASE \/ Type \/ KeepEditing \/ Discard \/ Save \/ SaveAndContinue
             \/ Reopen \/ CancelOp \/ Delete \/ Fix
    BY <2>1, TypeKeeps, KeepEditingKeeps, DiscardKeeps, SaveKeeps, SaveAndContinueKeeps,
       ReopenKeeps, CancelOpKeeps, DeleteKeeps, FixKeeps
  <2>2. ASSUME NEW path \in Paths \cup {NoPath}, AskToOpen(path) PROVE EditorInv'
    BY <2>2, AskToOpenKeeps DEF Places
  <2>3. ASSUME NEW kind \in {"rename", "delete"}, NEW path \in Paths, AskOp(kind, path)
        PROVE  EditorInv'
    BY <2>3, AskOpKeeps
  <2>4. ASSUME NEW path \in Paths, Rename(path) \/ Create(path) PROVE EditorInv'
    BY <2>4, RenameKeeps, CreateKeeps
  <2> QED BY <1>4, <2>1, <2>2, <2>3, <2>4 DEF UserActs
<1>5. ASSUME NEW p \in Paths, AgentEdits(p) PROVE EditorInv'
    BY <1>5, AgentEditsKeeps
<1> QED BY <1>1, <1>2, <1>3, <1>4, <1>5 DEF EditorNext

(* The invariant of the document editor: while the user's last text counts *)
(* as unsaved it is in no file, and whatever replaces the draft in the     *)
(* editor, a file that was opened, refreshed, renamed or created, finds it *)
(* saved, or is one of the two histories.                                  *)
THEOREM EditorIsInOrder == EditorSpec => []EditorInv
<1> QED BY EditorStarts, EditorStep, PTL DEF EditorSpec

(* An edit stays in the editor until it is saved or discarded, though      *)
(* files are opened late, refreshed, renamed, created or deleted meanwhile;*)
(* excepted are the crossing of a save and the ways in which the code      *)
(* replaces a draft without asking, which the history variables name.      *)
THEOREM DraftsAreNotLost == EditorSpec => [](EditorTypeOK /\ DraftsSurvive)
<1>1. EditorInv => EditorTypeOK /\ DraftsSurvive
    BY EditorTypesAreNamed DEF EditorInv, ReplacedWhenSaved, DraftsSurvive
<1> QED BY <1>1, EditorIsInOrder, PTL

(* A save, a rename, a fix and an agent's edit leave every file with text  *)
(* of the document that was there, unless a save was answered when another *)
(* document was shown: a save writes what the editor holds, and the draft  *)
(* is of the document shown.                                               *)
THEOREM TextsKeepTheirDocument == EditorSpec => TextsStayHome
<1> DEFINE StayHome ==
        \A p \in Paths :
            disk[p] # NoText /\ disk'[p] # NoText /\ ~crossed =>
                disk'[p].document = disk[p].document
(* Only a save, an operation, a creation, a fix and an agent write.        *)
<1>1. ASSUME EditorInv, EditorNext PROVE StayHome
  <2> SUFFICES ASSUME NEW p \in Paths, disk[p] # NoText, disk'[p] # NoText, ~crossed,
                      disk'[p] # disk[p]
               PROVE  disk'[p].document = disk[p].document
    OBVIOUS
  <2>1. disk[p] \in Texts
    BY <1>1, FieldTypes DEF EditorInv
  <2>2. CASE SaveReachesServer
    <3>1. saving.text.document = saving.base.document /\ disk \in [Paths -> Texts]
      BY <1>1 DEF EditorInv, EditorTypes, DraftsAreOfTheirFile
    <3> QED BY <2>2, <3>1 DEF SaveReachesServer
  <2>3. CASE OpReachesServer
    BY <2>3 DEF OpReachesServer
  <2>4. ASSUME NEW q \in Paths, AgentEdits(q) PROVE disk'[p].document = disk[p].document
    BY <1>1, <2>1, <2>4 DEF EditorInv, EditorTypes, AgentEdits, Texts
  <2>5. CASE MakingReachesServer
    <3>1. /\ making.base = NoText \/ making.text.document = making.base.document
          /\ disk \in [Paths -> Texts]
      BY <1>1 DEF EditorInv, EditorTypes, DraftsAreOfTheirFile
    <3> QED BY <2>5, <3>1 DEF MakingReachesServer
  <2>6. \/ UNCHANGED disk \/ SaveReachesServer \/ OpReachesServer \/ MakingReachesServer
        \/ \E q \in Paths : AgentEdits(q)
    BY <1>1
    DEF EditorNext, Answers, Refresh, UserActs, OpenReads, Opened, Saved, SaveEnds, SaveFails,
        OpDone, OpGone, OpRefused, SyncStarts, SyncReads, Synced, Type, KeepEditing, Discard,
        Save, SaveAndContinue, AskToOpen, Reopen, AskOp, CancelOp, Rename, Delete, Create, Fix,
        Created, MadeIsOpened, MakingFails
  <2> QED BY <2>2, <2>3, <2>4, <2>5, <2>6
<1>2. EditorInv /\ [EditorNext]_editorVars => [StayHome]_editorVars
    BY <1>1
<1> QED BY <1>2, EditorIsInOrder, PTL DEF EditorSpec, TextsStayHome

-----------------------------------------------------------------------------
(* The calendar. The strengthening speaks of the posts in hand: what a     *)
(* post expects to find is what its editor was shown, and no line of its   *)
(* request is among that, so that the line it adds is the first one of its *)
(* request.                                                                *)

InHand == {"sent", "replaying", "evaluating", "loading"}

SentByAnEditor(n) ==
    posts[n].stage \in InHand =>
        /\ posts[n].request \in Requests
        /\ editors[posts[n].request].stage # "new"

ExpectsWhatWasShown(n) ==
    posts[n].stage \in {"sent", "evaluating"} =>
        posts[n].expected = editors[posts[n].request].shown

AddsANewRequest(n) ==
    posts[n].stage = "evaluating" =>
        \A i \in DOMAIN posts[n].expected.root :
            posts[n].expected.root[i].tag # posts[n].request

CalendarInv ==
    /\ CalendarTypeOK
    /\ \A n \in 1..MaxCalls : SentByAnEditor(n) /\ ExpectsWhatWasShown(n) /\ AddsANewRequest(n)
    /\ OncePerRequest

LEMMA ElementsOfAConcatenation ==
    ASSUME NEW S, NEW u \in Seq(S), NEW v \in Seq(S)
    PROVE  /\ u \o v \in Seq(S)
           /\ Len(u \o v) = Len(u) + Len(v)
           /\ \A j \in 1..(Len(u) + Len(v)) :
                (u \o v)[j] = IF j <= Len(u) THEN u[j] ELSE v[j - Len(u)]
    OBVIOUS

LEMMA RemovalKeepsTheOthers ==
    ASSUME NEW S, NEW s \in Seq(S), NEW i \in 1..Len(s)
    PROVE  LET t == SubSeq(s, 1, i - 1) \o SubSeq(s, i + 1, Len(s))
           IN  /\ t \in Seq(S)
               /\ Len(t) = Len(s) - 1
               /\ \A j \in 1..Len(t) : t[j] = IF j < i THEN s[j] ELSE s[j + 1]
<1> DEFINE u == SubSeq(s, 1, i - 1)
           v == SubSeq(s, i + 1, Len(s))
           t == u \o v
<1>0. Len(s) \in Nat /\ i \in Nat /\ i <= Len(s) /\ 1 <= i
    OBVIOUS
<1>1. u \in Seq(S) /\ Len(u) = i - 1 /\ \A j \in 1..(i - 1) : u[j] = s[j]
    BY <1>0
<1>2. v \in Seq(S) /\ Len(v) = Len(s) - i /\ \A j \in 1..(Len(s) - i) : v[j] = s[j + i]
  <2>1. v \in Seq(S)
    BY <1>0
  <2>2. Len(v) = Len(s) - i
    BY <1>0
  <2>3. \A j \in 1..(Len(s) - i) : v[j] = s[j + i]
    BY <1>0
  <2> QED BY <2>1, <2>2, <2>3
<1> HIDE DEF u, v
<1>4. /\ t \in Seq(S)
      /\ Len(t) = Len(u) + Len(v)
      /\ \A j \in 1..(Len(u) + Len(v)) : t[j] = IF j <= Len(u) THEN u[j] ELSE v[j - Len(u)]
    BY <1>1, <1>2, ElementsOfAConcatenation
<1> HIDE DEF t
<1>5. Len(t) = Len(s) - 1
    BY <1>0, <1>1, <1>2, <1>4
<1>6. ASSUME NEW j \in 1..Len(t) PROVE t[j] = IF j < i THEN s[j] ELSE s[j + 1]
  <2>0. j \in Nat /\ 1 <= j /\ j <= Len(s) - 1 /\ j \in 1..(Len(u) + Len(v))
    BY <1>0, <1>4, <1>5
  <2>1. t[j] = IF j <= i - 1 THEN u[j] ELSE v[j - (i - 1)]
    BY <1>1, <1>4, <2>0
  <2>2. ASSUME j < i PROVE t[j] = s[j]
    BY <2>0, <2>1, <2>2, <1>1, <1>0
  <2>3. ASSUME ~(j < i) PROVE t[j] = s[j + 1]
    <3> DEFINE k == j - (i - 1)
    <3>1. k \in 1..(Len(s) - i) /\ k + i = j + 1
      BY <2>3, <2>0, <1>0
    <3>2. t[j] = v[k]
      BY <2>1, <2>3, <2>0, <1>0
    <3>3. v[k] = s[k + i]
      BY <3>1, <1>2
    <3> HIDE DEF k
    <3> QED BY <3>1, <3>2, <3>3
  <2> QED BY <2>2, <2>3
<1> QED BY <1>4, <1>5, <1>6 DEF t, u, v

EditorRecords == [stage : EditorStages, fields : Fields, shown : Snapshots, post : 0..MaxCalls]
PostRecords == [stage : PostStages, request : Requests \cup {Foreign}, fields : Fields,
                expected : Snapshots, same : BOOLEAN]

PostsAreInOrder ==
    \A n \in 1..MaxCalls : SentByAnEditor(n) /\ ExpectsWhatWasShown(n) /\ AddsANewRequest(n)

(* A step that leaves the files alone, and whose editors keep what they    *)
(* were shown.                                                             *)
LEMMA SnapshotsAreWellFormed ==
    ASSUME CalendarTypeOK
    PROVE  Snapshot \in Snapshots /\ NoSnapshot \in Snapshots /\ NoPost \in PostRecords
<1>1. NoSnapshot \in Snapshots
    BY DEF Snapshots, NoSnapshot
<1>2. Snapshot \in Snapshots
    BY DEF CalendarTypeOK, Snapshots, Snapshot
<1>3. "unsent" \in PostStages /\ 1 \in Fields /\ FALSE \in BOOLEAN
    BY DEF PostStages, Fields
<1> QED BY <1>1, <1>2, <1>3 DEF NoPost, PostRecords

LEMMA CalendarStarts == CalendarInit => CalendarInv
<1> SUFFICES ASSUME CalendarInit PROVE CalendarInv
    OBVIOUS
<1>1. CalendarTypeOK
  <2>1. root \in Seq(Lines) /\ include \in 1..2 /\ foreign \in 0..MaxForeign
    BY CalendarBounds DEF CalendarInit
  <2>2. NoSnapshot \in Snapshots
    BY DEF Snapshots, NoSnapshot
  <2>3. /\ "new" \in EditorStages /\ 1 \in Fields /\ 0 \in 0..MaxCalls
        /\ "unsent" \in PostStages /\ FALSE \in BOOLEAN
    BY CalendarBounds DEF PostStages, Fields, EditorStages
  <2>4. NoPost \in PostRecords
    BY <2>2, <2>3 DEF NoPost, PostRecords
  <2>5. editors \in [Requests -> EditorRecords]
    BY <2>2, <2>3 DEF CalendarInit, EditorRecords
  <2>6. posts \in [1..MaxCalls -> PostRecords]
    BY <2>4 DEF CalendarInit
  <2> QED BY <2>1, <2>5, <2>6 DEF CalendarTypeOK, EditorRecords, PostRecords
<1>2. \A n \in 1..MaxCalls : posts[n].stage = "unsent"
    BY DEF CalendarInit, NoPost
<1>3. PostsAreInOrder
    BY <1>2 DEF PostsAreInOrder, SentByAnEditor, ExpectsWhatWasShown, AddsANewRequest, InHand
<1>4. OncePerRequest
    BY DEF CalendarInit, OncePerRequest
<1> QED BY <1>1, <1>3, <1>4 DEF CalendarInv, PostsAreInOrder

(* Every editor that has been opened stays on what it was shown.           *)
EditorsKeepWhatWasShown ==
    \A r \in Requests : editors[r].stage # "new" =>
        editors'[r].stage # "new" /\ editors'[r].shown = editors[r].shown

(* Every post is what it was, or is no longer in hand.                     *)
PostsStayOrEnd ==
    \A n \in 1..MaxCalls : posts'[n] = posts[n] \/ posts'[n].stage \notin InHand

LEMMA QuietPosts ==
    ASSUME CalendarInv, EditorsKeepWhatWasShown, PostsStayOrEnd
    PROVE  PostsAreInOrder'
<1> SUFFICES ASSUME NEW n \in 1..MaxCalls
             PROVE  SentByAnEditor(n)' /\ ExpectsWhatWasShown(n)' /\ AddsANewRequest(n)'
    BY DEF PostsAreInOrder
<1>1. SentByAnEditor(n) /\ ExpectsWhatWasShown(n) /\ AddsANewRequest(n)
    BY DEF CalendarInv
<1>2. CASE posts'[n].stage \notin InHand
    BY <1>2 DEF SentByAnEditor, ExpectsWhatWasShown, AddsANewRequest, InHand
<1>3. CASE posts'[n] = posts[n]
    BY <1>1, <1>3 DEF SentByAnEditor, ExpectsWhatWasShown, AddsANewRequest, InHand,
                      EditorsKeepWhatWasShown
<1> QED BY <1>2, <1>3 DEF PostsStayOrEnd

LEMMA AppointmentStep ==
    ASSUME CalendarInv, EditorsKeepWhatWasShown, PostsStayOrEnd,
           editors' \in [Requests -> EditorRecords], posts' \in [1..MaxCalls -> PostRecords],
           UNCHANGED <<root, include, foreign>>
    PROVE  CalendarInv'
<1>1. CalendarTypeOK'
    BY DEF CalendarInv, CalendarTypeOK, EditorRecords, PostRecords
<1>2. OncePerRequest'
    BY DEF CalendarInv, OncePerRequest
<1> QED BY <1>1, <1>2, QuietPosts DEF CalendarInv, PostsAreInOrder

LEMMA AnswerKeeps ==
    ASSUME CalendarInv, NEW n \in 1..MaxCalls, NEW result \in Results, AnsweredWith(n, result),
           UNCHANGED <<root, include, editors, foreign>>
    PROVE  CalendarInv'
<1> DEFINE stage == IF Awaited(n) THEN result ELSE "over"
           after == [NoPost EXCEPT !.stage = stage]
<1>1. stage \in PostStages /\ stage \notin InHand
    BY DEF PostStages, Results, InHand
<1>2. posts \in [1..MaxCalls -> PostRecords] /\ NoPost \in PostRecords
    BY SnapshotsAreWellFormed DEF CalendarInv, CalendarTypeOK, PostRecords
<1>3. after \in PostRecords /\ after.stage = stage
    BY <1>1, <1>2 DEF PostRecords
<1>4. posts' = [posts EXCEPT ![n] = after]
    BY DEF AnsweredWith
<1> HIDE DEF stage, after
<1>5. posts' \in [1..MaxCalls -> PostRecords] /\ PostsStayOrEnd
    BY <1>1, <1>2, <1>3, <1>4 DEF PostsStayOrEnd
<1>6. EditorsKeepWhatWasShown /\ editors' \in [Requests -> EditorRecords]
    BY DEF EditorsKeepWhatWasShown, CalendarInv, CalendarTypeOK, EditorRecords
<1> QED BY <1>5, <1>6, AppointmentStep

LEMMA ClientActs ==
    ASSUME CalendarInv, NEW r \in Requests,
           NewAppointment(r) \/ EditFields(r) \/ ConnectionBreaks(r) \/ CancelEditor(r)
    PROVE  CalendarInv'
<1>1. editors \in [Requests -> EditorRecords] /\ posts \in [1..MaxCalls -> PostRecords]
    BY DEF CalendarInv, CalendarTypeOK, EditorRecords, PostRecords
<1>2. Snapshot \in Snapshots
    BY SnapshotsAreWellFormed DEF CalendarInv
<1>3. {"new", "open", "saving", "closed"} \subseteq EditorStages /\ 0 \in 0..MaxCalls
    BY CalendarBounds DEF EditorStages
<1>4. UNCHANGED <<root, include, posts, foreign>>
    BY DEF NewAppointment, EditFields, ConnectionBreaks, CancelEditor
<1>5. EditorsKeepWhatWasShown /\ editors' \in [Requests -> EditorRecords]
  <2>1. CASE NewAppointment(r)
    <3> DEFINE e == [editors[r] EXCEPT !.stage = "open", !.shown = Snapshot]
    <3>1. e \in EditorRecords
      BY <1>1, <1>2, <1>3 DEF EditorRecords
    <3>2. editors' = [editors EXCEPT ![r] = e]
      BY <1>1, <2>1 DEF NewAppointment, EditorRecords
    <3> HIDE DEF e
    <3>3. editors' \in [Requests -> EditorRecords]
      BY <1>1, <3>1, <3>2
    <3>4. EditorsKeepWhatWasShown
      BY <1>1, <2>1, <3>2 DEF NewAppointment, EditorsKeepWhatWasShown
    <3> QED BY <3>3, <3>4
  <2>2. CASE EditFields(r)
    BY <1>1, <2>2 DEF EditFields, EditorsKeepWhatWasShown, EditorRecords
  <2>3. CASE ConnectionBreaks(r)
    BY <1>1, <1>3, <2>3 DEF ConnectionBreaks, EditorsKeepWhatWasShown, EditorRecords
  <2>4. CASE CancelEditor(r)
    BY <1>1, <1>3, <2>4 DEF CancelEditor, EditorsKeepWhatWasShown, EditorRecords
  <2> QED BY <2>1, <2>2, <2>3, <2>4
<1> QED BY <1>1, <1>4, <1>5, AppointmentStep DEF PostsStayOrEnd

LEMMA SaveAnsweredKeeps ==
    ASSUME CalendarInv, NEW r \in Requests, SaveAnswered(r)
    PROVE  CalendarInv'
<1> DEFINE n == editors[r].post
           after == [NoPost EXCEPT !.stage = "over"]
<1>1. editors \in [Requests -> EditorRecords] /\ posts \in [1..MaxCalls -> PostRecords]
    BY DEF CalendarInv, CalendarTypeOK, EditorRecords, PostRecords
<1>2. after \in PostRecords /\ after.stage = "over" /\ "over" \notin InHand
    BY SnapshotsAreWellFormed DEF CalendarInv, PostRecords, PostStages, InHand
<1>3. {"open", "closed"} \subseteq EditorStages /\ "new" \notin {"open", "closed"} /\ 0 \in 0..MaxCalls
    BY CalendarBounds DEF EditorStages
<1>4. posts' = [posts EXCEPT ![n] = after]
    BY DEF SaveAnswered
<1> HIDE DEF after
<1>5. posts' \in [1..MaxCalls -> PostRecords] /\ PostsStayOrEnd
    BY <1>1, <1>2, <1>4 DEF PostsStayOrEnd
<1>6. EditorsKeepWhatWasShown /\ editors' \in [Requests -> EditorRecords]
    BY <1>1, <1>3 DEF SaveAnswered, EditorsKeepWhatWasShown, EditorRecords
<1>7. UNCHANGED <<root, include, foreign>>
    BY DEF SaveAnswered
<1> QED BY <1>5, <1>6, <1>7, AppointmentStep

LEMMA RestartKeeps ==
    ASSUME CalendarInv, ServerRestarts
    PROVE  CalendarInv'
<1>1. editors \in [Requests -> EditorRecords] /\ posts \in [1..MaxCalls -> PostRecords]
    BY DEF CalendarInv, CalendarTypeOK, EditorRecords, PostRecords
<1>2. /\ NoPost \in PostRecords /\ NoPost.stage = "unsent"
      /\ [NoPost EXCEPT !.stage = "over"] \in PostRecords
      /\ [NoPost EXCEPT !.stage = "over"].stage = "over"
    BY SnapshotsAreWellFormed DEF CalendarInv, PostRecords, PostStages, NoPost
<1>3. "open" \in EditorStages /\ 0 \in 0..MaxCalls
    BY CalendarBounds DEF EditorStages
<1>4. posts' \in [1..MaxCalls -> PostRecords] /\ PostsStayOrEnd
    BY <1>1, <1>2 DEF ServerRestarts, PostsStayOrEnd, InHand
<1>5. EditorsKeepWhatWasShown /\ editors' \in [Requests -> EditorRecords]
  <2> SUFFICES ASSUME NEW r \in Requests
               PROVE  /\ editors'[r] \in EditorRecords
                      /\ editors[r].stage # "new" =>
                            editors'[r].stage # "new" /\ editors'[r].shown = editors[r].shown
    BY DEF EditorsKeepWhatWasShown, ServerRestarts
  <2>1. editors'[r] = IF editors[r].stage = "saving"
                      THEN [editors[r] EXCEPT !.stage = "open", !.post = 0] ELSE editors[r]
    BY DEF ServerRestarts
  <2>2. editors[r] \in EditorRecords
    BY <1>1
  <2> QED BY <1>3, <2>1, <2>2 DEF EditorRecords
<1>6. UNCHANGED <<root, include, foreign>>
    BY DEF ServerRestarts
<1> QED BY <1>4, <1>5, <1>6, AppointmentStep

LEMMA SaveAppointmentKeeps ==
    ASSUME CalendarInv, NEW r \in Requests, SaveAppointment(r)
    PROVE  CalendarInv'
<1>1. editors \in [Requests -> EditorRecords] /\ posts \in [1..MaxCalls -> PostRecords]
    BY DEF CalendarInv, CalendarTypeOK, EditorRecords, PostRecords
<1>2. PICK n \in 1..MaxCalls :
        /\ posts' = [posts EXCEPT ![n] =
                [NoPost EXCEPT !.stage = "sent", !.request = r, !.fields = editors[r].fields,
                               !.expected = editors[r].shown]]
        /\ editors' = [editors EXCEPT ![r].stage = "saving", ![r].post = n]
    BY DEF SaveAppointment
<1> DEFINE after == [NoPost EXCEPT !.stage = "sent", !.request = r, !.fields = editors[r].fields,
                                   !.expected = editors[r].shown]
<1>3. /\ after \in PostRecords /\ after.stage = "sent" /\ after.request = r
      /\ after.expected = editors[r].shown
    BY <1>1, SnapshotsAreWellFormed
    DEF CalendarInv, PostRecords, PostStages, EditorRecords
<1>4. posts' = [posts EXCEPT ![n] = after]
    BY <1>2
<1> HIDE DEF after
<1>5. "saving" \in EditorStages /\ editors[r].stage = "open"
    BY DEF EditorStages, SaveAppointment
<1>6. /\ EditorsKeepWhatWasShown /\ editors' \in [Requests -> EditorRecords]
      /\ editors'[r].stage = "saving" /\ editors'[r].shown = editors[r].shown
  <2> DEFINE e == [editors[r] EXCEPT !.stage = "saving", !.post = n]
  <2>0. editors[r] \in EditorRecords /\ n \in 0..MaxCalls
    BY <1>1, CalendarBounds
  <2>1. e \in EditorRecords /\ e.stage = "saving" /\ e.shown = editors[r].shown
    BY <2>0, <1>5 DEF EditorRecords
  <2>2. editors' = [editors EXCEPT ![r] = e]
    BY <1>1, <1>2 DEF EditorRecords
  <2> HIDE DEF e
  <2>3. editors' \in [Requests -> EditorRecords]
    BY <1>1, <2>1, <2>2
  <2>4. EditorsKeepWhatWasShown
    BY <1>1, <2>1, <2>2 DEF EditorsKeepWhatWasShown
  <2>5. editors'[r] = e
    BY <1>1, <2>2
  <2> QED BY <2>1, <2>3, <2>4, <2>5
<1>7. posts' \in [1..MaxCalls -> PostRecords]
    BY <1>1, <1>3, <1>4
<1>8. UNCHANGED <<root, include, foreign>>
    BY DEF SaveAppointment
<1>9. CalendarTypeOK' /\ OncePerRequest'
    BY <1>6, <1>7, <1>8 DEF CalendarInv, CalendarTypeOK, OncePerRequest, EditorRecords, PostRecords
<1>10. ASSUME NEW k \in 1..MaxCalls
       PROVE  SentByAnEditor(k)' /\ ExpectsWhatWasShown(k)' /\ AddsANewRequest(k)'
  <2>1. CASE k = n
    <3>1. posts'[k] = after
      BY <1>1, <1>4, <2>1
    <3> QED BY <3>1, <1>3, <1>6 DEF SentByAnEditor, ExpectsWhatWasShown, AddsANewRequest, InHand
  <2>2. CASE k # n
    <3>1. posts'[k] = posts[k]
      BY <1>1, <1>4, <2>2
    <3> QED BY <3>1, <1>6 DEF CalendarInv, SentByAnEditor, ExpectsWhatWasShown, AddsANewRequest,
                              InHand, EditorsKeepWhatWasShown
  <2> QED BY <2>1, <2>2
<1> QED BY <1>9, <1>10 DEF CalendarInv

(* A step of create that leaves post n in hand.                            *)
LEMMA CreateStep ==
    ASSUME CalendarInv, NEW n \in 1..MaxCalls, NEW after \in PostRecords,
           posts' = [posts EXCEPT ![n] = after],
           after.stage \in InHand => /\ posts[n].stage \in InHand
                                     /\ after.request = posts[n].request,
           after.stage \in {"sent", "evaluating"} =>
               /\ posts[n].stage \in {"sent", "evaluating"}
               /\ after.expected = posts[n].expected,
           after.stage = "evaluating" =>
               \A i \in DOMAIN after.expected.root : after.expected.root[i].tag # after.request,
           editors' = editors
    PROVE  posts' \in [1..MaxCalls -> PostRecords] /\ PostsAreInOrder'
<1>1. posts \in [1..MaxCalls -> PostRecords]
    BY DEF CalendarInv, CalendarTypeOK, PostRecords
<1>2. ASSUME NEW k \in 1..MaxCalls
      PROVE  SentByAnEditor(k)' /\ ExpectsWhatWasShown(k)' /\ AddsANewRequest(k)'
  <2>1. SentByAnEditor(k) /\ ExpectsWhatWasShown(k) /\ AddsANewRequest(k)
    BY DEF CalendarInv
  <2>2. CASE k = n
    <3>1. posts'[k] = after
      BY <1>1, <2>2
    <3> QED BY <2>1, <2>2, <3>1
            DEF SentByAnEditor, ExpectsWhatWasShown, AddsANewRequest, InHand
  <2>3. CASE k # n
    <3>1. posts'[k] = posts[k]
      BY <1>1, <2>3
    <3> QED BY <2>1, <3>1 DEF SentByAnEditor, ExpectsWhatWasShown, AddsANewRequest, InHand
  <2> QED BY <2>2, <2>3
<1> QED BY <1>1, <1>2 DEF PostsAreInOrder

LEMMA BeginsKeeps ==
    ASSUME CalendarInv, NEW n \in 1..MaxCalls, Begins(n)
    PROVE  CalendarInv'
<1>1. posts \in [1..MaxCalls -> PostRecords] /\ posts[n] \in PostRecords
    BY DEF CalendarInv, CalendarTypeOK, PostRecords
<1>2. UNCHANGED <<root, include, editors, foreign>> /\ posts[n].stage = "sent"
    BY DEF Begins
<1>3. ASSUME posts' \in [1..MaxCalls -> PostRecords] /\ PostsAreInOrder'
      PROVE  CalendarInv'
    BY <1>2, <1>3
    DEF CalendarInv, CalendarTypeOK, OncePerRequest, PostsAreInOrder, PostRecords
<1>4. CASE OnFile(posts[n].request)
  <2> DEFINE same == SameOnFile(posts[n].request, posts[n].fields)
             after == [posts[n] EXCEPT !.stage = "replaying", !.same = same]
  <2>1. same \in BOOLEAN /\ "replaying" \in PostStages
    BY DEF SameOnFile, PostStages
  <2>2. posts' = [posts EXCEPT ![n] = after]
    BY <1>1, <1>4 DEF Begins, PostRecords
  <2> HIDE DEF same
  <2>3. after \in PostRecords /\ after.stage = "replaying" /\ after.request = posts[n].request
    BY <1>1, <2>1 DEF PostRecords
  <2> HIDE DEF after
  <2> QED BY <1>2, <1>3, <2>2, <2>3, CreateStep DEF InHand
<1>5. CASE ~OnFile(posts[n].request) /\ Snapshot # posts[n].expected
  <2>1. AnsweredWith(n, "revision_conflict") /\ "revision_conflict" \in Results
    BY <1>5 DEF Begins, Results
  <2> QED BY <1>2, <2>1, AnswerKeeps
<1>6. CASE ~OnFile(posts[n].request) /\ Snapshot = posts[n].expected
  <2> DEFINE after == [posts[n] EXCEPT !.stage = "evaluating"]
  <2>1. "evaluating" \in PostStages
    BY DEF PostStages
  <2>2. posts' = [posts EXCEPT ![n] = after]
    BY <1>1, <1>6 DEF Begins, PostRecords
  <2>3. /\ after \in PostRecords /\ after.stage = "evaluating"
        /\ after.request = posts[n].request /\ after.expected = posts[n].expected
    BY <1>1, <2>1 DEF PostRecords
  <2>4. \A i \in DOMAIN posts[n].expected.root :
            posts[n].expected.root[i].tag # posts[n].request
    BY <1>6 DEF OnFile, Snapshot
  <2> HIDE DEF after
  <2> QED BY <1>2, <1>3, <2>2, <2>3, <2>4, CreateStep DEF InHand
<1> QED BY <1>4, <1>5, <1>6

(* Where the new line is written, no line has its request.                 *)
LEMMA WritesFileKeeps ==
    ASSUME CalendarInv, NEW n \in 1..MaxCalls, WritesFile(n)
    PROVE  CalendarInv'
<1> DEFINE p == posts[n]
           line == Line(p.request, p.fields)
<1>1. posts \in [1..MaxCalls -> PostRecords] /\ p \in PostRecords /\ root \in Seq(Lines)
    BY DEF CalendarInv, CalendarTypeOK, PostRecords
<1>2. UNCHANGED <<include, editors, foreign>> /\ p.stage = "evaluating"
    BY DEF WritesFile
<1>3. CASE Snapshot # p.expected
  <2>1. AnsweredWith(n, "revision_conflict") /\ UNCHANGED root /\ "revision_conflict" \in Results
    BY <1>3 DEF WritesFile, Results, Unchanged
  <2> QED BY <1>2, <2>1, AnswerKeeps
<1>4. CASE Snapshot = p.expected
  <2>1. p.expected.root = root
    BY <1>4 DEF Snapshot
  <2>2. \A i \in DOMAIN root : root[i].tag # p.request
    BY <1>2, <2>1 DEF CalendarInv, AddsANewRequest
  <2>3. line \in Lines /\ line.tag = p.request
    BY <1>1 DEF Line, Lines, PostRecords
  <2>4. root' = Append(root, line)
    BY <1>4, <2>1 DEF WritesFile, Unchanged
  <2> DEFINE after == [p EXCEPT !.stage = "loading"]
  <2>5. posts' = [posts EXCEPT ![n] = after]
    BY <1>1, <1>4 DEF WritesFile, Unchanged, PostRecords
  <2>6. after \in PostRecords /\ after.stage = "loading" /\ after.request = p.request
    BY <1>1 DEF PostRecords, PostStages
  <2> HIDE DEF after
  <2>7. posts' \in [1..MaxCalls -> PostRecords] /\ PostsAreInOrder'
    BY <1>2, <2>5, <2>6, CreateStep DEF InHand
  <2> HIDE DEF line
  <2>8. /\ root' \in Seq(Lines) /\ DOMAIN root' = 1..(Len(root) + 1)
        /\ root'[Len(root) + 1] = line /\ \A i \in DOMAIN root : root'[i] = root[i]
    BY <1>1, <2>3, <2>4
  <2>9. ASSUME NEW i \in DOMAIN root', NEW k \in DOMAIN root',
               root'[i].tag = root'[k].tag, root'[i].tag # Foreign
        PROVE  i = k
    <3>1. Len(root) \in Nat /\ DOMAIN root = 1..Len(root)
      BY <1>1
    <3>2. i \in DOMAIN root \/ i = Len(root) + 1
      BY <2>8, <3>1
    <3>3. k \in DOMAIN root \/ k = Len(root) + 1
      BY <2>8, <3>1
    <3>4. CASE i \in DOMAIN root /\ k \in DOMAIN root
      BY <2>8, <2>9, <3>4 DEF CalendarInv, OncePerRequest
    <3>5. CASE i \in DOMAIN root /\ k = Len(root) + 1
      BY <2>2, <2>3, <2>8, <2>9, <3>5
    <3>6. CASE k \in DOMAIN root /\ i = Len(root) + 1
      BY <2>2, <2>3, <2>8, <2>9, <3>6
    <3> QED BY <3>2, <3>3, <3>4, <3>5, <3>6
  <2>10. OncePerRequest'
    BY <2>9 DEF OncePerRequest
  <2>11. CalendarTypeOK'
    BY <1>2, <2>7, <2>8 DEF CalendarInv, CalendarTypeOK, PostRecords
  <2> QED BY <2>7, <2>10, <2>11 DEF CalendarInv, PostsAreInOrder
<1> QED BY <1>3, <1>4

LEMMA OthersWriteKeeps ==
    ASSUME CalendarInv, OthersWrite
    PROVE  CalendarInv'
<1>1. root \in Seq(Lines) /\ include \in 1..2 /\ foreign \in 0..MaxForeign
    BY DEF CalendarInv, CalendarTypeOK
<1>2. foreign' \in 0..MaxForeign /\ UNCHANGED <<editors, posts>>
    BY <1>1, CalendarBounds DEF OthersWrite
<1>3. PostsAreInOrder'
    BY <1>2, QuietPosts DEF EditorsKeepWhatWasShown, PostsStayOrEnd
<1>4. root' \in Seq(Lines) /\ include' \in 1..2 /\ OncePerRequest'
  <2>1. CASE root' = Append(root, Line(Foreign, 1)) /\ UNCHANGED include
    <3> DEFINE line == Line(Foreign, 1)
    <3>1. line \in Lines /\ line.tag = Foreign
      BY DEF Line, Lines, Fields
    <3>2. root' = Append(root, line)
      BY <2>1
    <3> HIDE DEF line
    <3>3. /\ root' \in Seq(Lines) /\ DOMAIN root' = 1..(Len(root) + 1)
          /\ root'[Len(root) + 1] = line /\ \A i \in DOMAIN root : root'[i] = root[i]
      BY <1>1, <3>1, <3>2
    <3>4. ASSUME NEW i \in DOMAIN root', NEW k \in DOMAIN root',
                 root'[i].tag = root'[k].tag, root'[i].tag # Foreign
          PROVE  i = k
      <4>1. Len(root) \in Nat /\ DOMAIN root = 1..Len(root)
        BY <1>1
      <4>2. i \in DOMAIN root /\ k \in DOMAIN root
        BY <3>1, <3>3, <3>4, <4>1
      <4> QED BY <3>3, <3>4, <4>2 DEF CalendarInv, OncePerRequest
    <3> QED BY <1>1, <2>1, <3>3, <3>4 DEF OncePerRequest
  <2>2. ASSUME NEW x \in DOMAIN root, root' = RemoveAt(root, x), UNCHANGED include
        PROVE  root' \in Seq(Lines) /\ OncePerRequest'
    <3>1. x \in 1..Len(root) /\ Len(root) \in Nat /\ DOMAIN root = 1..Len(root)
      BY <1>1
    <3>2. root' = SubSeq(root, 1, x - 1) \o SubSeq(root, x + 1, Len(root))
      BY <2>2 DEF RemoveAt
    <3>3. /\ root' \in Seq(Lines) /\ Len(root') = Len(root) - 1
          /\ \A j \in 1..Len(root') : root'[j] = IF j < x THEN root[j] ELSE root[j + 1]
      BY <1>1, <3>1, <3>2, RemovalKeepsTheOthers
    <3>4. ASSUME NEW i \in DOMAIN root', NEW k \in DOMAIN root',
                 root'[i].tag = root'[k].tag, root'[i].tag # Foreign
          PROVE  i = k
      <4> DEFINE At(j) == IF j < x THEN j ELSE j + 1
      <4>1. i \in 1..(Len(root) - 1) /\ k \in 1..(Len(root) - 1)
        BY <3>1, <3>3
      <4>2. At(i) \in DOMAIN root /\ At(k) \in DOMAIN root /\ (At(i) = At(k) => i = k)
        BY <3>1, <4>1
      <4>3. root'[i] = root[At(i)] /\ root'[k] = root[At(k)]
        BY <3>1, <3>3, <4>1
      <4> HIDE DEF At
      <4> QED BY <3>4, <4>2, <4>3 DEF CalendarInv, OncePerRequest
    <3> QED BY <3>3, <3>4 DEF OncePerRequest
  <2>3. CASE include' = 3 - include /\ UNCHANGED root
    BY <1>1, <2>3 DEF CalendarInv, OncePerRequest
  <2>4. UNCHANGED include \/ include' = 3 - include
    BY DEF OthersWrite
  <2>5. include' \in 1..2
    BY <1>1, <2>4
  <2> QED BY <2>1, <2>2, <2>3, <2>5 DEF OthersWrite
<1>5. CalendarTypeOK'
    BY <1>2, <1>4 DEF CalendarInv, CalendarTypeOK
<1> QED BY <1>3, <1>4, <1>5 DEF CalendarInv, PostsAreInOrder

LEMMA CalendarStep == CalendarInv /\ [CalendarNext]_calendarVars => CalendarInv'
<1> SUFFICES ASSUME CalendarInv, [CalendarNext]_calendarVars PROVE CalendarInv'
    OBVIOUS
<1>1. CASE UNCHANGED calendarVars
  <2>1. PostsAreInOrder'
    BY <1>1, QuietPosts DEF calendarVars, EditorsKeepWhatWasShown, PostsStayOrEnd
  <2> QED BY <1>1, <2>1 DEF calendarVars, CalendarInv, CalendarTypeOK, OncePerRequest,
             PostsAreInOrder
<1>2. ASSUME NEW r \in Requests,
             \/ NewAppointment(r) \/ EditFields(r) \/ SaveAppointment(r)
             \/ SaveAnswered(r) \/ ConnectionBreaks(r) \/ CancelEditor(r)
      PROVE  CalendarInv'
    BY <1>2, ClientActs, SaveAppointmentKeeps, SaveAnsweredKeeps
<1>3. ASSUME NEW n \in 1..MaxCalls,
             Begins(n) \/ Replays(n) \/ EvaluationFails(n) \/ WritesFile(n) \/ LoadsAgain(n)
      PROVE  CalendarInv'
  <2>1. CASE Replays(n) \/ EvaluationFails(n) \/ LoadsAgain(n)
    <3>1. /\ \E result \in Results : AnsweredWith(n, result)
          /\ UNCHANGED <<root, include, editors, foreign>>
      BY <2>1 DEF Replays, EvaluationFails, LoadsAgain, Results
    <3> QED BY <3>1, AnswerKeeps
  <2> QED BY <1>3, <2>1, BeginsKeeps, WritesFileKeeps
<1> QED BY <1>1, <1>2, <1>3, RestartKeeps, OthersWriteKeeps DEF CalendarNext

(* The invariant of the calendar: a post in hand expects the files that    *)
(* its editor was shown, and while it is evaluated those have no line of   *)
(* its request.                                                            *)
THEOREM CalendarIsInOrder == CalendarSpec => []CalendarInv
<1> QED BY CalendarStarts, CalendarStep, PTL DEF CalendarSpec

(* An appointment is on file at most once, whatever answers are lost,      *)
(* however many of its posts are evaluated at the same time, and when the  *)
(* server restarts in between: the file is compared with what was shown    *)
(* before it is written.                                                   *)
THEOREM AppointmentsAreMadeOnce == CalendarSpec => [](CalendarTypeOK /\ OncePerRequest)
<1>1. CalendarInv => CalendarTypeOK /\ OncePerRequest
    BY DEF CalendarInv
<1> QED BY <1>1, CalendarIsInOrder, PTL

(* The service writes a calendar only by adding a line to exactly the      *)
(* files that the user of that editor was shown; nothing that another      *)
(* program wrote in the meantime is lost.                                  *)
THEOREM AppointmentsJoinWhatWasShown == CalendarSpec => JoinsWhatWasShown
<1> DEFINE Joins ==
        foreign' = foreign /\ root' # root =>
            \E r \in Requests, f \in Fields : /\ root' = Append(root, Line(r, f))
                                              /\ Snapshot = editors[r].shown
<1>1. ASSUME CalendarInv, [CalendarNext]_calendarVars PROVE [Joins]_calendarVars
  <2> SUFFICES ASSUME CalendarNext, foreign' = foreign, root' # root
               PROVE  \E r \in Requests, f \in Fields : /\ root' = Append(root, Line(r, f))
                                                        /\ Snapshot = editors[r].shown
    BY <1>1 DEF calendarVars
  <2>1. PICK n \in 1..MaxCalls : WritesFile(n)
    <3>1. ~OthersWrite
      BY <1>1 DEF OthersWrite, CalendarInv, CalendarTypeOK
    <3> QED BY <3>1 DEF CalendarNext, NewAppointment, EditFields, SaveAppointment, SaveAnswered,
                        ConnectionBreaks, CancelEditor, Begins, Replays, EvaluationFails,
                        LoadsAgain, ServerRestarts
  <2> DEFINE p == posts[n]
  <2>2. /\ p.stage = "evaluating" /\ Snapshot = p.expected
        /\ root' = Append(p.expected.root, Line(p.request, p.fields))
    BY <2>1 DEF WritesFile, Unchanged
  <2>3. p.expected.root = root
    BY <2>2 DEF Snapshot
  <2>4. p.request \in Requests /\ p.expected = editors[p.request].shown /\ p.fields \in Fields
    BY <1>1, <2>2
    DEF CalendarInv, CalendarTypeOK, SentByAnEditor, ExpectsWhatWasShown, InHand
  <2> QED BY <2>2, <2>3, <2>4
<1> QED BY <1>1, CalendarIsInOrder, PTL DEF CalendarSpec, JoinsWhatWasShown

-----------------------------------------------------------------------------
(* The three parts of the tab side by side keep what each of them keeps.   *)
LEMMA WorkspaceTabIsInOrder == WorkspaceTabSpec => [](TabInv /\ EditorInv /\ CalendarInv)
<1>1. WorkspaceTabInit => TabInv /\ EditorInv /\ CalendarInv
    BY TabStarts, EditorStarts, CalendarStarts DEF WorkspaceTabInit
<1>2. ASSUME TabInv, EditorInv, CalendarInv,
             [OnChatPage \/ InDocuments \/ InCalendar]_<<tabVars, editorVars, calendarVars, part>>
      PROVE  TabInv' /\ EditorInv' /\ CalendarInv'
  <2>1. [TabNext]_tabVars
      BY <1>2 DEF OnChatPage, InDocuments, InCalendar
  <2>2. [EditorNext]_editorVars
      BY <1>2 DEF OnChatPage, InDocuments, InCalendar
  <2>3. [CalendarNext]_calendarVars
      BY <1>2 DEF OnChatPage, InDocuments, InCalendar
  <2>4. TabInv'
      BY <1>2, <2>1, TabStep
  <2>5. EditorInv'
      BY <1>2, <2>2, EditorStep
  <2>6. CalendarInv'
      BY <1>2, <2>3, CalendarStep
  <2> QED BY <2>4, <2>5, <2>6
<1> QED BY <1>1, <1>2, PTL DEF WorkspaceTabSpec

(* The types of all three.                                                 *)
THEOREM WorkspaceTabTypesCorrect == WorkspaceTabSpec => []TypesOK
<1>1. TabInv /\ EditorInv /\ CalendarInv => TypesOK
    BY TabIsTyped, EditorTypesAreNamed DEF EditorInv, CalendarInv, TypesOK
<1> QED BY <1>1, WorkspaceTabIsInOrder, PTL
=============================================================================
