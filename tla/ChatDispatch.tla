----------------------------- MODULE ChatDispatch -----------------------------
(***************************************************************************)
(* Sending a message to Hermes through the workspace UI's chat service     *)
(* (packages/workspace-ui/src/server/chat.ts).                             *)
(*                                                                         *)
(* The service keeps two tables: the sessions it may write to and, for     *)
(* each idempotency key a browser tab has made up, the run that Hermes     *)
(* admitted for it.  A request handler is asynchronous: what it read       *)
(* before a call of Hermes may have changed when the answer arrives, so a  *)
(* step here runs from one await to the next.  Hermes is external: it      *)
(* admits a key at most once as long as it remembers it, ends its runs,    *)
(* expires their records, and gives a compacted conversation a new         *)
(* session id, the tip.                                                    *)
(*                                                                         *)
(* One conversation is modelled, its root session and its tip.  A run's    *)
(* status is active (queued, running, waiting_for_approval, stopping) or   *)
(* ended (completed, failed, cancelled, interrupted).  Messages, models,   *)
(* approvals' choices and the transcript are left out: the same key with   *)
(* another message is refused before anything happens.                     *)
(***************************************************************************)
EXTENDS Integers, Sequences, FiniteSets

CONSTANTS Keys,        \* idempotency keys
          Handlers,    \* request handlers of the service
          Root, Tip,   \* the session ids of the conversation
          KeySession,  \* the session each key's message is sent to
          MaxRuns,     \* bound: the runs Hermes admits
          MaxUpsets    \* bound: failed and refused calls, deletions, restarts,
                       \* compactions and retention times that pass

Sessions == {Root, Tip}

ASSUME ChatNames ==
    /\ Root # Tip
    /\ IsFiniteSet(Keys) /\ Keys # {}
    /\ KeySession \in [Keys -> Sessions]
    /\ MaxRuns \in Nat
    /\ MaxUpsets \in Nat

VARIABLES
    rows,      \* chat_requests: each key's row
    owned,     \* chat_sessions: the ids registered for the conversation
    handlers,  \* how far each handler is, and what it holds across its await
    runs,      \* Hermes' runs, in the order of admission
    window,    \* how long ago each key was sent: before retry_until, then remembered by Hermes
    compacted, \* Hermes has given the conversation its tip
    refused,   \* history: keys that have been answered with a definitive refusal
    deleted,   \* history: sessions that have been deleted
    late,      \* history: an answer has undone a settled status
    upsets     \* how many upsets there have been

chatVars == <<rows, owned, handlers, runs, window, compacted, refused, deleted, late, upsets>>

-----------------------------------------------------------------------------
NoRow == [status |-> "none", run |-> 0, id |-> 0]
Settled == {"ended", "rejected"}
Exists(k) == rows[k].status # "none"

Idle == [pc |-> "idle", key |-> CHOOSE k \in Keys : TRUE, run |-> 0, purpose |-> "none",
         old |-> FALSE, answer |-> "none", at |-> Root]

(* The rows of the conversation whose status does not let another one in.  *)
(* A row counts as long as its session is registered.                      *)
Unsettled == {k \in Keys : Exists(k) /\ rows[k].status \notin Settled /\ KeySession[k] \in owned}

(* The one of them inserted last.                                          *)
LatestUnsettled == {k \in Unsettled : \A other \in Unsettled : rows[other].id <= rows[k].id}

KeyOf(i) == runs[i].key
RunOf(k) == {i \in DOMAIN runs : KeyOf(i) = k}
Active(i) == runs[i].status = "active"

Sending(h) == handlers[h].pc \in {"capable", "posting"} \/ handlers[h].purpose = "reserve"

Become(h, record) == handlers' = [handlers EXCEPT ![h] = record]
Rest(h) == Become(h, Idle)

(* status(): refuses a run whose session is not owned, and keeps what the  *)
(* row says before it asks Hermes.                                         *)
MayAsk(i) == \E k \in Keys : rows[k].run = i /\ KeySession[k] \in owned
RecordedAs(i, statuses) == \E k \in Keys : rows[k].run = i /\ rows[k].status \in statuses
Asking(k, i, purpose) ==
    [Idle EXCEPT !.pc = "asking", !.key = k, !.run = i, !.purpose = purpose,
                 !.old = RecordedAs(i, Settled)]

(* The rows with Hermes' status of a run written to them.                  *)
Recorded(i, answer) ==
    [k \in Keys |-> IF rows[k].run = i THEN [rows[k] EXCEPT !.status = answer] ELSE rows[k]]

(* The row of the message itself conflicts with it.                        *)
ConflictsWithItself(table, registered, k) ==
    \E other \in Keys : /\ table[other].status \notin Settled \cup {"none"}
                        /\ KeySession[other] \in registered

(* Only runs that have begun conflict.                                     *)
ConflictsWithRuns(table, registered, k) ==
    \E other \in Keys \ {k} : /\ table[other].status = "active"
                              /\ KeySession[other] \in registered

Conflicts(table, registered, k) ==
    \E other \in Keys \ {k} : /\ table[other].status \notin Settled \cup {"none"}
                              /\ KeySession[other] \in registered

(* INSERT OR REPLACE.                                                      *)
Replaced(table, k) ==
    [table EXCEPT ![k] = [status |-> "dispatching", run |-> 0,
                          id |-> Cardinality({other \in Keys : Exists(other)}) + 1]]

(* INSERT OR IGNORE: a row that is there already stays as it is.           *)
Inserted(table, k) ==
    LET last == Cardinality({other \in Keys : Exists(other)})
    IN  IF table[k].status = "none"
        THEN [table EXCEPT ![k] = [status |-> "dispatching", run |-> 0, id |-> last + 1]]
        ELSE table

(* The transaction before the dispatch: any other unsettled row of the     *)
(* conversation refuses it.                                                *)
Reserve(h, k, table, registered) ==
    IF Conflicts(table, registered, k)
    THEN rows' = table /\ Rest(h)
    ELSE rows' = Inserted(table, k) /\ Become(h, [Idle EXCEPT !.pc = "posting", !.key = k])

-----------------------------------------------------------------------------
(* A key is taken however old it is.                                       *)
SendAnyTime(h, k) ==
    /\ handlers[h].pc = "idle"
    /\ KeySession[k] \in owned
    /\ IF rows[k].run # 0
       THEN MayAsk(rows[k].run) /\ Become(h, Asking(k, rows[k].run, "reply"))
       ELSE Become(h, [Idle EXCEPT !.pc = "capable", !.key = k, !.old = Exists(k)])
    /\ UNCHANGED <<rows, owned, runs, window, compacted, refused, deleted, late, upsets>>

(* POST /sessions/:id/run, up to its first await.  A key that is out of    *)
(* its retry window is refused.                                            *)
Send(h, k) ==
    /\ handlers[h].pc = "idle"
    /\ KeySession[k] \in owned
    /\ \/ /\ rows[k].run # 0
          /\ MayAsk(rows[k].run)
          /\ Become(h, Asking(k, rows[k].run, "reply"))
       \/ /\ rows[k].run = 0
          /\ Exists(k) => window[k] = "open"
          /\ Become(h, [Idle EXCEPT !.pc = "capable", !.key = k, !.old = Exists(k)])
    /\ UNCHANGED <<rows, owned, runs, window, compacted, refused, deleted, late, upsets>>

(* Hermes has said what it can do.  A new message first asks what became   *)
(* of the latest unsettled run; otherwise the row is reserved at once.     *)
SendCapable(h) ==
    LET k == handlers[h].key
        previous == {p \in LatestUnsettled : rows[p].run # 0}
    IN  /\ handlers[h].pc = "capable"
        /\ \/ /\ ~handlers[h].old /\ previous # {}
              /\ \E p \in previous : Become(h, Asking(k, rows[p].run, "reserve"))
              /\ UNCHANGED rows
           \/ /\ handlers[h].old \/ previous = {}
              /\ Reserve(h, k, rows, owned)
        /\ UNCHANGED <<owned, runs, window, compacted, refused, deleted, late, upsets>>

(* GET /sessions/:id/run, GET /runs/:id and POST /runs/:id/stop ask Hermes *)
(* first.                                                                  *)
Look(h, k, purpose) ==
    /\ handlers[h].pc = "idle"
    /\ rows[k].run # 0
    /\ MayAsk(rows[k].run)
    /\ Become(h, Asking(k, rows[k].run, purpose))
    /\ UNCHANGED <<rows, owned, runs, window, compacted, refused, deleted, late, upsets>>

(* Hermes answers a question about a run.                                  *)
HermesTells(h) ==
    /\ handlers[h].pc = "asking"
    /\ Become(h, [handlers[h] EXCEPT !.pc = "told", !.answer = runs[handlers[h].run].status,
                                     !.at = IF compacted THEN Tip ELSE Root])
    /\ UNCHANGED <<rows, owned, runs, window, compacted, refused, deleted, late, upsets>>

(* The answer is recorded and the session it names registered; a 404       *)
(* records nothing.  Then the request goes on.                             *)
StatusArrives(h) ==
    LET k == handlers[h].key
        i == handlers[h].run
        answer == handlers[h].answer
        known == answer # "forgotten"
        table == IF known THEN Recorded(i, answer) ELSE rows
        registered == IF known THEN owned \cup {handlers[h].at} ELSE owned
        ended == IF known THEN answer = "ended" ELSE handlers[h].old
        purpose == handlers[h].purpose
    IN  /\ handlers[h].pc = "told"
        /\ owned' = registered
        /\ late' = (late \/ (answer = "active" /\ RecordedAs(i, Settled)))
        /\ \/ /\ purpose = "reserve" /\ ended
              /\ Reserve(h, k, table, registered)
           \/ /\ purpose = "stop"
              /\ rows' = table
              /\ Become(h, [Idle EXCEPT !.pc = "stopping", !.run = i])
           \/ /\ purpose \in {"reply", "look"} \/ (purpose = "reserve" /\ ~ended)
              /\ rows' = table
              /\ Rest(h)
        /\ UNCHANGED <<runs, window, compacted, refused, deleted, upsets>>

-----------------------------------------------------------------------------
(* POST /v1/runs at Hermes: a key that it remembers gets the run it has.   *)
HermesAdmits(h) ==
    LET k == handlers[h].key
        new == window[k] = "forgotten" \/ RunOf(k) = {}
        i == IF new THEN Len(runs) + 1 ELSE CHOOSE j \in RunOf(k) : TRUE
    IN  /\ handlers[h].pc = "posting"
        /\ IF new THEN /\ Len(runs) < MaxRuns
                       /\ runs' = Append(runs, [key |-> k, status |-> "active"])
                  ELSE UNCHANGED runs
        /\ Become(h, [handlers[h] EXCEPT !.pc = "admitted", !.run = i,
                          !.answer = IF runs'[i].status = "active" THEN "active" ELSE "ended"])
        /\ UNCHANGED <<rows, owned, window, compacted, refused, deleted, late, upsets>>

(* The run and the status of Hermes' reply are written to the row.         *)
SendRecords(h) ==
    LET k == handlers[h].key
        answer == handlers[h].answer
    IN  /\ handlers[h].pc = "admitted"
        /\ rows' = [rows EXCEPT ![k].run = handlers[h].run, ![k].status = answer]
        /\ late' = (late \/ (answer = "active" /\ rows[k].status \in Settled))
        /\ Rest(h)
        /\ UNCHANGED <<owned, runs, window, compacted, refused, deleted, upsets>>

(* 400, 401, 403, 404, 409, 422 or 429: Hermes has not admitted this call. *)
HermesRefuses(h) ==
    /\ handlers[h].pc = "posting"
    /\ upsets < MaxUpsets
    /\ upsets' = upsets + 1
    /\ Become(h, [handlers[h] EXCEPT !.pc = "refused"])
    /\ refused' = refused \cup {handlers[h].key}
    /\ UNCHANGED <<rows, owned, runs, window, compacted, deleted, late>>

SendRejected(h) ==
    /\ handlers[h].pc = "refused"
    /\ rows' = [rows EXCEPT ![handlers[h].key].status = "rejected"]
    /\ Rest(h)
    /\ UNCHANGED <<owned, runs, window, compacted, refused, deleted, late, upsets>>

(* Any call may fail on the way to Hermes or back, or with a 5xx; nothing  *)
(* is recorded then.                                                       *)
CallFails(h) ==
    /\ handlers[h].pc \in {"capable", "asking", "posting", "admitted", "stopping", "deleting"}
    /\ upsets < MaxUpsets
    /\ upsets' = upsets + 1
    /\ Rest(h)
    /\ UNCHANGED <<rows, owned, runs, window, compacted, refused, deleted, late>>

(* The stop reaches Hermes, which ends the run.                            *)
HermesStops(h) ==
    /\ handlers[h].pc = "stopping"
    /\ runs' = [runs EXCEPT ![handlers[h].run].status = IF @ = "active" THEN "ended" ELSE @]
    /\ Rest(h)
    /\ UNCHANGED <<rows, owned, window, compacted, refused, deleted, late, upsets>>

(* DELETE /sessions/:id: Hermes first, and the row once it has answered.   *)
Delete(h, s) ==
    /\ handlers[h].pc = "idle"
    /\ s \in owned
    /\ upsets < MaxUpsets
    /\ upsets' = upsets + 1
    /\ Become(h, [Idle EXCEPT !.pc = "deleting", !.at = s])
    /\ UNCHANGED <<rows, owned, runs, window, compacted, refused, deleted, late>>

Deleted(h) ==
    /\ handlers[h].pc = "deleting"
    /\ owned' = owned \ {handlers[h].at}
    /\ deleted' = deleted \cup {handlers[h].at}
    /\ Rest(h)
    /\ UNCHANGED <<rows, runs, window, compacted, refused, late, upsets>>

(* GET /sessions and GET /sessions/:id: the tip of an owned root is        *)
(* registered with it.                                                     *)
List ==
    /\ compacted /\ Root \in owned
    /\ owned' = owned \cup {Tip}
    /\ UNCHANGED <<rows, handlers, runs, window, compacted, refused, deleted, late, upsets>>

-----------------------------------------------------------------------------
(* A run ends; Hermes drops its record some time later.                    *)
RunEnds(i) ==
    /\ runs[i].status = "active"
    /\ runs' = [runs EXCEPT ![i].status = "ended"]
    /\ UNCHANGED <<rows, owned, handlers, window, compacted, refused, deleted, late, upsets>>

RunExpires(i) ==
    /\ runs[i].status = "ended"
    /\ upsets < MaxUpsets
    /\ upsets' = upsets + 1
    /\ runs' = [runs EXCEPT ![i].status = "forgotten"]
    /\ UNCHANGED <<rows, owned, handlers, window, compacted, refused, deleted, late>>

Compact ==
    /\ ~compacted
    /\ \E i \in DOMAIN runs : Active(i)
    /\ upsets < MaxUpsets
    /\ upsets' = upsets + 1
    /\ compacted' = TRUE
    /\ UNCHANGED <<rows, owned, handlers, runs, window, refused, deleted, late>>

(* retry_until passes.                                                     *)
WindowCloses(k) ==
    /\ Exists(k) /\ window[k] = "open"
    /\ upsets < MaxUpsets
    /\ upsets' = upsets + 1
    /\ window' = [window EXCEPT ![k] = "closed"]
    /\ UNCHANGED <<rows, owned, handlers, runs, compacted, refused, deleted, late>>

(* Hermes forgets the key at least 60 seconds after retry_until: a send    *)
(* that has passed the check makes two calls of at most 20 seconds each,   *)
(* and three when it found no row.                                         *)
HermesForgets(k) ==
    /\ window[k] = "closed"
    /\ \A h \in Handlers : ~(Sending(h) /\ handlers[h].key = k)
    /\ window' = [window EXCEPT ![k] = "forgotten"]
    /\ UNCHANGED <<rows, owned, handlers, runs, compacted, refused, deleted, late, upsets>>

(* The service is killed and started again on its database.                *)
Restart ==
    /\ upsets < MaxUpsets
    /\ upsets' = upsets + 1
    /\ handlers' = [h \in Handlers |-> Idle]
    /\ UNCHANGED <<rows, owned, runs, window, compacted, refused, deleted, late>>

-----------------------------------------------------------------------------
ChatInit ==
    /\ rows = [k \in Keys |-> NoRow]
    /\ owned = {Root}
    /\ handlers = [h \in Handlers |-> Idle]
    /\ runs = <<>>
    /\ window = [k \in Keys |-> "open"]
    /\ compacted = FALSE
    /\ refused = {}
    /\ deleted = {}
    /\ late = FALSE
    /\ upsets = 0

Handling(h) ==
    \/ SendCapable(h) \/ HermesTells(h) \/ StatusArrives(h)
    \/ HermesAdmits(h) \/ SendRecords(h) \/ SendRejected(h)
    \/ HermesStops(h) \/ Deleted(h)

Asks(h) ==
    \/ \E k \in Keys : Send(h, k) \/ Look(h, k, "look") \/ Look(h, k, "stop")
    \/ \E s \in Sessions : Delete(h, s)

ChatNext ==
    \/ \E h \in Handlers : Handling(h) \/ Asks(h) \/ HermesRefuses(h) \/ CallFails(h)
    \/ \E i \in DOMAIN runs : RunEnds(i) \/ RunExpires(i)
    \/ \E k \in Keys : WindowCloses(k) \/ HermesForgets(k)
    \/ List \/ Compact \/ Restart

ChatSpec == ChatInit /\ [][ChatNext]_chatVars

(* Hermes answers or a call times out after 20 seconds; a tab whose        *)
(* message is not settled keeps sending it with the same key.              *)
FairChatSpec ==
    /\ ChatSpec
    /\ \A h \in Handlers : WF_chatVars(Handling(h))
    /\ \A k \in Keys : SF_chatVars(\E h \in Handlers : Exists(k) /\ rows[k].run = 0 /\ Send(h, k))

-----------------------------------------------------------------------------
ChatTypeOK ==
    /\ rows \in [Keys -> [status : {"none", "dispatching", "rejected", "active", "ended"},
                          run : 0..MaxRuns, id : 0..Cardinality(Keys)]]
    /\ owned \subseteq Sessions
    /\ handlers \in [Handlers ->
           [pc : {"idle", "capable", "asking", "told", "posting", "admitted", "refused",
                  "stopping", "deleting"},
            key : Keys, run : 0..MaxRuns, purpose : {"none", "reply", "reserve", "look", "stop"},
            old : BOOLEAN, answer : {"none", "active", "ended", "forgotten"}, at : Sessions]]
    /\ runs \in Seq([key : Keys, status : {"active", "ended", "forgotten"}])
    /\ Len(runs) <= MaxRuns
    /\ window \in [Keys -> {"open", "closed", "forgotten"}]
    /\ compacted \in BOOLEAN /\ late \in BOOLEAN
    /\ refused \subseteq Keys /\ deleted \subseteq Sessions
    /\ upsets \in 0..MaxUpsets

(* A message is answered by at most one run of Hermes, however often it is *)
(* sent again and whatever was lost, as long as the two retention times    *)
(* keep their distance.                                                    *)
OneRunPerKey == \A i, j \in DOMAIN runs : KeyOf(i) = KeyOf(j) => i = j

(* Two runs of a conversation are under way together only after one of its *)
(* messages has been refused or one of its sessions deleted.               *)
Spared(i) == KeyOf(i) \in refused \/ KeySession[KeyOf(i)] \in deleted
OverlapNeedsRefusal ==
    \A i, j \in DOMAIN runs : Active(i) /\ Active(j) /\ i # j => Spared(i) \/ Spared(j)

(* What chat.test.ts calls "prevents two tabs from dispatching overlapping *)
(* runs", whatever the tabs were answered before.                          *)
NoOverlappingRuns ==
    \A i, j \in DOMAIN runs :
        Active(i) /\ Active(j) /\ i # j =>
            \E n \in {i, j} : KeySession[KeyOf(n)] \in deleted

(* A message that a tab keeps sending gets its run, or is refused for      *)
(* good, unless its window closes, a session is deleted or a late answer   *)
(* has undone a settled status.                                            *)
EveryMessageSettles ==
    \A k \in Keys :
        rows[k].status = "dispatching" ~>
            \/ rows[k].run # 0 \/ k \in refused
            \/ window[k] # "open" \/ deleted # {} \/ late

(* The same without the last escape: a retry is answered.                  *)
EveryRetryIsAnswered ==
    \A k \in Keys :
        rows[k].status = "dispatching" ~>
            \/ rows[k].run # 0 \/ k \in refused
            \/ window[k] # "open" \/ deleted # {}
=============================================================================
