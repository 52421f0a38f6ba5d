-------------------------- MODULE ChatDispatchProofs --------------------------
(***************************************************************************)
(* A message gets at most one run of Hermes, and a conversation one run at *)
(* a time unless one of its messages has been refused, for any number of   *)
(* keys, handlers, runs and upsets: proofs about ChatDispatch.             *)
(***************************************************************************)
EXTENDS ChatDispatch, FiniteSetTheorems, TLAPS

Statuses == {"active", "ended", "forgotten"}
RunRecords == [key : Keys, status : Statuses]
Windows == {"open", "closed", "forgotten"}
HandlerRecords ==
    [pc : {"idle", "capable", "asking", "told", "posting", "admitted", "refused",
           "stopping", "deleting"},
     key : Keys, run : 0..MaxRuns, purpose : {"none", "reply", "reserve", "look", "stop"},
     old : BOOLEAN, answer : {"none", "active", "ended", "forgotten"}, at : Sessions]
RowRecords == [status : {"none", "dispatching", "rejected", "active", "ended"},
               run : 0..MaxRuns, id : 0..Cardinality(Keys)]

(* What a handler holds: who asks about a run names one that was admitted, *)
(* an answer is a status, and the key of a message that is being sent has  *)
(* not been forgotten by Hermes.                                           *)
RecordInv(r) ==
    /\ r.pc \in {"asking", "told", "admitted", "stopping"} => r.run \in DOMAIN runs
    /\ r.pc = "told" => r.answer \in Statuses
    /\ r.pc = "admitted" => r.answer \in {"active", "ended"}
    /\ r.pc \in {"capable", "posting"} \/ r.purpose = "reserve" => window[r.key] # "forgotten"

(* A row names an admitted run or none; the window of a key that has no    *)
(* row has not begun to close.                                             *)
RowInv(k) ==
    /\ rows[k].run # 0 => rows[k].run \in DOMAIN runs
    /\ ~Exists(k) => window[k] = "open"

ChatInv ==
    /\ ChatTypeOK
    /\ \A h \in Handlers : RecordInv(handlers[h])
    /\ \A k \in Keys : RowInv(k)
    /\ OneRunPerKey

-----------------------------------------------------------------------------
LEMMA Types ==
    ASSUME ChatTypeOK
    PROVE  /\ rows \in [Keys -> RowRecords] /\ handlers \in [Handlers -> HandlerRecords]
           /\ runs \in Seq(RunRecords) /\ Len(runs) \in 0..MaxRuns /\ DOMAIN runs = 1..Len(runs)
           /\ \A i \in DOMAIN runs : runs[i] \in RunRecords /\ i \in 0..MaxRuns
           /\ window \in [Keys -> Windows] /\ MaxRuns \in Nat /\ MaxUpsets \in Nat
           /\ upsets \in 0..MaxUpsets
<1>1. /\ rows \in [Keys -> RowRecords] /\ handlers \in [Handlers -> HandlerRecords]
      /\ runs \in Seq(RunRecords) /\ Len(runs) <= MaxRuns
      /\ window \in [Keys -> Windows] /\ MaxRuns \in Nat /\ MaxUpsets \in Nat
      /\ upsets \in 0..MaxUpsets
  BY ChatNames DEF ChatTypeOK, RowRecords, HandlerRecords, RunRecords, Windows, Statuses
<1> QED
  BY <1>1

LEMMA IdleType ==
    /\ Idle \in HandlerRecords /\ Idle.pc = "idle" /\ Idle.purpose = "none"
    /\ RecordInv(Idle)
<1>1. (CHOOSE k \in Keys : TRUE) \in Keys /\ 0 \in 0..MaxRuns /\ Root \in Sessions
  BY ChatNames DEF Sessions
<1> QED
  BY <1>1 DEF Idle, HandlerRecords, RecordInv

(* What a step has to show: the types, that runs and rows are kept, what   *)
(* becomes of the handlers, and that no key gets a second run.             *)
LEMMA StepKeeps ==
    ASSUME ChatInv, ChatTypeOK', DOMAIN runs \subseteq DOMAIN runs', window' = window,
           \A k \in Keys : Exists(k) => rows'[k].status # "none",
           \A k \in Keys : rows'[k].run \in {0, rows[k].run} \cup DOMAIN runs',
           \A h \in Handlers : handlers'[h] = handlers[h] \/ RecordInv(handlers[h])',
           OneRunPerKey'
    PROVE  ChatInv'
<1>1. \A h \in Handlers : RecordInv(handlers[h])'
  BY DEF ChatInv, RecordInv
<1>2. \A k \in Keys : RowInv(k)'
  BY DEF ChatInv, RowInv, Exists
<1> QED
  BY <1>1, <1>2 DEF ChatInv

LEMMA BecomeKeeps ==
    ASSUME ChatTypeOK, NEW h \in Handlers, NEW r \in HandlerRecords, Become(h, r)
    PROVE  /\ handlers' \in [Handlers -> HandlerRecords]
           /\ handlers'[h] = r
           /\ \A x \in Handlers : x # h => handlers'[x] = handlers[x]
BY Types DEF Become

(* A step in which only one handler goes on.                               *)
LEMMA HandlerStep ==
    ASSUME ChatInv, NEW h \in Handlers, NEW r \in HandlerRecords, Become(h, r), RecordInv(r),
           owned' \subseteq Sessions, refused' \subseteq Keys, deleted' \subseteq Sessions,
           late' \in BOOLEAN, upsets' \in 0..MaxUpsets,
           rows' \in [Keys -> RowRecords],
           \A k \in Keys : Exists(k) => rows'[k].status # "none",
           \A k \in Keys : rows'[k].run \in {0, rows[k].run} \cup DOMAIN runs,
           UNCHANGED <<runs, window, compacted>>
    PROVE  ChatInv'
<1>1. /\ handlers' \in [Handlers -> HandlerRecords]
      /\ handlers'[h] = r
      /\ \A x \in Handlers : x # h => handlers'[x] = handlers[x]
  BY BecomeKeeps DEF ChatInv
<1>2. ChatTypeOK'
  BY <1>1 DEF ChatInv, ChatTypeOK, RowRecords, HandlerRecords
<1>3. \A x \in Handlers : handlers'[x] = handlers[x] \/ RecordInv(handlers[x])'
  BY <1>1 DEF RecordInv
<1>4. OneRunPerKey'
  BY DEF ChatInv, OneRunPerKey, KeyOf
<1> QED
  BY <1>2, <1>3, <1>4, StepKeeps

-----------------------------------------------------------------------------
(* The tables.                                                             *)
LEMMA IdFits ==
    ASSUME NEW k \in Keys, ~Exists(k)
    PROVE  Cardinality({other \in Keys : Exists(other)}) + 1 \in 0..Cardinality(Keys)
<1> DEFINE S == {other \in Keys : Exists(other)}
<1>1. IsFiniteSet(Keys) /\ S \in SUBSET Keys /\ S \cup {k} \in SUBSET Keys /\ k \notin S
  BY ChatNames
<1>2. IsFiniteSet(S)
  BY <1>1, FS_Subset
<1>3. Cardinality(S \cup {k}) = Cardinality(S) + 1
  BY <1>1, <1>2, FS_AddElement
<1>4. Cardinality(S \cup {k}) <= Cardinality(Keys)
  BY <1>1, FS_Subset
<1>5. Cardinality(S) \in Nat /\ Cardinality(Keys) \in Nat
  BY <1>1, <1>2, FS_CardinalityType
<1> QED
  BY <1>3, <1>4, <1>5

(* A reservation inserts a row at most, and goes on only with a key that   *)
(* Hermes has not forgotten.                                               *)
LEMMA ReserveKeeps ==
    ASSUME ChatInv, NEW h \in Handlers, NEW k \in Keys, NEW registered,
           NEW table \in [Keys -> RowRecords],
           \A other \in Keys : Exists(other) => table[other].status # "none",
           \A other \in Keys : table[other].run = rows[other].run,
           window[k] # "forgotten",
           Reserve(h, k, table, registered),
           owned' \subseteq Sessions, late' \in BOOLEAN,
           UNCHANGED <<runs, window, compacted, refused, deleted, upsets>>
    PROVE  ChatInv'
<1>1. /\ ChatTypeOK /\ refused' \subseteq Keys /\ deleted' \subseteq Sessions
      /\ upsets' \in 0..MaxUpsets
  BY DEF ChatInv, ChatTypeOK
<1>2. CASE rows' = table /\ Rest(h)
  BY <1>1, <1>2, IdleType, HandlerStep DEF Rest
<1>3. CASE /\ rows' = Inserted(table, k)
           /\ Become(h, [Idle EXCEPT !.pc = "posting", !.key = k])
  <2> DEFINE r == [Idle EXCEPT !.pc = "posting", !.key = k]
             last == Cardinality({other \in Keys : Exists(other)})
             row == [status |-> "dispatching", run |-> 0, id |-> last + 1]
  <2>1. r \in HandlerRecords /\ RecordInv(r)
    <3>1. r \in HandlerRecords /\ r.pc = "posting" /\ r.key = k
      BY IdleType DEF HandlerRecords
    <3> QED
      BY <3>1 DEF RecordInv
  <2>2. rows' = IF table[k].status = "none" THEN [table EXCEPT ![k] = row] ELSE table
    BY <1>3 DEF Inserted
  <2>3. /\ rows' \in [Keys -> RowRecords]
        /\ \A other \in Keys : Exists(other) => rows'[other].status # "none"
        /\ \A other \in Keys : rows'[other].run \in {0, rows[other].run}
    <3>1. CASE table[k].status = "none"
      <4>1. row \in RowRecords /\ row.status = "dispatching" /\ row.run = 0
        BY <3>1, IdFits, ChatNames DEF RowRecords
      <4> HIDE DEF row
      <4> QED
        BY <2>2, <3>1, <4>1
    <3>2. CASE table[k].status # "none"
      BY <2>2, <3>2
    <3> QED
      BY <3>1, <3>2
  <2> HIDE DEF r
  <2> QED
    BY <1>1, <1>3, <2>1, <2>3, HandlerStep DEF r
<1> QED
  BY <1>2, <1>3 DEF Reserve

LEMMA RecordedRows ==
    ASSUME ChatInv, NEW i \in Nat, NEW answer \in {"active", "ended"}
    PROVE  /\ Recorded(i, answer) \in [Keys -> RowRecords]
           /\ \A k \in Keys : /\ Recorded(i, answer)[k].run = rows[k].run
                              /\ Exists(k) => Recorded(i, answer)[k].status # "none"
<1>1. rows \in [Keys -> RowRecords]
  BY Types DEF ChatInv
<1>2. ASSUME NEW k \in Keys
      PROVE  /\ Recorded(i, answer)[k] \in RowRecords
             /\ Recorded(i, answer)[k].run = rows[k].run
             /\ Exists(k) => Recorded(i, answer)[k].status # "none"
  <2> DEFINE row == [rows[k] EXCEPT !.status = answer]
  <2>1. rows[k] \in RowRecords
    BY <1>1
  <2>2. row \in RowRecords /\ row.run = rows[k].run /\ row.status = answer
    BY <2>1 DEF RowRecords
  <2>3. Recorded(i, answer)[k] = IF rows[k].run = i THEN row ELSE rows[k]
    BY DEF Recorded
  <2> HIDE DEF row
  <2> QED
    BY <2>1, <2>2, <2>3 DEF Exists
<1> QED
  BY <1>2 DEF Recorded

(* Whoever asks about a run asks about one that a row names.               *)
LEMMA AskingHolds ==
    ASSUME ChatInv, NEW k \in Keys, NEW i \in DOMAIN runs,
           NEW purpose \in {"reply", "reserve", "look", "stop"},
           purpose = "reserve" => window[k] # "forgotten"
    PROVE  Asking(k, i, purpose) \in HandlerRecords /\ RecordInv(Asking(k, i, purpose))
<1>1. i \in 0..MaxRuns /\ RecordedAs(i, Settled) \in BOOLEAN
  BY Types DEF ChatInv, RecordedAs
<1>2. /\ Asking(k, i, purpose) \in HandlerRecords
      /\ Asking(k, i, purpose).pc = "asking" /\ Asking(k, i, purpose).run = i
      /\ Asking(k, i, purpose).purpose = purpose /\ Asking(k, i, purpose).key = k
  BY <1>1, IdleType DEF Asking, HandlerRecords
<1> QED
  BY <1>2 DEF RecordInv

(* The facts about the types that every step starts from.                  *)
LEMMA Held ==
    ASSUME ChatInv
    PROVE  /\ ChatTypeOK /\ OneRunPerKey
           /\ owned \subseteq Sessions /\ refused \subseteq Keys /\ deleted \subseteq Sessions
           /\ late \in BOOLEAN /\ compacted \in BOOLEAN /\ upsets \in 0..MaxUpsets
           /\ MaxUpsets \in Nat /\ MaxRuns \in Nat
           /\ rows \in [Keys -> RowRecords]
           /\ \A h \in Handlers : handlers[h] \in HandlerRecords /\ RecordInv(handlers[h])
           /\ \A k \in Keys : RowInv(k) /\ rows[k] \in RowRecords
<1>1. ChatTypeOK
  BY DEF ChatInv
<1> QED
  BY <1>1, Types DEF ChatInv, ChatTypeOK

(* A step in which one handler goes on and the tables stay as they are.    *)
LEMMA OnlyHandler ==
    ASSUME ChatInv, NEW h \in Handlers, NEW r \in HandlerRecords, Become(h, r), RecordInv(r),
           owned' \subseteq Sessions, refused' \subseteq Keys, deleted' \subseteq Sessions,
           upsets' \in 0..MaxUpsets, UNCHANGED <<rows, runs, window, compacted, late>>
    PROVE  ChatInv'
BY Held, HandlerStep DEF Exists

-----------------------------------------------------------------------------
(* The steps of a handler.                                                 *)
LEMMA SendInv ==
    ASSUME ChatInv, NEW h \in Handlers, NEW k \in Keys, Send(h, k)
    PROVE  ChatInv'
<1>1. CASE rows[k].run # 0 /\ Become(h, Asking(k, rows[k].run, "reply"))
  <2>1. rows[k].run \in DOMAIN runs
    BY <1>1, Held DEF RowInv
  <2>2. /\ Asking(k, rows[k].run, "reply") \in HandlerRecords
        /\ RecordInv(Asking(k, rows[k].run, "reply"))
    BY <2>1, AskingHolds
  <2> QED
    BY <1>1, <2>2, Held, OnlyHandler DEF Send
<1>2. CASE /\ Exists(k) => window[k] = "open"
           /\ Become(h, [Idle EXCEPT !.pc = "capable", !.key = k, !.old = Exists(k)])
  <2> DEFINE r == [Idle EXCEPT !.pc = "capable", !.key = k, !.old = Exists(k)]
  <2>1. r \in HandlerRecords /\ r.pc = "capable" /\ r.key = k /\ r.purpose = "none"
    BY IdleType DEF HandlerRecords, Exists
  <2>2. window[k] = "open"
    BY <1>2, Held DEF RowInv
  <2>3. Become(h, r)
    BY <1>2
  <2> HIDE DEF r
  <2>4. RecordInv(r)
    BY <2>1, <2>2 DEF RecordInv
  <2> QED
    BY <2>1, <2>3, <2>4, Held, OnlyHandler DEF Send
<1> QED
  BY <1>1, <1>2 DEF Send

LEMMA SendCapableInv ==
    ASSUME ChatInv, NEW h \in Handlers, SendCapable(h)
    PROVE  ChatInv'
<1> DEFINE k == handlers[h].key
<1>1. k \in Keys /\ window[k] # "forgotten"
  BY Held DEF SendCapable, HandlerRecords, RecordInv
<1>2. ASSUME NEW p \in Keys, rows[p].run # 0, Become(h, Asking(k, rows[p].run, "reserve")),
             UNCHANGED rows
      PROVE  ChatInv'
  <2>1. rows[p].run \in DOMAIN runs
    BY <1>2, Held DEF RowInv
  <2>2. /\ Asking(k, rows[p].run, "reserve") \in HandlerRecords
        /\ RecordInv(Asking(k, rows[p].run, "reserve"))
    BY <1>1, <2>1, AskingHolds
  <2> QED
    BY <1>2, <2>2, Held, OnlyHandler DEF SendCapable
<1>3. CASE Reserve(h, k, rows, owned)
  BY <1>1, <1>3, Held, ReserveKeeps DEF SendCapable, Exists
<1> QED
  BY <1>2, <1>3 DEF SendCapable, LatestUnsettled, Unsettled

LEMMA LookInv ==
    ASSUME ChatInv, NEW h \in Handlers, NEW k \in Keys, NEW purpose \in {"look", "stop"},
           Look(h, k, purpose)
    PROVE  ChatInv'
<1>1. rows[k].run \in DOMAIN runs
  BY Held DEF Look, RowInv
<1>2. /\ Asking(k, rows[k].run, purpose) \in HandlerRecords
      /\ RecordInv(Asking(k, rows[k].run, purpose))
  BY <1>1, AskingHolds
<1> QED
  BY <1>2, Held, OnlyHandler DEF Look

LEMMA HermesTellsInv ==
    ASSUME ChatInv, NEW h \in Handlers, HermesTells(h)
    PROVE  ChatInv'
<1> DEFINE status == runs[handlers[h].run].status
           where == IF compacted THEN Tip ELSE Root
           r == [handlers[h] EXCEPT !.pc = "told", !.answer = status, !.at = where]
<1>1. handlers[h].pc = "asking" /\ handlers[h].run \in DOMAIN runs
  BY Held DEF HermesTells, RecordInv
<1>2. status \in Statuses /\ where \in Sessions
  BY <1>1, Types, Held DEF RunRecords, Sessions
<1>3. Become(h, r)
  BY DEF HermesTells
<1> HIDE DEF status, where
<1>4. r \in HandlerRecords /\ r.pc = "told" /\ r.answer = status
      /\ r.run = handlers[h].run /\ r.purpose = handlers[h].purpose /\ r.key = handlers[h].key
  BY <1>2, Held DEF HandlerRecords, Statuses
<1> HIDE DEF r
<1>5. RecordInv(r)
  BY <1>1, <1>2, <1>4, Held DEF RecordInv
<1> QED
  BY <1>3, <1>4, <1>5, Held, OnlyHandler DEF HermesTells

LEMMA StatusArrivesInv ==
    ASSUME ChatInv, NEW h \in Handlers, StatusArrives(h)
    PROVE  ChatInv'
<1> DEFINE k == handlers[h].key
           i == handlers[h].run
           answer == handlers[h].answer
           known == answer # "forgotten"
           table == IF known THEN Recorded(i, answer) ELSE rows
           registered == IF known THEN owned \cup {handlers[h].at} ELSE owned
           purpose == handlers[h].purpose
<1>1. /\ k \in Keys /\ i \in DOMAIN runs /\ answer \in Statuses /\ handlers[h].at \in Sessions
      /\ purpose = "reserve" => window[k] # "forgotten"
  BY Held DEF StatusArrives, HandlerRecords, RecordInv
<1>2. /\ table \in [Keys -> RowRecords]
      /\ \A other \in Keys : table[other].run = rows[other].run
      /\ \A other \in Keys : Exists(other) => table[other].status # "none"
  <2>1. CASE known
    BY <1>1, <2>1, Types, Held, RecordedRows DEF Statuses
  <2>2. CASE ~known
    BY <2>2, Held DEF Exists
  <2> QED
    BY <2>1, <2>2
<1>3. registered \subseteq Sessions /\ owned' = registered
  BY <1>1, Held DEF StatusArrives
<1>4. late' \in BOOLEAN
  BY Held DEF StatusArrives, RecordedAs
<1>5. UNCHANGED <<runs, window, compacted, refused, deleted, upsets>>
  BY DEF StatusArrives
<1>6. CASE purpose = "reserve" /\ Reserve(h, k, table, registered)
  <2> HIDE DEF table, registered, k, purpose
  <2> QED
    BY <1>1, <1>2, <1>3, <1>4, <1>5, <1>6, ReserveKeeps
<1>7. ASSUME NEW r \in HandlerRecords, RecordInv(r), rows' = table, Become(h, r)
      PROVE  ChatInv'
  <2> HIDE DEF table, registered
  <2> QED
    BY <1>2, <1>3, <1>4, <1>5, <1>7, Held, HandlerStep
<1>8. CASE rows' = table /\ Become(h, [Idle EXCEPT !.pc = "stopping", !.run = i])
  <2> DEFINE r == [Idle EXCEPT !.pc = "stopping", !.run = i]
  <2>1. r \in HandlerRecords /\ r.pc = "stopping" /\ r.run = i /\ r.purpose = "none"
    BY <1>1, Types, Held, IdleType DEF HandlerRecords
  <2>2. Become(h, r) /\ rows' = table
    BY <1>8
  <2> HIDE DEF r, table
  <2>3. RecordInv(r)
    BY <1>1, <2>1 DEF RecordInv
  <2> QED
    BY <1>7, <2>1, <2>2, <2>3
<1>9. CASE rows' = table /\ Rest(h)
  BY <1>7, <1>9, IdleType DEF Rest
<1> QED
  BY <1>6, <1>8, <1>9 DEF StatusArrives

LEMMA SendRecordsInv ==
    ASSUME ChatInv, NEW h \in Handlers, SendRecords(h)
    PROVE  ChatInv'
<1> DEFINE k == handlers[h].key
           row == [rows[k] EXCEPT !.run = handlers[h].run, !.status = handlers[h].answer]
<1>1. /\ k \in Keys /\ handlers[h].run \in DOMAIN runs /\ handlers[h].run \in 0..MaxRuns
      /\ handlers[h].answer \in {"active", "ended"}
  BY Held DEF SendRecords, HandlerRecords, RecordInv
<1>2. rows' = [rows EXCEPT ![k] = row]
  BY <1>1, Held DEF SendRecords, RowRecords
<1>3. row \in RowRecords /\ row.status # "none" /\ row.run \in DOMAIN runs
  BY <1>1, Held DEF RowRecords
<1> HIDE DEF row, k
<1>4. /\ rows' \in [Keys -> RowRecords]
      /\ \A other \in Keys : Exists(other) => rows'[other].status # "none"
      /\ \A other \in Keys : rows'[other].run \in {0, rows[other].run} \cup DOMAIN runs
  BY <1>2, <1>3, Held DEF Exists
<1>5. late' \in BOOLEAN
  BY Held DEF SendRecords
<1> QED
  BY <1>4, <1>5, Held, IdleType, HandlerStep DEF SendRecords, Rest

LEMMA SendRejectedInv ==
    ASSUME ChatInv, NEW h \in Handlers, SendRejected(h)
    PROVE  ChatInv'
<1> DEFINE k == handlers[h].key
           row == [rows[k] EXCEPT !.status = "rejected"]
<1>1. k \in Keys
  BY Held DEF HandlerRecords
<1>2. rows' = [rows EXCEPT ![k] = row]
  BY <1>1, Held DEF SendRejected
<1>3. row \in RowRecords /\ row.status # "none" /\ row.run = rows[k].run
  BY <1>1, Held DEF RowRecords
<1> HIDE DEF row, k
<1>4. /\ rows' \in [Keys -> RowRecords]
      /\ \A other \in Keys : Exists(other) => rows'[other].status # "none"
      /\ \A other \in Keys : rows'[other].run \in {0, rows[other].run} \cup DOMAIN runs
  BY <1>2, <1>3, Held DEF Exists
<1> QED
  BY <1>4, Held, IdleType, HandlerStep DEF SendRejected, Rest

LEMMA CallEndsInv ==
    ASSUME ChatInv, NEW h \in Handlers, HermesRefuses(h) \/ CallFails(h) \/ Deleted(h)
    PROVE  ChatInv'
<1>1. CASE HermesRefuses(h)
  <2> DEFINE r == [handlers[h] EXCEPT !.pc = "refused"]
  <2>1. /\ r \in HandlerRecords /\ r.pc = "refused"
        /\ r.purpose = handlers[h].purpose /\ r.key = handlers[h].key
    BY Held DEF HandlerRecords
  <2>2. Become(h, r) /\ handlers[h].key \in Keys
    BY <1>1, Held DEF HermesRefuses, HandlerRecords
  <2> HIDE DEF r
  <2>3. RecordInv(r)
    BY <2>1, Held DEF RecordInv
  <2>4. upsets' \in 0..MaxUpsets /\ refused' \subseteq Keys
    BY <1>1, <2>2, Held DEF HermesRefuses
  <2> QED
    BY <1>1, <2>1, <2>2, <2>3, <2>4, Held, OnlyHandler DEF HermesRefuses
<1>2. CASE CallFails(h)
  <2>1. upsets' \in 0..MaxUpsets
    BY <1>2, Held DEF CallFails
  <2> QED
    BY <1>2, <2>1, Held, IdleType, OnlyHandler DEF CallFails, Rest
<1>3. CASE Deleted(h)
  <2>1. handlers[h].at \in Sessions
    BY Held DEF HandlerRecords
  <2> QED
    BY <1>3, <2>1, Held, IdleType, OnlyHandler DEF Deleted, Rest
<1> QED
  BY <1>1, <1>2, <1>3

LEMMA DeleteInv ==
    ASSUME ChatInv, NEW h \in Handlers, NEW s \in Sessions, Delete(h, s)
    PROVE  ChatInv'
<1> DEFINE r == [Idle EXCEPT !.pc = "deleting", !.at = s]
<1>1. r \in HandlerRecords /\ r.pc = "deleting" /\ r.purpose = "none"
  BY IdleType DEF HandlerRecords
<1>2. Become(h, r) /\ upsets' \in 0..MaxUpsets
  BY Held DEF Delete
<1> HIDE DEF r
<1>3. RecordInv(r)
  BY <1>1 DEF RecordInv
<1> QED
  BY <1>1, <1>2, <1>3, Held, OnlyHandler DEF Delete

-----------------------------------------------------------------------------
(* The steps of Hermes.                                                    *)

(* A run gets another status.                                              *)
LEMMA RunChanges ==
    ASSUME ChatInv, NEW i \in DOMAIN runs, NEW status \in Statuses,
           runs' = [runs EXCEPT ![i] = [runs[i] EXCEPT !.status = status]]
    PROVE  /\ runs' \in Seq(RunRecords) /\ Len(runs') = Len(runs)
           /\ DOMAIN runs' = DOMAIN runs /\ OneRunPerKey'
<1> DEFINE run == [runs[i] EXCEPT !.status = status]
<1>1. /\ runs \in Seq(RunRecords) /\ DOMAIN runs = 1..Len(runs)
      /\ \A j \in DOMAIN runs : runs[j] \in RunRecords
  BY Held, Types
<1>2. run \in RunRecords /\ run.key = runs[i].key
  BY <1>1 DEF RunRecords
<1>3. runs' = [runs EXCEPT ![i] = run]
  OBVIOUS
<1> HIDE DEF run
<1>4. runs' \in Seq(RunRecords) /\ Len(runs') = Len(runs) /\ DOMAIN runs' = DOMAIN runs
  BY <1>1, <1>2, <1>3
<1>5. \A j \in DOMAIN runs : runs'[j].key = runs[j].key
  BY <1>1, <1>2, <1>3
<1> QED
  BY <1>4, <1>5, Held DEF OneRunPerKey, KeyOf

(* A step that keeps the rows and the windows.                             *)
LEMMA RunsStep ==
    ASSUME ChatInv, runs' \in Seq(RunRecords), Len(runs') <= MaxRuns,
           DOMAIN runs \subseteq DOMAIN runs', OneRunPerKey',
           handlers' \in [Handlers -> HandlerRecords],
           \A h \in Handlers : handlers'[h] = handlers[h] \/ RecordInv(handlers[h])',
           owned' \subseteq Sessions, compacted' \in BOOLEAN, upsets' \in 0..MaxUpsets,
           UNCHANGED <<rows, window, refused, deleted, late>>
    PROVE  ChatInv'
<1>1. ChatTypeOK'
  BY Held DEF ChatTypeOK, RunRecords, HandlerRecords, Statuses
<1> QED
  BY <1>1, StepKeeps, Held DEF Exists

LEMMA AdmittedRun ==
    ASSUME ChatInv, NEW k \in Keys, RunOf(k) = {}, Len(runs) < MaxRuns,
           runs' = Append(runs, [key |-> k, status |-> "active"])
    PROVE  /\ runs' \in Seq(RunRecords) /\ Len(runs') <= MaxRuns
           /\ DOMAIN runs \subseteq DOMAIN runs' /\ Len(runs) + 1 \in DOMAIN runs'
           /\ runs'[Len(runs) + 1].status = "active"
           /\ OneRunPerKey'
<1> DEFINE run == [key |-> k, status |-> "active"]
<1>1. run \in RunRecords /\ run.key = k /\ run.status = "active"
  BY DEF RunRecords, Statuses
<1>2. runs' = Append(runs, run)
  OBVIOUS
<1> HIDE DEF run
<1>3. /\ runs \in Seq(RunRecords) /\ Len(runs) \in Nat /\ DOMAIN runs = 1..Len(runs)
      /\ MaxRuns \in Nat
  BY Held, Types
<1>4. /\ runs' \in Seq(RunRecords) /\ Len(runs') = Len(runs) + 1
      /\ DOMAIN runs' = 1..(Len(runs) + 1) /\ runs'[Len(runs) + 1] = run
      /\ \A i \in DOMAIN runs : runs'[i] = runs[i]
  BY <1>1, <1>2, <1>3
<1>5. \A i \in DOMAIN runs : runs[i].key # k
  BY DEF RunOf, KeyOf
<1>6. OneRunPerKey'
  BY <1>1, <1>3, <1>4, <1>5, Held DEF OneRunPerKey, KeyOf
<1> QED
  BY <1>1, <1>3, <1>4, <1>6

LEMMA HermesAdmitsInv ==
    ASSUME ChatInv, NEW h \in Handlers, HermesAdmits(h)
    PROVE  ChatInv'
<1> DEFINE k == handlers[h].key
           i == IF RunOf(k) = {} THEN Len(runs) + 1 ELSE CHOOSE j \in RunOf(k) : TRUE
           answer == IF runs'[i].status = "active" THEN "active" ELSE "ended"
           r == [handlers[h] EXCEPT !.pc = "admitted", !.run = i, !.answer = answer]
<1>1. k \in Keys /\ window[k] # "forgotten"
  BY Held DEF HermesAdmits, HandlerRecords, RecordInv
<1>2. /\ IF RunOf(k) = {}
         THEN Len(runs) < MaxRuns /\ runs' = Append(runs, [key |-> k, status |-> "active"])
         ELSE UNCHANGED runs
      /\ Become(h, r)
      /\ UNCHANGED <<rows, owned, window, compacted, refused, deleted, late, upsets>>
  BY <1>1 DEF HermesAdmits
<1>3. /\ runs' \in Seq(RunRecords) /\ Len(runs') <= MaxRuns
      /\ DOMAIN runs \subseteq DOMAIN runs' /\ i \in DOMAIN runs' /\ OneRunPerKey'
  <2>1. CASE RunOf(k) = {}
    <3> HIDE DEF k
    <3> QED
      BY <1>1, <1>2, <2>1, AdmittedRun
  <2>2. CASE RunOf(k) # {}
    <3>1. i \in RunOf(k)
      BY <2>2
    <3>2. i \in DOMAIN runs
      BY <3>1 DEF RunOf
    <3>3. runs' = runs
      BY <1>2, <2>2
    <3> HIDE DEF i
    <3> QED
      BY <3>2, <3>3, Types, Held DEF OneRunPerKey, KeyOf
  <2> QED
    BY <2>1, <2>2
<1>4. i \in 0..MaxRuns
  <2> HIDE DEF i
  <2> QED
    BY <1>3, Held
<1> HIDE DEF i
<1>5. answer \in {"active", "ended"}
  OBVIOUS
<1> HIDE DEF answer
<1>6. /\ r \in HandlerRecords /\ r.pc = "admitted" /\ r.run = i /\ r.answer = answer
      /\ r.key = k
  BY <1>4, <1>5, Held DEF HandlerRecords
<1> HIDE DEF r
<1>7. /\ handlers' \in [Handlers -> HandlerRecords] /\ handlers'[h] = r
      /\ \A x \in Handlers : x # h => handlers'[x] = handlers[x]
  BY <1>2, <1>6, Held, BecomeKeeps
<1>8. RecordInv(handlers[h])'
  BY <1>1, <1>2, <1>3, <1>5, <1>6, <1>7 DEF RecordInv
<1>9. \A x \in Handlers : handlers'[x] = handlers[x] \/ RecordInv(handlers[x])'
  <2> TAKE x \in Handlers
  <2>1. CASE x = h
    BY <1>8, <2>1
  <2>2. CASE x # h
    BY <1>7, <2>2
  <2> QED
    BY <2>1, <2>2
<1> QED
  BY <1>2, <1>3, <1>7, <1>9, Held, RunsStep

LEMMA HermesStopsInv ==
    ASSUME ChatInv, NEW h \in Handlers, HermesStops(h)
    PROVE  ChatInv'
<1> DEFINE i == handlers[h].run
           status == IF runs[i].status = "active" THEN "ended" ELSE runs[i].status
<1>1. i \in DOMAIN runs
  BY Held DEF HermesStops, RecordInv
<1>2. runs[i] \in RunRecords
  BY <1>1, Held, Types
<1>3. status \in Statuses
  BY <1>2 DEF RunRecords, Statuses
<1>4. runs' = [runs EXCEPT ![i] = [runs[i] EXCEPT !.status = status]]
  BY DEF HermesStops
<1> HIDE DEF status, i
<1>5. /\ runs' \in Seq(RunRecords) /\ Len(runs') = Len(runs)
      /\ DOMAIN runs' = DOMAIN runs /\ OneRunPerKey'
  BY <1>1, <1>3, <1>4, RunChanges
<1>6. /\ handlers' \in [Handlers -> HandlerRecords] /\ handlers'[h] = Idle
      /\ \A x \in Handlers : x # h => handlers'[x] = handlers[x]
  BY Held, IdleType, BecomeKeeps DEF HermesStops, Rest
<1>7. \A x \in Handlers : handlers'[x] = handlers[x] \/ RecordInv(handlers[x])'
  BY <1>6, IdleType DEF RecordInv
<1>8. Len(runs') <= MaxRuns
  BY <1>5, Held, Types
<1> QED
  BY <1>5, <1>6, <1>7, <1>8, Held, RunsStep DEF HermesStops

LEMMA RunInv ==
    ASSUME ChatInv, NEW i \in DOMAIN runs, RunEnds(i) \/ RunExpires(i)
    PROVE  ChatInv'
<1>1. PICK status \in Statuses :
        /\ runs' = [runs EXCEPT ![i] = [runs[i] EXCEPT !.status = status]]
        /\ upsets' \in 0..MaxUpsets
        /\ UNCHANGED <<rows, owned, handlers, window, compacted, refused, deleted, late>>
  BY Held DEF RunEnds, RunExpires, Statuses
<1>2. /\ runs' \in Seq(RunRecords) /\ Len(runs') = Len(runs)
      /\ DOMAIN runs' = DOMAIN runs /\ OneRunPerKey'
  BY <1>1, RunChanges
<1>3. Len(runs') <= MaxRuns /\ handlers' \in [Handlers -> HandlerRecords]
  BY <1>1, <1>2, Held, Types
<1> QED
  BY <1>1, <1>2, <1>3, Held, RunsStep

LEMMA QuietInv ==
    ASSUME ChatInv, List \/ Compact \/ Restart
    PROVE  ChatInv'
<1>1. /\ UNCHANGED <<rows, runs, window, refused, deleted, late>>
      /\ owned' \subseteq Sessions /\ compacted' \in BOOLEAN /\ upsets' \in 0..MaxUpsets
  <2>1. CASE List
    BY <2>1, Held DEF List, Sessions
  <2>2. CASE Compact
    BY <2>2, Held DEF Compact
  <2>3. CASE Restart
    BY <2>3, Held DEF Restart
  <2> QED
    BY <2>1, <2>2, <2>3
<1>2. /\ runs' \in Seq(RunRecords) /\ Len(runs') <= MaxRuns /\ DOMAIN runs \subseteq DOMAIN runs'
      /\ OneRunPerKey'
  BY <1>1, Held, Types DEF OneRunPerKey, KeyOf
<1>3. /\ handlers' \in [Handlers -> HandlerRecords]
      /\ \A h \in Handlers : handlers'[h] = handlers[h] \/ RecordInv(handlers[h])'
  <2>1. CASE UNCHANGED handlers
    BY <2>1, Held, Types
  <2>2. CASE handlers' = [h \in Handlers |-> Idle]
    BY <1>1, <2>2, IdleType DEF RecordInv
  <2> QED
    BY <2>1, <2>2 DEF List, Compact, Restart
<1> QED
  BY <1>1, <1>2, <1>3, RunsStep

(* The window of a key is closed before Hermes forgets it, and it forgets  *)
(* no key that is still being sent.                                        *)
LEMMA WindowInv ==
    ASSUME ChatInv, NEW k \in Keys, WindowCloses(k) \/ HermesForgets(k)
    PROVE  ChatInv'
<1>1. /\ UNCHANGED <<rows, owned, handlers, runs, compacted, refused, deleted, late>>
      /\ upsets' \in 0..MaxUpsets /\ Exists(k)
  BY Held DEF WindowCloses, HermesForgets, RowInv
<1>2. window \in [Keys -> Windows]
  BY Held, Types
<1>3. PICK phase \in {"closed", "forgotten"} :
        /\ window' = [window EXCEPT ![k] = phase]
        /\ phase = "forgotten" => \A h \in Handlers : ~(Sending(h) /\ handlers[h].key = k)
  BY DEF WindowCloses, HermesForgets
<1>4. ChatTypeOK'
  BY <1>1, <1>2, <1>3, Held DEF ChatTypeOK, Windows
<1>5. \A h \in Handlers : RecordInv(handlers[h])'
  BY <1>1, <1>2, <1>3, Held DEF RecordInv, Sending, HandlerRecords
<1>6. \A other \in Keys : RowInv(other)'
  BY <1>1, <1>2, <1>3, Held DEF RowInv, Exists
<1>7. OneRunPerKey'
  BY <1>1, Held DEF OneRunPerKey, KeyOf
<1> QED
  BY <1>4, <1>5, <1>6, <1>7 DEF ChatInv

-----------------------------------------------------------------------------
LEMMA ChatStarts == ChatInit => ChatInv
<1> SUFFICES ASSUME ChatInit
             PROVE  ChatInv
  OBVIOUS
<1>1. NoRow \in RowRecords /\ NoRow.run = 0 /\ NoRow.status = "none"
  <2>1. Cardinality(Keys) \in Nat
    BY ChatNames, FS_CardinalityType
  <2> QED
    BY <2>1, ChatNames DEF NoRow, RowRecords
<1>2. runs \in Seq(RunRecords) /\ Len(runs) = 0 /\ DOMAIN runs = {}
  BY DEF ChatInit
<1>3. /\ rows \in [Keys -> RowRecords] /\ handlers \in [Handlers -> HandlerRecords]
      /\ \A k \in Keys : rows[k] = NoRow
  BY <1>1, IdleType DEF ChatInit
<1>4. owned \subseteq Sessions /\ window \in [Keys -> Windows] /\ upsets \in 0..MaxUpsets
  BY ChatNames DEF ChatInit, Sessions, Windows
<1>5. ChatTypeOK
  <2>1. compacted \in BOOLEAN /\ late \in BOOLEAN
    BY Zenon DEF ChatInit
  <2>2. Len(runs) <= MaxRuns /\ refused \subseteq Keys /\ deleted \subseteq Sessions
    BY <1>2, ChatNames DEF ChatInit
  <2> QED
    BY <1>2, <1>3, <1>4, <2>1, <2>2
       DEF ChatTypeOK, RowRecords, HandlerRecords, RunRecords, Statuses, Windows
<1>6. \A h \in Handlers : RecordInv(handlers[h])
  BY IdleType DEF ChatInit
<1>7. \A k \in Keys : RowInv(k)
  BY <1>1, <1>3 DEF ChatInit, RowInv, Exists
<1> QED
  BY <1>2, <1>5, <1>6, <1>7 DEF ChatInv, OneRunPerKey

LEMMA ChatSteps == ChatInv /\ [ChatNext]_chatVars => ChatInv'
<1> SUFFICES ASSUME ChatInv, [ChatNext]_chatVars
             PROVE  ChatInv'
  OBVIOUS
<1>1. ASSUME NEW h \in Handlers, Handling(h)
      PROVE  ChatInv'
  BY <1>1, SendCapableInv, HermesTellsInv, StatusArrivesInv, HermesAdmitsInv, SendRecordsInv,
     SendRejectedInv, HermesStopsInv, CallEndsInv DEF Handling
<1>2. ASSUME NEW h \in Handlers, Asks(h)
      PROVE  ChatInv'
  BY <1>2, SendInv, LookInv, DeleteInv DEF Asks
<1>3. ASSUME NEW h \in Handlers, HermesRefuses(h) \/ CallFails(h)
      PROVE  ChatInv'
  BY <1>3, CallEndsInv
<1>4. ASSUME NEW i \in DOMAIN runs, RunEnds(i) \/ RunExpires(i)
      PROVE  ChatInv'
  BY <1>4, RunInv
<1>5. ASSUME NEW k \in Keys, WindowCloses(k) \/ HermesForgets(k)
      PROVE  ChatInv'
  BY <1>5, WindowInv
<1>6. CASE List \/ Compact \/ Restart
  BY <1>6, QuietInv
<1>7. CASE UNCHANGED chatVars
  <2>1. /\ UNCHANGED <<rows, runs, window, handlers, refused, deleted, late>>
        /\ UNCHANGED <<owned, compacted, upsets>>
    BY <1>7 DEF chatVars
  <2> QED
    BY <2>1, Held, Types, RunsStep DEF OneRunPerKey, KeyOf
<1> QED
  BY <1>1, <1>2, <1>3, <1>4, <1>5, <1>6, <1>7 DEF ChatNext

(* What the chat service keeps across its awaits, for any number of keys,  *)
(* handlers, runs and upsets.                                              *)
THEOREM ChatInvariantHolds == ChatSpec => []ChatInv
<1> QED
  BY ChatStarts, ChatSteps, PTL DEF ChatSpec

(* Rows, runs and handlers keep their forms, the identifiers of rows are   *)
(* never more than the keys, and Hermes' runs never exceed their bound     *)
(* (POST /sessions/:id/run and its neighbours in chat.ts).                 *)
THEOREM ChatTypeCorrect == ChatSpec => []ChatTypeOK
<1>1. ChatInv => ChatTypeOK
  BY DEF ChatInv
<1> QED
  BY <1>1, ChatInvariantHolds, PTL

(* However often a message is sent again under its key, and whatever calls *)
(* fail, windows close, runs expire or services restart, Hermes runs it    *)
(* once: the retry window of the row closes before Hermes forgets the key. *)
THEOREM MessagesRunOnce == ChatSpec => []OneRunPerKey
<1>1. ChatInv => OneRunPerKey
  BY DEF ChatInv
<1> QED
  BY <1>1, ChatInvariantHolds, PTL

-----------------------------------------------------------------------------
(* No two runs of a conversation are under way together.                   *)

(* What a handler brings back: it answers for a key whose session has been *)
(* registered, whose row is there once it posts the message, and which is  *)
(* refused when Hermes has refused it; the run it was given is the key's,  *)
(* and a run it was told has ended is over.                                *)
ClaimInv(r) ==
    /\ r.pc = "refused" => r.key \in refused
    /\ r.pc \in {"capable", "posting", "admitted", "refused"} \/ r.purpose = "reserve"
          => KeySession[r.key] \in owned \cup deleted
    /\ r.pc = "posting" => Exists(r.key)
    /\ r.pc = "admitted" => KeyOf(r.run) = r.key
    /\ r.pc \in {"told", "admitted"} /\ r.answer = "ended" => ~Active(r.run)

(* What a row says of its key: its run is the key's, it is settled only by *)
(* the end of that run or a refusal, and its session has been registered.  *)
RowTruth(k, row) ==
    /\ row.run # 0 => KeyOf(row.run) = k /\ row.status # "none"
    /\ row.run = 0 => row.status \in {"none", "dispatching", "rejected"}
    /\ row.status = "rejected" => k \in refused
    /\ row.status = "ended" => ~Active(row.run)
    /\ row.status # "none" => KeySession[k] \in owned \cup deleted

(* A key is under way from the moment its row has been reserved until its  *)
(* run has ended.                                                          *)
Free(k) == k \notin refused /\ KeySession[k] \notin deleted
Posted(k) == \E h \in Handlers : handlers[h].pc = "posting" /\ handlers[h].key = k
UnderWay(k) == (\E i \in RunOf(k) : Active(i)) \/ (RunOf(k) = {} /\ Posted(k))
OneUnderWay == \A k, l \in Keys : Free(k) /\ Free(l) /\ UnderWay(k) /\ UnderWay(l) => k = l

OverlapInv ==
    /\ \A h \in Handlers : ClaimInv(handlers[h])
    /\ \A k \in Keys : RowTruth(k, rows[k])
    /\ \A i \in DOMAIN runs : Exists(KeyOf(i))
    /\ OneUnderWay

(* Hermes' runs keep their keys and do not start again.                    *)
RunsGoOn ==
    /\ DOMAIN runs \subseteq DOMAIN runs'
    /\ \A i \in DOMAIN runs : /\ runs'[i].key = runs[i].key
                              /\ runs'[i].status = "active" => runs[i].status = "active"

(* The rows stay, no refusal or deletion is taken back, and a session that *)
(* was registered is registered or deleted.                                *)
TablesGoOn ==
    /\ \A k \in Keys : Exists(k) => rows'[k].status # "none"
    /\ owned \subseteq owned' \cup deleted'
    /\ refused \subseteq refused' /\ deleted \subseteq deleted'

LEMMA OverlapKeeps ==
    ASSUME ChatInv, OverlapInv, RunsGoOn, TablesGoOn,
           \A i \in DOMAIN runs' : i \in DOMAIN runs \/ Exists(runs'[i].key),
           \A i \in DOMAIN runs' : runs'[i].key \in Keys,
           \A k \in Keys : rows'[k] = rows[k] \/ RowTruth(k, rows[k])',
           \A h \in Handlers : handlers'[h] = handlers[h] \/ ClaimInv(handlers[h])',
           OneUnderWay'
    PROVE  OverlapInv'
<1>1. ASSUME NEW h \in Handlers, handlers'[h] = handlers[h]
      PROVE  ClaimInv(handlers[h])'
  <2> DEFINE r == handlers[h]
  <2>1. /\ ClaimInv(r) /\ RecordInv(r) /\ r.key \in Keys
    BY Held DEF OverlapInv, HandlerRecords
  <2>2. r.pc = "refused" => r.key \in refused'
    BY <2>1 DEF ClaimInv, TablesGoOn
  <2>3. r.pc \in {"capable", "posting", "admitted", "refused"} \/ r.purpose = "reserve"
          => KeySession[r.key] \in owned' \cup deleted'
    BY <2>1 DEF ClaimInv, TablesGoOn
  <2>4. r.pc = "posting" => rows'[r.key].status # "none"
    BY <2>1 DEF ClaimInv, TablesGoOn
  <2>5. r.pc = "admitted" => runs'[r.run].key = r.key
    BY <2>1 DEF ClaimInv, RecordInv, RunsGoOn, KeyOf
  <2>6. r.pc \in {"told", "admitted"} /\ r.answer = "ended" => runs'[r.run].status # "active"
    BY <2>1 DEF ClaimInv, RecordInv, RunsGoOn, Active
  <2> QED
    BY <1>1, <2>2, <2>3, <2>4, <2>5, <2>6 DEF ClaimInv, KeyOf, Active, Exists
<1>2. ASSUME NEW k \in Keys, rows'[k] = rows[k]
      PROVE  RowTruth(k, rows[k])'
  <2>1. RowTruth(k, rows[k]) /\ RowInv(k)
    BY Held DEF OverlapInv
  <2>2. rows[k].status = "ended" => rows[k].run # 0
    BY <2>1 DEF RowTruth
  <2> QED
    BY <1>2, <2>1, <2>2 DEF RowTruth, RowInv, TablesGoOn, RunsGoOn, KeyOf, Active
<1>3. \A i \in DOMAIN runs' : rows'[runs'[i].key].status # "none"
  BY DEF OverlapInv, RunsGoOn, TablesGoOn, KeyOf, Exists
<1> QED
  BY <1>1, <1>2, <1>3 DEF OverlapInv, KeyOf, Exists

(* What is under way is what was under way before.                         *)
LEMMA NothingNew ==
    ASSUME OverlapInv, TablesGoOn, \A k \in Keys : UnderWay(k)' => UnderWay(k)
    PROVE  OneUnderWay'
BY DEF OverlapInv, OneUnderWay, Free, TablesGoOn

(* A step of one handler that posts no new message and starts no run.      *)
LEMMA NobodyPosts ==
    ASSUME ChatInv, ChatInv', OverlapInv, RunsGoOn, TablesGoOn, DOMAIN runs' = DOMAIN runs,
           \A h \in Handlers : handlers'[h] = handlers[h] \/ handlers'[h].pc # "posting"
    PROVE  OneUnderWay'
<1>1. ASSUME NEW k \in Keys
      PROVE  UnderWay(k)' => UnderWay(k)
  <2>1. RunOf(k)' = RunOf(k)
    BY DEF RunOf, RunsGoOn, KeyOf
  <2>2. \A i \in RunOf(k) : Active(i)' => Active(i)
    BY DEF RunOf, RunsGoOn, Active
  <2>3. Posted(k)' => Posted(k)
    BY DEF Posted
  <2> QED
    BY <2>1, <2>2, <2>3 DEF UnderWay
<1> QED
  BY <1>1, NothingNew

LEMMA IdleClaims == ClaimInv(Idle) /\ ClaimInv(Idle)' /\ Idle' = Idle
<1>1. Idle.pc = "idle" /\ Idle.purpose = "none" /\ Idle' = Idle
  BY DEF Idle
<1> QED
  BY <1>1 DEF ClaimInv

(* A step of one handler that leaves the runs alone.                       *)
LEMMA OneHandlerKeeps ==
    ASSUME ChatInv, ChatInv', OverlapInv, TablesGoOn, UNCHANGED runs,
           NEW h \in Handlers, NEW r \in HandlerRecords, Become(h, r),
           r.pc # "posting", ClaimInv(handlers[h])',
           \A k \in Keys : rows'[k] = rows[k] \/ RowTruth(k, rows[k])'
    PROVE  OverlapInv'
<1>1. RunsGoOn
  BY DEF RunsGoOn
<1>2. \A x \in Handlers : x # h => handlers'[x] = handlers[x]
  BY BecomeKeeps, Held
<1>3. handlers'[h] = r
  BY BecomeKeeps, Held
<1>4. \A i \in DOMAIN runs' : runs'[i].key \in Keys
  BY Types, Held DEF RunRecords
<1>5. OneUnderWay'
  BY <1>1, <1>2, <1>3, NobodyPosts
<1> QED
  BY <1>1, <1>2, <1>4, <1>5, OverlapKeeps

(* The row of a key that is under way lets no other message in.            *)
LEMMA UnderWayIsUnsettled ==
    ASSUME ChatInv, OverlapInv, NEW k \in Keys, Free(k), UnderWay(k),
           NEW row \in RowRecords, RowTruth(k, row), row.status # "none",
           row.run # 0 => row.run \in DOMAIN runs
    PROVE  row.status \notin Settled \cup {"none"} /\ KeySession[k] \in owned
<1>1. row.status # "rejected" /\ KeySession[k] \in owned
  BY DEF RowTruth, Free
<1>2. row.status # "ended"
  <2> SUFFICES ASSUME row.status = "ended"
               PROVE  FALSE
    OBVIOUS
  <2>1. row.run \in RunOf(k) /\ ~Active(row.run)
    BY DEF RowTruth, RunOf
  <2>2. PICK i \in RunOf(k) : Active(i)
    BY <2>1 DEF UnderWay
  <2>3. i = row.run
    BY <2>1, <2>2, Held DEF RunOf, OneRunPerKey
  <2> QED
    BY <2>1, <2>2, <2>3
<1> QED
  BY <1>1, <1>2 DEF Settled

(* A reservation goes through only when no other key is under way.         *)
LEMMA ReserveOverlap ==
    ASSUME ChatInv, ChatInv', OverlapInv, NEW h \in Handlers, NEW k \in Keys,
           NEW table \in [Keys -> RowRecords],
           \A l \in Keys : /\ RowTruth(l, table[l]) /\ table[l].run = rows[l].run
                           /\ Exists(l) => table[l].status # "none",
           KeySession[k] \in owned \cup deleted, owned \subseteq owned',
           Reserve(h, k, table, owned'),
           UNCHANGED <<runs, refused, deleted>>
    PROVE  OverlapInv'
<1>0. RunsGoOn /\ \A i \in DOMAIN runs' : i \in DOMAIN runs /\ runs'[i].key \in Keys
  BY Held, Types DEF RunsGoOn, RunRecords
<1>1. ASSUME NEW l \in Keys, RowTruth(l, table[l]), rows'[l] = table[l]
      PROVE  RowTruth(l, rows[l])'
  BY <1>1 DEF RowTruth, KeyOf, Active
<1>2. CASE rows' = table /\ Rest(h)
  <2>1. TablesGoOn
    BY <1>2 DEF TablesGoOn
  <2>2. \A l \in Keys : RowTruth(l, rows[l])'
    BY <1>1, <1>2
  <2>3. Idle.pc # "posting" /\ Become(h, Idle) /\ handlers'[h] = Idle
    BY <1>2, IdleType, BecomeKeeps, Held DEF Rest
  <2>4. ClaimInv(handlers[h])'
    BY <2>3, IdleType DEF ClaimInv
  <2> QED
    BY <2>1, <2>2, <2>3, <2>4, IdleType, OneHandlerKeeps
<1>3. CASE /\ ~Conflicts(table, owned', k)
           /\ rows' = Inserted(table, k)
           /\ Become(h, [Idle EXCEPT !.pc = "posting", !.key = k])
  <2> DEFINE r == [Idle EXCEPT !.pc = "posting", !.key = k]
             last == Cardinality({other \in Keys : Exists(other)})
             row == [status |-> "dispatching", run |-> 0, id |-> last + 1]
  <2>1. r \in HandlerRecords /\ r.pc = "posting" /\ r.key = k /\ r.purpose = "none"
    BY IdleType DEF HandlerRecords
  <2>2. rows' = IF table[k].status = "none" THEN [table EXCEPT ![k] = row] ELSE table
    BY <1>3 DEF Inserted
  <2>3. row.status = "dispatching" /\ row.run = 0
    OBVIOUS
  <2>4. /\ handlers'[h] = r
        /\ \A x \in Handlers : x # h => handlers'[x] = handlers[x]
    <3> HIDE DEF r
    <3> QED
      BY <1>3, <2>1, BecomeKeeps, Held DEF r
  <2> HIDE DEF r, row
  <2>5. /\ rows'[k].status # "none"
        /\ \A l \in Keys : \/ rows'[l] = table[l]
                           \/ l = k /\ rows'[l].status = "dispatching" /\ rows'[l].run = 0
    BY <2>2, <2>3
  <2>6. TablesGoOn
    BY <2>3, <2>5 DEF TablesGoOn
  <2>7. \A l \in Keys : RowTruth(l, rows[l])'
    <3>1. rows'[k].status = "dispatching" /\ rows'[k].run = 0 => RowTruth(k, rows[k])'
      BY DEF RowTruth
    <3> QED
      BY <1>1, <2>5, <3>1
  <2>8. ClaimInv(handlers[h])'
    BY <2>1, <2>4, <2>5 DEF ClaimInv, Exists
  <2>9. ASSUME NEW l \in Keys, l # k, Free(l)
        PROVE  ~UnderWay(l)
    <3> SUFFICES ASSUME UnderWay(l)
                 PROVE  FALSE
      OBVIOUS
    <3>1. Exists(l)
      BY DEF OverlapInv, UnderWay, RunOf, Posted, ClaimInv
    <3>2. RowTruth(l, table[l]) /\ table[l].status # "none" /\ table[l] \in RowRecords
      BY <3>1
    <3>3. table[l].run # 0 => table[l].run \in DOMAIN runs
      BY Held DEF RowInv
    <3>4. table[l].status \notin Settled \cup {"none"} /\ KeySession[l] \in owned
      BY <2>9, <3>2, <3>3, UnderWayIsUnsettled
    <3> QED
      BY <1>3, <2>9, <3>4 DEF Conflicts
  <2>10. ASSUME NEW l \in Keys, l # k, UnderWay(l)'
         PROVE  UnderWay(l)
    <3>1. RunOf(l)' = RunOf(l) /\ \A i \in RunOf(l) : Active(i)' => Active(i)
      BY DEF RunOf, KeyOf, Active
    <3>2. Posted(l)' => Posted(l)
      BY <2>1, <2>4, <2>10 DEF Posted
    <3> QED
      BY <2>10, <3>1, <3>2 DEF UnderWay
  <2>11. OneUnderWay'
    <3>1. \A l \in Keys : Free(l)' <=> Free(l)
      BY DEF Free
    <3> QED
      BY <2>9, <2>10, <3>1 DEF OneUnderWay
  <2>12. \A x \in Handlers : handlers'[x] = handlers[x] \/ ClaimInv(handlers[x])'
    BY <2>4, <2>8
  <2> QED
    BY <1>0, <2>6, <2>7, <2>11, <2>12, OverlapKeeps
<1> QED
  BY <1>2, <1>3 DEF Reserve

(* What a handler writes of a run to the rows that name it is true.        *)
LEMMA RecordedIsTrue ==
    ASSUME ChatInv, OverlapInv, NEW i \in DOMAIN runs, NEW answer \in {"active", "ended"},
           answer = "ended" => ~Active(i), NEW k \in Keys
    PROVE  RowTruth(k, Recorded(i, answer)[k])
<1> DEFINE row == [rows[k] EXCEPT !.status = answer]
<1>1. RowTruth(k, rows[k]) /\ rows[k] \in RowRecords
  BY Held DEF OverlapInv
<1>2. row.run = rows[k].run /\ row.status = answer
  BY <1>1 DEF RowRecords
<1>3. i # 0
  BY Types, Held
<1>4. Recorded(i, answer)[k] = IF rows[k].run = i THEN row ELSE rows[k]
  BY DEF Recorded
<1>5. ASSUME rows[k].run = i
      PROVE  RowTruth(k, row)
  <2>1. KeyOf(i) = k
    BY <1>1, <1>3, <1>5 DEF RowTruth
  <2>2. rows[k].status # "none"
    BY <1>1, <1>3, <1>5 DEF RowTruth
  <2> HIDE DEF row
  <2> QED
    BY <1>1, <1>2, <1>3, <1>5, <2>1, <2>2 DEF RowTruth
<1> HIDE DEF row
<1> QED
  BY <1>1, <1>4, <1>5

LEMMA SendOverlap ==
    ASSUME ChatInv, ChatInv', OverlapInv, NEW h \in Handlers, NEW k \in Keys, Send(h, k)
    PROVE  OverlapInv'
<1>1. TablesGoOn /\ UNCHANGED runs /\ \A l \in Keys : rows'[l] = rows[l]
  BY DEF Send, TablesGoOn, Exists
<1>2. PICK r \in HandlerRecords : /\ Become(h, r) /\ r.pc \in {"asking", "capable"}
                                  /\ r.purpose # "reserve" /\ r.key = k
  <2>1. CASE rows[k].run # 0 /\ Become(h, Asking(k, rows[k].run, "reply"))
    <3>1. rows[k].run \in DOMAIN runs
      BY <2>1, Held DEF RowInv
    <3>2. Asking(k, rows[k].run, "reply") \in HandlerRecords
      BY <3>1, AskingHolds
    <3>3. /\ Asking(k, rows[k].run, "reply").pc = "asking"
          /\ Asking(k, rows[k].run, "reply").purpose = "reply"
          /\ Asking(k, rows[k].run, "reply").key = k
      BY IdleType DEF Asking, HandlerRecords
    <3> QED
      BY <2>1, <3>2, <3>3
  <2>2. CASE Become(h, [Idle EXCEPT !.pc = "capable", !.key = k, !.old = Exists(k)])
    <3> DEFINE r == [Idle EXCEPT !.pc = "capable", !.key = k, !.old = Exists(k)]
    <3>1. r \in HandlerRecords /\ r.pc = "capable" /\ r.key = k /\ r.purpose = "none"
      BY IdleType DEF HandlerRecords, Exists
    <3> HIDE DEF r
    <3> QED
      BY <2>2, <3>1 DEF r
  <2> QED
    BY <2>1, <2>2 DEF Send
<1>3. handlers'[h] = r
  BY <1>2, BecomeKeeps, Held
<1>4. ClaimInv(handlers[h])'
  BY <1>2, <1>3 DEF ClaimInv, Send
<1> QED
  BY <1>1, <1>2, <1>4, OneHandlerKeeps

LEMMA SendCapableOverlap ==
    ASSUME ChatInv, ChatInv', OverlapInv, NEW h \in Handlers, SendCapable(h)
    PROVE  OverlapInv'
<1> DEFINE k == handlers[h].key
<1>1. k \in Keys /\ window[k] # "forgotten" /\ KeySession[k] \in owned \cup deleted
  BY Held DEF SendCapable, HandlerRecords, RecordInv, OverlapInv, ClaimInv
<1>2. UNCHANGED <<owned, runs, refused, deleted>>
  BY DEF SendCapable
<1>3. ASSUME NEW p \in Keys, rows[p].run # 0, Become(h, Asking(k, rows[p].run, "reserve")),
             UNCHANGED rows
      PROVE  OverlapInv'
  <2>1. rows[p].run \in DOMAIN runs
    BY <1>3, Held DEF RowInv
  <2>2. Asking(k, rows[p].run, "reserve") \in HandlerRecords
    BY <1>1, <2>1, AskingHolds
  <2>3. PICK r \in HandlerRecords : Become(h, r) /\ r.pc = "asking" /\ r.key = k
    <3>1. /\ Asking(k, rows[p].run, "reserve").pc = "asking"
          /\ Asking(k, rows[p].run, "reserve").key = k
      BY IdleType DEF Asking, HandlerRecords
    <3> QED
      BY <1>3, <2>2, <3>1
  <2>4. handlers'[h] = r
    BY <2>3, BecomeKeeps, Held
  <2>5. ClaimInv(handlers[h])'
    BY <1>1, <1>2, <2>3, <2>4 DEF ClaimInv
  <2>6. TablesGoOn /\ \A l \in Keys : rows'[l] = rows[l]
    BY <1>2, <1>3 DEF TablesGoOn, Exists
  <2> QED
    BY <1>2, <2>3, <2>5, <2>6, OneHandlerKeeps
<1>4. ASSUME Reserve(h, k, rows, owned)
      PROVE  OverlapInv'
  <2>1. \A l \in Keys : RowTruth(l, rows[l]) /\ (Exists(l) => rows[l].status # "none")
    BY DEF OverlapInv, Exists
  <2>2. owned' = owned /\ rows \in [Keys -> RowRecords]
    BY <1>2, Held
  <2>3. Reserve(h, k, rows, owned')
    BY <1>4, <2>2 DEF Reserve, Conflicts
  <2> HIDE DEF k
  <2> QED
    BY <1>1, <1>2, <2>1, <2>2, <2>3, ReserveOverlap
<1> QED
  BY <1>3, <1>4 DEF SendCapable, LatestUnsettled, Unsettled

(* A step of a handler that leaves the tables alone and after which it     *)
(* claims nothing new.                                                     *)
LEMMA QuietHandlerKeeps ==
    ASSUME ChatInv, ChatInv', OverlapInv, UNCHANGED <<rows, runs>>, TablesGoOn,
           NEW h \in Handlers, NEW r \in HandlerRecords, Become(h, r),
           r.pc \in {"idle", "asking", "stopping", "deleting"}, r.purpose # "reserve"
    PROVE  OverlapInv'
<1>1. handlers'[h] = r
  BY BecomeKeeps, Held
<1>2. ClaimInv(handlers[h])'
  BY <1>1 DEF ClaimInv
<1> QED
  BY <1>2, OneHandlerKeeps

LEMMA LookOverlap ==
    ASSUME ChatInv, ChatInv', OverlapInv, NEW h \in Handlers, NEW k \in Keys,
           NEW purpose \in {"look", "stop"}, Look(h, k, purpose)
    PROVE  OverlapInv'
<1>1. rows[k].run \in DOMAIN runs
  BY Held DEF Look, RowInv
<1>2. Asking(k, rows[k].run, purpose) \in HandlerRecords
  BY <1>1, AskingHolds
<1>3. /\ Asking(k, rows[k].run, purpose).pc = "asking"
      /\ Asking(k, rows[k].run, purpose).purpose = purpose
  BY IdleType DEF Asking, HandlerRecords
<1>4. TablesGoOn
  BY DEF Look, TablesGoOn, Exists
<1> QED
  BY <1>2, <1>3, <1>4, QuietHandlerKeeps DEF Look

LEMMA HermesTellsOverlap ==
    ASSUME ChatInv, ChatInv', OverlapInv, NEW h \in Handlers, HermesTells(h)
    PROVE  OverlapInv'
<1> DEFINE status == runs[handlers[h].run].status
           where == IF compacted THEN Tip ELSE Root
<1>1. /\ handlers[h].run \in DOMAIN runs /\ handlers[h].pc = "asking"
      /\ ClaimInv(handlers[h]) /\ UNCHANGED <<rows, owned, runs, refused, deleted>>
  BY Held DEF HermesTells, RecordInv, OverlapInv
<1>2. status \in Statuses /\ where \in Sessions
  BY <1>1, Types, Held DEF RunRecords, Sessions
<1> HIDE DEF status, where
<1>3. PICK r \in HandlerRecords :
        /\ Become(h, r) /\ r.pc = "told" /\ r.answer = status
        /\ r.run = handlers[h].run /\ r.purpose = handlers[h].purpose /\ r.key = handlers[h].key
  <2> DEFINE r == [handlers[h] EXCEPT !.pc = "told", !.answer = status, !.at = where]
  <2>1. /\ r \in HandlerRecords /\ r.pc = "told" /\ r.answer = status
        /\ r.run = handlers[h].run /\ r.purpose = handlers[h].purpose /\ r.key = handlers[h].key
    BY <1>2, Held DEF HandlerRecords, Statuses
  <2>2. Become(h, r)
    BY DEF HermesTells, status, where
  <2> HIDE DEF r
  <2> QED
    BY <2>1, <2>2
<1>4. handlers'[h] = r
  BY <1>3, BecomeKeeps, Held
<1>5. r.answer = "ended" => ~Active(r.run)
  BY <1>3 DEF status, Active
<1>6. ClaimInv(handlers[h])'
  BY <1>1, <1>3, <1>4, <1>5 DEF ClaimInv, Active
<1>7. TablesGoOn /\ \A l \in Keys : rows'[l] = rows[l]
  BY <1>1 DEF TablesGoOn, Exists
<1> QED
  BY <1>1, <1>3, <1>6, <1>7, OneHandlerKeeps

LEMMA StatusArrivesOverlap ==
    ASSUME ChatInv, ChatInv', OverlapInv, NEW h \in Handlers, StatusArrives(h)
    PROVE  OverlapInv'
<1> DEFINE k == handlers[h].key
           i == handlers[h].run
           answer == handlers[h].answer
           table == IF answer # "forgotten" THEN Recorded(i, answer) ELSE rows
           purpose == handlers[h].purpose
<1>1. /\ k \in Keys /\ i \in DOMAIN runs /\ answer \in Statuses
      /\ handlers[h].pc = "told" /\ ClaimInv(handlers[h])
  BY Held DEF StatusArrives, HandlerRecords, RecordInv, OverlapInv
<1>2. /\ owned \subseteq owned' /\ UNCHANGED <<runs, refused, deleted>>
      /\ owned' = IF answer # "forgotten" THEN owned \cup {handlers[h].at} ELSE owned
  BY DEF StatusArrives
<1>3. /\ table \in [Keys -> RowRecords]
      /\ \A l \in Keys : /\ RowTruth(l, table[l]) /\ table[l].run = rows[l].run
                         /\ Exists(l) => table[l].status # "none"
  <2>1. CASE answer # "forgotten"
    <3>1. answer \in {"active", "ended"} /\ i \in Nat
      BY <1>1, <2>1, Types, Held DEF Statuses
    <3>2. answer = "ended" => ~Active(i)
      BY <1>1 DEF ClaimInv
    <3>3. \A l \in Keys : RowTruth(l, Recorded(i, answer)[l])
      BY <1>1, <3>1, <3>2, RecordedIsTrue
    <3> HIDE DEF i, answer
    <3> QED
      BY <2>1, <3>1, <3>3, RecordedRows
  <2>2. CASE answer = "forgotten"
    BY <2>2, Held DEF Exists, OverlapInv
  <2> QED
    BY <2>1, <2>2
<1>4. ASSUME purpose = "reserve", Reserve(h, k, table, owned')
      PROVE  OverlapInv'
  <2>1. KeySession[k] \in owned \cup deleted
    BY <1>1, <1>4 DEF ClaimInv
  <2> HIDE DEF table, k
  <2> QED
    BY <1>1, <1>2, <1>3, <1>4, <2>1, ReserveOverlap
<1>5. ASSUME NEW r \in HandlerRecords, rows' = table, Become(h, r),
             r.pc \in {"idle", "stopping"}, r.purpose = "none"
      PROVE  OverlapInv'
  <2> HIDE DEF table
  <2>1. TablesGoOn
    BY <1>2, <1>3, <1>5 DEF TablesGoOn
  <2>2. \A l \in Keys : RowTruth(l, rows[l])'
    BY <1>2, <1>3, <1>5 DEF RowTruth, KeyOf, Active
  <2>3. handlers'[h] = r
    BY <1>5, BecomeKeeps, Held
  <2>4. ClaimInv(handlers[h])'
    BY <1>5, <2>3 DEF ClaimInv
  <2> QED
    BY <1>2, <1>5, <2>1, <2>2, <2>4, OneHandlerKeeps
<1>6. CASE rows' = table /\ Become(h, [Idle EXCEPT !.pc = "stopping", !.run = i])
  <2> DEFINE r == [Idle EXCEPT !.pc = "stopping", !.run = i]
  <2>1. r \in HandlerRecords /\ r.pc = "stopping" /\ r.purpose = "none"
    BY <1>1, Types, Held, IdleType DEF HandlerRecords
  <2>2. Become(h, r) /\ rows' = table
    BY <1>6
  <2> HIDE DEF r, table
  <2> QED
    BY <1>5, <2>1, <2>2
<1>7. CASE rows' = table /\ Rest(h)
  BY <1>5, <1>7, IdleType DEF Rest
<1>8. \/ purpose = "reserve" /\ Reserve(h, k, table, owned')
      \/ rows' = table /\ Become(h, [Idle EXCEPT !.pc = "stopping", !.run = i])
      \/ rows' = table /\ Rest(h)
  BY DEF StatusArrives
<1> QED
  BY <1>4, <1>6, <1>7, <1>8

LEMMA SendRecordsOverlap ==
    ASSUME ChatInv, ChatInv', OverlapInv, NEW h \in Handlers, SendRecords(h)
    PROVE  OverlapInv'
<1>0. PICK k \in Keys : k = handlers[h].key
  BY Held DEF HandlerRecords
<1>1. PICK i \in DOMAIN runs, answer \in {"active", "ended"} :
        /\ i = handlers[h].run /\ answer = handlers[h].answer
        /\ ClaimInv(handlers[h]) /\ handlers[h].pc = "admitted"
  BY Held DEF SendRecords, RecordInv, OverlapInv
<1>2. /\ KeyOf(i) = k /\ KeySession[k] \in owned \cup deleted
      /\ answer = "ended" => ~Active(i)
  BY <1>0, <1>1 DEF ClaimInv
<1>3. UNCHANGED <<owned, runs, refused, deleted>> /\ Become(h, Idle)
  BY DEF SendRecords, Rest
<1>4. /\ rows'[k].run = i /\ rows'[k].status = answer
      /\ \A l \in Keys : l # k => rows'[l] = rows[l]
  BY <1>0, <1>1, Held DEF SendRecords, RowRecords
<1>5. i # 0
  BY <1>1, Types, Held
<1>6. RowTruth(k, rows[k])'
  BY <1>1, <1>2, <1>3, <1>4, <1>5 DEF RowTruth, KeyOf, Active
<1>7. \A l \in Keys : rows'[l] = rows[l] \/ RowTruth(l, rows[l])'
  BY <1>4, <1>6
<1>8. TablesGoOn
  BY <1>1, <1>3, <1>4 DEF TablesGoOn, Exists
<1>9. handlers'[h] = Idle
  BY <1>3, IdleType, BecomeKeeps, Held
<1>10. ClaimInv(handlers[h])'
  BY <1>9, IdleType DEF ClaimInv
<1> QED
  BY <1>3, <1>7, <1>8, <1>10, IdleType, OneHandlerKeeps

LEMMA SendRejectedOverlap ==
    ASSUME ChatInv, ChatInv', OverlapInv, NEW h \in Handlers, SendRejected(h)
    PROVE  OverlapInv'
<1>0. PICK k \in Keys : k = handlers[h].key
  BY Held DEF HandlerRecords
<1>1. k \in refused
  BY <1>0, Held DEF SendRejected, HandlerRecords, OverlapInv, ClaimInv
<1>2. UNCHANGED <<owned, runs, refused, deleted>> /\ Become(h, Idle)
  BY DEF SendRejected, Rest
<1>3. /\ rows'[k].run = rows[k].run /\ rows'[k].status = "rejected"
      /\ \A l \in Keys : l # k => rows'[l] = rows[l]
  BY <1>0, Held DEF SendRejected, RowRecords
<1>4. KeySession[k] \in owned \cup deleted
  BY <1>0, Held DEF SendRejected, OverlapInv, ClaimInv
<1>5. RowTruth(k, rows[k])'
  BY <1>1, <1>2, <1>3, <1>4, Held DEF OverlapInv, RowTruth, KeyOf
<1>6. \A l \in Keys : rows'[l] = rows[l] \/ RowTruth(l, rows[l])'
  BY <1>3, <1>5
<1>7. TablesGoOn
  BY <1>2, <1>3 DEF TablesGoOn, Exists
<1>8. handlers'[h] = Idle
  BY <1>2, IdleType, BecomeKeeps, Held
<1>9. ClaimInv(handlers[h])'
  BY <1>8, IdleType DEF ClaimInv
<1> QED
  BY <1>2, <1>6, <1>7, <1>9, IdleType, OneHandlerKeeps

LEMMA CallEndsOverlap ==
    ASSUME ChatInv, ChatInv', OverlapInv, NEW h \in Handlers,
           HermesRefuses(h) \/ CallFails(h) \/ Deleted(h)
    PROVE  OverlapInv'
<1>1. CASE HermesRefuses(h)
  <2>1. PICK r \in HandlerRecords : /\ Become(h, r) /\ r.pc = "refused"
                                    /\ r.key = handlers[h].key /\ r.purpose = handlers[h].purpose
    <3> DEFINE r == [handlers[h] EXCEPT !.pc = "refused"]
    <3>1. /\ r \in HandlerRecords /\ r.pc = "refused"
          /\ r.key = handlers[h].key /\ r.purpose = handlers[h].purpose
      BY Held DEF HandlerRecords
    <3>2. Become(h, r)
      BY <1>1 DEF HermesRefuses
    <3> HIDE DEF r
    <3> QED
      BY <3>1, <3>2
  <2>2. handlers'[h] = r
    BY <2>1, BecomeKeeps, Held
  <2>3. /\ ClaimInv(handlers[h]) /\ handlers[h].pc = "posting"
        /\ UNCHANGED <<rows, owned, runs, deleted>> /\ refused' = refused \cup {handlers[h].key}
    BY <1>1 DEF HermesRefuses, OverlapInv
  <2>4. ClaimInv(handlers[h])'
    BY <2>1, <2>2, <2>3 DEF ClaimInv
  <2>5. TablesGoOn /\ \A l \in Keys : rows'[l] = rows[l]
    BY <2>3 DEF TablesGoOn, Exists
  <2> QED
    BY <2>1, <2>3, <2>4, <2>5, OneHandlerKeeps
<1>2. CASE CallFails(h)
  <2>1. TablesGoOn
    BY <1>2 DEF CallFails, TablesGoOn, Exists
  <2> QED
    BY <1>2, <2>1, IdleType, QuietHandlerKeeps DEF CallFails, Rest
<1>3. CASE Deleted(h)
  <2>1. TablesGoOn
    BY <1>3 DEF Deleted, TablesGoOn, Exists
  <2> QED
    BY <1>3, <2>1, IdleType, QuietHandlerKeeps DEF Deleted, Rest
<1> QED
  BY <1>1, <1>2, <1>3

LEMMA DeleteOverlap ==
    ASSUME ChatInv, ChatInv', OverlapInv, NEW h \in Handlers, NEW s \in Sessions, Delete(h, s)
    PROVE  OverlapInv'
<1> DEFINE r == [Idle EXCEPT !.pc = "deleting", !.at = s]
<1>1. r \in HandlerRecords /\ r.pc = "deleting" /\ r.purpose = "none"
  BY IdleType DEF HandlerRecords
<1>2. Become(h, r)
  BY DEF Delete
<1>3. TablesGoOn
  BY DEF Delete, TablesGoOn, Exists
<1> HIDE DEF r
<1> QED
  BY <1>1, <1>2, <1>3, QuietHandlerKeeps DEF Delete

(* Hermes admits the message of a handler that is posting it.              *)
LEMMA HermesAdmitsOverlap ==
    ASSUME ChatInv, ChatInv', OverlapInv, NEW h \in Handlers, HermesAdmits(h)
    PROVE  OverlapInv'
<1>1. PICK k \in Keys : /\ k = handlers[h].key /\ window[k] # "forgotten"
                        /\ ClaimInv(handlers[h]) /\ handlers[h].pc = "posting"
  BY Held DEF HermesAdmits, HandlerRecords, RecordInv, OverlapInv
<1>2. KeySession[k] \in owned \cup deleted /\ Exists(k)
  BY <1>1 DEF ClaimInv
<1>3. UNCHANGED <<rows, owned, refused, deleted>>
  BY DEF HermesAdmits
<1>4. TablesGoOn /\ \A l \in Keys : rows'[l] = rows[l]
  BY <1>3 DEF TablesGoOn, Exists
<1>5. PICK i : /\ i = IF RunOf(k) = {} THEN Len(runs) + 1 ELSE CHOOSE j \in RunOf(k) : TRUE
               /\ Become(h, [handlers[h] EXCEPT !.pc = "admitted", !.run = i,
                               !.answer = IF runs'[i].status = "active" THEN "active" ELSE "ended"])
  BY <1>1 DEF HermesAdmits
<1>6. IF RunOf(k) = {}
      THEN Len(runs) < MaxRuns /\ runs' = Append(runs, [key |-> k, status |-> "active"])
      ELSE UNCHANGED runs
  BY <1>1 DEF HermesAdmits
<1>7. /\ runs \in Seq(RunRecords) /\ DOMAIN runs = 1..Len(runs) /\ Len(runs) \in Nat
      /\ runs' \in Seq(RunRecords) /\ DOMAIN runs' = 1..Len(runs')
      /\ \A j \in DOMAIN runs' : runs'[j].key \in Keys
  <2>1. ChatTypeOK /\ ChatTypeOK'
    BY DEF ChatInv
  <2>2. /\ runs' \in Seq(RunRecords) /\ DOMAIN runs' = 1..Len(runs')
        /\ \A j \in DOMAIN runs' : runs'[j] \in RunRecords
    <3>1. runs' \in Seq(RunRecords)
      BY <2>1 DEF ChatTypeOK, RunRecords, Statuses
    <3> QED
      BY <3>1
  <2> QED
    BY <2>1, <2>2, Types DEF RunRecords
<1>8. /\ RunsGoOn /\ i \in DOMAIN runs' /\ runs'[i].key = k
      /\ \A j \in DOMAIN runs' : j \in DOMAIN runs \/ (j = i /\ RunOf(k) = {})
  <2>1. CASE RunOf(k) = {}
    <3> DEFINE run == [key |-> k, status |-> "active"]
    <3>1. run.key = k /\ runs' = Append(runs, run) /\ i = Len(runs) + 1
      BY <1>5, <1>6, <2>1
    <3> HIDE DEF run
    <3>2. /\ Len(runs') = Len(runs) + 1 /\ runs'[Len(runs) + 1] = run
          /\ \A j \in DOMAIN runs : runs'[j] = runs[j]
      BY <1>7, <3>1
    <3> QED
      BY <1>7, <2>1, <3>1, <3>2 DEF RunsGoOn
  <2>2. CASE RunOf(k) # {}
    <3>1. i \in RunOf(k) /\ runs' = runs
      BY <1>5, <1>6, <2>2
    <3> QED
      BY <3>1 DEF RunsGoOn, RunOf, KeyOf
  <2> QED
    BY <2>1, <2>2
<1>9. PICK answer \in {"active", "ended"} :
        /\ Become(h, [handlers[h] EXCEPT !.pc = "admitted", !.run = i, !.answer = answer])
        /\ answer = "ended" => runs'[i].status # "active"
  BY <1>5
<1>10. PICK r \in HandlerRecords :
         /\ Become(h, r) /\ r.pc = "admitted" /\ r.run = i /\ r.answer = answer
         /\ r.key = k /\ r.purpose = handlers[h].purpose
  <2> DEFINE r == [handlers[h] EXCEPT !.pc = "admitted", !.run = i, !.answer = answer]
  <2>1. i \in 0..MaxRuns
    <3>1. Len(runs') <= MaxRuns /\ MaxRuns \in Nat
      BY Held DEF ChatInv, ChatTypeOK
    <3> QED
      BY <1>7, <1>8, <3>1
  <2>2. /\ r \in HandlerRecords /\ r.pc = "admitted" /\ r.run = i /\ r.answer = answer
        /\ r.key = k /\ r.purpose = handlers[h].purpose
    BY <1>1, <2>1, Held DEF HandlerRecords
  <2>3. Become(h, r)
    BY <1>9
  <2> HIDE DEF r
  <2> QED
    BY <2>2, <2>3
<1>11. /\ handlers'[h] = r
       /\ \A x \in Handlers : x # h => handlers'[x] = handlers[x]
  BY <1>10, BecomeKeeps, Held
<1>12. ClaimInv(handlers[h])'
  BY <1>2, <1>3, <1>8, <1>9, <1>10, <1>11 DEF ClaimInv, KeyOf, Active
<1>13. ASSUME NEW l \in Keys, UnderWay(l)'
       PROVE  UnderWay(l)
  <2>1. Posted(l)' => Posted(l)
    BY <1>10, <1>11 DEF Posted
  <2>2. CASE l = k /\ RunOf(k) = {}
    BY <1>1, <2>2 DEF UnderWay, Posted
  <2>3. CASE ~(l = k /\ RunOf(k) = {})
    <3>1. RunOf(l)' = RunOf(l) /\ \A j \in RunOf(l) : Active(j)' => Active(j)
      BY <1>8, <2>3 DEF RunOf, KeyOf, Active, RunsGoOn
    <3> QED
      BY <1>13, <2>1, <3>1 DEF UnderWay
  <2> QED
    BY <2>2, <2>3
<1>14. OneUnderWay'
  BY <1>4, <1>13, NothingNew
<1>15. \A x \in Handlers : handlers'[x] = handlers[x] \/ ClaimInv(handlers[x])'
  BY <1>11, <1>12
<1>16. \A j \in DOMAIN runs' : j \in DOMAIN runs \/ Exists(runs'[j].key)
  BY <1>2, <1>8
<1> QED
  BY <1>4, <1>7, <1>8, <1>14, <1>15, <1>16, OverlapKeeps

(* A run goes on, ends or is forgotten; at most one handler rests.         *)
LEMMA RunsOverlap ==
    ASSUME ChatInv, ChatInv', OverlapInv, TablesGoOn, UNCHANGED rows,
           \/ UNCHANGED runs
           \/ \E i \in DOMAIN runs, status \in {"ended", "forgotten"} :
                 runs' = [runs EXCEPT ![i].status = status],
           \A h \in Handlers : handlers'[h] \in {handlers[h], Idle}
    PROVE  OverlapInv'
<1>1. /\ runs \in Seq(RunRecords)
      /\ \A i \in DOMAIN runs : runs[i] \in RunRecords
  BY Held, Types
<1>2. RunsGoOn /\ DOMAIN runs' = DOMAIN runs
  <2>1. ASSUME NEW i \in DOMAIN runs, NEW status \in {"ended", "forgotten"},
               runs' = [runs EXCEPT ![i].status = status]
        PROVE  RunsGoOn /\ DOMAIN runs' = DOMAIN runs
    <3>1. /\ DOMAIN runs' = DOMAIN runs
          /\ runs'[i] = [runs[i] EXCEPT !.status = status]
          /\ \A j \in DOMAIN runs : j # i => runs'[j] = runs[j]
      BY <1>1, <2>1
    <3>2. runs'[i].key = runs[i].key /\ runs'[i].status # "active"
      BY <1>1, <3>1 DEF RunRecords
    <3> QED
      BY <3>1, <3>2 DEF RunsGoOn
  <2> QED
    BY <2>1 DEF RunsGoOn
<1>3. \A i \in DOMAIN runs' : i \in DOMAIN runs /\ runs'[i].key \in Keys
  BY <1>1, <1>2 DEF RunsGoOn, RunRecords
<1>4. OneUnderWay'
  BY <1>2, IdleType, NobodyPosts
<1>5. \A h \in Handlers : handlers'[h] = handlers[h] \/ ClaimInv(handlers[h])'
  BY IdleType DEF ClaimInv
<1> QED
  BY <1>2, <1>3, <1>4, <1>5, OverlapKeeps

LEMMA HermesOverlap ==
    ASSUME ChatInv, ChatInv', OverlapInv,
           \/ \E h \in Handlers : HermesStops(h)
           \/ \E i \in DOMAIN runs : RunEnds(i) \/ RunExpires(i)
           \/ \E k \in Keys : WindowCloses(k) \/ HermesForgets(k)
           \/ List \/ Compact \/ Restart \/ UNCHANGED chatVars
    PROVE  OverlapInv'
<1>0. \A i \in DOMAIN runs : runs[i] \in RunRecords
  BY Held, Types
<1>1. UNCHANGED rows /\ TablesGoOn
  <2>1. UNCHANGED <<rows, refused, deleted>> /\ owned \subseteq owned'
    BY DEF HermesStops, RunEnds, RunExpires, WindowCloses, HermesForgets, List, Compact,
           Restart, chatVars
  <2> QED
    BY <2>1 DEF TablesGoOn, Exists
<1>2. \A h \in Handlers : handlers'[h] \in {handlers[h], Idle}
  <2>1. CASE \E h \in Handlers : HermesStops(h)
    BY <2>1, IdleType, BecomeKeeps, Held DEF HermesStops, Rest
  <2> QED
    BY <2>1 DEF RunEnds, RunExpires, WindowCloses, HermesForgets, List, Compact, Restart, chatVars
<1>3. \/ UNCHANGED runs
      \/ \E i \in DOMAIN runs, status \in {"ended", "forgotten"} :
            runs' = [runs EXCEPT ![i].status = status]
  <2>1. ASSUME NEW h \in Handlers, HermesStops(h)
        PROVE  \E i \in DOMAIN runs, status \in {"ended", "forgotten"} :
                  runs' = [runs EXCEPT ![i].status = status]
    <3>1. PICK i \in DOMAIN runs : i = handlers[h].run
      BY <2>1, Held DEF HermesStops, RecordInv
    <3>2. PICK status \in {"ended", "forgotten"} :
            status = IF runs[i].status = "active" THEN "ended" ELSE runs[i].status
      BY <1>0 DEF RunRecords, Statuses
    <3>3. runs' = [runs EXCEPT ![i].status = status]
      BY <2>1, <3>1, <3>2 DEF HermesStops
    <3> QED
      BY <3>3
  <2> QED
    BY <2>1 DEF RunEnds, RunExpires, WindowCloses, HermesForgets, List, Compact, Restart, chatVars
<1> QED
  BY <1>1, <1>2, <1>3, RunsOverlap

-----------------------------------------------------------------------------
LEMMA OverlapStarts == ChatInit => OverlapInv
<1> SUFFICES ASSUME ChatInit
             PROVE  OverlapInv
  OBVIOUS
<1>1. \A k \in Keys : rows[k].run = 0 /\ rows[k].status = "none"
  BY DEF ChatInit, NoRow
<1>2. \A h \in Handlers : ClaimInv(handlers[h]) /\ handlers[h].pc # "posting"
  BY IdleType DEF ChatInit, ClaimInv
<1>3. DOMAIN runs = {}
  BY DEF ChatInit
<1> QED
  BY <1>1, <1>2, <1>3 DEF OverlapInv, RowTruth, OneUnderWay, UnderWay, RunOf, Posted

LEMMA OverlapSteps == ChatInv /\ ChatInv' /\ OverlapInv /\ [ChatNext]_chatVars => OverlapInv'
<1> SUFFICES ASSUME ChatInv, ChatInv', OverlapInv, [ChatNext]_chatVars
             PROVE  OverlapInv'
  OBVIOUS
<1>1. ASSUME NEW h \in Handlers, Handling(h)
      PROVE  OverlapInv'
  BY <1>1, SendCapableOverlap, HermesTellsOverlap, StatusArrivesOverlap, HermesAdmitsOverlap,
     SendRecordsOverlap, SendRejectedOverlap, HermesOverlap, CallEndsOverlap DEF Handling
<1>2. ASSUME NEW h \in Handlers, Asks(h)
      PROVE  OverlapInv'
  BY <1>2, SendOverlap, LookOverlap, DeleteOverlap DEF Asks
<1>3. ASSUME NEW h \in Handlers, HermesRefuses(h) \/ CallFails(h)
      PROVE  OverlapInv'
  BY <1>3, CallEndsOverlap
<1> QED
  BY <1>1, <1>2, <1>3, HermesOverlap DEF ChatNext

LEMMA OverlapInvariantHolds == ChatSpec => []OverlapInv
<1> QED
  BY OverlapStarts, OverlapSteps, ChatInvariantHolds, PTL DEF ChatSpec

(* Two runs of a conversation are under way together only after a message  *)
(* of it has been refused or a session of it deleted: the transaction      *)
(* before the dispatch (POST /sessions/:id/run in chat.ts) sees the row of *)
(* every other key whose run has not ended, whatever handlers wait, calls  *)
(* fail and late answers are written in between.                           *)
THEOREM RunsDoNotOverlap == ChatSpec => []OverlapNeedsRefusal
<1>1. ASSUME ChatInv, OverlapInv
      PROVE  OverlapNeedsRefusal
  <2> SUFFICES ASSUME NEW i \in DOMAIN runs, NEW j \in DOMAIN runs,
                      Active(i), Active(j), i # j
               PROVE  Spared(i) \/ Spared(j)
    BY DEF OverlapNeedsRefusal
  <2>1. KeyOf(i) # KeyOf(j) /\ KeyOf(i) \in Keys /\ KeyOf(j) \in Keys
    BY <1>1, Held, Types DEF OneRunPerKey, KeyOf, RunRecords
  <2>2. UnderWay(KeyOf(i)) /\ UnderWay(KeyOf(j))
    BY DEF UnderWay, RunOf
  <2> QED
    BY <1>1, <2>1, <2>2 DEF OverlapInv, OneUnderWay, Free, Spared
<1> QED
  BY <1>1, ChatInvariantHolds, OverlapInvariantHolds, PTL
=============================================================================
