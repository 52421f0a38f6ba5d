----------------------------- MODULE BrowserLease -----------------------------
(***************************************************************************)
(* The lease manager of the openlia-browser relay                          *)
(* (packages/openlia-browser/src/server.ts, class BrowserLeaseManager).    *)
(*                                                                         *)
(* One browser profile is shared by many workflows.  A workflow requests   *)
(* the browser, waits in a FIFO queue with a queue time-to-live, is        *)
(* granted a lease with an idle time-to-live and a hard maximum, and sends *)
(* tool calls under it.  The calls of one lease are chained one behind the *)
(* other; expiry and release fence the lease and hand the browser over as  *)
(* soon as no call is in flight.                                           *)
(*                                                                         *)
(* The server is one Node event loop: a request handler, a timer callback  *)
(* or a promise continuation is one atomic step, taken at one instant.     *)
(* What interleaves are the steps: a call is chained, begun and ended by   *)
(* three of them, and a deadline passes some time before its timer fires.  *)
(*                                                                         *)
(* A deadline is kept as the time left until it, so `expiresAt <= now' is  *)
(* `left = 0' and the clock needs no bound.  A ticket (a randomUUID) is    *)
(* the number of its request; the token of the lease it may become is the  *)
(* same number, as a ticket is granted at most once.  The queue array is   *)
(* only pushed at its end, shifted and filtered, so its order is the order *)
(* of the numbers and the set of the tickets in it says all there is.      *)
(***************************************************************************)
EXTENDS Integers, Sequences, FiniteSets

CONSTANTS MaxTickets,   \* bound: how many tickets are handed out
          MaxCalls,     \* bound: how many tool calls are chained
          RequestKeys,  \* the values of request_key
          OpIds,        \* the operation_ids (with their tool) of mutating calls
          Args,         \* the arguments of a call, as stableJson gives them
          LeaseTtl,     \* browserLeaseTtlMs
          LeaseMax,     \* browserLeaseMaxMs
          QueueTtl,     \* browserQueueTtlMs
          MaxCached,    \* maxCachedOperations
          NoKey,        \* a request without request_key
          NoOp          \* no operation_id: a read-only call, or one not made yet

ASSUME BoundsAssumption == MaxTickets \in Nat /\ MaxCalls \in Nat

(* positiveFiniteEnv refuses every other time; the cache size is fixed.    *)
ASSUME TimesAssumption ==
    /\ LeaseTtl \in Nat \ {0}
    /\ LeaseMax \in Nat \ {0}
    /\ QueueTtl \in Nat \ {0}
    /\ MaxCached \in Nat \ {0}

ASSUME NamesAssumption == NoKey \notin RequestKeys /\ NoOp \notin OpIds \cup Args

Tickets == 1..MaxTickets
NoTicket == 0
CallIds == 1..MaxCalls

VARIABLES
    mgr,         \* the BrowserLeaseManager object
    issued,      \* how many tickets request() handed out
    requestKey,  \* the request_key each ticket was asked for with
    made,        \* how many calls withCall() chained
    calls        \* what is known of each call: its lease, operation, stage

vars == <<mgr, issued, requestKey, made, calls>>

-----------------------------------------------------------------------------
(* The manager's fields.  active: the ticket of the active lease.  queue:  *)
(* the tickets waiting; wait: the time each has left.  generation: how     *)
(* many leases were granted; granted: the generation of each lease, 0 for  *)
(* none.  ttl, hard: expiresAt and hardExpiresAt of the active lease;      *)
(* pending: which of its flags expiredPending and releasePending are set.  *)
(* fenced: the leases that take no more calls.  busy: activeCalls of each  *)
(* lease.  cache: its operationCache, oldest entry first.                  *)
CacheEntries == [id : OpIds, args : Args, outcome : {"success", "uncertain"}]

Managers == [active : Tickets \cup {NoTicket},
             queue : SUBSET Tickets,
             wait : [Tickets -> 0..QueueTtl],
             generation : Nat,
             granted : [Tickets -> Nat],
             ttl : 0..LeaseMax,
             hard : 0..LeaseMax,
             pending : SUBSET {"expired", "release"},
             fenced : SUBSET Tickets,
             busy : [Tickets -> Nat],
             cache : [Tickets -> Seq(CacheEntries)]]

Min2(a, b) == IF a <= b THEN a ELSE b

(* min(now + ttlMs, hardExpiresAt), with ttlMs capped by the maximum.      *)
IdleDeadlineUncapped(hardLeft) == Min2(LeaseTtl, LeaseMax)
IdleDeadline(hardLeft) == Min2(Min2(LeaseTtl, LeaseMax), hardLeft)

(* grant: a new lease for ticket t, with the next generation number.       *)
GrantFromIdle(m, t) ==
    [m EXCEPT !.active = t,
              !.generation = @ + 1,
              !.granted[t] = m.generation + 1,
              !.hard = LeaseMax + IdleDeadline(LeaseMax),
              !.ttl = IdleDeadline(LeaseMax),
              !.pending = {}]
Grant(m, t) ==
    [m EXCEPT !.active = t,
              !.generation = @ + 1,
              !.granted[t] = m.generation + 1,
              !.hard = LeaseMax,
              !.ttl = IdleDeadline(LeaseMax),
              !.pending = {}]

Unexpired(m) == {t \in m.queue : m.wait[t] > 0}

IsFirst(t, S) == t \in S /\ \A u \in S : t <= u

(* grantNext shifts the queue until a request that did not expire in it is *)
(* found, and grants that one; what is behind it stays.                    *)
GrantWithoutShift(m) ==
    IF Unexpired(m) = {}
    THEN [m EXCEPT !.queue = {}]
    ELSE LET t == CHOOSE u \in Unexpired(m) : IsFirst(u, Unexpired(m))
         IN  Grant([m EXCEPT !.queue = {u \in @ : u >= t}], t)
GrantNextOnce(m) ==
    IF m.queue = {}
    THEN m
    ELSE LET t == CHOOSE u \in m.queue : IsFirst(u, m.queue)
             rest == [m EXCEPT !.queue = @ \ {t}]
         IN  IF m.wait[t] > 0 THEN Grant(rest, t) ELSE rest
GrantNext(m) ==
    IF Unexpired(m) = {}
    THEN [m EXCEPT !.queue = {}]
    ELSE LET t == CHOOSE u \in Unexpired(m) : IsFirst(u, Unexpired(m))
         IN  Grant([m EXCEPT !.queue = {u \in @ : u > t}], t)

ReleaseActive(m, t) ==
    IF m.active # t
    THEN m
    ELSE GrantNext([m EXCEPT !.active = NoTicket, !.cache[t] = <<>>])

Fence(m, t, expired) ==
    [m EXCEPT !.fenced = @ \cup {t},
              !.pending = IF expired THEN @ \cup {"expired"} ELSE @,
              !.cache[t] = <<>>]

ReleaseAtOnce(m, t) == ReleaseActive(m, t)
ReleaseIfIdle(m, t) == IF m.busy[t] = 0 THEN ReleaseActive(m, t) ELSE m

(* What reap and the lease timer do to a lease whose deadline has passed.  *)
Expire(m, t) == ReleaseIfIdle(Fence(m, t, TRUE), t)

(* reap: the first thing every operation of the manager does.              *)
Reap(m) ==
    LET r == [m EXCEPT !.queue = Unexpired(m)]
    IN  IF r.active # NoTicket /\ r.ttl = 0
        THEN Expire(r, r.active)
        ELSE r

(* validateCurrent and beginCall accept token t in the manager state m     *)
(* that reap left.  (Their second look at the clock finds what reap found, *)
(* as both happen at one instant.)                                         *)
ValidUnlessFenced(m, t) == m.granted[t] > 0 /\ t \notin m.fenced
Valid(m, t) == t = m.active /\ t \notin m.fenced

TouchLease(m) ==
    [m EXCEPT !.ttl = IdleDeadline(m.hard),
              !.pending = @ \ {"expired"}]

(* release, once the token is accepted.                                    *)
ReleaseValid(m, t) ==
    ReleaseIfIdle(Fence([m EXCEPT !.pending = @ \cup {"release"}], t, FALSE), t)

(* endCall: the last call of a lease that may no longer be used ends it.   *)
EndCallIfExpired(m, t) ==
    LET e == [m EXCEPT !.busy[t] = IF @ > 0 THEN @ - 1 ELSE 0]
    IN  IF e.active = t /\ e.busy[t] = 0 /\ e.ttl = 0 THEN ReleaseActive(e, t) ELSE e
EndCall(m, t) ==
    LET e == [m EXCEPT !.busy[t] = IF @ > 0 THEN @ - 1 ELSE 0]
    IN  IF e.active = t /\ e.busy[t] = 0 /\ (t \in e.fenced \/ e.ttl = 0)
        THEN ReleaseActive(e, t)
        ELSE e

Cached(m, t, id) == \E i \in 1..Len(m.cache[t]) : m.cache[t][i].id = id

(* The cache has the successful outcome of this very operation.            *)
ReplayableByKey(m, t, id, args) ==
    \E i \in 1..Len(m.cache[t]) :
        m.cache[t][i].id = id /\ m.cache[t][i].outcome = "success"
Replayable(m, t, id, args) ==
    \E i \in 1..Len(m.cache[t]) :
        m.cache[t][i] = [id |-> id, args |-> args, outcome |-> "success"]

(* cacheOperation: a new key first evicts the oldest one of a full cache.  *)
(* A key that is cached already keeps its place.                           *)
CacheOperationShort(m, t, entry) ==
    LET s == m.cache[t]
    IN  [m EXCEPT !.cache[t] =
            Append(IF Len(s) + 1 >= MaxCached THEN Tail(s) ELSE s, entry)]
CacheOperation(m, t, entry) ==
    LET s == m.cache[t]
        kept == IF Len(s) >= MaxCached THEN Tail(s) ELSE s
    IN  [m EXCEPT !.cache[t] =
            IF Cached(m, t, entry.id)
            THEN [i \in 1..Len(s) |-> IF s[i].id = entry.id THEN entry ELSE s[i]]
            ELSE Append(kept, entry)]

-----------------------------------------------------------------------------
(* The calls.  idle: not made yet; chained: behind the calls its lease     *)
(* made before; driving: sent to Playwright, whose answer is awaited, then *)
(* success or uncertain; replaying: answered from the operation cache, then *)
(* replayed; refusing: refused because of the cache, then refused;         *)
(* rejected: its turn came when its token was no longer valid.             *)
SentStages == {"driving", "success", "uncertain"}
FlightStages == {"driving", "replaying", "refusing"}
SettledStages == {"success", "uncertain", "replayed", "refused", "rejected"}
Stages == {"idle", "chained"} \cup FlightStages \cup SettledStages

InFlight(c) == calls[c].stage \in FlightStages
Settled(c) == calls[c].stage \in SettledStages

CallRecords == [lease : Tickets \cup {NoTicket},
                id : OpIds \cup {NoOp},
                args : Args \cup {NoOp},
                stage : Stages]

(* The promise chain of a lease: a call runs once all before it settled.   *)
Turn(c) == \A d \in 1..(c - 1) : calls[d].lease = calls[c].lease => Settled(d)

HoldsKey(m, t, k) == (t = m.active \/ t \in m.queue) /\ requestKey[t] = k

(* The active lease or a queued request was asked for with request_key k.  *)
KnownKeyOfActive(m, k) == k # NoKey /\ \E t \in Tickets : t = m.active /\ requestKey[t] = k
KnownKey(m, k) == k # NoKey /\ \E t \in Tickets : HoldsKey(m, t, k)

Init ==
    /\ mgr = [active |-> NoTicket,
              queue |-> {},
              wait |-> [t \in Tickets |-> 0],
              generation |-> 0,
              granted |-> [t \in Tickets |-> 0],
              ttl |-> 0,
              hard |-> 0,
              pending |-> {},
              fenced |-> {},
              busy |-> [t \in Tickets |-> 0],
              cache |-> [t \in Tickets |-> <<>>]]
    /\ issued = 0
    /\ requestKey = [t \in Tickets |-> NoKey]
    /\ made = 0
    /\ calls = [c \in CallIds |-> [lease |-> NoTicket, id |-> NoOp,
                                   args |-> NoOp, stage |-> "idle"]]

(* openlia_browser_session_request: the ticket that holds the key already, *)
(* or a new ticket, granted at once when nobody holds or awaits the        *)
(* browser.                                                                *)
Request(k) ==
    LET m == Reap(mgr)
        t == issued + 1
    IN  \/ /\ KnownKey(m, k)
           /\ mgr' = m
           /\ UNCHANGED <<issued, requestKey, made, calls>>
        \/ /\ ~KnownKey(m, k)
           /\ issued < MaxTickets
           /\ issued' = t
           /\ requestKey' = [requestKey EXCEPT ![t] = k]
           /\ mgr' = IF m.active = NoTicket /\ m.queue = {}
                     THEN Grant(m, t)
                     ELSE [m EXCEPT !.queue = @ \cup {t}, !.wait[t] = QueueTtl]
           /\ UNCHANGED <<made, calls>>

(* openlia_browser_session_status and GET /health: they reap and report.   *)
(* So does every operation that throws because of the token it was given.  *)
Status ==
    /\ mgr' = Reap(mgr)
    /\ UNCHANGED <<issued, requestKey, made, calls>>

(* openlia_browser_session_touch with the token of lease t.                *)
Touch(t) ==
    LET m == Reap(mgr)
    IN  /\ Valid(m, t)
        /\ mgr' = TouchLease(m)
        /\ UNCHANGED <<issued, requestKey, made, calls>>

(* openlia_browser_session_release with the token of lease t.              *)
Release(t) ==
    LET m == Reap(mgr)
    IN  /\ Valid(m, t)
        /\ mgr' = ReleaseValid(m, t)
        /\ UNCHANGED <<issued, requestKey, made, calls>>

(* openlia_browser_session_cancel of a ticket: an active one is released   *)
(* with its own token, a waiting one leaves the queue.  (With a lease, it  *)
(* is a Release.)                                                          *)
Cancel(t) ==
    LET m == Reap(mgr)
    IN  /\ \/ Valid(m, t) /\ mgr' = ReleaseValid(m, t)
           \/ t \in m.queue /\ mgr' = [m EXCEPT !.queue = @ \ {t}]
        /\ UNCHANGED <<issued, requestKey, made, calls>>

(* A downstream tool call with the token of lease t: withCall validates    *)
(* the token and chains the call.                                          *)
MakeCall(t, id, args) ==
    LET m == Reap(mgr)
        c == made + 1
    IN  /\ Valid(m, t)
        /\ made < MaxCalls
        /\ made' = c
        /\ calls' = [calls EXCEPT ![c] = [lease |-> t, id |-> id, args |-> args,
                                          stage |-> "chained"]]
        /\ mgr' = m
        /\ UNCHANGED <<issued, requestKey>>

(* The call's turn has come.  beginCall validates the token again; then    *)
(* runMutating answers a known operation from the cache (the result of a   *)
(* success, an error for other arguments or an uncertain outcome), and     *)
(* everything else is sent to Playwright.                                  *)
BeginCall(c) ==
    LET m == Reap(mgr)
        t == calls[c].lease
        id == calls[c].id
    IN  /\ calls[c].stage = "chained"
        /\ Turn(c)
        /\ \/ /\ ~Valid(m, t)
              /\ mgr' = m
              /\ calls' = [calls EXCEPT ![c].stage = "rejected"]
           \/ /\ Valid(m, t)
              /\ mgr' = TouchLease([m EXCEPT !.busy[t] = @ + 1])
              /\ calls' = [calls EXCEPT ![c].stage =
                    IF id = NoOp \/ ~Cached(m, t, id) THEN "driving"
                    ELSE IF Replayable(m, t, id, calls[c].args) THEN "replaying"
                    ELSE "refusing"]
        /\ UNCHANGED <<issued, requestKey, made>>

(* The call is over: Playwright answered, or answered with isError, or the *)
(* call failed, was aborted or met its 90 s timeout (both uncertain), or   *)
(* it needed no answer.  runMutating caches the outcome of what was sent,  *)
(* then endCall runs.                                                      *)
FinishCall(c, outcome) ==
    LET t == calls[c].lease
        id == calls[c].id
        entry == [id |-> id, args |-> calls[c].args, outcome |-> outcome]
        sent == calls[c].stage = "driving"
    IN  /\ InFlight(c)
        /\ mgr' = EndCall(IF sent /\ id # NoOp THEN CacheOperation(mgr, t, entry)
                          ELSE mgr, t)
        /\ calls' = [calls EXCEPT ![c].stage =
                IF sent THEN outcome ELSE IF @ = "replaying" THEN "replayed" ELSE "refused"]
        /\ UNCHANGED <<issued, requestKey, made>>

(* expireActive, the timer of the active lease.  Fired early it re-arms    *)
(* itself, and fired for a fenced or former lease it does nothing.         *)
ExpireActive ==
    /\ mgr.active # NoTicket
    /\ mgr.active \notin mgr.fenced
    /\ mgr.ttl = 0
    /\ mgr' = Expire(mgr, mgr.active)
    /\ UNCHANGED <<issued, requestKey, made, calls>>

(* expireQueued, the timer of a waiting request.                           *)
ExpireQueued(t) ==
    /\ t \in mgr.queue
    /\ mgr.wait[t] = 0
    /\ mgr' = [mgr EXCEPT !.queue = @ \ {t}]
    /\ UNCHANGED <<issued, requestKey, made, calls>>

(* Time passes.                                                            *)
Tick ==
    LET down(left) == IF left > 0 THEN left - 1 ELSE 0
    IN  /\ mgr' = [mgr EXCEPT !.wait = [t \in Tickets |-> down(mgr.wait[t])],
                              !.ttl = down(@),
                              !.hard = down(@)]
        /\ UNCHANGED <<issued, requestKey, made, calls>>

Next ==
    \/ \E k \in RequestKeys \cup {NoKey} : Request(k)
    \/ Status
    \/ \E t \in Tickets : Touch(t) \/ Release(t) \/ Cancel(t) \/ ExpireQueued(t)
    \/ \E t \in Tickets, id \in OpIds \cup {NoOp}, args \in Args : MakeCall(t, id, args)
    \/ \E c \in CallIds : BeginCall(c)
    \/ \E c \in CallIds, outcome \in {"success", "uncertain"} : FinishCall(c, outcome)
    \/ ExpireActive
    \/ Tick

(* The event loop runs every promise continuation and every lease timer    *)
(* that is due, a downstream call ends within its timeout, and time        *)
(* passes.  Nothing is assumed of clients, nor of the queue timers.        *)
Fairness ==
    /\ WF_vars(Tick)
    /\ WF_vars(ExpireActive)
    /\ \A c \in CallIds : WF_vars(BeginCall(c))
    /\ \A c \in CallIds : WF_vars(\E outcome \in {"success", "uncertain"} :
                                      FinishCall(c, outcome))

Spec == Init /\ [][Next]_vars
FairSpec == Spec /\ Fairness

-----------------------------------------------------------------------------
TypeOK ==
    /\ mgr \in Managers
    /\ issued \in 0..MaxTickets
    /\ requestKey \in [Tickets -> RequestKeys \cup {NoKey}]
    /\ made \in 0..MaxCalls
    /\ calls \in [CallIds -> CallRecords]

(* The shared browser has one driver: at most one call is in flight, and   *)
(* it belongs to the lease that is active, even when that lease expired or *)
(* was released while the call was running (releaseActive waits for        *)
(* activeCalls to reach 0 in reap, release, expireActive and endCall).     *)
OneDriver ==
    \A c \in CallIds : InFlight(c) =>
        /\ calls[c].lease = mgr.active
        /\ \A d \in CallIds : InFlight(d) => d = c

(* Nobody waits for a free browser: every path that ends a lease grants    *)
(* the next request that is still waiting (releaseActive, grantNext).      *)
NeverIdleWhileWaiting == mgr.active = NoTicket => mgr.queue = {}

(* A fenced lease keeps the browser only while a call of it is in flight,  *)
(* whose endCall will hand it over, and health() says why it is pending.   *)
FencedLeaseDrains ==
    mgr.active \in mgr.fenced =>
        /\ \E c \in CallIds : InFlight(c) /\ calls[c].lease = mgr.active
        /\ mgr.pending # {}

(* "queued workflows are granted in FIFO order": generation numbers follow *)
(* the order of the requests, and a ticket still waiting asked later than  *)
(* every one that was granted.                                             *)
FifoGrants ==
    \A t, u \in Tickets : t < u /\ mgr.granted[u] > 0 =>
        /\ mgr.granted[t] < mgr.granted[u]
        /\ t \notin mgr.queue

(* A client that repeats a request with its request_key never holds two    *)
(* places: at most one ticket with that key is active or waiting.          *)
OnePlacePerKey ==
    \A t, u \in Tickets : \A k \in RequestKeys :
        HoldsKey(mgr, t, k) /\ HoldsKey(mgr, u, k) => t = u

(* An operation_id is sent to Playwright once per lease, until MaxCached   *)
(* other operations have pushed it out of the lease's bounded cache.       *)
SentOps(t) == {calls[c].id : c \in {d \in CallIds :
                  calls[d].lease = t /\ calls[d].stage \in SentStages}} \ {NoOp}
SentOnce ==
    \A c, d \in CallIds :
        /\ c # d
        /\ calls[c].id # NoOp
        /\ calls[c].id = calls[d].id
        /\ calls[c].lease = calls[d].lease
        /\ calls[c].stage \in SentStages
        /\ calls[d].stage \in SentStages
        => Cardinality(SentOps(calls[c].lease)) > MaxCached

(* A replayed answer is the answer of an earlier call of the same lease    *)
(* with the same operation_id and arguments, which succeeded; an uncertain *)
(* outcome is never replayed as a success.                                 *)
ReplaysAreExact ==
    \A c \in CallIds : calls[c].stage \in {"replaying", "replayed"} =>
        \E d \in 1..(c - 1) :
            /\ calls[d].stage = "success"
            /\ calls[d].lease = calls[c].lease
            /\ calls[d].id = calls[c].id
            /\ calls[d].args = calls[c].args

(* "A lease is fenced after expiry or release so stale workflow calls      *)
(* cannot continue using the shared browser": no call starts under a lease *)
(* that is not the active one, is fenced, or whose idle or hard deadline   *)
(* has passed, however long ago its token was accepted by withCall.        *)
StaleCallsRefused ==
    [][\A c \in CallIds : ~InFlight(c) /\ InFlight(c)' =>
        /\ calls[c].lease = mgr.active
        /\ mgr.active \notin mgr.fenced
        /\ mgr.ttl > 0
        /\ mgr.hard > 0]_vars

(* The relay implements the turn taking of TurnTaking.tla: the browser     *)
(* changes hands only while no call is in flight, straight from one lease  *)
(* to the first request still in line, and a step that reaps, releases,    *)
(* grants and queues at once is one such turn.                             *)
Turns == INSTANCE TurnTaking WITH
            holder <- mgr.active,
            waiting <- mgr.queue,
            asked <- issued,
            using <- \E c \in CallIds : InFlight(c)
TakesTurns == Turns!TurnSpec

(* A ticket is granted once, a lease that lost the browser never gets it   *)
(* back, and a fenced one is never usable again: no later step revives a   *)
(* token.                                                                  *)
LeasesEndForGood ==
    [][\A t \in Tickets :
        /\ mgr.granted[t] > 0 => mgr'.granted[t] = mgr.granted[t]
        /\ mgr.granted[t] > 0 /\ mgr.active # t => mgr.active' # t
        /\ t \in mgr.fenced => t \in mgr'.fenced]_vars

(* Nobody keeps the browser for ever: touches and calls cannot extend a    *)
(* lease past its hard maximum, and the call in flight then ends.          *)
EveryLeaseEnds ==
    \A t \in Tickets : mgr.active = t ~> mgr.active # t

(* Every waiting request is granted, expires or is cancelled, whether or   *)
(* not its own queue timer ever removes it.                                *)
EveryRequestLeavesTheQueue ==
    \A t \in Tickets : t \in mgr.queue ~> t \notin mgr.queue

-----------------------------------------------------------------------------
(* The inductive invariant.  What holds of the manager once n tickets were *)
(* issued, whether or not the browser was just given up: only granted      *)
(* leases are active or fenced, waiting tickets are not granted yet and    *)
(* asked after every granted one, and only the active lease is busy.       *)
Consistent(m, n) ==
    /\ m \in Managers
    /\ m.active <= n
    /\ \A t \in m.queue : t <= n /\ m.granted[t] = 0
    /\ \A t \in Tickets : m.granted[t] > 0 => t <= n
    /\ \A t \in Tickets : m.granted[t] <= m.generation
    /\ \A t, u \in Tickets : t < u /\ m.granted[u] > 0 =>
            m.granted[t] < m.granted[u] /\ t \notin m.queue
    /\ \A t \in m.fenced : m.granted[t] > 0
    /\ m.active # NoTicket => m.granted[m.active] > 0
    /\ \A t \in Tickets : m.busy[t] > 0 => t = m.active
    /\ m.ttl <= m.hard

(* What holds between the operations of the manager.                       *)
MgrInv(m, n) ==
    /\ Consistent(m, n)
    /\ m.active = NoTicket => m.queue = {}
    /\ m.active \in m.fenced => m.busy[m.active] > 0 /\ m.pending # {}

(* A call in flight is counted by its lease and counted once, those before *)
(* it in its chain have settled, and a busy lease has one.                 *)
CallInv ==
    /\ \A c \in CallIds : calls[c].stage = "idle" <=> c > made
    /\ \A c \in CallIds : calls[c].stage # "idle" =>
            /\ calls[c].lease \in Tickets
            /\ calls[c].args \in Args
            /\ mgr.granted[calls[c].lease] > 0
    /\ \A c \in CallIds : InFlight(c) =>
            Turn(c) /\ mgr.busy[calls[c].lease] = 1
    /\ \A t \in Tickets : mgr.busy[t] > 0 =>
            \E c \in CallIds : InFlight(c) /\ calls[c].lease = t

(* What makes OneDriver, NeverIdleWhileWaiting, FencedLeaseDrains,         *)
(* FifoGrants and OnePlacePerKey hold after every operation, timer and     *)
(* call step of the manager.                                               *)
IInv == TypeOK /\ MgrInv(mgr, issued) /\ CallInv /\ OnePlacePerKey
=============================================================================
