------------------------- MODULE BrowserLeaseProofs -------------------------
(***************************************************************************)
(* Proofs about the lease manager of the browser relay.  Each operation of *)
(* the manager is a composition of a few operators on its state, so the    *)
(* first half is one lemma per operator: given a consistent manager, it    *)
(* returns one, and it leaves alone the fields that matter to the calls.   *)
(***************************************************************************)
EXTENDS BrowserLease, FiniteSetTheorems, WellFoundedInduction, TLAPS

(* A non-empty set of tickets has an oldest one: what grantNext finds.     *)
LEMMA FirstExists ==
    ASSUME NEW S \in SUBSET Tickets, S # {}
    PROVE  \E t \in S : IsFirst(t, S)
<1>1. S \in SUBSET Nat
  BY BoundsAssumption DEF Tickets
<1>2. PICK x \in S : \A y \in S : ~(<<y, x>> \in OpToRel(<, Nat))
  BY <1>1, NatLessThanWellFounded, WFMin
<1>3. \A y \in S : ~(y < x)
  BY <1>1, <1>2 DEF OpToRel
<1> QED
  BY <1>1, <1>3 DEF IsFirst

(* The idle deadline never lies behind the hard one.                       *)
LEMMA IdleDeadlineBounds ==
    ASSUME NEW h \in 0..LeaseMax
    PROVE  IdleDeadline(h) \in 0..LeaseMax /\ IdleDeadline(h) <= h
BY TimesAssumption DEF IdleDeadline, Min2

LEMMA GrantType ==
    ASSUME NEW m \in Managers, NEW t \in Tickets
    PROVE  Grant(m, t) \in Managers
<1>1. IdleDeadline(LeaseMax) \in 0..LeaseMax /\ LeaseMax \in 0..LeaseMax
  BY TimesAssumption, IdleDeadlineBounds
<1>2. m.generation + 1 \in Nat
  BY DEF Managers
<1>3. \A k \in Nat, d, h \in 0..LeaseMax :
          [m EXCEPT !.active = t, !.generation = k, !.granted[t] = k,
                    !.hard = h, !.ttl = d, !.pending = {}] \in Managers
  BY DEF Managers
<1> QED
  BY <1>1, <1>2, <1>3 DEF Grant

(* Granting the free browser to the oldest request nobody behind it        *)
(* overtook keeps the manager consistent.                                  *)
LEMMA GrantKeeps ==
    ASSUME NEW m, NEW n \in 0..MaxTickets, NEW t \in Tickets,
           Consistent(m, n),
           m.active = NoTicket,
           t <= n,
           m.granted[t] = 0,
           \A u \in Tickets : m.granted[u] > 0 => u < t,
           \A u \in m.queue : u > t
    PROVE  MgrInv(Grant(m, t), n)
<1> DEFINE g == Grant(m, t)
<1>1. m \in Managers /\ g \in Managers
  BY GrantType DEF Consistent
<1>2. /\ g.active = t
      /\ g.queue = m.queue
      /\ g.generation = m.generation + 1
      /\ g.granted = [m.granted EXCEPT ![t] = m.generation + 1]
      /\ g.fenced = m.fenced
      /\ g.busy = m.busy
      /\ g.hard = LeaseMax
      /\ g.ttl = IdleDeadline(LeaseMax)
  BY <1>1 DEF Grant, Managers
<1>3. g.ttl <= g.hard
  BY <1>2, IdleDeadlineBounds, TimesAssumption
<1>4. t \notin m.fenced
  BY DEF Consistent
<1>5. m.generation \in Nat /\ m.granted \in [Tickets -> Nat] /\ m.queue \subseteq Tickets
  BY <1>1 DEF Managers
<1>6. Tickets \subseteq Nat /\ NoTicket \notin Tickets
  BY BoundsAssumption DEF Tickets, NoTicket
<1> HIDE DEF g
<1>7. \A u \in Tickets : g.granted[u] = IF u = t THEN m.generation + 1 ELSE m.granted[u]
  BY <1>2, <1>5
<1>8. \A u, v \in Tickets : u < v /\ g.granted[v] > 0 =>
            g.granted[u] < g.granted[v] /\ u \notin g.queue
  BY <1>2, <1>5, <1>6, <1>7 DEF Consistent
<1>9. \A u \in Tickets : m.busy[u] \in Nat /\ ~(m.busy[u] > 0)
  BY <1>1, <1>6 DEF Consistent, Managers
<1>10. Consistent(g, n)
  BY <1>1, <1>2, <1>3, <1>4, <1>5, <1>6, <1>7, <1>8, <1>9 DEF Consistent
<1> QED
  BY <1>2, <1>4, <1>6, <1>10 DEF MgrInv, g

(* grantNext, called with the browser free, leaves it free only when       *)
(* nobody waits any more.                                                  *)
LEMMA GrantNextKeeps ==
    ASSUME NEW m, NEW n \in 0..MaxTickets,
           Consistent(m, n), m.active = NoTicket
    PROVE  /\ MgrInv(GrantNext(m), n)
           /\ GrantNext(m).busy = m.busy
           /\ \A t \in Tickets : m.granted[t] > 0 =>
                GrantNext(m).granted[t] = m.granted[t] /\ GrantNext(m).active # t
           /\ GrantNext(m).fenced = m.fenced
           /\ GrantNext(m).queue \subseteq m.queue
           /\ GrantNext(m).active \in {NoTicket} \cup m.queue
           /\ GrantNext(m).active \notin GrantNext(m).fenced
<1>1. m \in Managers /\ Tickets \subseteq Nat /\ NoTicket \notin Tickets
  BY BoundsAssumption DEF Consistent, Tickets, NoTicket
<1>2. CASE Unexpired(m) = {}
  <2>1. GrantNext(m) = [m EXCEPT !.queue = {}]
    BY <1>2 DEF GrantNext
  <2>2. [m EXCEPT !.queue = {}] \in Managers
    BY <1>1 DEF Managers
  <2> DEFINE e == [m EXCEPT !.queue = {}]
  <2>3. /\ e.active = m.active /\ e.queue = {} /\ e.generation = m.generation
        /\ e.granted = m.granted /\ e.ttl = m.ttl /\ e.hard = m.hard
        /\ e.fenced = m.fenced /\ e.busy = m.busy
    BY <1>1 DEF Managers
  <2>4. Consistent(e, n)
    <3> HIDE DEF e
    <3> QED
      BY <2>2, <2>3 DEF Consistent, e
  <2>5. NoTicket \notin m.fenced
    BY <1>1 DEF Managers
  <2> HIDE DEF e
  <2> QED
    BY <1>1, <2>1, <2>3, <2>4, <2>5 DEF MgrInv, e
<1>3. CASE Unexpired(m) # {}
  <2> DEFINE t == CHOOSE u \in Unexpired(m) : IsFirst(u, Unexpired(m))
             e == [m EXCEPT !.queue = {u \in m.queue : u > t}]
  <2>1. GrantNext(m) = Grant(e, t)
    BY <1>3 DEF GrantNext
  <2>2. Unexpired(m) \subseteq m.queue /\ m.queue \subseteq Tickets
    BY <1>1 DEF Unexpired, Managers
  <2>3. t \in m.queue /\ t \in Tickets
    BY <1>3, <2>2, FirstExists DEF IsFirst
  <2> HIDE DEF t
  <2>4. e \in Managers
    BY <1>1, <2>2 DEF Managers
  <2>5. /\ e.active = m.active /\ e.queue = {u \in m.queue : u > t}
        /\ e.generation = m.generation
        /\ e.granted = m.granted /\ e.ttl = m.ttl /\ e.hard = m.hard
        /\ e.fenced = m.fenced /\ e.busy = m.busy
    BY <1>1 DEF Managers
  <2> HIDE DEF e
  <2>6. Consistent(e, n)
    BY <2>4, <2>5 DEF Consistent
  <2>7. t <= n /\ m.granted[t] = 0
    BY <2>3 DEF Consistent
  <2>8. m.granted \in [Tickets -> Nat]
    BY <1>1 DEF Managers
  <2>9. \A u \in Tickets : m.granted[u] > 0 => u < t
    BY <1>1, <2>3, <2>7, <2>8 DEF Consistent
  <2>10. MgrInv(Grant(e, t), n)
    BY <2>3, <2>5, <2>6, <2>7, <2>9, GrantKeeps
  <2>11. /\ Grant(e, t).active = t /\ Grant(e, t).queue = e.queue
         /\ Grant(e, t).granted = [e.granted EXCEPT ![t] = e.generation + 1]
         /\ Grant(e, t).fenced = e.fenced /\ Grant(e, t).busy = e.busy
    BY <2>4 DEF Grant, Managers
  <2>12. t \notin m.fenced
    BY <2>7 DEF Consistent
  <2> QED
    BY <2>1, <2>3, <2>5, <2>7, <2>8, <2>10, <2>11, <2>12
<1> QED
  BY <1>2, <1>3

(* What the operators below never do between a manager m and its           *)
(* successor r: they start no call, ungrant nothing, unfence nothing, let  *)
(* nobody into the queue, and give the browser only to somebody in it.     *)
Follows(m, r) ==
    /\ r.busy = m.busy
    /\ \A t \in Tickets : m.granted[t] > 0 => r.granted[t] = m.granted[t]
    /\ \A t \in Tickets : m.granted[t] > 0 /\ m.active # t => r.active # t
    /\ m.fenced \subseteq r.fenced
    /\ r.queue \subseteq m.queue
    /\ r.active \in {m.active, NoTicket} \cup m.queue

LEMMA FollowsTrans ==
    ASSUME NEW m, NEW r, NEW s, NEW n, Consistent(m, n), Consistent(r, n),
           Follows(m, r), Follows(r, s)
    PROVE  Follows(m, s)
BY DEF Follows, Consistent, Managers

(* releaseActive of the active lease, when no call of it is in flight.     *)
LEMMA ReleaseActiveKeeps ==
    ASSUME NEW m, NEW n \in 0..MaxTickets, NEW t \in Tickets,
           Consistent(m, n), m.active = t, m.busy[t] = 0
    PROVE  /\ MgrInv(ReleaseActive(m, t), n)
           /\ Follows(m, ReleaseActive(m, t))
           /\ ReleaseActive(m, t).active # t
           /\ ReleaseActive(m, t).active \notin ReleaseActive(m, t).fenced
<1> DEFINE e == [m EXCEPT !.active = NoTicket, !.cache[t] = <<>>]
<1>1. m \in Managers /\ Tickets \subseteq Nat /\ NoTicket \notin Tickets /\ NoTicket = 0
  BY BoundsAssumption DEF Consistent, Tickets, NoTicket
<1>2. e \in Managers
  <2>1. <<>> \in Seq(CacheEntries)
    OBVIOUS
  <2>2. \A s \in Seq(CacheEntries) :
            [m EXCEPT !.active = NoTicket, !.cache[t] = s] \in Managers
    BY <1>1 DEF Managers
  <2> QED
    BY <2>1, <2>2
<1>3. /\ e.active = NoTicket /\ e.queue = m.queue /\ e.generation = m.generation
      /\ e.granted = m.granted /\ e.ttl = m.ttl /\ e.hard = m.hard
      /\ e.fenced = m.fenced /\ e.busy = m.busy
  BY <1>1 DEF Managers
<1>4. ReleaseActive(m, t) = GrantNext(e)
  BY DEF ReleaseActive
<1> HIDE DEF e
<1>5. \A u \in Tickets : m.busy[u] \in Nat /\ ~(m.busy[u] > 0)
  BY <1>1 DEF Consistent, Managers
<1>6. Consistent(e, n)
  BY <1>1, <1>2, <1>3, <1>5 DEF Consistent
<1>7. m.granted[t] > 0
  BY <1>1 DEF Consistent
<1> QED
  BY <1>1, <1>3, <1>4, <1>6, <1>7, GrantNextKeeps DEF Follows

LEMMA FenceKeeps ==
    ASSUME NEW m, NEW n \in 0..MaxTickets, NEW t \in Tickets, NEW x \in BOOLEAN,
           Consistent(m, n), m.active = t
    PROVE  /\ Consistent(Fence(m, t, x), n)
           /\ Follows(m, Fence(m, t, x))
           /\ Fence(m, t, x).active = t
           /\ Fence(m, t, x).queue = m.queue
           /\ Fence(m, t, x).busy = m.busy
           /\ Fence(m, t, x).granted = m.granted
           /\ t \in Fence(m, t, x).fenced
           /\ x \/ m.pending # {} => Fence(m, t, x).pending # {}
<1> DEFINE f == Fence(m, t, x)
<1>1. m \in Managers /\ Tickets \subseteq Nat /\ NoTicket \notin Tickets
  BY BoundsAssumption DEF Consistent, Tickets, NoTicket
<1>2. f \in Managers
  <2>1. <<>> \in Seq(CacheEntries)
    OBVIOUS
  <2>2. m.fenced \cup {t} \in SUBSET Tickets
    BY <1>1 DEF Managers
  <2>3. (IF x THEN m.pending \cup {"expired"} ELSE m.pending) \in SUBSET {"expired", "release"}
    BY <1>1 DEF Managers
  <2>4. \A s \in Seq(CacheEntries), g \in SUBSET Tickets, q \in SUBSET {"expired", "release"} :
            [m EXCEPT !.fenced = g, !.pending = q, !.cache[t] = s] \in Managers
    BY <1>1 DEF Managers
  <2> QED
    BY <2>1, <2>2, <2>3, <2>4 DEF Fence
<1>3. /\ f.active = m.active /\ f.queue = m.queue /\ f.generation = m.generation
      /\ f.granted = m.granted /\ f.ttl = m.ttl /\ f.hard = m.hard
      /\ f.fenced = m.fenced \cup {t} /\ f.busy = m.busy
      /\ f.pending = IF x THEN m.pending \cup {"expired"} ELSE m.pending
  BY <1>1 DEF Managers, Fence
<1>4. m.granted[t] > 0
  BY <1>1 DEF Consistent
<1> HIDE DEF f
<1>5. Consistent(f, n)
  BY <1>1, <1>2, <1>3, <1>4 DEF Consistent
<1>6. Follows(m, f)
  BY <1>3 DEF Follows
<1> QED
  BY <1>3, <1>5, <1>6 DEF f

(* A fenced lease that says why is handed over now or when its call ends.  *)
LEMMA ReleaseIfIdleKeeps ==
    ASSUME NEW m, NEW n \in 0..MaxTickets, NEW t \in Tickets,
           Consistent(m, n), m.active = t, t \in m.fenced, m.pending # {}
    PROVE  /\ MgrInv(ReleaseIfIdle(m, t), n)
           /\ Follows(m, ReleaseIfIdle(m, t))
           /\ ~Valid(ReleaseIfIdle(m, t), t)
<1>1. NoTicket \notin Tickets /\ m.busy[t] \in Nat
  BY BoundsAssumption DEF Tickets, NoTicket, Consistent, Managers
<1>2. CASE m.busy[t] = 0
  BY <1>2, ReleaseActiveKeeps DEF ReleaseIfIdle, Valid
<1>3. CASE m.busy[t] > 0
  <2>1. ReleaseIfIdle(m, t) = m
    BY <1>3 DEF ReleaseIfIdle
  <2>2. MgrInv(m, n) /\ Follows(m, m)
    BY <1>1, <1>3 DEF MgrInv, Follows
  <2> QED
    BY <2>1, <2>2 DEF Valid
<1> QED
  BY <1>1, <1>2, <1>3

LEMMA ExpireKeeps ==
    ASSUME NEW m, NEW n \in 0..MaxTickets, NEW t \in Tickets,
           Consistent(m, n), m.active = t
    PROVE  /\ MgrInv(Expire(m, t), n)
           /\ Follows(m, Expire(m, t))
           /\ ~Valid(Expire(m, t), t)
<1> DEFINE f == Fence(m, t, TRUE)
<1>1. /\ Consistent(f, n) /\ Follows(m, f) /\ f.active = t
      /\ t \in f.fenced /\ f.pending # {}
  BY FenceKeeps
<1>2. Expire(m, t) = ReleaseIfIdle(f, t)
  BY DEF Expire
<1> HIDE DEF f
<1>3. MgrInv(ReleaseIfIdle(f, t), n) /\ Follows(f, ReleaseIfIdle(f, t)) /\ ~Valid(ReleaseIfIdle(f, t), t)
  BY <1>1, ReleaseIfIdleKeeps
<1> QED
  BY <1>1, <1>2, <1>3, FollowsTrans DEF MgrInv

(* reap keeps the invariant, and what it leaves valid was valid and had    *)
(* time left, or was waiting.                                              *)
LEMMA ReapKeeps ==
    ASSUME NEW m, NEW n \in 0..MaxTickets, MgrInv(m, n)
    PROVE  /\ MgrInv(Reap(m), n)
           /\ Follows(m, Reap(m))
           /\ \A t \in Tickets : Valid(Reap(m), t) /\ m.granted[t] > 0 =>
                m.active = t /\ m.ttl > 0 /\ t \notin m.fenced
<1> DEFINE r == [m EXCEPT !.queue = Unexpired(m)]
<1>1. m \in Managers /\ Tickets \subseteq Nat /\ NoTicket \notin Tickets /\ Consistent(m, n)
  BY BoundsAssumption DEF MgrInv, Consistent, Tickets, NoTicket
<1>2. Unexpired(m) \subseteq m.queue /\ m.queue \subseteq Tickets
  BY <1>1 DEF Unexpired, Managers
<1>3. r \in Managers
  BY <1>1, <1>2 DEF Managers
<1>4. /\ r.active = m.active /\ r.queue = Unexpired(m) /\ r.generation = m.generation
      /\ r.granted = m.granted /\ r.ttl = m.ttl /\ r.hard = m.hard
      /\ r.fenced = m.fenced /\ r.busy = m.busy /\ r.pending = m.pending
  BY <1>1 DEF Managers
<1>5. Reap(m) = IF r.active # NoTicket /\ r.ttl = 0 THEN Expire(r, r.active) ELSE r
  BY DEF Reap
<1> HIDE DEF r
<1>6. Consistent(r, n)
  BY <1>1, <1>2, <1>3, <1>4 DEF Consistent
<1>7. MgrInv(r, n)
  BY <1>1, <1>2, <1>4, <1>6 DEF MgrInv
<1>8. Follows(m, r)
  BY <1>2, <1>4 DEF Follows
<1>9. CASE r.active # NoTicket /\ r.ttl = 0
  <2>1. r.active \in Tickets
    BY <1>3, <1>9 DEF Managers
  <2>2. /\ MgrInv(Expire(r, r.active), n) /\ Follows(r, Expire(r, r.active))
        /\ ~Valid(Expire(r, r.active), r.active)
    BY <1>6, <2>1, ExpireKeeps
  <2>3. Follows(m, Reap(m))
    BY <1>1, <1>5, <1>6, <1>8, <1>9, <2>2, FollowsTrans
  <2> QED
    BY <1>4, <1>5, <1>9, <2>2, <2>3 DEF Valid, Follows
<1>10. CASE ~(r.active # NoTicket /\ r.ttl = 0)
  BY <1>1, <1>3, <1>4, <1>5, <1>7, <1>8, <1>10 DEF Valid, Managers
<1> QED
  BY <1>9, <1>10

LEMMA TouchKeeps ==
    ASSUME NEW m, NEW n \in 0..MaxTickets, NEW t \in Tickets, MgrInv(m, n), Valid(m, t)
    PROVE  MgrInv(TouchLease(m), n) /\ Follows(m, TouchLease(m))
<1> DEFINE r == TouchLease(m)
<1>1. m \in Managers /\ Tickets \subseteq Nat /\ NoTicket \notin Tickets /\ Consistent(m, n)
  BY BoundsAssumption DEF MgrInv, Consistent, Tickets, NoTicket
<1>2. IdleDeadline(m.hard) \in 0..LeaseMax /\ IdleDeadline(m.hard) <= m.hard
  BY <1>1, IdleDeadlineBounds DEF Managers
<1>3. r \in Managers
  <2>1. \A d \in 0..LeaseMax, q \in SUBSET {"expired", "release"} :
            [m EXCEPT !.ttl = d, !.pending = q] \in Managers
    BY <1>1 DEF Managers
  <2>2. m.pending \ {"expired"} \in SUBSET {"expired", "release"}
    BY <1>1 DEF Managers
  <2> QED
    BY <1>2, <2>1, <2>2 DEF TouchLease
<1>4. /\ r.active = m.active /\ r.queue = m.queue /\ r.generation = m.generation
      /\ r.granted = m.granted /\ r.ttl = IdleDeadline(m.hard) /\ r.hard = m.hard
      /\ r.fenced = m.fenced /\ r.busy = m.busy
  BY <1>1 DEF Managers, TouchLease
<1> HIDE DEF r
<1>5. Consistent(r, n)
  BY <1>1, <1>2, <1>3, <1>4 DEF Consistent
<1>6. Follows(m, r)
  BY <1>4 DEF Follows
<1>7. MgrInv(r, n)
  BY <1>4, <1>5 DEF MgrInv, Valid
<1> QED
  BY <1>6, <1>7 DEF r

LEMMA ReleaseValidKeeps ==
    ASSUME NEW m, NEW n \in 0..MaxTickets, NEW t \in Tickets, MgrInv(m, n), Valid(m, t)
    PROVE  MgrInv(ReleaseValid(m, t), n) /\ Follows(m, ReleaseValid(m, t))
<1> DEFINE p == [m EXCEPT !.pending = m.pending \cup {"release"}]
<1>1. m \in Managers /\ Consistent(m, n)
  BY DEF MgrInv, Consistent
<1>2. p \in Managers
  <2>1. m.pending \cup {"release"} \in SUBSET {"expired", "release"}
    BY <1>1 DEF Managers
  <2>2. \A q \in SUBSET {"expired", "release"} : [m EXCEPT !.pending = q] \in Managers
    BY <1>1 DEF Managers
  <2> QED
    BY <2>1, <2>2
<1>3. /\ p.active = m.active /\ p.queue = m.queue /\ p.generation = m.generation
      /\ p.granted = m.granted /\ p.ttl = m.ttl /\ p.hard = m.hard
      /\ p.fenced = m.fenced /\ p.busy = m.busy
      /\ p.pending = m.pending \cup {"release"}
  BY <1>1 DEF Managers
<1>4. ReleaseValid(m, t) = ReleaseIfIdle(Fence(p, t, FALSE), t)
  BY DEF ReleaseValid
<1> HIDE DEF p
<1>5. Consistent(p, n) /\ Follows(m, p) /\ p.active = t /\ p.pending # {}
  BY <1>1, <1>2, <1>3 DEF Consistent, Follows, Valid
<1> DEFINE f == Fence(p, t, FALSE)
<1>6. Consistent(f, n) /\ Follows(p, f) /\ f.active = t /\ t \in f.fenced /\ f.pending # {}
  BY <1>5, FenceKeeps
<1> HIDE DEF f
<1>7. MgrInv(ReleaseIfIdle(f, t), n) /\ Follows(f, ReleaseIfIdle(f, t))
  BY <1>6, ReleaseIfIdleKeeps
<1>8. Follows(m, f)
  BY <1>1, <1>5, <1>6, FollowsTrans
<1>9. Follows(m, ReleaseIfIdle(f, t))
  BY <1>1, <1>6, <1>7, <1>8, FollowsTrans
<1> QED
  BY <1>4, <1>7, <1>9 DEF f

(* A call that begins is counted, and its lease touched.                   *)
LEMMA BeginKeeps ==
    ASSUME NEW m, NEW n \in 0..MaxTickets, NEW t \in Tickets, MgrInv(m, n), Valid(m, t),
           NEW r, r = TouchLease([m EXCEPT !.busy[t] = @ + 1])
    PROVE  /\ MgrInv(r, n)
           /\ r.busy = [m.busy EXCEPT ![t] = @ + 1]
           /\ r.active = m.active /\ r.queue = m.queue /\ r.granted = m.granted
           /\ r.fenced = m.fenced
<1> DEFINE b == [m EXCEPT !.busy[t] = @ + 1]
<1>1. m \in Managers /\ Tickets \subseteq Nat /\ NoTicket \notin Tickets /\ Consistent(m, n)
  BY BoundsAssumption DEF MgrInv, Consistent, Tickets, NoTicket
<1>2. m.busy[t] + 1 \in Nat /\ m.busy \in [Tickets -> Nat]
  BY <1>1 DEF Managers
<1>3. b \in Managers
  <2>1. \A k \in Nat : [m EXCEPT !.busy[t] = k] \in Managers
    BY <1>1 DEF Managers
  <2> QED
    BY <1>2, <2>1
<1>4. /\ b.active = m.active /\ b.queue = m.queue /\ b.generation = m.generation
      /\ b.granted = m.granted /\ b.ttl = m.ttl /\ b.hard = m.hard
      /\ b.fenced = m.fenced /\ b.busy = [m.busy EXCEPT ![t] = @ + 1]
  BY <1>1 DEF Managers
<1> HIDE DEF b
<1>5. MgrInv(b, n) /\ Valid(b, t)
  BY <1>1, <1>2, <1>3, <1>4 DEF MgrInv, Consistent, Valid
<1>6. MgrInv(TouchLease(b), n)
  BY <1>5, TouchKeeps
<1>7. /\ TouchLease(b).active = b.active /\ TouchLease(b).queue = b.queue
      /\ TouchLease(b).granted = b.granted /\ TouchLease(b).fenced = b.fenced
      /\ TouchLease(b).busy = b.busy
  BY <1>3 DEF TouchLease, Managers
<1> QED
  BY <1>4, <1>6, <1>7 DEF b

(* The operation cache is nothing but a cache.                             *)
LEMMA CacheKeeps ==
    ASSUME NEW m, NEW n \in 0..MaxTickets, NEW t \in Tickets, NEW entry \in CacheEntries,
           MgrInv(m, n)
    PROVE  /\ MgrInv(CacheOperation(m, t, entry), n)
           /\ CacheOperation(m, t, entry).busy = m.busy
           /\ CacheOperation(m, t, entry).active = m.active
           /\ CacheOperation(m, t, entry).queue = m.queue
           /\ CacheOperation(m, t, entry).granted = m.granted
           /\ CacheOperation(m, t, entry).fenced = m.fenced
<1> DEFINE s == m.cache[t]
           kept == IF Len(s) >= MaxCached THEN Tail(s) ELSE s
           v == IF Cached(m, t, entry.id)
                THEN [i \in 1..Len(s) |-> IF s[i].id = entry.id THEN entry ELSE s[i]]
                ELSE Append(kept, entry)
           r == [m EXCEPT !.cache[t] = v]
<1>1. m \in Managers /\ Consistent(m, n)
  BY DEF MgrInv, Consistent
<1>2. s \in Seq(CacheEntries)
  BY <1>1 DEF Managers
<1>3. kept \in Seq(CacheEntries)
  <2> HIDE DEF s
  <2>1. CASE Len(s) >= MaxCached
    BY <1>2, <2>1, TimesAssumption
  <2>2. CASE ~(Len(s) >= MaxCached)
    BY <1>2, <2>2
  <2> QED
    BY <2>1, <2>2
<1>4. v \in Seq(CacheEntries)
  <2> HIDE DEF s, kept
  <2>1. [i \in 1..Len(s) |-> IF s[i].id = entry.id THEN entry ELSE s[i]] \in Seq(CacheEntries)
    BY <1>2
  <2> QED
    BY <1>3, <2>1
<1>5. CacheOperation(m, t, entry) = r
  BY DEF CacheOperation
<1> HIDE DEF s, kept, v
<1>6. r \in Managers
  BY <1>1, <1>4 DEF Managers
<1>7. /\ r.active = m.active /\ r.queue = m.queue /\ r.generation = m.generation
      /\ r.granted = m.granted /\ r.ttl = m.ttl /\ r.hard = m.hard
      /\ r.fenced = m.fenced /\ r.busy = m.busy /\ r.pending = m.pending
  BY <1>1 DEF Managers
<1> HIDE DEF r
<1>8. MgrInv(r, n)
  BY <1>1, <1>6, <1>7 DEF MgrInv, Consistent
<1> QED
  BY <1>5, <1>7, <1>8

(* endCall of the one call in flight of the active lease.                  *)
LEMMA EndKeeps ==
    ASSUME NEW m, NEW n \in 0..MaxTickets, NEW t \in Tickets, MgrInv(m, n),
           m.active = t, m.busy[t] = 1
    PROVE  /\ MgrInv(EndCall(m, t), n)
           /\ EndCall(m, t).busy = [m.busy EXCEPT ![t] = 0]
           /\ \A u \in Tickets : m.granted[u] > 0 =>
                EndCall(m, t).granted[u] = m.granted[u] /\ (m.active # u => EndCall(m, t).active # u)
           /\ m.fenced \subseteq EndCall(m, t).fenced
           /\ EndCall(m, t).queue \subseteq m.queue
           /\ EndCall(m, t).active \in {m.active, NoTicket} \cup m.queue
<1> DEFINE e == [m EXCEPT !.busy[t] = 0]
<1>1. m \in Managers /\ Tickets \subseteq Nat /\ NoTicket \notin Tickets /\ Consistent(m, n)
  BY BoundsAssumption DEF MgrInv, Consistent, Tickets, NoTicket
<1>2. [m EXCEPT !.busy[t] = IF @ > 0 THEN @ - 1 ELSE 0] = e
  BY <1>1 DEF Managers
<1>3. e \in Managers
  BY <1>1 DEF Managers
<1>4. /\ e.active = m.active /\ e.queue = m.queue /\ e.generation = m.generation
      /\ e.granted = m.granted /\ e.ttl = m.ttl /\ e.hard = m.hard
      /\ e.fenced = m.fenced /\ e.busy = [m.busy EXCEPT ![t] = 0]
  BY <1>1 DEF Managers
<1>5. m.busy \in [Tickets -> Nat] /\ m.ttl \in Nat /\ m.granted \in [Tickets -> Nat]
  BY <1>1, TimesAssumption DEF Managers
<1> HIDE DEF e
<1>6. Consistent(e, n) /\ e.busy[t] = 0
  BY <1>1, <1>3, <1>4, <1>5 DEF Consistent
<1>7. EndCall(m, t) = IF t \in e.fenced \/ e.ttl = 0 THEN ReleaseActive(e, t) ELSE e
  BY <1>2, <1>4, <1>6 DEF EndCall
<1>8. CASE t \in e.fenced \/ e.ttl = 0
  <2>1. MgrInv(ReleaseActive(e, t), n) /\ Follows(e, ReleaseActive(e, t))
    BY <1>4, <1>6, ReleaseActiveKeeps
  <2> QED
    BY <1>4, <1>5, <1>7, <1>8, <2>1 DEF Follows
<1>9. CASE ~(t \in e.fenced \/ e.ttl = 0)
  <2>1. MgrInv(e, n)
    BY <1>1, <1>4, <1>6, <1>9 DEF MgrInv
  <2> QED
    BY <1>4, <1>7, <1>9, <2>1
<1> QED
  BY <1>8, <1>9

-----------------------------------------------------------------------------
(* A step that leaves requests and calls alone and only lets the manager   *)
(* follow its course keeps the whole invariant.                            *)
LEMMA QuietStep ==
    ASSUME IInv, MgrInv(mgr', issued), Follows(mgr, mgr'),
           UNCHANGED <<issued, requestKey, made, calls>>
    PROVE  IInv'
<1>1. TypeOK'
  BY DEF IInv, TypeOK, MgrInv, Consistent
<1>2. mgr.granted \in [Tickets -> Nat] /\ mgr'.granted \in [Tickets -> Nat]
  BY <1>1 DEF IInv, TypeOK, Managers
<1>3. CallInv'
  BY <1>2 DEF IInv, CallInv, Follows, InFlight, Settled, Turn
<1>4. OnePlacePerKey'
  <2>1. \A t \in Tickets : \A k \in RequestKeys : HoldsKey(mgr, t, k)' => HoldsKey(mgr, t, k)
    BY BoundsAssumption DEF HoldsKey, Follows, Tickets, NoTicket
  <2> QED
    BY <2>1 DEF IInv, OnePlacePerKey
<1> QED
  BY <1>1, <1>3, <1>4 DEF IInv

LEMMA InitInv == Init => IInv
<1> SUFFICES ASSUME Init PROVE IInv
  OBVIOUS
<1>0. Tickets \subseteq Nat /\ NoTicket \notin Tickets /\ NoTicket = 0 /\ CallIds \subseteq Nat \ {0}
  BY BoundsAssumption DEF Tickets, NoTicket, CallIds
<1>1. mgr \in Managers
  <2>1. <<>> \in Seq(CacheEntries) /\ 0 \in 0..QueueTtl /\ 0 \in 0..LeaseMax /\ 0 \in Nat
    BY TimesAssumption
  <2> QED
    BY <2>1 DEF Init, Managers
<1>2. TypeOK
  BY <1>1, BoundsAssumption DEF Init, TypeOK, CallRecords, Stages
<1>3. MgrInv(mgr, issued)
  BY <1>0, <1>1 DEF Init, MgrInv, Consistent
<1>4. CallInv
  BY <1>0 DEF Init, CallInv, InFlight, FlightStages
<1>5. OnePlacePerKey
  BY <1>0 DEF Init, OnePlacePerKey, HoldsKey
<1> QED
  BY <1>2, <1>3, <1>4, <1>5 DEF IInv

LEMMA RequestKeeps ==
    ASSUME IInv, NEW k \in RequestKeys \cup {NoKey}, Request(k)
    PROVE  IInv'
<1> DEFINE m == Reap(mgr)
           t == issued + 1
<1>0. issued \in 0..MaxTickets
  BY DEF IInv, TypeOK
<1>1. MgrInv(m, issued) /\ Follows(mgr, m)
  BY <1>0, ReapKeeps DEF IInv
<1>2. CASE mgr' = m /\ UNCHANGED <<issued, requestKey, made, calls>>
  BY <1>1, <1>2, QuietStep
<1>3. CASE /\ k = NoKey \/ \A u \in Tickets : ~HoldsKey(m, u, k)
           /\ issued < MaxTickets
           /\ issued' = t
           /\ requestKey' = [requestKey EXCEPT ![t] = k]
           /\ mgr' = IF m.active = NoTicket /\ m.queue = {}
                     THEN Grant(m, t)
                     ELSE [m EXCEPT !.queue = @ \cup {t}, !.wait[t] = QueueTtl]
           /\ UNCHANGED <<made, calls>>
  <2> HIDE DEF m
  <2>1. /\ t \in Tickets /\ issued' \in 0..MaxTickets /\ NoTicket \notin Tickets
        /\ Tickets \subseteq Nat /\ t \notin 0..issued /\ NoTicket = 0
    BY <1>0, <1>3, BoundsAssumption DEF Tickets, NoTicket
  <2>2. m \in Managers /\ Consistent(m, t)
    <3>1. Consistent(m, issued) /\ m \in Managers
      BY <1>1 DEF MgrInv, Consistent
    <3>2. m.active \in Nat /\ m.queue \subseteq Nat
      <4>1. Tickets \subseteq Nat /\ NoTicket \in Nat
        BY <2>1
      <4>2. m.active \in Tickets \cup {NoTicket} /\ m.queue \subseteq Tickets
        BY <3>1 DEF Managers
      <4> QED
        BY <4>1, <4>2
    <3>3. \A i \in Nat : i <= issued => i <= t
      BY <1>0
    <3> HIDE DEF t
    <3> QED
      BY <2>1, <3>1, <3>2, <3>3 DEF Consistent
  <2>3. m.granted[t] = 0 /\ t \notin m.queue /\ m.granted \in [Tickets -> Nat] /\ m.active # t
    BY <1>0, <1>1, <2>1 DEF MgrInv, Consistent, Managers
  <2>4. \A u \in Tickets : m.granted[u] > 0 => u < t
    BY <1>0, <1>1, <2>1 DEF MgrInv, Consistent
  <2>5. /\ MgrInv(mgr', t) /\ mgr'.busy = m.busy
        /\ \A u \in Tickets : m.granted[u] > 0 => mgr'.granted[u] > 0
        /\ mgr'.active \in {m.active, t} /\ mgr'.queue \subseteq m.queue \cup {t}
    <3>1. CASE m.active = NoTicket /\ m.queue = {}
      <4>1. mgr' = Grant(m, t)
        BY <1>3, <3>1
      <4>2. MgrInv(Grant(m, t), t)
        BY <1>0, <1>3, <2>1, <2>2, <2>3, <2>4, <3>1, GrantKeeps
      <4>3. /\ Grant(m, t).busy = m.busy /\ Grant(m, t).active = t /\ Grant(m, t).queue = m.queue
            /\ Grant(m, t).granted = [m.granted EXCEPT ![t] = m.generation + 1]
        BY <2>2 DEF Grant, Managers
      <4> QED
        BY <2>3, <4>1, <4>2, <4>3
    <3>2. CASE ~(m.active = NoTicket /\ m.queue = {})
      <4> DEFINE r == [m EXCEPT !.queue = @ \cup {t}, !.wait[t] = QueueTtl]
      <4>1. mgr' = r
        BY <1>3, <3>2
      <4>2. r \in Managers
        <5>1. QueueTtl \in 0..QueueTtl
          BY TimesAssumption
        <5> HIDE DEF t
        <5> QED
          BY <2>1, <2>2, <5>1 DEF Managers
      <4>3. /\ r.active = m.active /\ r.queue = m.queue \cup {t} /\ r.generation = m.generation
            /\ r.granted = m.granted /\ r.ttl = m.ttl /\ r.hard = m.hard
            /\ r.fenced = m.fenced /\ r.busy = m.busy /\ r.pending = m.pending
        BY <2>2 DEF Managers
      <4> HIDE DEF r
      <4>4. \A u, v \in Tickets : u < v /\ m.granted[v] > 0 => u # t
        BY <2>1, <2>4
      <4>5. Consistent(r, t)
        <5> HIDE DEF t
        <5> QED
          BY <2>1, <2>2, <2>3, <4>2, <4>3, <4>4 DEF Consistent
      <4>6. MgrInv(r, t)
        BY <1>1, <3>2, <4>3, <4>5 DEF MgrInv
      <4> QED
        BY <4>1, <4>3, <4>6
    <3> QED
      BY <3>1, <3>2
  <2>6. TypeOK'
    BY <1>3, <2>1, <2>5 DEF IInv, TypeOK, MgrInv, Consistent
  <2>7. CallInv'
    <3>1. mgr'.busy = mgr.busy
      BY <1>1, <2>5 DEF Follows
    <3>2. \A u \in Tickets : mgr.granted[u] > 0 => mgr'.granted[u] > 0
      BY <1>1, <2>5 DEF Follows
    <3> QED
      BY <1>3, <3>1, <3>2 DEF IInv, CallInv, InFlight, Settled, Turn
  <2>8. OnePlacePerKey'
    <3>1. requestKey \in [Tickets -> RequestKeys \cup {NoKey}]
      BY DEF IInv, TypeOK
    <3>2. PICK w \in Tickets : w = t
      BY <2>1
    <3>3. /\ requestKey' = [requestKey EXCEPT ![w] = k]
          /\ mgr'.active \in {m.active, w} /\ mgr'.queue \subseteq m.queue \cup {w}
      BY <1>3, <2>5, <3>2
    <3>4. \A u \in Tickets : \A j \in RequestKeys : HoldsKey(mgr, u, j)' /\ u # w =>
              HoldsKey(m, u, j) /\ HoldsKey(mgr, u, j)
      BY <1>1, <2>1, <3>1, <3>3 DEF HoldsKey, Follows
    <3>5. \A j \in RequestKeys : HoldsKey(mgr, w, j)' => j = k
      BY <3>1, <3>3 DEF HoldsKey
    <3> QED
      BY <1>3, <3>4, <3>5, NamesAssumption DEF IInv, OnePlacePerKey
  <2> QED
    BY <1>3, <2>5, <2>6, <2>7, <2>8 DEF IInv
<1> QED
  BY <1>2, <1>3 DEF Request, KnownKey

LEMMA DequeueKeeps ==
    ASSUME NEW m, NEW n \in 0..MaxTickets, NEW t \in Tickets, MgrInv(m, n)
    PROVE  /\ MgrInv([m EXCEPT !.queue = @ \ {t}], n)
           /\ Follows(m, [m EXCEPT !.queue = @ \ {t}])
<1> DEFINE r == [m EXCEPT !.queue = @ \ {t}]
<1>1. m \in Managers /\ Consistent(m, n)
  BY DEF MgrInv, Consistent
<1>2. r \in Managers
  BY <1>1 DEF Managers
<1>3. /\ r.active = m.active /\ r.queue = m.queue \ {t} /\ r.generation = m.generation
      /\ r.granted = m.granted /\ r.ttl = m.ttl /\ r.hard = m.hard
      /\ r.fenced = m.fenced /\ r.busy = m.busy /\ r.pending = m.pending
  BY <1>1 DEF Managers
<1> HIDE DEF r
<1>4. MgrInv(r, n) /\ Follows(m, r)
  BY <1>1, <1>2, <1>3 DEF MgrInv, Consistent, Follows
<1> QED
  BY <1>4 DEF r

LEMMA TickKeeps ==
    ASSUME IInv, Tick
    PROVE  IInv'
<1> DEFINE down(left) == IF left > 0 THEN left - 1 ELSE 0
           W == [t \in Tickets |-> down(mgr.wait[t])]
           r == [mgr EXCEPT !.wait = W, !.ttl = down(@), !.hard = down(@)]
<1>1. mgr \in Managers /\ Consistent(mgr, issued) /\ issued \in 0..MaxTickets
  BY DEF IInv, TypeOK, MgrInv, Consistent
<1>2. mgr.ttl \in 0..LeaseMax /\ mgr.hard \in 0..LeaseMax /\ mgr.wait \in [Tickets -> 0..QueueTtl]
  BY <1>1 DEF Managers
<1>3. /\ down(mgr.ttl) \in 0..LeaseMax /\ down(mgr.hard) \in 0..LeaseMax
      /\ W \in [Tickets -> 0..QueueTtl]
  BY <1>2, TimesAssumption
<1>4. down(mgr.ttl) <= down(mgr.hard)
  BY <1>1, <1>2, TimesAssumption DEF Consistent
<1>5. mgr' = r /\ UNCHANGED <<issued, requestKey, made, calls>>
  BY DEF Tick
<1> HIDE DEF down, W
<1>6. r \in Managers
  BY <1>1, <1>3 DEF Managers
<1>7. /\ r.active = mgr.active /\ r.queue = mgr.queue /\ r.generation = mgr.generation
      /\ r.granted = mgr.granted /\ r.ttl = down(mgr.ttl) /\ r.hard = down(mgr.hard)
      /\ r.fenced = mgr.fenced /\ r.busy = mgr.busy /\ r.pending = mgr.pending
  BY <1>1 DEF Managers
<1> HIDE DEF r
<1>8. MgrInv(r, issued) /\ Follows(mgr, r)
  BY <1>1, <1>4, <1>6, <1>7 DEF IInv, MgrInv, Consistent, Follows
<1> QED
  BY <1>5, <1>8, QuietStep

LEMMA MakeCallKeeps ==
    ASSUME IInv, NEW t \in Tickets, NEW id \in OpIds \cup {NoOp}, NEW args \in Args,
           MakeCall(t, id, args)
    PROVE  IInv'
<1> DEFINE m == Reap(mgr)
<1>0. issued \in 0..MaxTickets /\ made \in 0..MaxCalls /\ CallIds = 1..MaxCalls
  BY DEF IInv, TypeOK, CallIds
<1>1. MgrInv(m, issued) /\ Follows(mgr, m)
  BY <1>0, ReapKeeps DEF IInv
<1>2. PICK c \in CallIds : c = made + 1
  BY <1>0, BoundsAssumption DEF MakeCall
<1>3. /\ Valid(m, t) /\ mgr' = m /\ made' = c
      /\ calls' = [calls EXCEPT ![c] = [lease |-> t, id |-> id, args |-> args,
                                        stage |-> "chained"]]
      /\ UNCHANGED <<issued, requestKey>>
  BY <1>2 DEF MakeCall
<1> HIDE DEF m
<1>4. calls \in [CallIds -> CallRecords]
  BY DEF IInv, TypeOK
<1>5. TypeOK'
  <2>1. [lease |-> t, id |-> id, args |-> args, stage |-> "chained"] \in CallRecords
    BY DEF CallRecords, Stages
  <2>2. calls' \in [CallIds -> CallRecords] /\ made' \in 0..MaxCalls
    BY <1>0, <1>2, <1>3, <1>4, <2>1
  <2> QED
    BY <1>1, <1>3, <2>2 DEF IInv, TypeOK, MgrInv, Consistent
<1>6. m.granted[t] > 0 /\ m.granted \in [Tickets -> Nat] /\ mgr.granted \in [Tickets -> Nat]
  <2>1. NoTicket \notin Tickets /\ m.active = t
    BY <1>3, BoundsAssumption DEF Tickets, NoTicket, Valid
  <2>2. m \in Managers /\ mgr \in Managers /\ Consistent(m, issued)
    BY <1>1 DEF IInv, TypeOK, MgrInv, Consistent
  <2> QED
    BY <2>1, <2>2 DEF Consistent, Managers
<1>7. calls[c].stage = "idle"
  BY <1>0, <1>2 DEF IInv, CallInv
<1>8. \A d \in CallIds : d # c => calls'[d] = calls[d]
  BY <1>3, <1>4
<1>9. calls'[c].stage = "chained" /\ calls'[c].lease = t /\ calls'[c].args \in Args
  BY <1>3, <1>4
<1>10. CallInv'
  <2>1. \A d \in CallIds : calls'[d].stage = "idle" <=> d > made'
    BY <1>0, <1>2, <1>3, <1>8, <1>9 DEF IInv, CallInv
  <2>2. \A d \in CallIds : calls'[d].stage # "idle" =>
            /\ calls'[d].lease \in Tickets /\ calls'[d].args \in Args
            /\ mgr'.granted[calls'[d].lease] > 0
    BY <1>1, <1>3, <1>6, <1>8, <1>9 DEF IInv, CallInv, Follows
  <2>3. \A d \in CallIds : InFlight(d)' => d # c /\ InFlight(d) /\ d < c
    BY <1>0, <1>2, <1>8, <1>9 DEF InFlight, FlightStages, IInv, CallInv
  <2>4. \A d \in CallIds : InFlight(d)' => Turn(d)' /\ mgr'.busy[calls'[d].lease] = 1
    <3> SUFFICES ASSUME NEW d \in CallIds, InFlight(d)'
                 PROVE  Turn(d)' /\ mgr'.busy[calls'[d].lease] = 1
      OBVIOUS
    <3>1. InFlight(d) /\ d < c /\ calls'[d] = calls[d]
      BY <1>8, <2>3
    <3>2. \A e \in 1..(d - 1) : e \in CallIds /\ e # c
      BY <1>0, <1>2, <3>1, BoundsAssumption
    <3>3. Turn(d) /\ mgr.busy[calls[d].lease] = 1
      BY <3>1 DEF IInv, CallInv
    <3>4. mgr'.busy = mgr.busy
      BY <1>1, <1>3 DEF Follows
    <3>5. Turn(d)'
      BY <1>8, <3>1, <3>2, <3>3 DEF Turn, Settled
    <3> QED
      BY <3>1, <3>3, <3>4, <3>5
  <2>5. \A d \in CallIds : InFlight(d) => InFlight(d)' /\ calls'[d] = calls[d]
    BY <1>7, <1>8 DEF InFlight, FlightStages
  <2>6. \A u \in Tickets : mgr'.busy[u] > 0 =>
            \E d \in CallIds : InFlight(d)' /\ calls'[d].lease = u
    BY <1>1, <1>3, <2>5 DEF IInv, CallInv, Follows
  <2> QED
    BY <2>1, <2>2, <2>4, <2>6 DEF CallInv
<1>11. OnePlacePerKey'
  <2>1. \A u \in Tickets : \A k \in RequestKeys : HoldsKey(mgr, u, k)' => HoldsKey(mgr, u, k)
    BY <1>1, <1>3, BoundsAssumption DEF HoldsKey, Follows, Tickets, NoTicket
  <2> QED
    BY <2>1 DEF IInv, OnePlacePerKey
<1> QED
  BY <1>1, <1>3, <1>5, <1>10, <1>11 DEF IInv

(* The stage of one call is all that changes when it begins or ends.       *)
LEMMA StageChange ==
    ASSUME TypeOK, NEW c \in CallIds, NEW x \in Stages, calls[c].stage # "idle", x # "idle",
           calls' = [calls EXCEPT ![c].stage = x]
    PROVE  /\ calls' \in [CallIds -> CallRecords]
           /\ \A d \in CallIds : d # c => calls'[d] = calls[d]
           /\ calls'[c].stage = x
           /\ \A d \in CallIds : calls'[d].lease = calls[d].lease /\ calls'[d].args = calls[d].args
           /\ \A d \in CallIds : calls'[d].stage = "idle" <=> calls[d].stage = "idle"
BY DEF TypeOK, CallRecords

LEMMA BeginCallKeeps ==
    ASSUME IInv, NEW c \in CallIds, BeginCall(c)
    PROVE  IInv'
<1> DEFINE m == Reap(mgr)
           t == calls[c].lease
<1>0. issued \in 0..MaxTickets /\ made \in 0..MaxCalls /\ CallIds = 1..MaxCalls /\ TypeOK
  BY DEF IInv, TypeOK, CallIds
<1>1. MgrInv(m, issued) /\ Follows(mgr, m)
  BY <1>0, ReapKeeps DEF IInv
<1>2. /\ calls[c].stage = "chained" /\ Turn(c) /\ t \in Tickets
      /\ UNCHANGED <<issued, requestKey, made>>
  BY DEF BeginCall, IInv, CallInv
<1>3. PICK x \in FlightStages \cup {"rejected"} :
          /\ calls' = [calls EXCEPT ![c].stage = x]
          /\ \/ x = "rejected" /\ mgr' = m
             \/ x \in FlightStages /\ Valid(m, t) /\ mgr' = TouchLease([m EXCEPT !.busy[t] = @ + 1])
  BY DEF BeginCall, FlightStages
<1>4. x \in Stages /\ x # "idle"
  BY DEF FlightStages, Stages, SettledStages
<1>5. /\ calls' \in [CallIds -> CallRecords]
      /\ \A d \in CallIds : d # c => calls'[d] = calls[d]
      /\ calls'[c].stage = x
      /\ \A d \in CallIds : calls'[d].lease = calls[d].lease /\ calls'[d].args = calls[d].args
      /\ \A d \in CallIds : calls'[d].stage = "idle" <=> calls[d].stage = "idle"
  BY <1>0, <1>2, <1>3, <1>4, StageChange
<1>6. /\ MgrInv(mgr', issued)
      /\ mgr'.active = m.active /\ mgr'.queue = m.queue /\ mgr'.granted = m.granted
      /\ mgr'.busy = IF x = "rejected" THEN mgr.busy ELSE [mgr.busy EXCEPT ![t] = @ + 1]
  <2>1. CASE x = "rejected" /\ mgr' = m
    BY <1>1, <2>1 DEF Follows
  <2>2. CASE x \in FlightStages /\ Valid(m, t) /\ mgr' = TouchLease([m EXCEPT !.busy[t] = @ + 1])
    <3> HIDE DEF m, t
    <3>1. x # "rejected"
      BY <2>2 DEF FlightStages
    <3>2. m.busy = mgr.busy
      BY <1>1 DEF Follows
    <3>3. /\ MgrInv(mgr', issued) /\ mgr'.busy = [m.busy EXCEPT ![t] = @ + 1]
          /\ mgr'.active = m.active /\ mgr'.queue = m.queue /\ mgr'.granted = m.granted
      BY <1>0, <1>1, <1>2, <2>2, BeginKeeps
    <3> QED
      BY <3>1, <3>2, <3>3
  <2> QED
    BY <1>3, <2>1, <2>2
<1> HIDE DEF m, t
<1>7. TypeOK'
  BY <1>0, <1>2, <1>5, <1>6 DEF TypeOK, MgrInv, Consistent
<1>8. mgr.granted \in [Tickets -> Nat] /\ mgr.busy \in [Tickets -> Nat]
  BY <1>0 DEF TypeOK, Managers
<1>9. \A d \in CallIds : InFlight(d) => calls[d].lease # t
  <2> SUFFICES ASSUME NEW d \in CallIds, InFlight(d), calls[d].lease = t PROVE FALSE
    OBVIOUS
  <2>1. Turn(d) /\ ~Settled(d) /\ ~Settled(c) /\ d # c
    BY <1>2 DEF IInv, CallInv, InFlight, Settled, FlightStages, SettledStages
  <2>2. d \in 1..(c - 1) \/ c \in 1..(d - 1)
    BY <1>0, <2>1, BoundsAssumption
  <2> QED
    BY <1>2, <2>1, <2>2 DEF Turn, t
<1>10. ~(mgr.busy[t] > 0)
  BY <1>2, <1>9 DEF IInv, CallInv
<1>11. \A d \in CallIds : Turn(d) => Turn(d)'
  <2> SUFFICES ASSUME NEW d \in CallIds, Turn(d) PROVE Turn(d)'
    OBVIOUS
  <2>1. \A e \in 1..(d - 1) : e \in CallIds
    BY <1>0, BoundsAssumption
  <2>2. ~Settled(c)
    BY <1>2 DEF Settled, SettledStages
  <2> QED
    BY <1>5, <2>1, <2>2 DEF Turn, Settled
<1>12. CallInv'
  <2>1. \A d \in CallIds : calls'[d].stage = "idle" <=> d > made'
    BY <1>2, <1>5 DEF IInv, CallInv
  <2>2. \A d \in CallIds : calls'[d].stage # "idle" =>
            /\ calls'[d].lease \in Tickets /\ calls'[d].args \in Args
            /\ mgr'.granted[calls'[d].lease] > 0
    BY <1>1, <1>5, <1>6, <1>8 DEF IInv, CallInv, Follows
  <2>3. \A d \in CallIds : InFlight(d)' => Turn(d)' /\ mgr'.busy[calls'[d].lease] = 1
    <3> SUFFICES ASSUME NEW d \in CallIds, InFlight(d)'
                 PROVE  Turn(d)' /\ mgr'.busy[calls'[d].lease] = 1
      OBVIOUS
    <3>1. CASE d = c
      <4>1. x # "rejected"
        BY <1>5, <3>1 DEF InFlight, FlightStages
      <4>2. mgr'.busy[t] = 1
        BY <1>2, <1>6, <1>8, <1>10, <4>1
      <4> QED
        BY <1>2, <1>5, <1>11, <3>1, <4>2 DEF t
    <3>2. CASE d # c
      <4>1. InFlight(d) /\ calls'[d].lease = calls[d].lease
        BY <1>5, <3>2 DEF InFlight
      <4>2. Turn(d) /\ mgr.busy[calls[d].lease] = 1 /\ calls[d].lease # t
        BY <1>9, <4>1 DEF IInv, CallInv
      <4>3. mgr'.busy[calls[d].lease] = mgr.busy[calls[d].lease]
        BY <1>6, <1>8, <4>2
      <4> QED
        BY <1>11, <4>1, <4>2, <4>3
    <3> QED
      BY <3>1, <3>2
  <2>4. \A d \in CallIds : InFlight(d) => InFlight(d)' /\ calls'[d].lease = calls[d].lease
    BY <1>2, <1>5 DEF InFlight, FlightStages
  <2>5. \A u \in Tickets : mgr'.busy[u] > 0 =>
            \E d \in CallIds : InFlight(d)' /\ calls'[d].lease = u
    <3> SUFFICES ASSUME NEW u \in Tickets, mgr'.busy[u] > 0
                 PROVE  \E d \in CallIds : InFlight(d)' /\ calls'[d].lease = u
      OBVIOUS
    <3>1. CASE mgr.busy[u] > 0
      BY <2>4, <3>1 DEF IInv, CallInv
    <3>2. CASE ~(mgr.busy[u] > 0)
      <4>1. x # "rejected" /\ u = t
        BY <1>2, <1>6, <1>8, <3>2
      <4>2. InFlight(c)' /\ calls'[c].lease = u
        BY <1>3, <1>5, <4>1 DEF InFlight, t
      <4> QED
        BY <4>2
    <3> QED
      BY <3>1, <3>2
  <2> QED
    BY <2>1, <2>2, <2>3, <2>5 DEF CallInv
<1>13. OnePlacePerKey'
  <2>1. \A u \in Tickets : \A k \in RequestKeys : HoldsKey(mgr, u, k)' => HoldsKey(mgr, u, k)
    BY <1>1, <1>2, <1>6, BoundsAssumption DEF HoldsKey, Follows, Tickets, NoTicket
  <2> QED
    BY <2>1 DEF IInv, OnePlacePerKey
<1> QED
  BY <1>2, <1>6, <1>7, <1>12, <1>13 DEF IInv

(* What a call that ends does to the manager.                              *)
LEMMA FinishFollows ==
    ASSUME IInv, NEW c \in CallIds, NEW outcome \in {"success", "uncertain"},
           FinishCall(c, outcome)
    PROVE  /\ MgrInv(mgr', issued)
           /\ mgr.active = calls[c].lease
           /\ mgr'.busy = [mgr.busy EXCEPT ![calls[c].lease] = 0]
           /\ \A u \in Tickets : mgr.granted[u] > 0 =>
                mgr'.granted[u] = mgr.granted[u] /\ (mgr.active # u => mgr'.active # u)
           /\ mgr.fenced \subseteq mgr'.fenced
           /\ mgr'.queue \subseteq mgr.queue
           /\ mgr'.active \in {mgr.active, NoTicket} \cup mgr.queue
<1> DEFINE t == calls[c].lease
           id == calls[c].id
           entry == [id |-> id, args |-> calls[c].args, outcome |-> outcome]
           sent == calls[c].stage = "driving"
           m == IF sent /\ id # NoOp THEN CacheOperation(mgr, t, entry) ELSE mgr
<1>0. issued \in 0..MaxTickets /\ TypeOK
  BY DEF IInv, TypeOK
<1>1. InFlight(c) /\ mgr' = EndCall(m, t)
  BY DEF FinishCall
<1>3. t \in Tickets /\ mgr.busy[t] = 1
  BY <1>1 DEF IInv, CallInv, InFlight, FlightStages
<1>4. mgr.active = t
  BY <1>3 DEF IInv, MgrInv, Consistent
<1>7. /\ MgrInv(m, issued) /\ m.busy = mgr.busy /\ m.active = mgr.active
      /\ m.queue = mgr.queue /\ m.granted = mgr.granted /\ m.fenced = mgr.fenced
  <2>1. CASE sent /\ id # NoOp
    <3>1. calls[c] \in CallRecords
      BY <1>0 DEF TypeOK
    <3>2. calls[c].args \in Args
      BY <2>1, <3>1 DEF IInv, CallInv, CallRecords
    <3>3. entry \in CacheEntries
      BY <2>1, <3>1, <3>2 DEF CallRecords, CacheEntries
    <3> HIDE DEF entry, t
    <3> QED
      BY <1>0, <1>3, <2>1, <3>3, CacheKeeps DEF IInv
  <2>2. CASE ~(sent /\ id # NoOp)
    BY <2>2 DEF IInv
  <2> QED
    BY <2>1, <2>2
<1> HIDE DEF m, t
<1>8. /\ MgrInv(mgr', issued) /\ mgr'.busy = [mgr.busy EXCEPT ![t] = 0]
      /\ \A u \in Tickets : mgr.granted[u] > 0 =>
                mgr'.granted[u] = mgr.granted[u] /\ (mgr.active # u => mgr'.active # u)
      /\ mgr.fenced \subseteq mgr'.fenced
      /\ mgr'.queue \subseteq mgr.queue
      /\ mgr'.active \in {mgr.active, NoTicket} \cup mgr.queue
  BY <1>0, <1>1, <1>3, <1>4, <1>7, EndKeeps
<1> QED
  BY <1>4, <1>8 DEF t

LEMMA FinishCallKeeps ==
    ASSUME IInv, NEW c \in CallIds, NEW outcome \in {"success", "uncertain"},
           FinishCall(c, outcome)
    PROVE  IInv'
<1> DEFINE t == calls[c].lease
<1>0. issued \in 0..MaxTickets /\ made \in 0..MaxCalls /\ CallIds = 1..MaxCalls /\ TypeOK
  BY DEF IInv, TypeOK, CallIds
<1>1. InFlight(c) /\ UNCHANGED <<issued, requestKey, made>>
  BY DEF FinishCall
<1>2. PICK x \in SettledStages : calls' = [calls EXCEPT ![c].stage = x]
  BY DEF FinishCall, SettledStages
<1>3. /\ t \in Tickets /\ mgr.busy[t] = 1 /\ calls[c].stage # "idle" /\ Turn(c)
      /\ ~Settled(c)
  BY <1>1 DEF IInv, CallInv, InFlight, Settled, FlightStages, SettledStages
<1>4. /\ mgr.granted \in [Tickets -> Nat] /\ mgr.busy \in [Tickets -> Nat]
      /\ mgr.active = t
  BY <1>0, <1>3 DEF TypeOK, Managers, IInv, MgrInv, Consistent
<1>5. x \in Stages /\ x # "idle" /\ x \notin FlightStages
  BY DEF FlightStages, Stages, SettledStages
<1>6. /\ calls' \in [CallIds -> CallRecords]
      /\ \A d \in CallIds : d # c => calls'[d] = calls[d]
      /\ calls'[c].stage = x
      /\ \A d \in CallIds : calls'[d].lease = calls[d].lease /\ calls'[d].args = calls[d].args
      /\ \A d \in CallIds : calls'[d].stage = "idle" <=> calls[d].stage = "idle"
  BY <1>0, <1>2, <1>3, <1>5, StageChange
<1>8. /\ MgrInv(mgr', issued) /\ mgr'.busy = [mgr.busy EXCEPT ![t] = 0]
      /\ \A u \in Tickets : mgr.granted[u] > 0 => mgr'.granted[u] > 0
      /\ mgr'.queue \subseteq mgr.queue
      /\ mgr'.active \in {mgr.active, NoTicket} \cup mgr.queue
  BY FinishFollows
<1> HIDE DEF t
<1>9. TypeOK'
  BY <1>0, <1>1, <1>6, <1>8 DEF TypeOK, MgrInv, Consistent
<1>10. \A d \in CallIds : InFlight(d)' => d # c /\ InFlight(d)
  BY <1>5, <1>6 DEF InFlight
<1>11. \A d \in CallIds : InFlight(d) /\ d # c => calls[d].lease # t
  <2> SUFFICES ASSUME NEW d \in CallIds, InFlight(d), d # c, calls[d].lease = t PROVE FALSE
    OBVIOUS
  <2>1. Turn(d) /\ ~Settled(d)
    BY DEF IInv, CallInv, InFlight, Settled, FlightStages, SettledStages
  <2>2. d \in 1..(c - 1) \/ c \in 1..(d - 1)
    BY <1>0, BoundsAssumption
  <2> QED
    BY <1>3, <2>1, <2>2 DEF Turn, t
<1>12. \A d \in CallIds : Turn(d) => Turn(d)'
  <2> SUFFICES ASSUME NEW d \in CallIds, Turn(d) PROVE Turn(d)'
    OBVIOUS
  <2>1. \A e \in 1..(d - 1) : e \in CallIds
    BY <1>0, BoundsAssumption
  <2> QED
    BY <1>6, <2>1 DEF Turn, Settled
<1>13. CallInv'
  <2>1. \A d \in CallIds : calls'[d].stage = "idle" <=> d > made'
    BY <1>1, <1>6 DEF IInv, CallInv
  <2>2. \A d \in CallIds : calls'[d].stage # "idle" =>
            /\ calls'[d].lease \in Tickets /\ calls'[d].args \in Args
            /\ mgr'.granted[calls'[d].lease] > 0
    BY <1>6, <1>8 DEF IInv, CallInv
  <2>3. \A d \in CallIds : InFlight(d)' => Turn(d)' /\ mgr'.busy[calls'[d].lease] = 1
    BY <1>4, <1>6, <1>8, <1>10, <1>11, <1>12 DEF IInv, CallInv
  <2>4. \A u \in Tickets : mgr'.busy[u] > 0 =>
            \E d \in CallIds : InFlight(d)' /\ calls'[d].lease = u
    <3> SUFFICES ASSUME NEW u \in Tickets, mgr'.busy[u] > 0
                 PROVE  \E d \in CallIds : InFlight(d)' /\ calls'[d].lease = u
      OBVIOUS
    <3>1. u # t /\ mgr.busy[u] > 0
      BY <1>3, <1>4, <1>8
    <3>2. PICK d \in CallIds : InFlight(d) /\ calls[d].lease = u
      BY <3>1 DEF IInv, CallInv
    <3>3. d # c
      BY <3>1, <3>2 DEF t
    <3> QED
      BY <1>6, <3>2, <3>3 DEF InFlight
  <2> QED
    BY <2>1, <2>2, <2>3, <2>4 DEF CallInv
<1>14. OnePlacePerKey'
  <2>1. \A u \in Tickets : \A k \in RequestKeys : HoldsKey(mgr, u, k)' => HoldsKey(mgr, u, k)
    BY <1>1, <1>8, BoundsAssumption DEF HoldsKey, Tickets, NoTicket
  <2> QED
    BY <2>1 DEF IInv, OnePlacePerKey
<1> QED
  BY <1>1, <1>8, <1>9, <1>13, <1>14 DEF IInv

(* The steps of the manager that touch neither requests nor calls.         *)
QuietNext ==
    \/ Status
    \/ \E t \in Tickets : Touch(t) \/ Release(t) \/ Cancel(t) \/ ExpireQueued(t)
    \/ ExpireActive

LEMMA QuietNextFollows ==
    ASSUME IInv, QuietNext
    PROVE  /\ MgrInv(mgr', issued) /\ Follows(mgr, mgr')
           /\ UNCHANGED <<issued, requestKey, made, calls>>
<1> DEFINE m == Reap(mgr)
<1>0. issued \in 0..MaxTickets /\ MgrInv(mgr, issued) /\ Consistent(mgr, issued)
  BY DEF IInv, TypeOK, MgrInv
<1>1. MgrInv(m, issued) /\ Follows(mgr, m) /\ Consistent(m, issued)
  BY <1>0, ReapKeeps DEF MgrInv
<1>2. UNCHANGED <<issued, requestKey, made, calls>>
  BY DEF QuietNext, Status, Touch, Release, Cancel, ExpireQueued, ExpireActive
<1>3. ASSUME NEW r, MgrInv(r, issued), Follows(m, r)
      PROVE  Follows(mgr, r)
  BY <1>0, <1>1, <1>3, FollowsTrans
<1>4. CASE Status
  BY <1>1, <1>2, <1>4 DEF Status
<1>5. ASSUME NEW t \in Tickets, Touch(t)
      PROVE  MgrInv(mgr', issued) /\ Follows(mgr, mgr')
  BY <1>0, <1>1, <1>3, <1>5, TouchKeeps DEF Touch
<1>6. ASSUME NEW t \in Tickets, Release(t)
      PROVE  MgrInv(mgr', issued) /\ Follows(mgr, mgr')
  BY <1>0, <1>1, <1>3, <1>6, ReleaseValidKeeps DEF Release
<1>7. ASSUME NEW t \in Tickets, Cancel(t)
      PROVE  MgrInv(mgr', issued) /\ Follows(mgr, mgr')
  <2>1. CASE Valid(m, t) /\ mgr' = ReleaseValid(m, t)
    BY <1>0, <1>1, <1>3, <2>1, ReleaseValidKeeps
  <2>2. CASE mgr' = [m EXCEPT !.queue = @ \ {t}]
    BY <1>0, <1>1, <1>3, <2>2, DequeueKeeps
  <2> QED
    BY <1>7, <2>1, <2>2 DEF Cancel
<1>8. ASSUME NEW t \in Tickets, ExpireQueued(t)
      PROVE  MgrInv(mgr', issued) /\ Follows(mgr, mgr')
  BY <1>0, <1>8, DequeueKeeps DEF ExpireQueued
<1>9. CASE ExpireActive
  <2>1. mgr.active \in Tickets /\ mgr' = Expire(mgr, mgr.active)
    BY <1>9 DEF ExpireActive, IInv, TypeOK, Managers
  <2> QED
    BY <1>0, <1>2, <2>1, ExpireKeeps
<1> QED
  BY <1>2, <1>4, <1>5, <1>6, <1>7, <1>8, <1>9 DEF QuietNext

LEMMA StepInv == IInv /\ [Next]_vars => IInv'
<1> SUFFICES ASSUME IInv, [Next]_vars PROVE IInv'
  OBVIOUS
<1>1. CASE UNCHANGED vars
  BY <1>1 DEF vars, IInv, TypeOK, CallInv, OnePlacePerKey, HoldsKey, InFlight, Settled, Turn
<1>2. CASE QuietNext
  BY <1>2, QuietNextFollows, QuietStep
<1>3. CASE Tick
  BY <1>3, TickKeeps
<1>4. ASSUME NEW k \in RequestKeys \cup {NoKey}, Request(k) PROVE IInv'
  BY <1>4, RequestKeeps
<1>5. ASSUME NEW t \in Tickets, NEW id \in OpIds \cup {NoOp}, NEW args \in Args,
             MakeCall(t, id, args)
      PROVE  IInv'
  BY <1>5, MakeCallKeeps
<1>6. ASSUME NEW c \in CallIds, BeginCall(c) PROVE IInv'
  BY <1>6, BeginCallKeeps
<1>7. ASSUME NEW c \in CallIds, NEW outcome \in {"success", "uncertain"}, FinishCall(c, outcome)
      PROVE  IInv'
  BY <1>7, FinishCallKeeps
<1> QED
  BY <1>1, <1>2, <1>3, <1>4, <1>5, <1>6, <1>7 DEF Next, QuietNext

(* What every state satisfies, from which the properties below follow.     *)
THEOREM InvariantHolds == Spec => []IInv
<1>1. Init => IInv
  BY InitInv
<1>2. IInv /\ [Next]_vars => IInv'
  BY StepInv
<1> QED
  BY <1>1, <1>2, PTL DEF Spec

(* The manager and the calls keep their types, whatever the clients do.    *)
THEOREM TypeCorrect == Spec => []TypeOK
<1>1. IInv => TypeOK
  BY DEF IInv
<1> QED
  BY <1>1, InvariantHolds, PTL

(* At most one call drives the shared browser, and it is one of the active *)
(* lease: withCall, beginCall, endCall and releaseActive together are a    *)
(* mutual exclusion, for any number of workflows, calls and deadlines.     *)
THEOREM MutualExclusion == Spec => []OneDriver
<1>1. IInv => OneDriver
  <2> SUFFICES ASSUME IInv, NEW c \in CallIds, InFlight(c)
               PROVE  /\ calls[c].lease = mgr.active
                      /\ \A d \in CallIds : InFlight(d) => d = c
    BY DEF OneDriver
  <2>1. \A d \in CallIds : InFlight(d) =>
            calls[d].lease = mgr.active /\ Turn(d) /\ ~Settled(d)
    BY DEF IInv, CallInv, MgrInv, Consistent, InFlight, Settled, FlightStages, SettledStages
  <2>2. \A d \in CallIds : d # c => d \in 1..(c - 1) \/ c \in 1..(d - 1)
    BY BoundsAssumption DEF CallIds
  <2> QED
    BY <2>1, <2>2 DEF Turn
<1> QED
  BY <1>1, InvariantHolds, PTL

(* The browser is never free while a request waits.                        *)
THEOREM WorkConserving == Spec => []NeverIdleWhileWaiting
<1>1. IInv => NeverIdleWhileWaiting
  BY DEF IInv, MgrInv, NeverIdleWhileWaiting
<1> QED
  BY <1>1, InvariantHolds, PTL

(* A fenced lease that still holds the browser has the call in flight that *)
(* will hand it over.                                                      *)
THEOREM FencedDrains == Spec => []FencedLeaseDrains
<1>1. IInv => FencedLeaseDrains
  BY DEF IInv, TypeOK, Managers, MgrInv, CallInv, FencedLeaseDrains
<1> QED
  BY <1>1, InvariantHolds, PTL

(* Leases are granted in the order of the requests.                        *)
THEOREM FirstComeFirstServed == Spec => []FifoGrants
<1>1. IInv => FifoGrants
  BY DEF IInv, MgrInv, Consistent, FifoGrants
<1> QED
  BY <1>1, InvariantHolds, PTL

(* A repeated request_key never takes a second place.                      *)
THEOREM RequestIdempotent == Spec => []OnePlacePerKey
<1>1. IInv => OnePlacePerKey
  BY DEF IInv
<1> QED
  BY <1>1, InvariantHolds, PTL

(* A call that was accepted but whose lease expired, was released or       *)
(* changed hands before its turn came is never begun.                      *)
THEOREM StaleCallsNeverBegin == Spec => StaleCallsRefused
<1> DEFINE A == \A c \in CallIds : ~InFlight(c) /\ InFlight(c)' =>
                    /\ calls[c].lease = mgr.active
                    /\ mgr.active \notin mgr.fenced
                    /\ mgr.ttl > 0
                    /\ mgr.hard > 0
<1>1. IInv /\ [Next]_vars => [A]_vars
  <2> SUFFICES ASSUME IInv, Next, NEW c \in CallIds, ~InFlight(c), InFlight(c)'
               PROVE  /\ calls[c].lease = mgr.active
                      /\ mgr.active \notin mgr.fenced
                      /\ mgr.ttl > 0
                      /\ mgr.hard > 0
    OBVIOUS
  <2>0. calls \in [CallIds -> CallRecords] /\ issued \in 0..MaxTickets /\ mgr \in Managers
    BY DEF IInv, TypeOK
  <2>1. calls' # calls
    BY DEF InFlight
  <2>2. ~QuietNext /\ ~Tick /\ (\A k \in RequestKeys \cup {NoKey} : ~Request(k))
    BY <2>1, QuietNextFollows DEF Tick, Request
  <2>3. \A t \in Tickets, id \in OpIds \cup {NoOp}, args \in Args : ~MakeCall(t, id, args)
    BY <2>0 DEF MakeCall, InFlight, FlightStages
  <2>4. \A d \in CallIds, outcome \in {"success", "uncertain"} : ~FinishCall(d, outcome)
    BY <2>0 DEF FinishCall, InFlight, FlightStages, CallRecords
  <2>5. PICK d \in CallIds : BeginCall(d)
    BY <2>2, <2>3, <2>4 DEF Next, QuietNext
  <2>6. d = c
    BY <2>0, <2>5 DEF BeginCall, InFlight
  <2>7. Valid(Reap(mgr), calls[c].lease)
    BY <2>0, <2>5, <2>6 DEF BeginCall, InFlight, FlightStages, CallRecords
  <2>8. calls[c].lease \in Tickets /\ mgr.granted[calls[c].lease] > 0
    BY <2>5, <2>6 DEF BeginCall, IInv, CallInv
  <2>9. mgr.active = calls[c].lease /\ mgr.ttl > 0 /\ calls[c].lease \notin mgr.fenced
    BY <2>0, <2>7, <2>8, ReapKeeps DEF IInv
  <2>10. mgr.hard > 0
    BY <2>0, <2>9, TimesAssumption DEF IInv, MgrInv, Consistent, Managers
  <2> QED
    BY <2>9, <2>10
<1> QED
  BY <1>1, InvariantHolds, PTL DEF Spec, StaleCallsRefused

(* No step gives the browser back to a lease that lost it, nor unfences    *)
(* one.                                                                    *)
THEOREM TokensAreNeverRevived == Spec => LeasesEndForGood
<1> DEFINE A == \A t \in Tickets :
                    /\ mgr.granted[t] > 0 => mgr'.granted[t] = mgr.granted[t]
                    /\ mgr.granted[t] > 0 /\ mgr.active # t => mgr.active' # t
                    /\ t \in mgr.fenced => t \in mgr'.fenced
<1>1. IInv /\ [Next]_vars => [A]_vars
  <2> SUFFICES ASSUME IInv, Next PROVE A
    OBVIOUS
  <2>0. /\ issued \in 0..MaxTickets /\ mgr \in Managers /\ Tickets \subseteq Nat
        /\ MgrInv(mgr, issued)
    BY BoundsAssumption DEF IInv, TypeOK, Tickets
  <2>1. MgrInv(Reap(mgr), issued) /\ Follows(mgr, Reap(mgr)) /\ Reap(mgr) \in Managers
    BY <2>0, ReapKeeps DEF MgrInv, Consistent
  <2>2. CASE QuietNext
    BY <2>2, QuietNextFollows DEF Follows
  <2>3. CASE Tick
    BY <2>0, <2>3 DEF Tick, Managers
  <2>4. ASSUME NEW k \in RequestKeys \cup {NoKey}, Request(k) PROVE A
    <3> DEFINE m == Reap(mgr)
               t == issued + 1
    <3>1. /\ mgr'.active = m.active \/ (mgr'.active = t /\ t \in Tickets)
          /\ mgr'.fenced = m.fenced
          /\ \A u \in Tickets : u # t => mgr'.granted[u] = m.granted[u]
      <4> HIDE DEF m
      <4>1. t \in Tickets \/ ~(issued < MaxTickets)
        BY <2>0, BoundsAssumption DEF Tickets
      <4>2. \/ mgr' = m
            \/ t \in Tickets /\ mgr' = Grant(m, t)
            \/ t \in Tickets /\ mgr' = [m EXCEPT !.queue = @ \cup {t}, !.wait[t] = QueueTtl]
        BY <2>4, <4>1 DEF Request, m
      <4> HIDE DEF t
      <4>3. m \in Managers
        BY <2>1 DEF m
      <4>4. CASE mgr' = m
        BY <4>4
      <4>5. CASE t \in Tickets /\ mgr' = Grant(m, t)
        <5>1. \A g : LET r == [m EXCEPT !.active = t, !.generation = g, !.granted[t] = g,
                                        !.hard = LeaseMax, !.ttl = IdleDeadline(LeaseMax),
                                        !.pending = {}]
                     IN  /\ r.active = t
                         /\ r.fenced = m.fenced
                         /\ \A u \in Tickets : u # t => r.granted[u] = m.granted[u]
          BY <4>3 DEF Managers
        <5> QED
          BY <4>5, <5>1 DEF Grant
      <4>6. CASE t \in Tickets /\ mgr' = [m EXCEPT !.queue = @ \cup {t}, !.wait[t] = QueueTtl]
        BY <4>3, <4>6 DEF Managers
      <4> QED
        BY <4>2, <4>4, <4>5, <4>6
    <3>2. \A u \in Tickets : mgr.granted[u] > 0 => u # t
      BY <2>0 DEF MgrInv, Consistent
    <3> HIDE DEF m, t
    <3> QED
      BY <2>1, <3>1, <3>2 DEF Follows, m
  <2>5. ASSUME NEW t \in Tickets, NEW id \in OpIds \cup {NoOp}, NEW args \in Args,
               MakeCall(t, id, args)
        PROVE  A
    BY <2>1, <2>5 DEF MakeCall, Follows
  <2>6. ASSUME NEW c \in CallIds, BeginCall(c) PROVE A
    <3>1. /\ mgr'.active = Reap(mgr).active
          /\ mgr'.fenced = Reap(mgr).fenced
          /\ mgr'.granted = Reap(mgr).granted
      BY <2>1, <2>6 DEF BeginCall, TouchLease, Managers
    <3> QED
      BY <2>1, <3>1 DEF Follows
  <2>7. ASSUME NEW c \in CallIds, NEW outcome \in {"success", "uncertain"},
               FinishCall(c, outcome)
        PROVE  A
    BY <2>7, FinishFollows
  <2> QED
    BY <2>2, <2>3, <2>4, <2>5, <2>6, <2>7 DEF Next, QuietNext
<1> QED
  BY <1>1, InvariantHolds, PTL DEF Spec, LeasesEndForGood

-----------------------------------------------------------------------------
(* The relay implements TurnTaking: every step of it is a turn, or changes *)
(* nothing that TurnTaking speaks of.  That the browser goes to the first  *)
(* in line is read off the invariant of the state after the step, in which *)
(* nobody waits who asked before a granted ticket; so the lemmas need of a *)
(* step only who may have the browser and who may wait after it.           *)

Using == \E c \in CallIds : InFlight(c)

(* What the invariant says of a state in terms of TurnTaking.              *)
TurnView ==
    /\ Tickets \subseteq Nat \ {0} /\ issued \in Nat
    /\ mgr.active \in Tickets \cup {0} /\ mgr.queue \subseteq Tickets
    /\ mgr.active = 0 => mgr.queue = {}
    /\ mgr.active \notin mgr.queue
    /\ \A t \in mgr.queue : mgr.active <= t
    /\ \A t \in mgr.queue \cup {mgr.active} : t <= issued
    /\ \A t \in Tickets : mgr.busy[t] > 0 => t = mgr.active
    /\ Using => mgr.active # 0 /\ mgr.busy[mgr.active] > 0

LEMMA TurnState == IInv => TurnView
<1> SUFFICES ASSUME IInv PROVE TurnView
  OBVIOUS
<1>1. /\ Tickets \subseteq Nat \ {0} /\ issued \in Nat /\ NoTicket = 0
      /\ mgr \in Managers
  BY BoundsAssumption DEF Tickets, NoTicket, IInv, TypeOK
<1>2. Consistent(mgr, issued) /\ MgrInv(mgr, issued) /\ CallInv
  BY DEF IInv, MgrInv
<1>3. mgr.active \in Tickets \cup {0} /\ mgr.queue \subseteq Tickets
  BY <1>1 DEF Managers
<1>4. mgr.active = 0 => mgr.queue = {}
  BY <1>1, <1>2 DEF MgrInv
<1>5. \A t \in mgr.queue : mgr.granted[t] = 0
  BY <1>2 DEF Consistent
<1>6. mgr.active # 0 => mgr.granted[mgr.active] > 0
  BY <1>1, <1>2 DEF Consistent
<1>7. mgr.active \notin mgr.queue
  BY <1>4, <1>5, <1>6
<1>8. ASSUME NEW t \in mgr.queue PROVE mgr.active <= t
  <2>1. t \in Nat /\ mgr.active \in Nat /\ mgr.active # 0
    BY <1>1, <1>3, <1>4, <1>8
  <2>2. ~(t < mgr.active)
    BY <1>2, <1>3, <1>6, <1>8, <2>1 DEF Consistent
  <2> QED
    BY <2>1, <2>2
<1>9. \A t \in mgr.queue \cup {mgr.active} : t <= issued
  BY <1>2 DEF Consistent
<1>10. \A t \in Tickets : mgr.busy[t] > 0 => t = mgr.active
  BY <1>2 DEF Consistent
<1>11. Using => mgr.active # 0 /\ mgr.busy[mgr.active] > 0
  <2> SUFFICES ASSUME NEW c \in CallIds, InFlight(c)
               PROVE  mgr.active # 0 /\ mgr.busy[mgr.active] > 0
    BY DEF Using
  <2>1. calls[c].lease \in Tickets
    BY <1>2 DEF CallInv, InFlight, FlightStages
  <2>2. mgr.busy[calls[c].lease] > 0
    BY <1>2 DEF CallInv
  <2> QED
    BY <1>1, <1>10, <2>1, <2>2
<1> QED
  BY <1>1, <1>3, <1>4, <1>7, <1>8, <1>9, <1>10, <1>11 DEF TurnView

LEMMA TurnStateAfter == IInv' => TurnView'
<1>1. IInv => TurnView
  BY TurnState
<1> QED
  BY <1>1, PTL

(* When the browser changes hands no call is in flight after the step,     *)
(* provided the step begins none.                                          *)
LEMMA HandOverIsQuiet ==
    ASSUME TurnView, TurnView', mgr'.active # mgr.active,
           \A t \in Tickets : mgr'.busy[t] > 0 => mgr.busy[t] > 0
    PROVE  ~Using'
BY DEF TurnView

(* A step that lets nobody new into the line is a Move.                    *)
LEMMA MoveStep ==
    ASSUME IInv, IInv', issued' = issued,
           mgr'.queue \subseteq mgr.queue,
           mgr'.active \in {mgr.active, NoTicket} \cup mgr.queue,
           \/ mgr'.active = mgr.active
           \/ \A t \in Tickets : mgr'.busy[t] > 0 => mgr.busy[t] > 0
    PROVE  [Turns!TurnNext]_(Turns!turnVars)
<1>1. TurnView /\ TurnView' /\ NoTicket = 0
  BY TurnState, TurnStateAfter DEF NoTicket
<1>2. CASE mgr'.active = 0 /\ mgr.active = 0
  BY <1>1, <1>2 DEF TurnView, Turns!turnVars, Using
<1>3. CASE mgr'.active = mgr.active /\ mgr.active # 0
  <2>1. Turns!Keep(mgr'.queue)
    BY <1>3 DEF Turns!Keep, Turns!Nobody
  <2> QED
    BY <2>1 DEF Turns!TurnNext, Turns!Move
<1>4. CASE mgr'.active # mgr.active /\ mgr'.active = 0
  <2>1. ~Using' /\ mgr'.queue = {}
    BY <1>1, <1>4, HandOverIsQuiet DEF TurnView
  <2>2. Turns!HandOver({})
    BY <1>4, <2>1 DEF Turns!HandOver, Turns!Nobody, Using
  <2> QED
    BY <2>2 DEF Turns!TurnNext, Turns!Move
<1>5. CASE mgr'.active # mgr.active /\ mgr'.active # 0
  <2> DEFINE line == mgr'.queue \cup {mgr'.active}
  <2>0. mgr'.active \in Nat
    BY <1>1, <1>5 DEF TurnView
  <2>1. ~Using' /\ line \in SUBSET mgr.queue
    BY <1>1, <1>5, HandOverIsQuiet
  <2>2. \A u \in line : mgr'.active <= u
    BY <1>1, <2>0 DEF TurnView
  <2>3. mgr'.queue = line \ {mgr'.active}
    BY <1>1 DEF TurnView
  <2>4. Turns!HandOver(line)
    BY <2>1, <2>2, <2>3 DEF Turns!HandOver, Using
  <2> QED
    BY <2>1, <2>4 DEF Turns!TurnNext, Turns!Move
<1> QED
  BY <1>2, <1>3, <1>4, <1>5

(* A step that hands out a ticket, which waits or has the browser.         *)
LEMMA AskStep ==
    ASSUME IInv, IInv', issued' = issued + 1,
           mgr'.queue \subseteq mgr.queue \cup {issued + 1},
           issued + 1 \in mgr'.queue \cup {mgr'.active},
           mgr'.active \in {mgr.active, NoTicket} \cup mgr.queue \cup {issued + 1},
           \A t \in Tickets : mgr'.busy[t] > 0 => mgr.busy[t] > 0
    PROVE  Turns!TurnNext
<1> DEFINE new == issued + 1
<1>1. TurnView /\ TurnView' /\ NoTicket = 0 /\ new \in Nat \ {0}
  BY TurnState, TurnStateAfter DEF NoTicket, TurnView
<1>2. mgr'.active # 0
  BY <1>1 DEF TurnView
<1>3. CASE mgr'.active = mgr.active
  <2> DEFINE line == mgr'.queue \ {new}
  <2>1. mgr.active # new
    BY <1>1 DEF TurnView
  <2>2. line \in SUBSET mgr.queue /\ mgr'.queue = line \cup {new}
    BY <1>3, <2>1
  <2>3. Turns!Keep(line \cup {new})
    BY <1>2, <1>3, <2>2 DEF Turns!Keep, Turns!Nobody
  <2> QED
    BY <2>2, <2>3 DEF Turns!TurnNext, Turns!Ask
<1>4. CASE mgr'.active # mgr.active
  <2> DEFINE all == mgr'.queue \cup {mgr'.active}
             line == all \ {new}
  <2>1. ~Using' /\ line \in SUBSET mgr.queue /\ all = line \cup {new}
    BY <1>1, <1>2, <1>4, HandOverIsQuiet
  <2>2. \A u \in all : mgr'.active <= u
    <3>1. mgr'.active \in Nat
      BY <1>1 DEF TurnView
    <3> QED
      BY <1>1, <3>1 DEF TurnView
  <2>3. mgr'.queue = all \ {mgr'.active}
    BY <1>1 DEF TurnView
  <2>4. Turns!HandOver(line \cup {new})
    BY <2>1, <2>2, <2>3 DEF Turns!HandOver, Using
  <2> QED
    BY <2>1, <2>4 DEF Turns!TurnNext, Turns!Ask
<1> QED
  BY <1>3, <1>4

(* The kinds of steps one by one.                                           *)
LEMMA RequestTurn ==
    ASSUME IInv, IInv', NEW k \in RequestKeys \cup {NoKey}, Request(k)
    PROVE  [Turns!TurnNext]_(Turns!turnVars)
<1> DEFINE m == Reap(mgr)
           t == issued + 1
<1>1. MgrInv(m, issued) /\ Follows(mgr, m) /\ m \in Managers
  BY ReapKeeps DEF IInv, TypeOK, MgrInv, Consistent
<1> HIDE DEF m
<1>2. CASE mgr' = m /\ issued' = issued
  BY <1>1, <1>2, MoveStep DEF Follows
<1>3. CASE /\ issued' = t
           /\ mgr' = IF m.active = NoTicket /\ m.queue = {}
                     THEN Grant(m, t)
                     ELSE [m EXCEPT !.queue = @ \cup {t}, !.wait[t] = QueueTtl]
  <2>1. /\ mgr'.busy = mgr.busy
        /\ \/ mgr'.active = t /\ mgr'.queue = m.queue
           \/ mgr'.active = m.active /\ mgr'.queue = m.queue \cup {t}
    BY <1>1, <1>3 DEF Grant, Managers, Follows
  <2> QED
    BY <1>1, <1>3, <2>1, AskStep DEF Follows
<1> QED
  BY <1>2, <1>3 DEF Request, m

(* A call begins only under the lease that had the browser before.         *)
LEMMA BeginCallTurn ==
    ASSUME IInv, IInv', NEW c \in CallIds, BeginCall(c)
    PROVE  [Turns!TurnNext]_(Turns!turnVars)
<1> DEFINE m == Reap(mgr)
           t == calls[c].lease
<1>1. /\ MgrInv(m, issued) /\ Follows(mgr, m) /\ m \in Managers
      /\ Valid(m, t) /\ t \in Tickets /\ mgr.granted[t] > 0 => mgr.active = t
  BY ReapKeeps DEF IInv, TypeOK, MgrInv, Consistent
<1>2. t \in Tickets /\ mgr.granted[t] > 0 /\ issued' = issued
  BY DEF BeginCall, IInv, CallInv
<1> HIDE DEF m, t
<1>3. CASE mgr' = m
  BY <1>1, <1>2, <1>3, MoveStep DEF Follows
<1>4. CASE Valid(m, t) /\ mgr' = TouchLease([m EXCEPT !.busy[t] = @ + 1])
  <2>1. mgr'.active = m.active /\ mgr'.queue = m.queue
    BY <1>1, <1>4 DEF TouchLease, Managers
  <2>2. mgr'.active = mgr.active
    BY <1>1, <1>2, <1>4, <2>1 DEF Valid
  <2> QED
    BY <1>1, <1>2, <2>1, <2>2, MoveStep DEF Follows
<1> QED
  BY <1>3, <1>4 DEF BeginCall, m, t

(* The end of a call may hand the browser over, with no call in flight.    *)
LEMMA FinishCallTurn ==
    ASSUME IInv, IInv', NEW c \in CallIds, NEW outcome \in {"success", "uncertain"},
           FinishCall(c, outcome)
    PROVE  [Turns!TurnNext]_(Turns!turnVars)
<1>1. issued' = issued /\ mgr.busy \in [Tickets -> Nat]
  BY DEF FinishCall, IInv, TypeOK, Managers
<1>2. \A t \in Tickets : mgr'.busy[t] > 0 => mgr.busy[t] > 0
  <2>1. mgr'.busy = [mgr.busy EXCEPT ![calls[c].lease] = 0]
    BY FinishFollows
  <2> QED
    BY <1>1, <2>1
<1> QED
  BY <1>1, <1>2, FinishFollows, MoveStep

(* The relay hands the shared browser from client to client exactly as     *)
(* TurnTaking allows, for every number of clients, calls and deadlines.    *)
THEOREM ImplementsTurnTaking == Spec => TakesTurns
<1>1. Init => Turns!TurnInit
  BY DEF Init, Turns!TurnInit, Turns!Nobody, NoTicket, InFlight, FlightStages
<1>2. ASSUME IInv, IInv', [Next]_vars
      PROVE  [Turns!TurnNext]_(Turns!turnVars)
  <2>1. CASE UNCHANGED vars
    BY <2>1 DEF vars, Turns!turnVars, InFlight
  <2>2. CASE QuietNext
    BY <1>2, <2>2, QuietNextFollows, MoveStep DEF Follows
  <2>3. CASE Tick
    <3>1. /\ mgr'.active = mgr.active /\ mgr'.queue = mgr.queue
          /\ issued' = issued /\ calls' = calls
      BY <1>2, <2>3 DEF Tick, IInv, TypeOK, Managers
    <3> QED
      BY <1>2, <3>1, MoveStep
  <2>4. ASSUME NEW k \in RequestKeys \cup {NoKey}, Request(k)
        PROVE  [Turns!TurnNext]_(Turns!turnVars)
    BY <1>2, <2>4, RequestTurn
  <2>5. ASSUME NEW t \in Tickets, NEW id \in OpIds \cup {NoOp}, NEW args \in Args,
               MakeCall(t, id, args)
        PROVE  [Turns!TurnNext]_(Turns!turnVars)
    <3>1. Follows(mgr, Reap(mgr)) /\ mgr' = Reap(mgr) /\ issued' = issued
      BY <1>2, <2>5, ReapKeeps DEF MakeCall, IInv, TypeOK
    <3> QED
      BY <1>2, <3>1, MoveStep DEF Follows
  <2>6. ASSUME NEW c \in CallIds, BeginCall(c)
        PROVE  [Turns!TurnNext]_(Turns!turnVars)
    BY <1>2, <2>6, BeginCallTurn
  <2>7. ASSUME NEW c \in CallIds, NEW outcome \in {"success", "uncertain"},
               FinishCall(c, outcome)
        PROVE  [Turns!TurnNext]_(Turns!turnVars)
    BY <1>2, <2>7, FinishCallTurn
  <2> QED
    BY <1>2, <2>1, <2>2, <2>3, <2>4, <2>5, <2>6, <2>7 DEF Next, QuietNext
<1> QED
  BY <1>1, <1>2, InvariantHolds, PTL DEF Spec, TakesTurns, Turns!TurnSpec

-----------------------------------------------------------------------------
(* The operation caches.  That an operation is not driven twice, and that  *)
(* what is replayed was true, follow from what the cache of a lease holds: *)
(* the outcomes of its calls and nothing else, and all of them as long as  *)
(* the lease may begin calls and the cache is not full.                    *)

(* A call whose turn came settled or is the first of its lease that has    *)
(* not: the order in which a lease's calls begin is the order of the chain.*)
InTurn == \A c \in CallIds : calls[c].stage \notin {"idle", "chained"} => Turn(c)

OneEach(s) == \A i, j \in 1..Len(s) : s[i].id = s[j].id => i = j

(* Every entry of a lease's cache is the outcome of a call that was sent   *)
(* for it, and no two entries have one operation_id.                       *)
RecordedBy(t, e, d) ==
    /\ calls[d].lease = t
    /\ calls[d].id = e.id
    /\ calls[d].args = e.args
    /\ calls[d].stage = e.outcome

CacheSound ==
    \A t \in Tickets :
        /\ \A i \in 1..Len(mgr.cache[t]) :
              \E d \in CallIds : RecordedBy(t, mgr.cache[t][i], d)
        /\ OneEach(mgr.cache[t])

(* The operations whose outcome is known are in the cache of a lease that  *)
(* may still begin calls, unless the cache is full.                        *)
Ended(t, d) ==
    /\ calls[d].lease = t
    /\ calls[d].id # NoOp
    /\ calls[d].stage \in {"success", "uncertain"}

CacheComplete ==
    \A t \in Tickets : Valid(mgr, t) =>
        \/ Len(mgr.cache[t]) >= MaxCached
        \/ \A d \in CallIds : Ended(t, d) => Cached(mgr, t, calls[d].id)

CacheInv == InTurn /\ CacheSound /\ CacheComplete /\ SentOnce /\ ReplaysAreExact

-----------------------------------------------------------------------------
(* What becomes of the caches when the manager goes from m to r: one is    *)
(* left as it was, or emptied; then its lease takes no more calls, or has  *)
(* not been granted yet.                                                   *)
Forgets(m, r) ==
    \A t \in Tickets :
        \/ r.cache[t] = m.cache[t]
        \/ r.cache[t] = <<>> /\ (m.granted[t] > 0 => ~Valid(r, t))

LEMMA ForgetsTrans ==
    ASSUME NEW m, NEW r, NEW s, NEW n, Consistent(m, n), Consistent(r, n),
           Follows(m, r), Follows(r, s), Forgets(m, r), Forgets(r, s)
    PROVE  Forgets(m, s)
<1> SUFFICES ASSUME NEW t \in Tickets
             PROVE  \/ s.cache[t] = m.cache[t]
                    \/ s.cache[t] = <<>> /\ (m.granted[t] > 0 => ~Valid(s, t))
  BY DEF Forgets
<1>1. m.granted[t] > 0 => r.granted[t] > 0
  BY DEF Follows
<1>2. r.granted[t] > 0 /\ ~Valid(r, t) => ~Valid(s, t)
  BY DEF Follows, Valid
<1> QED
  BY <1>1, <1>2 DEF Forgets

LEMMA GrantNextCache ==
    ASSUME NEW m \in Managers
    PROVE  GrantNext(m).cache = m.cache
<1>1. \A u, q : Grant([m EXCEPT !.queue = q], u).cache = m.cache
  BY DEF Grant, Managers
<1>2. [m EXCEPT !.queue = {}].cache = m.cache
  BY DEF Managers
<1> QED
  BY <1>1, <1>2 DEF GrantNext

LEMMA ReleaseActiveForgets ==
    ASSUME NEW m, NEW n \in 0..MaxTickets, NEW t \in Tickets,
           Consistent(m, n), m.active = t, m.busy[t] = 0
    PROVE  Forgets(m, ReleaseActive(m, t))
<1> DEFINE e == [m EXCEPT !.active = NoTicket, !.cache[t] = <<>>]
<1>1. m \in Managers
  BY DEF Consistent
<1>2. e \in Managers
  <2>1. <<>> \in Seq(CacheEntries)
    OBVIOUS
  <2>2. \A s \in Seq(CacheEntries) :
            [m EXCEPT !.active = NoTicket, !.cache[t] = s] \in Managers
    BY <1>1 DEF Managers
  <2> QED
    BY <2>1, <2>2
<1>3. e.cache = [m.cache EXCEPT ![t] = <<>>] /\ m.cache \in [Tickets -> Seq(CacheEntries)]
  BY <1>1 DEF Managers
<1>4. ReleaseActive(m, t) = GrantNext(e)
  BY DEF ReleaseActive
<1> HIDE DEF e
<1>5. ReleaseActive(m, t).cache = e.cache
  BY <1>2, <1>4, GrantNextCache
<1>6. ~Valid(ReleaseActive(m, t), t)
  BY ReleaseActiveKeeps DEF Valid
<1> QED
  BY <1>3, <1>5, <1>6 DEF Forgets

LEMMA FenceForgets ==
    ASSUME NEW m \in Managers, NEW t \in Tickets, NEW x \in BOOLEAN
    PROVE  Forgets(m, Fence(m, t, x))
<1>1. /\ Fence(m, t, x).cache = [m.cache EXCEPT ![t] = <<>>]
      /\ t \in Fence(m, t, x).fenced
      /\ m.cache \in [Tickets -> Seq(CacheEntries)]
  BY DEF Fence, Managers
<1> QED
  BY <1>1 DEF Forgets, Valid

LEMMA ReleaseIfIdleForgets ==
    ASSUME NEW m, NEW n \in 0..MaxTickets, NEW t \in Tickets,
           Consistent(m, n), m.active = t
    PROVE  Forgets(m, ReleaseIfIdle(m, t))
BY ReleaseActiveForgets DEF ReleaseIfIdle, Forgets

LEMMA ExpireForgets ==
    ASSUME NEW m, NEW n \in 0..MaxTickets, NEW t \in Tickets,
           Consistent(m, n), m.active = t
    PROVE  Forgets(m, Expire(m, t))
<1> DEFINE f == Fence(m, t, TRUE)
<1>1. /\ Consistent(f, n) /\ Follows(m, f) /\ f.active = t
      /\ t \in f.fenced /\ f.pending # {}
  BY FenceKeeps
<1>2. Forgets(m, f)
  BY FenceForgets DEF Consistent
<1>3. Expire(m, t) = ReleaseIfIdle(f, t)
  BY DEF Expire
<1> HIDE DEF f
<1> QED
  BY <1>1, <1>2, <1>3, ReleaseIfIdleKeeps, ReleaseIfIdleForgets, ForgetsTrans

LEMMA ReapForgets ==
    ASSUME NEW m, NEW n \in 0..MaxTickets, MgrInv(m, n)
    PROVE  Forgets(m, Reap(m))
<1> DEFINE r == [m EXCEPT !.queue = Unexpired(m)]
<1>1. m \in Managers /\ Tickets \subseteq Nat /\ NoTicket \notin Tickets /\ Consistent(m, n)
  BY BoundsAssumption DEF MgrInv, Consistent, Tickets, NoTicket
<1>2. Unexpired(m) \subseteq m.queue /\ m.queue \subseteq Tickets
  BY <1>1 DEF Unexpired, Managers
<1>3. r \in Managers
  BY <1>1, <1>2 DEF Managers
<1>4. /\ r.active = m.active /\ r.queue = Unexpired(m) /\ r.generation = m.generation
      /\ r.granted = m.granted /\ r.ttl = m.ttl /\ r.hard = m.hard
      /\ r.fenced = m.fenced /\ r.busy = m.busy /\ r.cache = m.cache
  BY <1>1 DEF Managers
<1>5. Reap(m) = IF r.active # NoTicket /\ r.ttl = 0 THEN Expire(r, r.active) ELSE r
  BY DEF Reap
<1> HIDE DEF r
<1>6. Consistent(r, n)
  BY <1>1, <1>2, <1>3, <1>4 DEF Consistent
<1>7. Follows(m, r) /\ Forgets(m, r)
  BY <1>2, <1>4 DEF Follows, Forgets
<1>8. CASE r.active # NoTicket /\ r.ttl = 0
  <2>1. r.active \in Tickets
    BY <1>3, <1>8 DEF Managers
  <2> QED
    BY <1>1, <1>5, <1>6, <1>7, <1>8, <2>1, ExpireKeeps, ExpireForgets, ForgetsTrans
<1> QED
  BY <1>5, <1>7, <1>8

LEMMA ReleaseValidForgets ==
    ASSUME NEW m, NEW n \in 0..MaxTickets, NEW t \in Tickets, MgrInv(m, n), Valid(m, t)
    PROVE  Forgets(m, ReleaseValid(m, t))
<1> DEFINE p == [m EXCEPT !.pending = m.pending \cup {"release"}]
<1>1. m \in Managers /\ Consistent(m, n)
  BY DEF MgrInv, Consistent
<1>2. p \in Managers
  <2>1. m.pending \cup {"release"} \in SUBSET {"expired", "release"}
    BY <1>1 DEF Managers
  <2>2. \A q \in SUBSET {"expired", "release"} : [m EXCEPT !.pending = q] \in Managers
    BY <1>1 DEF Managers
  <2> QED
    BY <2>1, <2>2
<1>3. /\ p.active = m.active /\ p.queue = m.queue /\ p.generation = m.generation
      /\ p.granted = m.granted /\ p.ttl = m.ttl /\ p.hard = m.hard
      /\ p.fenced = m.fenced /\ p.busy = m.busy /\ p.cache = m.cache
  BY <1>1 DEF Managers
<1>4. ReleaseValid(m, t) = ReleaseIfIdle(Fence(p, t, FALSE), t)
  BY DEF ReleaseValid
<1>5. p.pending # {}
  BY <1>1 DEF Managers
<1> HIDE DEF p
<1>6. Consistent(p, n) /\ Follows(m, p) /\ Forgets(m, p) /\ p.active = t
  BY <1>1, <1>2, <1>3 DEF Consistent, Follows, Forgets, Valid
<1> DEFINE f == Fence(p, t, FALSE)
<1>7. Consistent(f, n) /\ Follows(p, f) /\ Forgets(p, f) /\ f.active = t
  BY <1>2, <1>6, FenceKeeps, FenceForgets
<1> HIDE DEF f
<1>8. Follows(m, f) /\ Forgets(m, f)
  BY <1>1, <1>6, <1>7, FollowsTrans, ForgetsTrans
<1>9. t \in f.fenced /\ f.pending # {}
  BY <1>5, <1>6, FenceKeeps DEF f
<1>10. Follows(f, ReleaseIfIdle(f, t)) /\ Forgets(f, ReleaseIfIdle(f, t))
  BY <1>7, <1>9, ReleaseIfIdleKeeps, ReleaseIfIdleForgets
<1> QED
  BY <1>1, <1>4, <1>7, <1>8, <1>10, ForgetsTrans DEF f

LEMMA EndForgets ==
    ASSUME NEW m, NEW n \in 0..MaxTickets, NEW t \in Tickets, MgrInv(m, n),
           m.active = t, m.busy[t] = 1
    PROVE  Forgets(m, EndCall(m, t))
<1> DEFINE e == [m EXCEPT !.busy[t] = 0]
<1>1. m \in Managers /\ Tickets \subseteq Nat /\ NoTicket \notin Tickets /\ Consistent(m, n)
  BY BoundsAssumption DEF MgrInv, Consistent, Tickets, NoTicket
<1>2. [m EXCEPT !.busy[t] = IF @ > 0 THEN @ - 1 ELSE 0] = e
  BY <1>1 DEF Managers
<1>3. e \in Managers
  BY <1>1 DEF Managers
<1>4. /\ e.active = m.active /\ e.queue = m.queue /\ e.generation = m.generation
      /\ e.granted = m.granted /\ e.ttl = m.ttl /\ e.hard = m.hard
      /\ e.fenced = m.fenced /\ e.busy = [m.busy EXCEPT ![t] = 0] /\ e.cache = m.cache
  BY <1>1 DEF Managers
<1>5. m.busy \in [Tickets -> Nat]
  BY <1>1 DEF Managers
<1> HIDE DEF e
<1>6. Consistent(e, n) /\ e.busy[t] = 0
  BY <1>1, <1>3, <1>4, <1>5 DEF Consistent
<1>7. EndCall(m, t) = IF t \in e.fenced \/ e.ttl = 0 THEN ReleaseActive(e, t) ELSE e
  BY <1>2, <1>4, <1>6 DEF EndCall
<1>8. Forgets(e, EndCall(m, t))
  BY <1>4, <1>6, <1>7, ReleaseActiveForgets DEF Forgets
<1> QED
  BY <1>4, <1>8 DEF Forgets

(* v is what the cache s becomes when the entry is put in: it is there, no *)
(* other has its key, and one is lost only when the cache is full.         *)
Has(s, id) == \E i \in 1..Len(s) : s[i].id = id
Enters(entry, s, v) ==
    /\ \A i \in 1..Len(v) : v[i] = entry \/ \E j \in 1..Len(s) : v[i] = s[j]
    /\ OneEach(s) => OneEach(v)
    /\ Has(v, entry.id)
    /\ Len(s) >= MaxCached => Len(v) >= MaxCached
    /\ ~(Len(s) >= MaxCached) => \A id : Has(s, id) => Has(v, id)

(* cacheOperation puts the entry in, keeps the keys apart, and drops one   *)
(* that is there only when the cache is full.                              *)
LEMMA CacheOperationKeys ==
    ASSUME NEW m \in Managers, NEW t \in Tickets, NEW entry \in CacheEntries,
           NEW s, s = m.cache[t],
           NEW r, r = CacheOperation(m, t, entry),
           NEW v, v = r.cache[t]
    PROVE  /\ \A u \in Tickets : u # t => r.cache[u] = m.cache[u]
           /\ Enters(entry, s, v)
<1>1. s \in Seq(CacheEntries) /\ m.cache \in [Tickets -> Seq(CacheEntries)]
  BY DEF Managers
<1> DEFINE kept == IF Len(s) >= MaxCached THEN Tail(s) ELSE s
           w == IF Cached(m, t, entry.id)
                THEN [i \in 1..Len(s) |-> IF s[i].id = entry.id THEN entry ELSE s[i]]
                ELSE Append(kept, entry)
<1>2. r.cache = [m.cache EXCEPT ![t] = w]
  BY DEF CacheOperation, Managers
<1>3. v = w /\ \A u \in Tickets : u # t => r.cache[u] = m.cache[u]
  BY <1>1, <1>2
<1>4. Cached(m, t, entry.id) <=> \E i \in 1..Len(s) : s[i].id = entry.id
  BY DEF Cached
<1>5. CASE Cached(m, t, entry.id)
  <2>1. v = [i \in 1..Len(s) |-> IF s[i].id = entry.id THEN entry ELSE s[i]]
    BY <1>3, <1>5
  <2>2. Len(v) = Len(s) /\ \A i \in 1..Len(s) : v[i].id = s[i].id
    BY <1>1, <2>1
  <2>3. \A i \in 1..Len(s) : v[i] = IF s[i].id = entry.id THEN entry ELSE s[i]
    BY <2>1
  <2> HIDE DEF w, kept
  <2>4. OneEach(s) => OneEach(v)
    BY <2>2 DEF OneEach
  <2>5. Has(v, entry.id) /\ \A id : Has(s, id) => Has(v, id)
    BY <1>4, <1>5, <2>2 DEF Has
  <2>6. \A i \in 1..Len(v) : v[i] = entry \/ \E j \in 1..Len(s) : v[i] = s[j]
    BY <2>2, <2>3
  <2>7. Len(s) >= MaxCached => Len(v) >= MaxCached
    BY <2>2
  <2> QED
    BY <1>3, <2>4, <2>5, <2>6, <2>7 DEF Enters
<1>6. CASE ~Cached(m, t, entry.id)
  <2>1. v = Append(kept, entry)
    BY <1>3, <1>6
  <2>2. PICK k \in 0..1 : /\ k = 1 <=> Len(s) >= MaxCached
                          /\ kept \in Seq(CacheEntries)
                          /\ Len(kept) = Len(s) - k
                          /\ \A i \in 1..Len(kept) : kept[i] = s[i + k] /\ i + k \in 1..Len(s)
    <3>1. CASE Len(s) >= MaxCached
      <4>1. s # <<>> /\ kept = Tail(s)
        BY <1>1, <3>1, TimesAssumption
      <4> HIDE DEF kept, w
      <4>2. kept \in Seq(CacheEntries) /\ Len(kept) = Len(s) - 1
        BY <1>1, <4>1
      <4>3. \A i \in 1..Len(kept) : kept[i] = s[i + 1] /\ i + 1 \in 1..Len(s)
        BY <1>1, <4>1, <4>2
      <4> QED
        BY <3>1, <4>2, <4>3
    <3>2. CASE ~(Len(s) >= MaxCached)
      <4>1. kept = s
        BY <3>2
      <4> HIDE DEF kept, w
      <4>2. \A i \in 1..Len(s) : s[i + 0] = s[i] /\ i + 0 \in 1..Len(s)
        BY <1>1
      <4> QED
        BY <1>1, <3>2, <4>1, <4>2
    <3> QED
      BY <3>1, <3>2
  <2> HIDE DEF w, kept
  <2>3. /\ Len(v) = Len(kept) + 1 /\ v[Len(v)] = entry
        /\ \A i \in 1..Len(kept) : v[i] = s[i + k] /\ i + k \in 1..Len(s)
    BY <2>1, <2>2
  <2>4. Len(s) \in Nat /\ Len(kept) \in Nat /\ 1..Len(v) = 1..Len(kept) \cup {Len(v)}
    BY <1>1, <2>2, <2>3
  <2>5. \A i \in 1..Len(s) : s[i].id # entry.id
    BY <1>4, <1>6
  <2>6. \A i \in 1..Len(v) : v[i] = entry \/ \E j \in 1..Len(s) : v[i] = s[j]
    BY <2>3, <2>4, <2>5
  <2>7. ASSUME \A i, j \in 1..Len(s) : s[i].id = s[j].id => i = j,
               NEW i \in 1..Len(v), NEW j \in 1..Len(v), v[i].id = v[j].id
        PROVE  i = j
    <3>0. i \in Int /\ j \in Int /\ k \in Int /\ entry.id = v[Len(v)].id
      BY <2>2, <2>3, <2>4
    <3>1. CASE i \in 1..Len(kept) /\ j \in 1..Len(kept)
      <4>1. s[i + k].id = s[j + k].id /\ i + k \in 1..Len(s) /\ j + k \in 1..Len(s)
        BY <2>3, <2>7, <3>1
      <4>2. i + k = j + k
        BY <2>7, <4>1
      <4> QED
        BY <3>0, <4>2
    <3>2. CASE i = Len(v) /\ j \in 1..Len(kept)
      <4>1. s[j + k].id = entry.id /\ j + k \in 1..Len(s)
        BY <2>3, <2>7, <3>2
      <4> QED
        BY <2>5, <4>1
    <3>3. CASE j = Len(v) /\ i \in 1..Len(kept)
      <4>1. s[i + k].id = entry.id /\ i + k \in 1..Len(s)
        BY <2>3, <2>7, <3>3
      <4> QED
        BY <2>5, <4>1
    <3>4. i \in 1..Len(kept) \cup {Len(v)} /\ j \in 1..Len(kept) \cup {Len(v)}
      BY <2>4, <2>7
    <3> QED
      BY <3>1, <3>2, <3>3, <3>4
  <2>8. Len(s) >= MaxCached => Len(v) >= MaxCached
    BY <2>2, <2>3, <2>4, TimesAssumption
  <2>9. ~(Len(s) >= MaxCached) =>
            \A j \in 1..Len(s) : \E i \in 1..Len(v) : v[i].id = s[j].id
    <3> SUFFICES ASSUME ~(Len(s) >= MaxCached), NEW j \in 1..Len(s)
                 PROVE  \E i \in 1..Len(v) : v[i].id = s[j].id
      OBVIOUS
    <3>1. k = 0
      BY <2>2
    <3>2. j \in 1..Len(kept) /\ j + k = j
      BY <2>2, <2>4, <3>1
    <3>3. v[j] = s[j] /\ j \in 1..Len(v)
      BY <2>3, <2>4, <3>2
    <3> QED
      BY <3>3
  <2>10. \E i \in 1..Len(v) : v[i] = entry
    BY <2>3, <2>4
  <2>11. Has(v, entry.id) /\ (OneEach(s) => OneEach(v))
    BY <2>7, <2>10 DEF OneEach, Has
  <2>12. ~(Len(s) >= MaxCached) => \A id : Has(s, id) => Has(v, id)
    BY <2>9 DEF Has
  <2> QED
    BY <1>3, <2>6, <2>8, <2>11, <2>12 DEF Enters
<1> QED
  BY <1>5, <1>6

-----------------------------------------------------------------------------
(* A lease that was granted gains no right to begin calls.                 *)
NoRevival == \A t \in Tickets : mgr.granted[t] > 0 /\ Valid(mgr, t)' => Valid(mgr, t)

EndStages == {"success", "uncertain"}

(* A step that ends no call that has an operation_id, and only empties     *)
(* caches, keeps what the caches say.                                      *)
LEMMA CachesStand ==
    ASSUME IInv, CacheSound, CacheComplete, NoRevival, Forgets(mgr, mgr'),
           \A d \in CallIds :
              \/ calls'[d] = calls[d]
              \/ /\ calls[d].stage \notin EndStages
                 /\ calls'[d].stage \notin EndStages \/ calls'[d].id = NoOp
    PROVE  CacheSound' /\ CacheComplete'
<1>1. mgr.cache \in [Tickets -> Seq(CacheEntries)] /\ CallInv
  BY DEF IInv, TypeOK, Managers
<1>2. \A t \in Tickets : \A i \in 1..Len(mgr.cache[t]) :
          mgr.cache[t][i].outcome \in EndStages
  <2> SUFFICES ASSUME NEW t \in Tickets, NEW i \in 1..Len(mgr.cache[t])
               PROVE  mgr.cache[t][i].outcome \in EndStages
    OBVIOUS
  <2>1. mgr.cache[t] \in Seq(CacheEntries)
    BY <1>1
  <2>2. mgr.cache[t][i] \in CacheEntries
    BY <2>1
  <2> QED
    BY <2>2 DEF CacheEntries, EndStages
<1>3. CacheSound'
  <2> SUFFICES ASSUME NEW t \in Tickets
               PROVE  /\ \A i \in 1..Len(mgr'.cache[t]) :
                            \E d \in CallIds : RecordedBy(t, mgr.cache[t][i], d)'
                      /\ OneEach(mgr'.cache[t])
    BY DEF CacheSound, OneEach
  <2>1. CASE mgr'.cache[t] = <<>>
    <3>1. Len(mgr'.cache[t]) = 0
      BY <2>1
    <3> QED
      BY <3>1 DEF OneEach
  <2>2. CASE mgr'.cache[t] = mgr.cache[t]
    <3>1. \A d \in CallIds : calls[d].stage \in EndStages => calls'[d] = calls[d]
      OBVIOUS
    <3> QED
      BY <1>2, <2>2, <3>1 DEF CacheSound, RecordedBy
  <2> QED
    BY <2>1, <2>2 DEF Forgets
<1>4. CacheComplete'
  <2> SUFFICES ASSUME NEW t \in Tickets, Valid(mgr, t)'
               PROVE  \/ Len(mgr'.cache[t]) >= MaxCached
                      \/ \A d \in CallIds : Ended(t, d)' => Cached(mgr, t, calls[d].id)'
    BY DEF CacheComplete
  <2>1. \A d \in CallIds : Ended(t, d)' => Ended(t, d) /\ calls'[d] = calls[d]
    BY DEF Ended, EndStages
  <2>2. CASE mgr.granted[t] > 0
    <3>1. Valid(mgr, t) /\ mgr'.cache[t] = mgr.cache[t]
      BY <2>2 DEF NoRevival, Forgets, Valid
    <3> QED
      BY <2>1, <3>1 DEF CacheComplete, Cached
  <2>3. CASE ~(mgr.granted[t] > 0)
    <3>1. \A d \in CallIds : ~Ended(t, d)
      BY <1>1, <2>3 DEF CallInv, Ended
    <3> QED
      BY <2>1, <3>1
  <2> QED
    BY <2>2, <2>3
<1> QED
  BY <1>3, <1>4

(* What was sent for a lease is a finite set.                              *)
LEMMA SentFinite ==
    ASSUME NEW f, NEW t,
           NEW S, S = {f[c].id : c \in {d \in CallIds :
                          f[d].lease = t /\ f[d].stage \in SentStages}} \ {NoOp}
    PROVE  IsFiniteSet(S) /\ Cardinality(S) \in Nat
<1> DEFINE ids == {f[c].id : c \in CallIds}
           g == [c \in CallIds |-> f[c].id]
<1>1. g \in Surjection(CallIds, ids)
  BY DEF Surjection
<1>2. IsFiniteSet(CallIds)
  BY BoundsAssumption, FS_Interval DEF CallIds
<1>3. S \in SUBSET ids
  OBVIOUS
<1> HIDE DEF g, ids
<1>4. IsFiniteSet(ids)
  BY <1>1, <1>2, FS_Surjection
<1>5. IsFiniteSet(S)
  BY <1>3, <1>4, FS_Subset
<1> QED
  BY <1>5, FS_CardinalityType

(* What was sent stays sent.                                               *)
SentStays ==
    \A d \in CallIds : calls[d].stage \in SentStages =>
        /\ calls'[d].stage \in SentStages
        /\ calls'[d].lease = calls[d].lease
        /\ calls'[d].id = calls[d].id

LEMMA SentGrows ==
    ASSUME SentStays, NEW t
    PROVE  /\ Cardinality(SentOps(t)) \in Nat /\ Cardinality(SentOps(t)') \in Nat
           /\ Cardinality(SentOps(t)) <= Cardinality(SentOps(t)')
<1>1. IsFiniteSet(SentOps(t)) /\ Cardinality(SentOps(t)) \in Nat
  BY SentFinite DEF SentOps
<1>2. IsFiniteSet(SentOps(t)') /\ Cardinality(SentOps(t)') \in Nat
  BY SentFinite DEF SentOps
<1>3. SentOps(t) \in SUBSET (SentOps(t)')
  BY DEF SentOps, SentStays
<1> QED
  BY <1>1, <1>2, <1>3, FS_Subset

LEMMA SentOnceStands ==
    ASSUME SentOnce, SentStays,
           \A d \in CallIds : calls'[d].stage \in SentStages /\ calls'[d].id # NoOp =>
              calls[d].stage \in SentStages
    PROVE  SentOnce'
<1> SUFFICES ASSUME NEW c \in CallIds, NEW d \in CallIds,
                    c # d, calls'[c].id # NoOp, calls'[c].id = calls'[d].id,
                    NEW t, calls'[c].lease = t, calls'[d].lease = t,
                    calls'[c].stage \in SentStages, calls'[d].stage \in SentStages
             PROVE  Cardinality(SentOps(t)') > MaxCached
  BY DEF SentOnce, SentOps
<1>1. calls[c].stage \in SentStages /\ calls[d].stage \in SentStages
  OBVIOUS
<1>2. /\ calls'[c].lease = calls[c].lease /\ calls'[d].lease = calls[d].lease
      /\ calls'[c].id = calls[c].id /\ calls'[d].id = calls[d].id
  BY <1>1 DEF SentStays
<1>3. Cardinality(SentOps(t)) > MaxCached
  BY <1>1, <1>2 DEF SentOnce
<1> QED
  BY <1>3, SentGrows, TimesAssumption

(* An ended operation that a usable lease no longer knows was pushed out   *)
(* by MaxCached others.                                                    *)
LEMMA ForgottenIsPushedOut ==
    ASSUME IInv, CacheSound, CacheComplete, NEW t \in Tickets, Valid(mgr, t),
           NEW d \in CallIds, Ended(t, d), ~Cached(mgr, t, calls[d].id)
    PROVE  Cardinality(SentOps(t)) > MaxCached
<1> DEFINE s == mgr.cache[t]
           id == calls[d].id
           n == Len(s)
           f == [i \in 1..n |-> s[i].id]
           S == SentOps(t)
<1>1. s \in Seq(CacheEntries)
  BY DEF IInv, TypeOK, Managers
<1>2. n \in Nat /\ n >= MaxCached
  BY <1>1 DEF CacheComplete
<1>3. \A i \in 1..n : s[i].id \in S \ {id}
  <2> SUFFICES ASSUME NEW i \in 1..n PROVE s[i].id \in S /\ s[i].id # id
    OBVIOUS
  <2>1. s[i] \in CacheEntries
    BY <1>1
  <2>2. s[i].id # NoOp /\ s[i].outcome \in SentStages
    BY <2>1, NamesAssumption DEF CacheEntries, SentStages
  <2>3. PICK e \in CallIds : RecordedBy(t, s[i], e)
    BY DEF CacheSound
  <2> QED
    BY <2>2, <2>3 DEF RecordedBy, SentOps, Cached
<1>4. \A i, j \in 1..n : s[i].id = s[j].id => i = j
  BY DEF CacheSound, OneEach
<1>5. id \in S
  BY DEF Ended, SentOps, SentStages
<1>6. IsFiniteSet(S) /\ Cardinality(S) \in Nat
  BY SentFinite DEF SentOps
<1> HIDE DEF s, n, id, S
<1>7. f \in Injection(1..n, S \ {id})
  BY <1>3, <1>4 DEF Injection, IsInjective
<1> HIDE DEF f
<1>8. /\ IsFiniteSet(S \ {id}) /\ Cardinality(S \ {id}) = Cardinality(S) - 1
  BY <1>5, <1>6, FS_RemoveElement
<1>9. Cardinality(1..n) <= Cardinality(S \ {id})
  BY <1>7, <1>8, FS_Injection
<1>10. Cardinality(1..n) = n
  BY <1>2, FS_Interval
<1> QED
  BY <1>2, <1>6, <1>8, <1>9, <1>10, TimesAssumption DEF S

-----------------------------------------------------------------------------
(* A step that makes, begins and ends no call.                             *)
LEMMA QuietCaches ==
    ASSUME IInv, CacheInv, NoRevival, Forgets(mgr, mgr'), UNCHANGED calls
    PROVE  CacheInv'
<1>1. CacheSound' /\ CacheComplete'
  BY CachesStand DEF CacheInv
<1>2. InTurn' /\ ReplaysAreExact'
  BY DEF CacheInv, InTurn, Turn, Settled, ReplaysAreExact
<1>3. SentOnce'
  BY SentOnceStands DEF CacheInv, SentStays
<1> QED
  BY <1>1, <1>2, <1>3 DEF CacheInv

LEMMA InitCaches == Init => CacheInv
<1> SUFFICES ASSUME Init PROVE CacheInv
  OBVIOUS
<1>1. \A c \in CallIds : calls[c].stage = "idle" /\ calls[c].id = NoOp
  BY DEF Init
<1>2. \A t \in Tickets : mgr.cache[t] = <<>>
  BY DEF Init
<1>3. \A t \in Tickets : Len(mgr.cache[t]) = 0
  BY <1>2
<1>4. CacheSound
  BY <1>3 DEF CacheSound, OneEach
<1> QED
  BY <1>1, <1>4 DEF CacheInv, InTurn, CacheComplete, Ended, SentOnce, ReplaysAreExact

LEMMA QuietNextCaches ==
    ASSUME IInv, CacheInv, QuietNext
    PROVE  CacheInv'
<1> DEFINE m == Reap(mgr)
<1>0. issued \in 0..MaxTickets /\ MgrInv(mgr, issued) /\ Consistent(mgr, issued)
  BY DEF IInv, TypeOK, MgrInv
<1>1. /\ MgrInv(m, issued) /\ Follows(mgr, m) /\ Consistent(m, issued)
      /\ Forgets(mgr, m)
  BY <1>0, ReapKeeps, ReapForgets DEF MgrInv
<1>2. Follows(mgr, mgr') /\ UNCHANGED calls
  BY QuietNextFollows
<1>3. NoRevival
  BY <1>2 DEF NoRevival, Follows, Valid
<1>4. ASSUME NEW r, Follows(m, r), Forgets(m, r)
      PROVE  Forgets(mgr, r)
  BY <1>0, <1>1, <1>4, ForgetsTrans
<1>5. m \in Managers /\ mgr \in Managers
  BY <1>0, <1>1 DEF Consistent
<1>6. ASSUME Status PROVE Forgets(mgr, mgr')
  BY <1>1, <1>6 DEF Status
<1>7. ASSUME NEW t \in Tickets, Touch(t)
      PROVE  Forgets(mgr, mgr')
  <2>1. Valid(m, t) /\ mgr' = TouchLease(m)
    BY <1>7 DEF Touch
  <2>2. TouchLease(m).cache = m.cache
    BY <1>5 DEF TouchLease, Managers
  <2>3. Follows(m, mgr') /\ Forgets(m, mgr')
    BY <1>0, <1>1, <2>1, <2>2, TouchKeeps DEF Forgets
  <2> QED
    BY <1>4, <2>3
<1>8. ASSUME NEW t \in Tickets, NEW r \in Managers, MgrInv(r, issued), Follows(mgr, r),
             Forgets(mgr, r), Valid(r, t), mgr' = ReleaseValid(r, t)
      PROVE  Forgets(mgr, mgr')
  <2>1. Follows(r, mgr') /\ Forgets(r, mgr')
    BY <1>0, <1>8, ReleaseValidKeeps, ReleaseValidForgets
  <2> QED
    BY <1>0, <1>8, <2>1, ForgetsTrans DEF MgrInv
<1>9. ASSUME NEW t \in Tickets, NEW r \in Managers, Forgets(mgr, r),
             mgr' = [r EXCEPT !.queue = @ \ {t}]
      PROVE  Forgets(mgr, mgr')
  <2>1. mgr'.cache = r.cache /\ mgr'.active = r.active /\ mgr'.fenced = r.fenced
    BY <1>9 DEF Managers
  <2> QED
    BY <1>9, <2>1 DEF Forgets, Valid
<1>10. ASSUME NEW t \in Tickets, Release(t)
       PROVE  Forgets(mgr, mgr')
  BY <1>1, <1>5, <1>8, <1>10 DEF Release
<1>11. ASSUME NEW t \in Tickets, Cancel(t)
       PROVE  Forgets(mgr, mgr')
  BY <1>1, <1>5, <1>8, <1>9, <1>11 DEF Cancel
<1>12. ASSUME NEW t \in Tickets, ExpireQueued(t)
       PROVE  Forgets(mgr, mgr')
  BY <1>5, <1>9, <1>12 DEF ExpireQueued, Forgets
<1>13. ASSUME ExpireActive PROVE Forgets(mgr, mgr')
  <2>1. mgr.active \in Tickets /\ mgr' = Expire(mgr, mgr.active)
    BY <1>5, <1>13 DEF ExpireActive, Managers
  <2> QED
    BY <1>0, <2>1, ExpireForgets
<1>14. Forgets(mgr, mgr')
  BY <1>6, <1>1, <1>7, <1>10, <1>11, <1>12, <1>13 DEF QuietNext, Status
<1> QED
  BY <1>2, <1>3, <1>14, QuietCaches

LEMMA TickCaches ==
    ASSUME IInv, CacheInv, Tick
    PROVE  CacheInv'
<1>1. mgr \in Managers
  BY DEF IInv, TypeOK
<1>2. mgr'.cache = mgr.cache /\ mgr'.active = mgr.active /\ mgr'.fenced = mgr.fenced
      /\ UNCHANGED calls
  BY <1>1 DEF Tick, Managers
<1>3. NoRevival /\ Forgets(mgr, mgr')
  BY <1>2 DEF NoRevival, Forgets, Valid
<1> QED
  BY <1>2, <1>3, QuietCaches

LEMMA RequestCaches ==
    ASSUME IInv, CacheInv, NEW k \in RequestKeys \cup {NoKey}, Request(k)
    PROVE  CacheInv'
<1> DEFINE m == Reap(mgr)
           t == issued + 1
<1>0. issued \in 0..MaxTickets /\ MgrInv(mgr, issued) /\ mgr \in Managers
  BY DEF IInv, TypeOK
<1>1. MgrInv(m, issued) /\ Follows(mgr, m) /\ Forgets(mgr, m) /\ m \in Managers
  BY <1>0, ReapKeeps, ReapForgets DEF MgrInv, Consistent
<1>2. \/ mgr' = m
      \/ mgr' = Grant(m, t)
      \/ mgr' = [m EXCEPT !.queue = @ \cup {t}, !.wait[t] = QueueTtl]
  BY DEF Request
<1>3. UNCHANGED calls
  BY DEF Request
<1>4. \A u \in Tickets : mgr.granted[u] > 0 => u # t
  BY <1>0 DEF MgrInv, Consistent, Tickets
<1> HIDE DEF m, t
<1>5. /\ mgr'.cache = m.cache /\ mgr'.fenced = m.fenced
      /\ mgr'.active \in {m.active, t}
  <2>1. CASE mgr' = m
    BY <2>1
  <2>2. CASE mgr' = Grant(m, t)
    BY <1>1, <2>2 DEF Grant, Managers
  <2>3. CASE mgr' = [m EXCEPT !.queue = @ \cup {t}, !.wait[t] = QueueTtl]
    BY <1>1, <2>3 DEF Managers
  <2> QED
    BY <1>2, <2>1, <2>2, <2>3
<1>6. \A u \in Tickets : mgr.granted[u] > 0 /\ Valid(mgr, u)' => Valid(m, u) /\ Valid(mgr, u)
  BY <1>1, <1>4, <1>5 DEF Follows, Valid
<1>7. NoRevival /\ Forgets(mgr, mgr')
  BY <1>1, <1>5, <1>6 DEF NoRevival, Forgets, Valid
<1> QED
  BY <1>3, <1>7, QuietCaches

LEMMA MakeCallCaches ==
    ASSUME IInv, CacheInv, NEW t \in Tickets, NEW id \in OpIds \cup {NoOp},
           NEW args \in Args, MakeCall(t, id, args)
    PROVE  CacheInv'
<1> DEFINE m == Reap(mgr)
<1>0. /\ issued \in 0..MaxTickets /\ made \in 0..MaxCalls /\ CallIds = 1..MaxCalls
      /\ calls \in [CallIds -> CallRecords]
  BY DEF IInv, TypeOK, CallIds
<1>1. Follows(mgr, m) /\ Forgets(mgr, m)
  BY <1>0, ReapKeeps, ReapForgets DEF IInv
<1>2. PICK c \in CallIds : c = made + 1
  BY <1>0, BoundsAssumption DEF MakeCall
<1>3. /\ mgr' = m
      /\ calls' = [calls EXCEPT ![c] = [lease |-> t, id |-> id, args |-> args,
                                        stage |-> "chained"]]
  BY <1>2 DEF MakeCall
<1>4. calls[c].stage = "idle" /\ \A d \in CallIds : calls[d].stage # "idle" => d < c
  BY <1>0, <1>2 DEF IInv, CallInv
<1>5. /\ \A d \in CallIds : d # c => calls'[d] = calls[d]
      /\ calls'[c].stage = "chained"
  BY <1>0, <1>3
<1> HIDE DEF m
<1>6. NoRevival /\ Forgets(mgr, mgr')
  BY <1>1, <1>3 DEF NoRevival, Follows, Valid
<1>7. CacheSound' /\ CacheComplete'
  <2>1. calls[c].stage \notin EndStages /\ calls'[c].stage \notin EndStages
    BY <1>4, <1>5 DEF EndStages
  <2> QED
    BY <1>5, <1>6, <2>1, CachesStand DEF CacheInv
<1>8. SentOnce'
  <2>1. calls[c].stage \notin SentStages /\ calls'[c].stage \notin SentStages
    BY <1>4, <1>5 DEF SentStages
  <2>2. SentStays
    BY <1>5, <2>1 DEF SentStays
  <2> QED
    BY <1>5, <2>1, <2>2, SentOnceStands DEF CacheInv
<1>9. \A d \in CallIds : d < c => \A e \in 1..(d - 1) : e \in CallIds /\ e # c
  BY <1>0, <1>2, BoundsAssumption
<1>10. InTurn'
  <2> SUFFICES ASSUME NEW d \in CallIds, calls'[d].stage \notin {"idle", "chained"}
               PROVE  Turn(d)'
    BY DEF InTurn
  <2>1. d # c /\ calls'[d] = calls[d]
    BY <1>5
  <2>2. d < c /\ Turn(d)
    BY <1>4, <2>1 DEF CacheInv, InTurn
  <2> QED
    BY <1>5, <1>9, <2>1, <2>2 DEF Turn, Settled
<1>11. ReplaysAreExact'
  <2> SUFFICES ASSUME NEW d \in CallIds, calls'[d].stage \in {"replaying", "replayed"}
               PROVE  \E e \in 1..(d - 1) :
                        /\ calls'[e].stage = "success"
                        /\ calls'[e].lease = calls'[d].lease
                        /\ calls'[e].id = calls'[d].id
                        /\ calls'[e].args = calls'[d].args
    BY DEF ReplaysAreExact
  <2>1. d # c /\ calls'[d] = calls[d] /\ d < c
    BY <1>4, <1>5
  <2>2. PICK e \in 1..(d - 1) :
            /\ calls[e].stage = "success"
            /\ calls[e].lease = calls[d].lease
            /\ calls[e].id = calls[d].id
            /\ calls[e].args = calls[d].args
    BY <2>1 DEF CacheInv, ReplaysAreExact
  <2>3. calls'[e] = calls[e]
    BY <1>5, <1>9, <2>1
  <2> QED
    BY <2>1, <2>2, <2>3
<1> QED
  BY <1>7, <1>8, <1>10, <1>11 DEF CacheInv

LEMMA BeginCallCaches ==
    ASSUME IInv, CacheInv, NEW c \in CallIds, BeginCall(c)
    PROVE  CacheInv'
<1> DEFINE m == Reap(mgr)
           t == calls[c].lease
           id == calls[c].id
<1>0. /\ issued \in 0..MaxTickets /\ CallIds = 1..MaxCalls /\ MgrInv(mgr, issued)
      /\ calls \in [CallIds -> CallRecords] /\ TypeOK /\ CallInv
  BY DEF IInv, TypeOK, CallIds
<1>1. /\ Follows(mgr, m) /\ Forgets(mgr, m) /\ MgrInv(m, issued)
      /\ \A u \in Tickets : Valid(m, u) /\ mgr.granted[u] > 0 => Valid(mgr, u)
  BY <1>0, ReapKeeps, ReapForgets DEF Valid
<1>2. /\ calls[c].stage = "chained" /\ Turn(c) /\ t \in Tickets
      /\ mgr.granted[t] > 0
  BY <1>0 DEF BeginCall, CallInv
<1>3. PICK x \in FlightStages \cup {"rejected"} :
          /\ calls' = [calls EXCEPT ![c].stage = x]
          /\ \/ x = "rejected" /\ mgr' = m
             \/ Valid(m, t) /\ mgr' = TouchLease([m EXCEPT !.busy[t] = @ + 1])
          /\ x = "driving" => Valid(m, t) /\ (id = NoOp \/ ~Cached(m, t, id))
          /\ x = "replaying" => Valid(m, t) /\ Replayable(m, t, id, calls[c].args)
  BY DEF BeginCall, FlightStages
<1>4. x \in Stages /\ x # "idle" /\ x # "chained" /\ x \notin EndStages /\ x # "replayed"
      /\ (x \in SentStages <=> x = "driving")
  BY DEF FlightStages, Stages, SettledStages, EndStages, SentStages
<1>5. /\ \A d \in CallIds : d # c => calls'[d] = calls[d]
      /\ calls'[c].stage = x
      /\ calls'[c].lease = t /\ calls'[c].id = id /\ calls'[c].args = calls[c].args
  BY <1>0, <1>3 DEF CallRecords
<1>6. mgr'.cache = m.cache /\ mgr'.active = m.active /\ mgr'.fenced = m.fenced
  <2>1. m \in Managers
    BY <1>1 DEF MgrInv, Consistent
  <2> HIDE DEF m, t
  <2> QED
    BY <1>3, <2>1 DEF TouchLease, Managers
<1> HIDE DEF m, t, id
<1>7. NoRevival /\ Forgets(mgr, mgr')
  BY <1>1, <1>6 DEF NoRevival, Forgets, Valid
<1>8. CacheSound' /\ CacheComplete'
  <2>1. calls[c].stage \notin EndStages
    BY <1>2 DEF EndStages
  <2> QED
    BY <1>4, <1>5, <1>7, <2>1, CachesStand DEF CacheInv
<1>9. \A d \in CallIds : Settled(d) => d # c
  BY <1>2 DEF Settled, SettledStages
<1>10. \A d \in CallIds : Turn(d) => Turn(d)'
  <2> SUFFICES ASSUME NEW d \in CallIds, Turn(d) PROVE Turn(d)'
    OBVIOUS
  <2>1. \A e \in 1..(d - 1) : e \in CallIds
    BY <1>0, BoundsAssumption
  <2>2. \A e \in CallIds : calls'[e].lease = calls[e].lease
    BY <1>5 DEF t
  <2> QED
    BY <1>5, <1>9, <2>1, <2>2 DEF Turn, Settled
<1>11. InTurn'
  BY <1>2, <1>5, <1>10 DEF CacheInv, InTurn
<1>12. \A d \in CallIds : calls[d].lease = t /\ calls[d].stage \notin {"idle", "chained"}
            => d < c /\ Settled(d)
  <2> SUFFICES ASSUME NEW d \in CallIds, calls[d].lease = t,
                      calls[d].stage \notin {"idle", "chained"}
               PROVE  d < c /\ Settled(d)
    OBVIOUS
  <2>1. d # c /\ Turn(d) /\ ~Settled(c)
    BY <1>2, <1>9 DEF CacheInv, InTurn
  <2>2. d \in 1..(c - 1) \/ c \in 1..(d - 1)
    BY <1>0, <2>1, BoundsAssumption
  <2>3. d \in 1..(c - 1)
    BY <2>1, <2>2 DEF Turn, t
  <2> QED
    BY <1>0, <1>2, <2>3, BoundsAssumption DEF Turn, t
<1>13. SentStays
  BY <1>2, <1>5 DEF SentStays, SentStages
<1>14. Valid(m, t) => Valid(mgr, t) /\ m.cache[t] = mgr.cache[t]
  BY <1>1, <1>2 DEF Forgets
<1>15. SentOnce'
  <2>1. CASE x # "driving" \/ id = NoOp
    <3>1. \A d \in CallIds : calls'[d].stage \in SentStages /\ calls'[d].id # NoOp =>
              calls[d].stage \in SentStages
      BY <1>4, <1>5, <2>1
    <3> QED
      BY <1>13, <3>1, SentOnceStands DEF CacheInv
  <2>2. CASE x = "driving" /\ id # NoOp
    <3>1. Valid(mgr, t) /\ ~Cached(mgr, t, id)
      BY <1>3, <1>14, <2>2 DEF Cached
    <3>2. ASSUME NEW d \in CallIds, d # c, calls[d].lease = t, calls[d].id = id,
                 calls[d].stage \in SentStages
          PROVE  Cardinality(SentOps(t)) > MaxCached
      <4>1. Settled(d)
        BY <1>12, <3>2 DEF SentStages
      <4>2. Ended(t, d)
        BY <2>2, <3>2, <4>1 DEF Ended, Settled, SettledStages, SentStages
      <4> QED
        BY <1>2, <3>1, <3>2, <4>2, ForgottenIsPushedOut DEF CacheInv
    <3> SUFFICES ASSUME NEW e \in CallIds, NEW d \in CallIds,
                        e # d, calls'[e].id # NoOp, calls'[e].id = calls'[d].id,
                        NEW u, calls'[e].lease = u, calls'[d].lease = u,
                        calls'[e].stage \in SentStages, calls'[d].stage \in SentStages
                 PROVE  Cardinality(SentOps(u)') > MaxCached
      BY DEF SentOnce, SentOps
    <3>3. Cardinality(SentOps(u)) > MaxCached
      <4>1. CASE e = c
        BY <1>5, <3>2, <4>1
      <4>2. CASE d = c
        BY <1>5, <3>2, <4>2
      <4>3. CASE e # c /\ d # c
        BY <1>5, <4>3 DEF CacheInv, SentOnce
      <4> QED
        BY <4>1, <4>2, <4>3
    <3> QED
      BY <1>13, <3>3, SentGrows, TimesAssumption
  <2> QED
    BY <2>1, <2>2
<1>16. ReplaysAreExact'
  <2> SUFFICES ASSUME NEW d \in CallIds, calls'[d].stage \in {"replaying", "replayed"}
               PROVE  \E e \in 1..(d - 1) :
                        /\ calls'[e].stage = "success"
                        /\ calls'[e].lease = calls'[d].lease
                        /\ calls'[e].id = calls'[d].id
                        /\ calls'[e].args = calls'[d].args
    BY DEF ReplaysAreExact
  <2>1. \A e \in 1..(d - 1) : e \in CallIds
    BY <1>0, BoundsAssumption
  <2>2. CASE d # c
    <3>1. PICK e \in 1..(d - 1) :
              /\ calls[e].stage = "success"
              /\ calls[e].lease = calls[d].lease
              /\ calls[e].id = calls[d].id
              /\ calls[e].args = calls[d].args
      BY <1>5, <2>2 DEF CacheInv, ReplaysAreExact
    <3>2. calls'[e] = calls[e] /\ calls'[d] = calls[d]
      BY <1>2, <1>5, <2>1, <2>2, <3>1
    <3> QED
      BY <3>1, <3>2
  <2>3. CASE d = c
    <3>1. Valid(mgr, t) /\ Replayable(mgr, t, id, calls[c].args)
      BY <1>3, <1>4, <1>5, <1>14, <2>3 DEF Replayable
    <3>2. PICK i \in 1..Len(mgr.cache[t]) :
              mgr.cache[t][i] = [id |-> id, args |-> calls[c].args, outcome |-> "success"]
      BY <3>1 DEF Replayable
    <3>3. PICK e \in CallIds : RecordedBy(t, mgr.cache[t][i], e)
      BY <1>2 DEF CacheInv, CacheSound
    <3>4. /\ calls[e].lease = t /\ calls[e].id = id /\ calls[e].args = calls[c].args
          /\ calls[e].stage = "success"
      BY <3>2, <3>3 DEF RecordedBy
    <3>5. e < c /\ e # c
      BY <1>0, <1>12, <3>4
    <3>6. e \in 1..(c - 1)
      BY <1>0, <3>5, BoundsAssumption
    <3> QED
      BY <1>5, <2>3, <3>4, <3>5, <3>6
  <2> QED
    BY <2>2, <2>3
<1> QED
  BY <1>8, <1>11, <1>15, <1>16 DEF CacheInv

(* runMutating's cacheOperation, then whatever endCall does: m stands for  *)
(* the manager between the two.                                            *)
LEMMA OutcomeCached ==
    ASSUME IInv, CacheSound, CacheComplete, NoRevival,
           NEW c \in CallIds, NEW outcome \in EndStages,
           NEW t \in Tickets, t = calls[c].lease,
           NEW entry \in CacheEntries,
           entry = [id |-> calls[c].id, args |-> calls[c].args, outcome |-> outcome],
           calls[c].stage = "driving",
           \A d \in CallIds : d # c => calls'[d] = calls[d],
           calls'[c] = [calls[c] EXCEPT !.stage = outcome],
           NEW m, m = CacheOperation(mgr, t, entry), m.granted = mgr.granted,
           Forgets(m, mgr')
    PROVE  CacheSound' /\ CacheComplete'
<1> DEFINE s == mgr.cache[t]
           v == m.cache[t]
           Will(u, e, d) == /\ calls'[d].lease = u
                            /\ calls'[d].id = e.id
                            /\ calls'[d].args = e.args
                            /\ calls'[d].stage = e.outcome
<1>0. s = mgr.cache[t] /\ v = m.cache[t]
  OBVIOUS
<1> HIDE DEF s, v
<1>1. mgr \in Managers /\ calls[c] \in CallRecords /\ CallInv
  BY DEF IInv, TypeOK
<1>2. Enters(entry, s, v) /\ \A u \in Tickets : u # t => m.cache[u] = mgr.cache[u]
  BY <1>0, <1>1, CacheOperationKeys
<1>3. /\ calls'[c].stage = outcome /\ calls'[c].lease = t
      /\ calls'[c].id = entry.id /\ calls'[c].args = entry.args /\ entry.outcome = outcome
  BY <1>1 DEF CallRecords
<1>4. \A u \in Tickets : \A i \in 1..Len(mgr.cache[u]) :
          \E d \in CallIds : Will(u, mgr.cache[u][i], d)
  <2> SUFFICES ASSUME NEW u \in Tickets, NEW i \in 1..Len(mgr.cache[u]),
                      NEW e, e = mgr.cache[u][i]
               PROVE  \E d \in CallIds : Will(u, e, d)
    OBVIOUS
  <2>1. mgr.cache[u] \in Seq(CacheEntries)
    BY <1>1 DEF Managers
  <2>2. e \in CacheEntries
    BY <2>1
  <2>3. e.outcome # "driving"
    BY <2>2 DEF CacheEntries
  <2>4. PICK d \in CallIds : RecordedBy(u, e, d)
    BY DEF CacheSound
  <2>5. calls'[d] = calls[d]
    BY <2>3, <2>4 DEF RecordedBy
  <2> QED
    BY <2>4, <2>5 DEF RecordedBy
<1>5. CacheSound'
  <2> SUFFICES ASSUME NEW u \in Tickets, NEW q, q = mgr'.cache[u]
               PROVE  /\ \A i \in 1..Len(q) :
                            \E d \in CallIds : Will(u, q[i], d)
                      /\ OneEach(q)
    BY DEF CacheSound, RecordedBy, OneEach
  <2>1. CASE q = <<>>
    <3>1. Len(q) = 0
      BY <2>1
    <3> QED
      BY <3>1 DEF OneEach
  <2>2. CASE q = m.cache[u] /\ u # t
    <3>1. q = mgr.cache[u]
      BY <1>2, <2>2
    <3> HIDE DEF Will
    <3> QED
      BY <1>4, <3>1 DEF CacheSound
  <2>3. CASE q = v /\ u = t
    <3>1. OneEach(q)
      BY <1>0, <1>2, <2>3 DEF CacheSound, Enters
    <3>2. \A i \in 1..Len(q) : q[i] = entry \/ \E j \in 1..Len(s) : q[i] = s[j]
      BY <1>2, <2>3 DEF Enters
    <3>3. Will(t, entry, c)
      BY <1>3
    <3> HIDE DEF Will
    <3>4. \A j \in 1..Len(s) : \E d \in CallIds : Will(t, s[j], d)
      BY <1>0, <1>4
    <3> QED
      BY <2>3, <3>1, <3>2, <3>3, <3>4
  <2> QED
    BY <1>0, <2>1, <2>2, <2>3 DEF Forgets
<1>6. CacheComplete'
  <2> SUFFICES ASSUME NEW u \in Tickets, Valid(mgr, u)', NEW q, q = mgr'.cache[u]
               PROVE  \/ Len(q) >= MaxCached
                      \/ \A d \in CallIds : Ended(u, d)' =>
                            Has(q, calls'[d].id)
    BY DEF CacheComplete, Cached, Has
  <2>1. CASE ~(mgr.granted[u] > 0)
    <3>1. \A d \in CallIds : calls[d].lease = u => calls[d].stage = "idle"
      BY <1>1, <2>1 DEF CallInv
    <3>2. u # t
      BY <3>1
    <3> QED
      BY <1>3, <3>1, <3>2 DEF Ended
  <2>2. CASE mgr.granted[u] > 0
    <3>1. Valid(mgr, u) /\ q = m.cache[u]
      BY <2>2 DEF NoRevival, Forgets, Valid
    <3>2. CASE u # t
      <4>1. \A d \in CallIds : Ended(u, d)' => Ended(u, d) /\ calls'[d] = calls[d]
        BY <1>3, <3>2 DEF Ended
      <4>2. q = mgr.cache[u]
        BY <1>2, <3>1, <3>2
      <4> QED
        BY <3>1, <4>1, <4>2 DEF CacheComplete, Cached, Has
    <3>3. CASE u = t
      <4>1. q = v
        BY <1>0, <3>1, <3>3
      <4>2. CASE Len(s) >= MaxCached
        BY <1>2, <4>1, <4>2 DEF Enters
      <4>3. CASE ~(Len(s) >= MaxCached)
        <5>1. \A d \in CallIds : Ended(t, d) => Has(s, calls[d].id)
          BY <1>0, <3>1, <3>3, <4>3 DEF CacheComplete, Cached, Has
        <5>2. \A d \in CallIds : Ended(u, d)' => d = c \/ (Ended(t, d) /\ calls'[d] = calls[d])
          BY <3>3 DEF Ended
        <5>3. Has(q, calls'[c].id)
          BY <1>2, <1>3, <4>1 DEF Enters
        <5>4. \A d \in CallIds : Ended(t, d) => Has(q, calls[d].id)
          BY <1>2, <4>1, <4>3, <5>1 DEF Enters
        <5> QED
          BY <5>2, <5>3, <5>4
      <4> QED
        BY <4>2, <4>3
    <3> QED
      BY <3>2, <3>3
  <2> QED
    BY <2>1, <2>2
<1> QED
  BY <1>5, <1>6

LEMMA FinishCallCaches ==
    ASSUME IInv, CacheInv, NEW c \in CallIds, NEW outcome \in {"success", "uncertain"},
           FinishCall(c, outcome)
    PROVE  CacheInv'
<1> DEFINE t == calls[c].lease
           id == calls[c].id
           entry == [id |-> id, args |-> calls[c].args, outcome |-> outcome]
           sent == calls[c].stage = "driving"
           m == IF sent /\ id # NoOp THEN CacheOperation(mgr, t, entry) ELSE mgr
<1>0. /\ issued \in 0..MaxTickets /\ TypeOK /\ MgrInv(mgr, issued)
      /\ calls \in [CallIds -> CallRecords] /\ CallIds = 1..MaxCalls /\ calls[c] \in CallRecords
  BY DEF IInv, TypeOK, CallIds
<1>1. InFlight(c) /\ mgr' = EndCall(m, t)
  BY DEF FinishCall
<1>2. t \in Tickets /\ mgr.busy[t] = 1 /\ Turn(c) /\ calls[c].stage \notin EndStages
  BY <1>1 DEF IInv, CallInv, InFlight, FlightStages, EndStages
<1>3. mgr.active = t
  BY <1>2 DEF IInv, MgrInv, Consistent
<1>4. /\ \A u \in Tickets : mgr.granted[u] > 0 => (mgr.active # u => mgr'.active # u)
      /\ mgr.fenced \subseteq mgr'.fenced
  BY FinishFollows
<1>5. NoRevival
  BY <1>4 DEF NoRevival, Valid
<1>6. PICK x \in SettledStages :
          /\ calls' = [calls EXCEPT ![c].stage = x]
          /\ sent => x = outcome
          /\ ~sent => x \in {"replayed", "refused"}
          /\ x = "replayed" <=> calls[c].stage = "replaying"
  BY <1>1 DEF FinishCall, SettledStages, InFlight, FlightStages
<1>7. /\ \A d \in CallIds : d # c => calls'[d] = calls[d]
      /\ calls'[c] = [calls[c] EXCEPT !.stage = x]
      /\ calls'[c].stage = x
      /\ calls'[c].lease = t /\ calls'[c].id = id /\ calls'[c].args = calls[c].args
  BY <1>0, <1>6 DEF CallRecords
<1>8. CacheSound' /\ CacheComplete'
  <2>1. CASE sent /\ id # NoOp
    <3>1. calls[c].args \in Args
      BY <1>0, <2>1 DEF IInv, CallInv
    <3>2. entry \in CacheEntries
      BY <1>0, <2>1, <3>1 DEF CallRecords, CacheEntries
    <3> HIDE DEF entry, t
    <3>3. m = CacheOperation(mgr, t, entry)
      BY <2>1
    <3> HIDE DEF m
    <3>4. MgrInv(m, issued) /\ m.busy = mgr.busy /\ m.active = mgr.active /\ m.granted = mgr.granted
      BY <1>0, <1>2, <3>2, <3>3, CacheKeeps
    <3>5. Forgets(m, mgr')
      BY <1>0, <1>1, <1>2, <1>3, <3>4, EndForgets
    <3>6. outcome \in EndStages /\ calls'[c] = [calls[c] EXCEPT !.stage = outcome]
      BY <1>6, <1>7, <2>1 DEF EndStages
    <3> QED
      BY <1>2, <1>5, <1>7, <2>1, <3>2, <3>3, <3>4, <3>5, <3>6, OutcomeCached DEF CacheInv, entry, t
  <2>2. CASE ~(sent /\ id # NoOp)
    <3>1. m = mgr
      BY <2>2
    <3>2. Forgets(mgr, mgr')
      BY <1>0, <1>1, <1>2, <1>3, <3>1, EndForgets
    <3>3. calls'[c].stage \notin EndStages \/ calls'[c].id = NoOp
      BY <1>6, <1>7, <2>2 DEF EndStages
    <3> QED
      BY <1>2, <1>5, <1>7, <3>2, <3>3, CachesStand DEF CacheInv
  <2> QED
    BY <2>1, <2>2
<1>9. InTurn'
  <2> SUFFICES ASSUME NEW d \in CallIds, calls'[d].stage \notin {"idle", "chained"}
               PROVE  Turn(d)'
    BY DEF InTurn
  <2>1. Turn(d)
    BY <1>2, <1>7 DEF CacheInv, InTurn
  <2>2. \A e \in 1..(d - 1) : e \in CallIds
    BY <1>0, BoundsAssumption
  <2>3. \A e \in CallIds : calls'[e].lease = calls[e].lease /\ (Settled(e) => Settled(e)')
    BY <1>7 DEF Settled
  <2> QED
    BY <2>1, <2>2, <2>3 DEF Turn
<1>10. SentOnce'
  <2>1. SentStays
    BY <1>2, <1>6, <1>7 DEF SentStays, SentStages, EndStages
  <2>2. \A d \in CallIds : calls'[d].stage \in SentStages => calls[d].stage \in SentStages
    BY <1>6, <1>7 DEF SentStages
  <2> QED
    BY <2>1, <2>2, SentOnceStands DEF CacheInv
<1>11. ReplaysAreExact'
  <2> SUFFICES ASSUME NEW d \in CallIds, calls'[d].stage \in {"replaying", "replayed"}
               PROVE  \E e \in 1..(d - 1) :
                        /\ calls'[e].stage = "success"
                        /\ calls'[e].lease = calls'[d].lease
                        /\ calls'[e].id = calls'[d].id
                        /\ calls'[e].args = calls'[d].args
    BY DEF ReplaysAreExact
  <2>1. \A e \in 1..(d - 1) : e \in CallIds
    BY <1>0, BoundsAssumption
  <2>2. calls[d].stage \in {"replaying", "replayed"}
    BY <1>6, <1>7 DEF SettledStages
  <2>3. PICK e \in 1..(d - 1) :
            /\ calls[e].stage = "success"
            /\ calls[e].lease = calls[d].lease
            /\ calls[e].id = calls[d].id
            /\ calls[e].args = calls[d].args
    BY <2>2 DEF CacheInv, ReplaysAreExact
  <2>4. calls'[e] = calls[e]
    BY <1>2, <1>7, <2>1, <2>3 DEF EndStages
  <2>5. /\ calls'[d].lease = calls[d].lease /\ calls'[d].id = calls[d].id
        /\ calls'[d].args = calls[d].args
    BY <1>7
  <2> QED
    BY <2>3, <2>4, <2>5
<1> QED
  BY <1>8, <1>9, <1>10, <1>11 DEF CacheInv

THEOREM CacheInvariantHolds == Spec => []CacheInv
<1>1. Init => CacheInv
  BY InitCaches
<1>2. IInv /\ CacheInv /\ [Next]_vars => CacheInv'
  <2> SUFFICES ASSUME IInv, CacheInv, [Next]_vars PROVE CacheInv'
    OBVIOUS
  <2>1. CASE UNCHANGED vars
    <3>1. NoRevival /\ Forgets(mgr, mgr') /\ UNCHANGED calls
      BY <2>1 DEF vars, NoRevival, Forgets, Valid
    <3> QED
      BY <3>1, QuietCaches
  <2>2. CASE QuietNext
    BY <2>2, QuietNextCaches
  <2>3. CASE Tick
    BY <2>3, TickCaches
  <2> QED
    BY <2>1, <2>2, <2>3, RequestCaches, MakeCallCaches, BeginCallCaches, FinishCallCaches
       DEF Next, QuietNext
<1> QED
  BY <1>1, <1>2, InvariantHolds, PTL DEF Spec

(* An operation_id is driven a second time under one lease only when the   *)
(* bounded operationCache has meanwhile pushed it out.                     *)
THEOREM OperationsAreSentOnce == Spec => []SentOnce
<1>1. CacheInv => SentOnce
  BY DEF CacheInv
<1> QED
  BY <1>1, CacheInvariantHolds, PTL

(* What runMutating answers from the operationCache is the success of an   *)
(* earlier call with the same operation_id and the same arguments.         *)
THEOREM ReplaysAreTrue == Spec => []ReplaysAreExact
<1>1. CacheInv => ReplaysAreExact
  BY DEF CacheInv
<1> QED
  BY <1>1, CacheInvariantHolds, PTL
=============================================================================
