--------------------------- MODULE RelayStoreProofs ---------------------------
(* The replay cache, the retry of a deposit, the streams and the byte accounts *)
(* of RelayStore, for every set of queues, deposits and subscriptions and      *)
(* every bound.                                                                *)
EXTENDS RelayStore, FiniteSums, WellFoundedInduction

-----------------------------------------------------------------------------
(* The inductive invariant.  Its parts are predicates of values, not of the    *)
(* variables, because most actions change the store cleanup_expired leaves.    *)

GrantFields == {"queue", "epoch", "expiry", "consumed", "bound"}
LeaseFields == {"epoch", "expiry", "caps", "replay", "next_replay_expiry", "dynamic_grants", "bound"}
QueueFields == {"bytes", "msgs", "gen"}
StreamFields == {"pc", "gen", "changed", "head"}

GrantOK(g) ==
  /\ DOMAIN g = GrantFields
  /\ g.epoch \in Nat

\* The cached earliest expiry is behind no record.
LeaseOK(l) ==
  /\ DOMAIN l = LeaseFields
  /\ l.epoch \in Nat /\ l.expiry \in Nat /\ l.next_replay_expiry \in Nat
  /\ \A r \in l.replay : /\ r.expiry \in Nat \ {0}
                         /\ l.next_replay_expiry # None
                         /\ l.next_replay_expiry <= r.expiry

\* Lease k is lease l with, perhaps, more records and a later expiry.
Extends(k, l) ==
  /\ LeaseOK(k) /\ k.epoch = l.epoch /\ k.caps = l.caps
  /\ k.expiry >= l.expiry /\ l.replay \subseteq k.replay

\* The deposits that may wait in class c of queue q.
For(q, c) == {p \in Pushes : p.queue = q /\ p.class = c}

QueueOK(q, u, n) ==
  /\ DOMAIN u = QueueFields
  /\ u.gen \in 1..n
  /\ DOMAIN u.msgs = Classes
  /\ \A c \in Classes : u.msgs[c] \in Seq(For(q, c))

\* A replay record, and that of an accepted deposit.
Entry(epoch, op, nonce, expiry, binding) ==
  [epoch |-> epoch, op |-> op, nonce |-> nonce, expiry |-> expiry, binding |-> binding]
RecordOf(p) == Entry(p.epoch, "Push", p.nonce, p.expiry, Binding(p))

\* Until it expires or the lease is rotated, lease l remembers the deposit p.
Known(l, p, t) ==
  /\ p.epoch <= l.epoch
  /\ p.epoch = l.epoch =>
       p.caps = l.caps /\ p.expiry <= l.expiry /\ (p.expiry > t => RecordOf(p) \in l.replay)

DepositOK(L, U, d, n, t) ==
  /\ d.push \in Pushes /\ d.gen \in 1..n
  /\ d.push.queue \in DOMAIN U /\ U[d.push.queue].gen = d.gen
       => Known(L[d.push.queue], d.push, t)

StoreOK(G, L, U, D, n, t) ==
  /\ \A g \in DOMAIN G : GrantOK(G[g])
  /\ DOMAIN L = DOMAIN U
  /\ \A q \in DOMAIN L : LeaseOK(L[q])
  /\ \A q \in DOMAIN U : QueueOK(q, U[q], n)
  /\ \A d \in D : DepositOK(L, U, d, n, t)

\* What a stream is about to write or to acknowledge is a deposit of its own
\* class and queue, and what it is about to acknowledge was written.
StreamOK(s, x, W) ==
  \/ x = Idle
  \/ /\ DOMAIN x = StreamFields
     /\ x.pc \in {"check", "peek", "wait", "send", "ack"}
     /\ x.pc \in {"send", "ack"} =>
          \E h \in For(s.queue, s.class) : x.head = <<h>> /\ (x.pc = "ack" => h \in W)

StreamsOK(S, W) == DOMAIN S = Subs /\ \A s \in Subs : StreamOK(s, S[s], W)

IInv ==
  /\ generation \in Nat /\ now \in Nat
  /\ StoreOK(grants, leases, queues, deposited, generation, now)
  /\ StreamsOK(streams, written)

\* While the queue lives, what leaves U for V is among W.
Kept(U, V, W) ==
  \A q \in DOMAIN U \cap DOMAIN V :
    U[q].gen = V[q].gen => \A p \in Contents(U[q]) \ Contents(V[q]) : p \in W

\* "every lease owns a queue", which the store's methods expect.
LeaseOwnsQueue == DOMAIN leases = DOMAIN queues

\* A deposit that is enqueued was not enqueued before in the same queue.
EnqueuedOnce ==
  [][\A p \in Pushes :
       Push(p) /\ p.len > 0
         => [gen |-> CleanQueues[p.queue].gen, push |-> p] \notin deposited]_vars

-----------------------------------------------------------------------------
(* Leases *)

\* A non-empty set of natural numbers has a least element.
LEMMA HasLeast ==
  ASSUME NEW T \in SUBSET Nat, T # {}
  PROVE  Min(T) \in T /\ \A y \in T : Min(T) <= y
<1>1. PICK x \in T : \A y \in T : ~(<<y, x>> \in OpToRel(<, Nat))
  BY NatLessThanWellFounded, WFMin, Zenon
<1>2. \A y \in T : ~(y < x)
  BY <1>1, Zenon DEF OpToRel
<1>3. \A y \in T : x <= y
  BY <1>2
<1> QED BY <1>3, Zenon DEF Min

\* Earliest is behind no record of the set.
LEMMA EarliestIsFirst ==
  ASSUME NEW R, \A r \in R : r.expiry \in Nat \ {0}
  PROVE  /\ Earliest(R) \in Nat
         /\ \A r \in R : Earliest(R) # None /\ Earliest(R) <= r.expiry
<1>1. CASE R = {}
  BY <1>1 DEF Earliest, None
<1>2. CASE R # {}
  <2> DEFINE T == {r.expiry : r \in R}
  <2>1. T \in SUBSET Nat /\ T # {} /\ 0 \notin T
    BY <1>2
  <2>2. Min(T) \in T /\ \A y \in T : Min(T) <= y
    BY <2>1, HasLeast, Zenon
  <2>3. Earliest(R) = Min(T)
    BY <1>2, Zenon DEF Earliest
  <2> HIDE DEF T
  <2>4. Min(T) \in Nat /\ Min(T) # 0
    BY <2>1, <2>2, Zenon
  <2>5. \A r \in R : r.expiry \in T
    BY Zenon DEF T
  <2> QED BY <2>2, <2>3, <2>4, <2>5, Zenon DEF None
<1> QED BY <1>1, <1>2, Zenon

\* purge_replay drops exactly the expired records, whether or not it walks.
LEMMA PurgeIsExact ==
  ASSUME NEW l, LeaseOK(l), now \in Nat
  PROVE  LET k == PurgeReplay(l)
         IN  /\ LeaseOK(k)
             /\ k.epoch = l.epoch /\ k.expiry = l.expiry /\ k.caps = l.caps
             /\ k.replay = {r \in l.replay : r.expiry > now}
<1> DEFINE live == {r \in l.replay : r.expiry > now}
<1>1. CASE l.next_replay_expiry = None \/ l.next_replay_expiry > now
  <2>1. PurgeReplay(l) = l
    BY <1>1, Zenon DEF PurgeReplay
  <2>2. l.replay = live
    BY <1>1 DEF LeaseOK
  <2> QED BY <2>1, <2>2, Zenon
<1>2. CASE ~(l.next_replay_expiry = None \/ l.next_replay_expiry > now)
  <2>1. PurgeReplay(l) = [l EXCEPT !.replay = live, !.next_replay_expiry = Earliest(live)]
    BY <1>2, Zenon DEF PurgeReplay
  <2>2. \A r \in live : r.expiry \in Nat \ {0}
    BY Zenon DEF LeaseOK
  <2>3. /\ Earliest(live) \in Nat
        /\ \A r \in live : Earliest(live) # None /\ Earliest(live) <= r.expiry
    BY <2>2, EarliestIsFirst, Zenon
  <2> HIDE DEF live
  <2>4. LET k == PurgeReplay(l)
        IN  /\ DOMAIN k = LeaseFields
            /\ k.epoch = l.epoch /\ k.expiry = l.expiry /\ k.caps = l.caps
            /\ k.replay = live /\ k.next_replay_expiry = Earliest(live)
    BY <2>1, Zenon DEF LeaseOK, LeaseFields
  <2> QED BY <2>2, <2>3, <2>4, Zenon DEF LeaseOK, live
<1> QED BY <1>1, <1>2, Zenon

\* record_replay adds one record and keeps the cache behind every record.
LEMMA RecordKeepsCache ==
  ASSUME NEW l, LeaseOK(l), NEW op, NEW nonce, NEW expiry \in Nat \ {0}, NEW binding
  PROVE  LET k == RecordReplay(l, op, nonce, expiry, binding)
         IN  /\ Extends(k, l)
             /\ Entry(l.epoch, op, nonce, expiry, binding) \in k.replay
<1> DEFINE r0 == Entry(l.epoch, op, nonce, expiry, binding)
           e0 == IF l.next_replay_expiry = None \/ expiry < l.next_replay_expiry
                 THEN expiry ELSE l.next_replay_expiry
<1>1. r0.expiry = expiry
  BY DEF Entry
<1> HIDE DEF r0
<1>2. RecordReplay(l, op, nonce, expiry, binding) =
        [l EXCEPT !.replay = l.replay \cup {r0}, !.next_replay_expiry = e0]
  BY Zenon DEF RecordReplay, r0, Entry
<1>3. LET k == RecordReplay(l, op, nonce, expiry, binding)
      IN  /\ DOMAIN k = LeaseFields
          /\ k.epoch = l.epoch /\ k.expiry = l.expiry /\ k.caps = l.caps
          /\ k.replay = l.replay \cup {r0} /\ k.next_replay_expiry = e0
  BY <1>2, Zenon DEF LeaseOK, LeaseFields
<1>4. e0 \in Nat /\ \A r \in l.replay \cup {r0} : r.expiry \in Nat \ {0} /\ e0 # None /\ e0 <= r.expiry
  BY <1>1 DEF LeaseOK, None
<1> HIDE DEF e0
<1>5. l.expiry >= l.expiry
  BY DEF LeaseOK
<1> QED BY <1>3, <1>4, <1>5, Zenon DEF LeaseOK, Extends, r0

-----------------------------------------------------------------------------
(* The store *)

\* A lease may change as long as it forgets no deposit it knows.
LEMMA LeaseChanges ==
  ASSUME NEW G, NEW L, NEW U, NEW D, NEW n, NEW t, StoreOK(G, L, U, D, n, t),
         NEW q \in DOMAIN L, NEW k, LeaseOK(k),
         \A p \in Pushes : Known(L[q], p, t) => Known(k, p, t)
  PROVE  StoreOK(G, [L EXCEPT ![q] = k], U, D, n, t)
<1> DEFINE M == [L EXCEPT ![q] = k]
<1>1. DOMAIN M = DOMAIN L /\ M[q] = k /\ \A r \in DOMAIN L : r # q => M[r] = L[r]
  BY Zenon
<1> HIDE DEF M
<1>2. \A r \in DOMAIN M : LeaseOK(M[r])
  BY <1>1, Zenon DEF StoreOK
<1>3. \A d \in D : DepositOK(M, U, d, n, t)
  BY <1>1, Zenon DEF StoreOK, DepositOK
<1> QED BY <1>1, <1>2, <1>3, Zenon DEF StoreOK, M

\* A queue may change as long as it stays the same incarnation.
LEMMA QueueChanges ==
  ASSUME NEW G, NEW L, NEW U, NEW D, NEW n, NEW t, StoreOK(G, L, U, D, n, t),
         NEW q \in DOMAIN U, NEW v, QueueOK(q, v, n), v.gen = U[q].gen
  PROVE  StoreOK(G, L, [U EXCEPT ![q] = v], D, n, t)
<1> DEFINE V == [U EXCEPT ![q] = v]
<1>1. DOMAIN V = DOMAIN U /\ V[q] = v /\ \A r \in DOMAIN U : r # q => V[r] = U[r]
  BY Zenon
<1> HIDE DEF V
<1>2. \A r \in DOMAIN V : QueueOK(r, V[r], n)
  BY <1>1, Zenon DEF StoreOK
<1>3. \A d \in D : DepositOK(L, V, d, n, t)
  BY <1>1, Zenon DEF StoreOK, DepositOK
<1> QED BY <1>1, <1>2, <1>3, Zenon DEF StoreOK, V

\* Leases leave together with their queues.
LEMMA QueuesLeave ==
  ASSUME NEW G, NEW L, NEW U, NEW D, NEW n, NEW t, StoreOK(G, L, U, D, n, t),
         NEW S, S \subseteq DOMAIN L
  PROVE  StoreOK(G, Restrict(L, S), Restrict(U, S), D, n, t)
<1> DEFINE M == Restrict(L, S)
           V == Restrict(U, S)
<1>1. DOMAIN M = S /\ DOMAIN V = S /\ \A q \in S : M[q] = L[q] /\ V[q] = U[q]
  BY Zenon DEF Restrict
<1> HIDE DEF M, V
<1>2. \A d \in D : DepositOK(M, V, d, n, t)
  BY <1>1, Zenon DEF StoreOK, DepositOK
<1>3. \A q \in S : LeaseOK(M[q]) /\ QueueOK(q, V[q], n)
  BY <1>1, Zenon DEF StoreOK
<1> QED BY <1>1, <1>2, <1>3, Zenon DEF StoreOK, M, V

\* What cleanup_expired leaves keeps the invariant of the store: the records it
\* drops are of requests that expired.
LEMMA CleanStore ==
  ASSUME now \in Nat, StoreOK(grants, leases, queues, deposited, generation, now)
  PROVE  StoreOK(CleanGrants, CleanLeases, CleanQueues, deposited, generation, now)
<1> DEFINE S == DOMAIN leases \ Expired
<1>1. /\ DOMAIN CleanLeases = S /\ DOMAIN CleanQueues = S
      /\ \A q \in S : CleanLeases[q] = PurgeReplay(leases[q]) /\ CleanQueues[q] = queues[q]
  BY Zenon DEF CleanLeases, CleanQueues, Restrict, StoreOK
<1>2. \A g \in DOMAIN CleanGrants : GrantOK(CleanGrants[g])
  BY Zenon DEF CleanGrants, Restrict, StoreOK
<1>3. S \subseteq DOMAIN leases /\ S \subseteq DOMAIN queues
  BY Zenon DEF StoreOK
<1> HIDE DEF S
<1>4. ASSUME NEW q \in S
      PROVE  LET k == CleanLeases[q]
                 l == leases[q]
             IN  /\ LeaseOK(k) /\ k.epoch = l.epoch /\ k.expiry = l.expiry /\ k.caps = l.caps
                 /\ k.replay = {r \in l.replay : r.expiry > now}
  <2>1. LeaseOK(leases[q])
    BY <1>3, Zenon DEF StoreOK
  <2> QED BY <2>1, <1>1, PurgeIsExact, Zenon
<1>5. ASSUME NEW q \in S, NEW p \in Pushes, Known(leases[q], p, now)
      PROVE  Known(CleanLeases[q], p, now)
  <2>1. RecordOf(p).expiry = p.expiry
    BY DEF RecordOf, Entry
  <2> QED BY <2>1, <1>4, <1>5, Zenon DEF Known
<1>6. \A d \in deposited : DepositOK(CleanLeases, CleanQueues, d, generation, now)
  BY <1>1, <1>3, <1>5, Zenon DEF StoreOK, DepositOK
<1> QED BY <1>1, <1>2, <1>3, <1>4, <1>6, Zenon DEF StoreOK

\* A new queue is an incarnation no deposit knows.
LEMMA QueueArrives ==
  ASSUME NEW G, NEW L, NEW U, NEW D, NEW n \in Nat, NEW t, StoreOK(G, L, U, D, n, t),
         NEW q, q \notin DOMAIN L, NEW l, LeaseOK(l), NEW u, QueueOK(q, u, n + 1), u.gen = n + 1
  PROVE  StoreOK(G, Insert(L, q, l), Insert(U, q, u), D, n + 1, t)
<1> DEFINE M == Insert(L, q, l)
           V == Insert(U, q, u)
<1>1. /\ DOMAIN M = DOMAIN L \cup {q} /\ M[q] = l
      /\ \A r \in DOMAIN L : M[r] = L[r]
  BY Zenon DEF Insert
<1>2. /\ DOMAIN V = DOMAIN U \cup {q} /\ V[q] = u
      /\ \A r \in DOMAIN U : V[r] = U[r]
  BY Zenon DEF Insert, StoreOK
<1> HIDE DEF M, V
<1>3. \A i \in 1..n : i \in 1..(n + 1) /\ i # n + 1
  OBVIOUS
<1>4. \A r \in DOMAIN M : LeaseOK(M[r])
  BY <1>1, Zenon DEF StoreOK
<1>5. \A r \in DOMAIN V : QueueOK(r, V[r], n + 1)
  BY <1>2, <1>3, Zenon DEF StoreOK, QueueOK
<1>6. \A d \in D : DepositOK(M, V, d, n + 1, t)
  BY <1>1, <1>2, <1>3, Zenon DEF StoreOK, DepositOK
<1>7. DOMAIN M = DOMAIN V
  BY <1>1, <1>2, Zenon DEF StoreOK
<1> QED BY <1>4, <1>5, <1>6, <1>7, Zenon DEF StoreOK, M, V

\* An accepted deposit joins the history with the record of its lease.
LEMMA DepositArrives ==
  ASSUME NEW G, NEW L, NEW U, NEW D, NEW n, NEW t, StoreOK(G, L, U, D, n, t),
         NEW p \in Pushes, p.queue \in DOMAIN U, Known(L[p.queue], p, t)
  PROVE  StoreOK(G, L, U, D \cup {[gen |-> U[p.queue].gen, push |-> p]}, n, t)
<1> DEFINE d0 == [gen |-> U[p.queue].gen, push |-> p]
<1>1. d0.gen = U[p.queue].gen /\ d0.push = p
  BY Zenon
<1> HIDE DEF d0
<1>2. d0.gen \in 1..n
  BY <1>1, Zenon DEF StoreOK, QueueOK
<1>3. DepositOK(L, U, d0, n, t)
  BY <1>1, <1>2, Zenon DEF DepositOK
<1> QED BY <1>3, Zenon DEF StoreOK, d0

\* A lease that moves no earlier and drops no record forgets nothing.
LEMMA Remembers ==
  ASSUME NEW l, LeaseOK(l), NEW k, Extends(k, l), NEW t
  PROVE  \A p \in Pushes : Known(l, p, t) => Known(k, p, t)
<1> SUFFICES ASSUME NEW p \in Pushes, Known(l, p, t) PROVE Known(k, p, t)
  BY Zenon
<1>1. p.epoch <= k.epoch
  BY Zenon DEF Known, Extends
<1>2. ASSUME p.epoch = k.epoch PROVE p.expiry <= k.expiry
  <2>1. p.expiry <= l.expiry
    BY <1>2, Zenon DEF Known, Extends
  <2>2. p.expiry \in Nat /\ l.expiry \in Nat /\ k.expiry \in Nat
    BY RelayAssumption, Zenon DEF LeaseOK, Extends
  <2> QED BY <2>1, <2>2 DEF Extends
<1>3. ASSUME p.epoch = k.epoch, p.expiry > t PROVE RecordOf(p) \in k.replay
  BY <1>3, Zenon DEF Known, Extends
<1> QED BY <1>1, <1>2, <1>3, Zenon DEF Known, Extends

\* The rate window of dynamic grants is beside the replay records.
LEMMA WindowIsApart ==
  ASSUME NEW l, LeaseOK(l), NEW w
  PROVE  LET k == [l EXCEPT !.dynamic_grants = w]
         IN  LeaseOK(k) /\ Extends(k, l)
<1>1. LET k == [l EXCEPT !.dynamic_grants = w]
      IN  /\ DOMAIN k = LeaseFields
          /\ k.epoch = l.epoch /\ k.expiry = l.expiry /\ k.caps = l.caps
          /\ k.replay = l.replay /\ k.next_replay_expiry = l.next_replay_expiry
  BY Zenon DEF LeaseOK, LeaseFields
<1>2. l.expiry >= l.expiry
  BY DEF LeaseOK
<1> QED BY <1>1, <1>2, Zenon DEF LeaseOK, Extends

\* A new grant has the shape of a grant.
LEMMA GrantArrives ==
  ASSUME \A g \in DOMAIN CleanGrants : GrantOK(CleanGrants[g]), NEW q, NEW epoch \in Nat, NEW bound
  PROVE  \A g \in DOMAIN AddGrant(q, epoch, bound) : GrantOK(AddGrant(q, epoch, bound)[g])
<1> DEFINE id == CHOOSE g \in GrantIds : g \notin DOMAIN CleanGrants
           grant == [queue |-> q, epoch |-> epoch, expiry |-> now + GRANT_LIFETIME,
                     consumed |-> FALSE, bound |-> bound]
<1>1. GrantOK(grant)
  BY Zenon DEF GrantOK, GrantFields
<1>2. AddGrant(q, epoch, bound) = Insert(CleanGrants, id, grant)
  BY Zenon DEF AddGrant
<1> HIDE DEF id, grant
<1> QED BY <1>1, <1>2, Zenon DEF Insert

-----------------------------------------------------------------------------
(* Streams *)

LEMMA StreamMoves ==
  ASSUME NEW S, NEW W, StreamsOK(S, W), NEW s \in Subs, NEW x, StreamOK(s, x, W)
  PROVE  StreamsOK([S EXCEPT ![s] = x], W)
  BY Zenon DEF StreamsOK

\* A notification changes neither the step of a stream nor what it holds.
LEMMA WakeMovesNone ==
  ASSUME NEW W, StreamsOK(streams, W), NEW gen, NEW classes
  PROVE  /\ StreamsOK(Wake(gen, classes), W)
         /\ \A s \in Subs : /\ Wake(gen, classes)[s].pc = streams[s].pc
                            /\ streams[s].pc # "idle" =>
                                 Wake(gen, classes)[s].head = streams[s].head
<1> DEFINE S == Wake(gen, classes)
<1>1. ASSUME NEW s \in Subs
      PROVE  /\ StreamOK(s, S[s], W) /\ S[s].pc = streams[s].pc
             /\ streams[s].pc # "idle" => S[s].head = streams[s].head
  <2>1. CASE S[s] = streams[s]
    BY <2>1, Zenon DEF StreamsOK
  <2>2. CASE S[s] # streams[s]
    <3>1. streams[s].pc # "idle" /\ S[s] = [streams[s] EXCEPT !.changed = TRUE]
      BY <2>2, Zenon DEF Wake
    <3>2. streams[s] # Idle
      BY <3>1 DEF Idle
    <3>3. StreamOK(s, streams[s], W)
      BY Zenon DEF StreamsOK
    <3>4. DOMAIN streams[s] = StreamFields
      BY <3>2, <3>3, Zenon DEF StreamOK
    <3>5. /\ DOMAIN S[s] = StreamFields
          /\ S[s].pc = streams[s].pc /\ S[s].head = streams[s].head
      BY <3>1, <3>4, Zenon DEF StreamFields
    <3> HIDE DEF S
    <3> QED BY <3>2, <3>3, <3>5, Zenon DEF StreamOK
  <2> QED BY <2>1, <2>2, Zenon
<1>2. DOMAIN S = Subs
  BY Zenon DEF Wake
<1> QED BY <1>1, <1>2, Zenon DEF StreamsOK

\* A running stream that goes to a step without a message in hand.
LEMMA StreamGoes ==
  ASSUME NEW W, StreamsOK(streams, W), NEW s \in Subs, streams[s].pc # "idle",
         NEW pc \in {"check", "peek", "wait"}
  PROVE  StreamOK(s, At(s, pc), W)
<1>1. streams[s] # Idle
  BY DEF Idle
<1>2. DOMAIN streams[s] = StreamFields
  BY <1>1, Zenon DEF StreamsOK, StreamOK
<1>3. DOMAIN At(s, pc) = StreamFields /\ At(s, pc).pc = pc
  BY <1>2, Zenon DEF At, StreamFields
<1> QED BY <1>3 DEF StreamOK

-----------------------------------------------------------------------------
(* What a step keeps of the queues *)

LEMMA CleanKeeps == ASSUME NEW W PROVE Kept(queues, CleanQueues, W)
  BY Zenon DEF Kept, CleanQueues, Restrict

LEMMA SameKeeps == ASSUME NEW U, NEW W PROVE Kept(U, U, W)
  BY Zenon DEF Kept

\* One queue changes after the cleanup.
LEMMA ChangeKeeps ==
  ASSUME NEW W, NEW q \in DOMAIN CleanQueues, NEW v,
         \A p \in Contents(CleanQueues[q]) \ Contents(v) : p \in W
  PROVE  Kept(queues, [CleanQueues EXCEPT ![q] = v], W)
<1> DEFINE V == [CleanQueues EXCEPT ![q] = v]
<1>1. /\ DOMAIN V = DOMAIN CleanQueues /\ V[q] = v
      /\ \A r \in DOMAIN V : r # q => V[r] = CleanQueues[r]
  BY Zenon
<1>2. \A r \in DOMAIN CleanQueues : CleanQueues[r] = queues[r]
  BY Zenon DEF CleanQueues, Restrict
<1> HIDE DEF V
<1>3. Kept(queues, V, W)
  BY <1>1, <1>2, Zenon DEF Kept
<1> QED BY <1>3, Zenon DEF V

-----------------------------------------------------------------------------
(* The owner's operations.  Each lemma: the action keeps the invariant, and    *)
(* what leaves a queue that lives on was written.                              *)

LEMMA Cleaned ==
  ASSUME IInv
  PROVE  StoreOK(CleanGrants, CleanLeases, CleanQueues, deposited, generation, now)
  BY CleanStore, Zenon DEF IInv

LEMMA GrantStep ==
  ASSUME IInv, NEW q, NEW bound, IssueGrant(q, FirstEpoch, bound)
  PROVE  IInv' /\ Kept(queues, queues', written)
<1>1. StoreOK(CleanGrants, CleanLeases, CleanQueues, deposited, generation, now)
  BY Cleaned, Zenon
<1>2. \A g \in DOMAIN AddGrant(q, FirstEpoch, bound) : GrantOK(AddGrant(q, FirstEpoch, bound)[g])
  BY <1>1, GrantArrives, RelayAssumption, Zenon DEF StoreOK
<1>3. StoreOK(AddGrant(q, FirstEpoch, bound), CleanLeases, CleanQueues, deposited, generation, now)
  BY <1>1, <1>2, Zenon DEF StoreOK
<1> QED BY <1>3, CleanKeeps, Zenon DEF IInv, IssueGrant, history

LEMMA CreateStep ==
  ASSUME IInv, NEW g, NEW expiry \in LeaseTimes, NEW caps, CreateLease(g, expiry, caps)
  PROVE  IInv' /\ Kept(queues, queues', written)
<1> DEFINE grant == CleanGrants[g]
           q == grant.queue
           record == [epoch |-> grant.epoch, op |-> "Create", nonce |-> g,
                      expiry |-> expiry, binding |-> {}]
           lease == [epoch |-> grant.epoch, expiry |-> expiry, caps |-> caps,
                     replay |-> {record}, next_replay_expiry |-> expiry,
                     dynamic_grants |-> <<>>, bound |-> grant.bound]
           queue == [bytes |-> 0, msgs |-> [c \in Classes |-> <<>>], gen |-> generation + 1]
           spent == [CleanGrants EXCEPT ![g].consumed = TRUE]
<1>1. StoreOK(CleanGrants, CleanLeases, CleanQueues, deposited, generation, now)
  BY Cleaned, Zenon
<1>2. /\ g \in DOMAIN CleanGrants /\ q \notin DOMAIN CleanLeases /\ q \notin DOMAIN CleanQueues
      /\ leases' = Insert(CleanLeases, q, lease) /\ queues' = Insert(CleanQueues, q, queue)
      /\ grants' = spent /\ generation' = generation + 1
      /\ now' = now /\ deposited' = deposited /\ written' = written /\ streams' = streams
  BY Zenon DEF CreateLease, history
<1>3. expiry \in Nat \ {0} /\ grant.epoch \in Nat /\ generation \in Nat /\ generation + 1 \in Nat
  <2>1. expiry \in Nat \ {0} /\ grant.epoch \in Nat /\ generation \in Nat
    BY <1>1, <1>2, RelayAssumption, Zenon DEF StoreOK, GrantOK, IInv
  <2> QED BY <2>1
<1>4. LeaseOK(lease)
  BY <1>3 DEF LeaseOK, LeaseFields, None
<1>5. queue.gen = generation + 1 /\ QueueOK(q, queue, generation + 1)
  BY <1>3 DEF QueueOK, QueueFields
<1>6. \A h \in DOMAIN spent : GrantOK(spent[h])
  <2>1. DOMAIN spent = DOMAIN CleanGrants /\ \A h \in DOMAIN spent : h # g => spent[h] = CleanGrants[h]
    BY Zenon
  <2>2. GrantOK(CleanGrants[g])
    BY <1>1, <1>2, Zenon DEF StoreOK
  <2>3. DOMAIN spent[g] = GrantFields /\ spent[g].epoch = CleanGrants[g].epoch
    BY <2>2, <1>2, Zenon DEF GrantOK, GrantFields
  <2> HIDE DEF spent
  <2>4. GrantOK(spent[g])
    BY <2>2, <2>3, Zenon DEF GrantOK
  <2> QED BY <2>1, <2>4, <1>1, Zenon DEF StoreOK
<1> HIDE DEF lease, queue, spent, q, grant
<1>7. StoreOK(CleanGrants, Insert(CleanLeases, q, lease), Insert(CleanQueues, q, queue),
              deposited, generation + 1, now)
  BY <1>1, <1>2, <1>3, <1>4, <1>5, QueueArrives, Zenon
<1>8. StoreOK(spent, Insert(CleanLeases, q, lease), Insert(CleanQueues, q, queue),
              deposited, generation + 1, now)
  BY <1>6, <1>7, Zenon DEF StoreOK
<1>9. IInv'
  BY <1>2, <1>3, <1>8, Zenon DEF IInv
<1>10. Kept(queues, Insert(CleanQueues, q, queue), written)
  <2>1. \A r \in DOMAIN queues : queues[r].gen # generation + 1
    <3>1. \A i \in 1..generation : i # generation + 1
      BY <1>3
    <3> QED BY <3>1, Zenon DEF IInv, StoreOK, QueueOK
  <2>2. \A r \in DOMAIN CleanQueues : CleanQueues[r] = queues[r]
    BY Zenon DEF CleanQueues, Restrict
  <2> QED BY <2>1, <2>2, <1>5, Zenon DEF Kept, Insert
<1> QED BY <1>2, <1>9, <1>10, Zenon

LEMMA RenewStep ==
  ASSUME IInv, NEW q, NEW caps, NEW nonce, NEW expiry \in LeaseTimes, Renew(q, caps, nonce, expiry)
  PROVE  IInv' /\ Kept(queues, queues', written)
<1> DEFINE l == CleanLeases[q]
           m == RecordReplay(l, "Renew", nonce, expiry, {})
           k == [m EXCEPT !.expiry = expiry]
<1>1. StoreOK(CleanGrants, CleanLeases, CleanQueues, deposited, generation, now)
  BY Cleaned, Zenon
<1>2. q \in DOMAIN CleanLeases /\ expiry > l.expiry /\ expiry \in Nat \ {0}
  BY RelayAssumption, Zenon DEF Renew
<1>3. LeaseOK(l)
  BY <1>1, <1>2, Zenon DEF StoreOK
<1> HIDE DEF l
<1>4. Extends(m, l)
  BY <1>2, <1>3, RecordKeepsCache, Zenon
<1> HIDE DEF m
<1>5. /\ DOMAIN k = LeaseFields /\ k.epoch = m.epoch /\ k.expiry = expiry /\ k.caps = m.caps
      /\ k.replay = m.replay /\ k.next_replay_expiry = m.next_replay_expiry
  BY <1>4, Zenon DEF LeaseOK, Extends, LeaseFields
<1> HIDE DEF k
<1>6. Extends(k, l)
  <2>1. expiry >= l.expiry /\ expiry \in Nat
    BY <1>2, <1>3 DEF LeaseOK
  <2> QED BY <2>1, <1>4, <1>5, Zenon DEF LeaseOK, Extends
<1>7. \A p \in Pushes : Known(l, p, now) => Known(k, p, now)
  BY <1>3, <1>6, Remembers, Zenon
<1>8. StoreOK(CleanGrants, [CleanLeases EXCEPT ![q] = k], CleanQueues, deposited, generation, now)
  BY <1>1, <1>2, <1>6, <1>7, LeaseChanges, Zenon DEF l, Extends
<1> QED BY <1>8, CleanKeeps, Zenon DEF IInv, Renew, history, k, m, l

LEMMA DynamicStep ==
  ASSUME IInv, NEW authority, NEW caps, NEW q, NEW nonce, NEW expiry \in LeaseTimes,
         DynamicGrant(authority, caps, q, FirstEpoch, nonce, expiry)
  PROVE  IInv' /\ Kept(queues, queues', written)
<1> DEFINE l == CleanLeases[authority]
           recent == SelectSeq(l.dynamic_grants, LAMBDA x : x + MINUTE > now)
           kept == [l EXCEPT !.dynamic_grants = recent]
           more == [kept EXCEPT !.dynamic_grants = Append(recent, now)]
           spent == RecordReplay(more, "Grant", nonce, expiry, {})
           refused == Len(recent) >= RATE \/ ReplayCount(l, "Grant") >= MAX_REPLAY
           k == IF refused THEN kept ELSE spent
           H == IF ~refused /\ HasGrantRoom THEN AddGrant(q, FirstEpoch, None) ELSE CleanGrants
<1>1. StoreOK(CleanGrants, CleanLeases, CleanQueues, deposited, generation, now)
  BY Cleaned, Zenon
<1>2. /\ authority \in DOMAIN CleanLeases /\ expiry \in Nat \ {0}
      /\ leases' = [CleanLeases EXCEPT ![authority] = k] /\ grants' = H
  BY RelayAssumption, Zenon DEF DynamicGrant
<1>3. LeaseOK(l)
  BY <1>1, <1>2, Zenon DEF StoreOK
<1> HIDE DEF l, recent
<1>4. LeaseOK(kept) /\ Extends(kept, l)
  BY <1>3, WindowIsApart, Zenon
<1> HIDE DEF kept
<1>5. LeaseOK(more) /\ Extends(more, kept)
  BY <1>4, WindowIsApart, Zenon
<1> HIDE DEF more
<1>6. Extends(spent, more)
  BY <1>2, <1>5, RecordKeepsCache, Zenon
<1> HIDE DEF spent, refused
<1>7. LeaseOK(k)
  BY <1>4, <1>6, Zenon DEF Extends
<1>8. \A p \in Pushes : Known(l, p, now) => Known(k, p, now)
  <2>1. \A p \in Pushes : Known(l, p, now) => Known(kept, p, now)
    BY <1>3, <1>4, Remembers, Zenon
  <2>2. \A p \in Pushes : Known(kept, p, now) => Known(more, p, now)
    BY <1>4, <1>5, Remembers, Zenon
  <2>3. \A p \in Pushes : Known(more, p, now) => Known(spent, p, now)
    BY <1>5, <1>6, Remembers, Zenon
  <2> QED BY <2>1, <2>2, <2>3, Zenon
<1>9. \A g \in DOMAIN H : GrantOK(H[g])
  BY <1>1, GrantArrives, RelayAssumption, Zenon DEF StoreOK
<1> HIDE DEF k, H
<1>10. StoreOK(CleanGrants, [CleanLeases EXCEPT ![authority] = k], CleanQueues,
               deposited, generation, now)
  BY <1>1, <1>2, <1>7, <1>8, LeaseChanges, Zenon DEF l
<1>11. StoreOK(H, [CleanLeases EXCEPT ![authority] = k], CleanQueues, deposited, generation, now)
  BY <1>9, <1>10, Zenon DEF StoreOK
<1> QED BY <1>2, <1>11, CleanKeeps, Zenon DEF IInv, DynamicGrant, history

\* A rotation forgets every record, and with the epoch every deposit.
LEMMA RotateStep ==
  ASSUME IInv, NEW q, NEW caps, NEW new_caps, NEW expiry \in LeaseTimes,
         Rotate(q, caps, new_caps, expiry)
  PROVE  IInv' /\ Kept(queues, queues', written)
<1> DEFINE l == CleanLeases[q]
           k == [l EXCEPT !.caps = new_caps, !.epoch = @ + 1, !.expiry = expiry,
                          !.replay = {}, !.next_replay_expiry = None]
<1>1. StoreOK(CleanGrants, CleanLeases, CleanQueues, deposited, generation, now)
  BY Cleaned, Zenon
<1>2. /\ q \in DOMAIN CleanLeases /\ expiry \in Nat \ {0}
      /\ leases' = [CleanLeases EXCEPT ![q] = k]
  BY RelayAssumption, Zenon DEF Rotate
<1>3. LeaseOK(l)
  BY <1>1, <1>2, Zenon DEF StoreOK
<1> HIDE DEF l
<1>4. /\ DOMAIN k = LeaseFields /\ k.epoch = l.epoch + 1 /\ k.expiry = expiry
      /\ k.replay = {} /\ k.next_replay_expiry = None
  BY <1>3, Zenon DEF LeaseOK, LeaseFields
<1> HIDE DEF k
<1>5. LeaseOK(k) /\ k.epoch = l.epoch + 1 /\ l.epoch \in Nat
  BY <1>2, <1>3, <1>4 DEF LeaseOK, None
<1>6. ASSUME NEW p \in Pushes, Known(l, p, now) PROVE Known(k, p, now)
  <2>1. p.epoch \in Nat /\ p.epoch <= l.epoch
    BY <1>6, RelayAssumption, Zenon DEF Known
  <2>2. p.epoch <= k.epoch /\ p.epoch # k.epoch
    BY <2>1, <1>5
  <2> QED BY <2>2, Zenon DEF Known
<1>7. StoreOK(CleanGrants, [CleanLeases EXCEPT ![q] = k], CleanQueues, deposited, generation, now)
  BY <1>1, <1>2, <1>5, <1>6, LeaseChanges, Zenon DEF l
<1>8. StreamsOK(streams', written)
  BY WakeMovesNone, Zenon DEF Rotate, IInv
<1> QED BY <1>2, <1>7, <1>8, CleanKeeps, Zenon DEF IInv, Rotate, history

LEMMA RevokeStep ==
  ASSUME IInv, NEW q, NEW caps, NEW expiry, Revoke(q, caps, expiry)
  PROVE  IInv' /\ Kept(queues, queues', written)
<1> DEFINE S == DOMAIN CleanLeases \ {q}
<1>1. StoreOK(CleanGrants, CleanLeases, CleanQueues, deposited, generation, now)
  BY Cleaned, Zenon
<1>2. DOMAIN CleanQueues = DOMAIN CleanLeases
  BY <1>1, Zenon DEF StoreOK
<1>3. StoreOK(CleanGrants, Restrict(CleanLeases, S), Restrict(CleanQueues, S),
              deposited, generation, now)
  BY <1>1, QueuesLeave, Zenon
<1>4. Kept(queues, Restrict(CleanQueues, S), written)
  BY <1>2, Zenon DEF Kept, CleanQueues, Restrict
<1> QED BY <1>2, <1>3, <1>4, Zenon DEF IInv, Revoke, history

-----------------------------------------------------------------------------
(* Deposits *)

LEMMA AppendHolds ==
  ASSUME NEW S, NEW m \in Seq(S), NEW x \in S
  PROVE  Append(m, x) \in Seq(S) /\ Range(m) \subseteq Range(Append(m, x))
<1>1. Append(m, x) \in Seq(S) /\ \A i \in DOMAIN m : i \in DOMAIN Append(m, x) /\ Append(m, x)[i] = m[i]
  OBVIOUS
<1> QED BY <1>1, Zenon DEF Range

LEMMA TailHolds ==
  ASSUME NEW S, NEW m \in Seq(S), m # <<>>
  PROVE  /\ Head(m) \in S /\ Tail(m) \in Seq(S)
         /\ \A x \in Range(m) : x = Head(m) \/ x \in Range(Tail(m))
<1>1. Head(m) \in S /\ Tail(m) \in Seq(S)
  OBVIOUS
<1>2. ASSUME NEW i \in DOMAIN m
      PROVE  m[i] = Head(m) \/ \E j \in DOMAIN Tail(m) : Tail(m)[j] = m[i]
  <2>1. CASE i = 1
    BY <2>1
  <2>2. CASE i # 1
    <3>1. i - 1 \in DOMAIN Tail(m) /\ Tail(m)[i - 1] = m[i]
      BY <2>2
    <3> QED BY <3>1, Zenon
  <2> QED BY <2>1, <2>2, Zenon
<1> QED BY <1>1, <1>2, Zenon DEF Range

Current(p) ==
  /\ p.queue \in DOMAIN CleanLeases
  /\ p.caps = CleanLeases[p.queue].caps /\ p.epoch = CleanLeases[p.queue].epoch
  /\ p.expiry > now /\ p.expiry <= CleanLeases[p.queue].expiry

\* An accepted deposit was made under the current lease and has not expired.
LEMMA AcceptedIsCurrent ==
  ASSUME NEW p, Push(p)
  PROVE  Current(p)
<1>1. PushOutcome(p) # "Unauthorized"
  BY Zenon DEF Push
<1> QED BY <1>1, Zenon DEF PushOutcome, Current

LEMMA PushStep ==
  ASSUME IInv, NEW p \in Pushes, Push(p)
  PROVE  IInv' /\ Kept(queues, queues', written)
<1> DEFINE q == p.queue
           l == CleanLeases[q]
           k == RecordReplay(l, "Push", p.nonce, p.expiry, Binding(p))
           L == [CleanLeases EXCEPT ![q] = k]
           u == CleanQueues[q]
           v == [u EXCEPT !.bytes = @ + p.len, !.msgs[p.class] = Append(@, p)]
           V == [CleanQueues EXCEPT ![q] = v]
           d == [gen |-> u.gen, push |-> p]
<1>1. StoreOK(CleanGrants, CleanLeases, CleanQueues, deposited, generation, now)
  BY Cleaned, Zenon
<1>3. /\ q \in DOMAIN CleanLeases /\ q \in DOMAIN CleanQueues
      /\ p.caps = l.caps /\ p.epoch = l.epoch /\ p.expiry > now /\ p.expiry <= l.expiry
  <2>1. Current(p)
    BY AcceptedIsCurrent, Zenon
  <2> QED BY <2>1, <1>1, Zenon DEF StoreOK, Current
<1>4. leases' = L /\ grants' = CleanGrants
  BY Zenon DEF Push
<1>5. now' = now /\ generation' = generation /\ written' = written
  BY Zenon DEF Push
<1>6. LeaseOK(l) /\ QueueOK(q, u, generation)
  BY <1>1, <1>3, Zenon DEF StoreOK
<1>7. p.expiry \in Nat \ {0} /\ p.epoch \in Nat /\ p.class \in Classes
  BY RelayAssumption, Zenon
<1> HIDE DEF l
<1>8. Extends(k, l) /\ Entry(l.epoch, "Push", p.nonce, p.expiry, Binding(p)) \in k.replay
  BY <1>6, <1>7, RecordKeepsCache, Zenon
<1>9. StoreOK(CleanGrants, L, CleanQueues, deposited, generation, now)
  <2> HIDE DEF k
  <2>1. \A r \in Pushes : Known(l, r, now) => Known(k, r, now)
    BY <1>6, <1>8, Remembers, Zenon
  <2> QED BY <2>1, <1>1, <1>3, <1>8, LeaseChanges, Zenon DEF Extends, l
<1>10. CASE p.len = 0
  <2>1. queues' = CleanQueues /\ deposited' = deposited /\ streams' = streams
    BY <1>10, Zenon DEF Push
  <2> HIDE DEF L
  <2> QED BY <2>1, <1>4, <1>5, <1>9, CleanKeeps, Zenon DEF IInv
<1>11. CASE p.len # 0
  <2>1. /\ queues' = V /\ deposited' = deposited \cup {d}
        /\ streams' = Notified(p, u.gen)
    BY <1>11, Zenon DEF Push
  <2>2. StreamsOK(streams', written')
    BY <2>1, <1>5, WakeMovesNone, Zenon DEF IInv, Notified
  <2>3. p \in For(q, p.class)
    BY Zenon DEF For
  <2>4. /\ u.msgs[p.class] \in Seq(For(q, p.class))
        /\ Append(u.msgs[p.class], p) \in Seq(For(q, p.class))
        /\ Range(u.msgs[p.class]) \subseteq Range(Append(u.msgs[p.class], p))
    BY <2>3, <1>6, <1>7, AppendHolds, Zenon DEF QueueOK
  <2>5. /\ DOMAIN v = QueueFields /\ v.gen = u.gen
        /\ v.msgs = [u.msgs EXCEPT ![p.class] = Append(u.msgs[p.class], p)]
    BY <1>6, Zenon DEF QueueOK, QueueFields
  <2> HIDE DEF u, v, L
  <2>6. /\ DOMAIN v.msgs = Classes /\ v.msgs[p.class] = Append(u.msgs[p.class], p)
        /\ \A c \in Classes : c # p.class => v.msgs[c] = u.msgs[c]
    BY <2>5, <1>6, <1>7, Zenon DEF QueueOK
  <2>7. QueueOK(q, v, generation)
    BY <2>4, <2>5, <2>6, <1>6, Zenon DEF QueueOK
  <2>8. Contents(u) \subseteq Contents(v)
    <3>1. \A c \in Classes : Range(u.msgs[c]) \subseteq Range(v.msgs[c])
      BY <2>4, <2>6, Zenon
    <3> QED BY <3>1, Zenon DEF Contents
  <2>9. Kept(queues, V, written)
    BY <2>8, <1>3, ChangeKeeps, Zenon DEF u
  <2>10. StoreOK(CleanGrants, L, V, deposited, generation, now)
    BY <2>5, <2>7, <1>3, <1>9, QueueChanges, Zenon DEF u
  <2>11. q \in DOMAIN V /\ V[q].gen = u.gen
    BY <2>5, <1>3, Zenon
  <2>12. L[q] = k
    BY <1>3, Zenon DEF L
  <2> HIDE DEF V, k
  <2>13. p.epoch <= k.epoch
    BY <1>3, <1>7, <1>8 DEF Extends
  <2>14. p.expiry <= k.expiry
    BY <1>3, <1>6, <1>7, <1>8 DEF Extends, LeaseOK
  <2>15. Known(L[q], p, now)
    BY <2>12, <2>13, <2>14, <1>3, <1>8, Zenon DEF Known, RecordOf, Extends
  <2>16. StoreOK(CleanGrants, L, V, deposited \cup {d}, generation, now)
    BY <2>10, <2>11, <2>15, DepositArrives, Zenon
  <2> QED BY <2>1, <2>2, <2>9, <2>16, <1>4, <1>5, Zenon DEF IInv
<1> QED BY <1>10, <1>11, Zenon

-----------------------------------------------------------------------------
(* The steps of a stream *)

LEMMA SubscribeStep ==
  ASSUME IInv, NEW s \in Subs, Subscribe(s)
  PROVE  IInv' /\ Kept(queues, queues', written)
<1> DEFINE q == s.queue
           l == CleanLeases[q]
           k == RecordReplay(l, "Subscribe", s.nonce, s.expiry, {})
           x == [pc |-> IF s.class = "Gc1" THEN "check" ELSE "peek",
                 gen |-> CleanQueues[q].gen, changed |-> FALSE, head |-> <<>>]
<1>1. StoreOK(CleanGrants, CleanLeases, CleanQueues, deposited, generation, now)
  BY Cleaned, Zenon
<1>2. /\ q \in DOMAIN CleanLeases /\ leases' = [CleanLeases EXCEPT ![q] = k]
      /\ streams' = [streams EXCEPT ![s] = x]
  BY Zenon DEF Subscribe
<1>3. LeaseOK(l)
  BY <1>1, <1>2, Zenon DEF StoreOK
<1>4. s.expiry \in Nat \ {0}
  BY RelayAssumption, Zenon
<1> HIDE DEF l
<1>5. Extends(k, l)
  BY <1>3, <1>4, RecordKeepsCache, Zenon
<1> HIDE DEF k
<1>6. \A p \in Pushes : Known(l, p, now) => Known(k, p, now)
  BY <1>3, <1>5, Remembers, Zenon
<1>7. StoreOK(CleanGrants, [CleanLeases EXCEPT ![q] = k], CleanQueues, deposited, generation, now)
  BY <1>1, <1>2, <1>5, <1>6, LeaseChanges, Zenon DEF Extends, l
<1>8. StreamOK(s, x, written)
  BY DEF StreamOK, StreamFields
<1> HIDE DEF x
<1>9. StreamsOK(streams', written)
  BY <1>2, <1>8, StreamMoves, Zenon DEF IInv
<1> QED BY <1>2, <1>7, <1>9, CleanKeeps, Zenon DEF IInv, Subscribe, history

\* A stream that moves on while the store is only cleaned.
LEMMA MoveStep ==
  ASSUME IInv, NEW s \in Subs, NEW x, StreamOK(s, x, written), StreamStep(s, x)
  PROVE  IInv' /\ Kept(queues, queues', written)
<1>1. StoreOK(CleanGrants, CleanLeases, CleanQueues, deposited, generation, now)
  BY Cleaned, Zenon
<1>2. StreamsOK(streams', written)
  BY StreamMoves, Zenon DEF StreamStep, IInv
<1> QED BY <1>1, <1>2, CleanKeeps, Zenon DEF IInv, StreamStep, history

\* A stream that moves on without the lock of the store.
LEMMA FreeStep ==
  ASSUME IInv, NEW s \in Subs, NEW x, NEW W, written \subseteq W, StreamOK(s, x, W),
         streams' = [streams EXCEPT ![s] = x], written' = W,
         UNCHANGED <<grants, leases, queues, generation, now, deposited>>
  PROVE  IInv' /\ Kept(queues, queues', written)
<1>1. StreamsOK(streams, W)
  BY Zenon DEF IInv, StreamsOK, StreamOK
<1>2. StreamsOK(streams', W)
  BY <1>1, StreamMoves, Zenon
<1> QED BY <1>2, SameKeeps, Zenon DEF IInv

\* What a peek returns: nothing, or the head of the stream's own queue.
LEMMA PeekIsHead ==
  ASSUME IInv, NEW s \in Subs, FirstOf(s) # <<>>
  PROVE  LET m == CleanQueues[s.queue].msgs[s.class]
         IN  /\ s.queue \in DOMAIN CleanQueues /\ s.class \in Classes
             /\ m \in Seq(For(s.queue, s.class)) /\ m # <<>>
             /\ FirstOf(s) = <<Head(m)>>
<1>1. s.class \in Classes
  BY RelayAssumption, Zenon
<1>2. /\ s.queue \in DOMAIN CleanQueues /\ CleanQueues[s.queue].msgs[s.class] # <<>>
      /\ FirstOf(s) = <<Head(CleanQueues[s.queue].msgs[s.class])>>
  BY Zenon DEF FirstOf
<1> QED BY <1>1, <1>2, Cleaned, Zenon DEF StoreOK, QueueOK

LEMMA IdleIsOK == ASSUME NEW s, NEW W PROVE StreamOK(s, Idle, W)
  BY Zenon DEF StreamOK

\* The fields of a running stream.
LEMMA RunningHas ==
  ASSUME IInv, NEW s \in Subs, streams[s].pc # "idle"
  PROVE  DOMAIN streams[s] = StreamFields /\ StreamOK(s, streams[s], written) /\ streams[s] # Idle
<1>1. streams[s] # Idle
  BY DEF Idle
<1> QED BY <1>1, Zenon DEF IInv, StreamsOK, StreamOK

\* The stream takes in hand the head it peeked.
LEMMA HeadInHand ==
  ASSUME IInv, NEW s \in Subs, streams[s].pc # "idle", FirstOf(s) # <<>>
  PROVE  StreamOK(s, [At(s, "send") EXCEPT !.head = FirstOf(s)], written)
<1> DEFINE x == [At(s, "send") EXCEPT !.head = FirstOf(s)]
           m == CleanQueues[s.queue].msgs[s.class]
<1>1. m \in Seq(For(s.queue, s.class)) /\ m # <<>> /\ FirstOf(s) = <<Head(m)>>
  BY PeekIsHead, Zenon
<1> HIDE DEF m
<1>2. Head(m) \in For(s.queue, s.class)
  BY <1>1, TailHolds, Zenon
<1>3. DOMAIN x = StreamFields /\ x.pc = "send" /\ x.head = FirstOf(s)
  BY RunningHas, Zenon DEF At, StreamFields
<1> HIDE DEF x
<1>4. x.pc # "ack"
  BY <1>3
<1>5. StreamOK(s, x, written)
  BY <1>1, <1>2, <1>3, <1>4, Zenon DEF StreamOK
<1> QED BY <1>5, Zenon DEF x

LEMMA PeekStep ==
  ASSUME IInv, NEW s \in Subs, Gc1Check(s) \/ Gc1Peek(s) \/ Gc2Peek(s)
  PROVE  IInv' /\ Kept(queues, queues', written)
<1>1. streams[s].pc # "idle"
  BY DEF Gc1Check, Gc1Peek, Gc2Peek
<1>2. /\ StreamOK(s, At(s, "peek"), written) /\ StreamOK(s, At(s, "check"), written)
      /\ StreamOK(s, At(s, "wait"), written)
  BY <1>1, StreamGoes, Zenon DEF IInv
<1>3. CASE Gc1Check(s)
  BY <1>2, <1>3, IdleIsOK, MoveStep, Zenon DEF Gc1Check
<1>4. CASE Gc1Peek(s)
  BY <1>1, <1>2, <1>4, HeadInHand, MoveStep, Zenon DEF Gc1Peek
<1>5. CASE Gc2Peek(s)
  BY <1>1, <1>2, <1>5, IdleIsOK, HeadInHand, MoveStep, Zenon DEF Gc2Peek
<1> QED BY <1>3, <1>4, <1>5, Zenon

LEMMA WriteStep ==
  ASSUME IInv, NEW s \in Subs, Write(s)
  PROVE  IInv' /\ Kept(queues, queues', written)
<1> DEFINE x == At(s, "ack")
           W == written \cup {streams[s].head[1]}
<1>1. streams[s].pc = "send" /\ streams[s].pc # "idle"
  BY DEF Write
<1>2. DOMAIN streams[s] = StreamFields /\ StreamOK(s, streams[s], written) /\ streams[s] # Idle
  BY <1>1, RunningHas, Zenon
<1>3. PICK h \in For(s.queue, s.class) : streams[s].head = <<h>>
  BY <1>1, <1>2, Zenon DEF StreamOK
<1>4. streams[s].head[1] = h
  BY <1>3
<1>5. DOMAIN x = StreamFields /\ x.pc = "ack" /\ x.head = streams[s].head
  BY <1>2, Zenon DEF At, StreamFields
<1> HIDE DEF x
<1>6. StreamOK(s, x, W)
  BY <1>3, <1>4, <1>5, Zenon DEF StreamOK
<1>7. /\ streams' = [streams EXCEPT ![s] = x] /\ written' = W
      /\ UNCHANGED <<grants, leases, queues, generation, now, deposited>>
  BY Zenon DEF Write, store, x
<1>8. written \subseteq W
  BY Zenon
<1> HIDE DEF W
<1> QED BY <1>6, <1>7, <1>8, FreeStep, Zenon

LEMMA WaitStep ==
  ASSUME IInv, NEW s \in Subs, Gc2Wait(s)
  PROVE  IInv' /\ Kept(queues, queues', written)
<1> DEFINE x == [At(s, "peek") EXCEPT !.changed = FALSE]
           y == IF streams[s].changed THEN x ELSE Idle
<1>1. streams[s].pc # "idle"
  BY DEF Gc2Wait
<1>2. DOMAIN x = StreamFields /\ x.pc = "peek"
  BY <1>1, RunningHas, Zenon DEF At, StreamFields
<1>3. streams' = [streams EXCEPT ![s] = y]
  BY Zenon DEF Gc2Wait
<1> HIDE DEF x
<1>4. StreamOK(s, x, written)
  BY <1>2 DEF StreamOK
<1>5. StreamOK(s, y, written)
  BY <1>4, IdleIsOK, Zenon
<1> HIDE DEF y
<1>6. written' = written /\ UNCHANGED <<grants, leases, queues, generation, now, deposited>>
  BY Zenon DEF Gc2Wait, store, history
<1>7. written \subseteq written
  BY Zenon
<1> QED BY <1>3, <1>5, <1>6, <1>7, FreeStep, Zenon

LEMMA RecheckStep ==
  ASSUME IInv, NEW s \in Subs, Gc2Recheck(s)
  PROVE  IInv' /\ Kept(queues, queues', written)
<1> DEFINE x == [streams[s] EXCEPT !.changed = FALSE]
<1>1. streams[s].pc # "idle"
  BY DEF Gc2Recheck
<1>2. DOMAIN streams[s] = StreamFields /\ StreamOK(s, streams[s], written) /\ streams[s] # Idle
  BY <1>1, RunningHas, Zenon
<1>3. DOMAIN x = StreamFields /\ x.pc = streams[s].pc /\ x.head = streams[s].head
  BY <1>2, Zenon DEF StreamFields
<1>4. StreamStep(s, x) \/ StreamStep(s, Idle)
  BY Zenon DEF Gc2Recheck
<1> HIDE DEF x
<1>5. StreamOK(s, x, written)
  BY <1>2, <1>3, Zenon DEF StreamOK
<1> QED BY <1>4, <1>5, IdleIsOK, MoveStep, Zenon

LEMMA DropStep ==
  ASSUME IInv, NEW s \in Subs, Drop(s)
  PROVE  IInv' /\ Kept(queues, queues', written)
<1>1. /\ streams' = [streams EXCEPT ![s] = Idle] /\ written' = written
      /\ UNCHANGED <<grants, leases, queues, generation, now, deposited>>
  BY Zenon DEF Drop, store, history
<1>2. written \subseteq written
  BY Zenon
<1> QED BY <1>1, <1>2, IdleIsOK, FreeStep, Zenon

\* An acknowledgment removes the message this stream wrote or none: the head it
\* removes has the nonce, so is the deposit, that the stream holds.
LEMMA AckTakesWritten ==
  ASSUME IInv, NEW s \in Subs, streams[s].pc = "ack", HeadMatches(s)
  PROVE  /\ FirstOf(s) # <<>>
         /\ Head(CleanQueues[s.queue].msgs[s.class]) \in written
<1> DEFINE m == CleanQueues[s.queue].msgs[s.class]
<1>1. streams[s].pc # "idle"
  OBVIOUS
<1>2. StreamOK(s, streams[s], written) /\ streams[s] # Idle
  BY <1>1, RunningHas, Zenon
<1>3. PICK h \in For(s.queue, s.class) : streams[s].head = <<h>> /\ h \in written
  BY <1>2, Zenon DEF StreamOK
<1>4. FirstOf(s) # <<>> /\ FirstOf(s)[1].nonce = streams[s].head[1].nonce
  BY Zenon DEF HeadMatches
<1>5. m \in Seq(For(s.queue, s.class)) /\ m # <<>> /\ FirstOf(s) = <<Head(m)>>
  BY <1>4, PeekIsHead, Zenon
<1> HIDE DEF m
<1>6. Head(m) \in For(s.queue, s.class)
  BY <1>5, TailHolds, Zenon
<1>7. Head(m).nonce = h.nonce
  BY <1>3, <1>4, <1>5
<1>8. Head(m) = h
  BY <1>6, <1>7, NonceAssumption, Zenon DEF For
<1> QED BY <1>3, <1>4, <1>8, Zenon DEF m

\* What an acknowledgment leaves of the queues.
LEMMA AckQueues ==
  ASSUME IInv, NEW s \in Subs, streams[s].pc = "ack"
  PROVE  /\ StoreOK(CleanGrants, CleanLeases, Dequeued(s), deposited, generation, now)
         /\ Kept(queues, Dequeued(s), written)
<1>1. StoreOK(CleanGrants, CleanLeases, CleanQueues, deposited, generation, now)
  BY Cleaned, Zenon
<1>2. CASE ~HeadMatches(s)
  BY <1>1, <1>2, CleanKeeps, Zenon DEF Dequeued
<1>3. CASE HeadMatches(s)
  <2> DEFINE q == s.queue
             c0 == s.class
             u == CleanQueues[q]
             m == u.msgs[c0]
             v == [u EXCEPT !.bytes = @ - FirstOf(s)[1].len, !.msgs[c0] = Tail(@)]
             V == [CleanQueues EXCEPT ![q] = v]
  <2>1. FirstOf(s) # <<>> /\ Head(m) \in written
    BY <1>3, AckTakesWritten, Zenon
  <2>2. q \in DOMAIN CleanQueues /\ c0 \in Classes /\ m \in Seq(For(q, c0)) /\ m # <<>>
    BY <2>1, PeekIsHead, Zenon
  <2>3. Dequeued(s) = V
    BY <1>3, Zenon DEF Dequeued
  <2>4. QueueOK(q, u, generation)
    BY <2>2, <1>1, Zenon DEF StoreOK
  <2>5. /\ DOMAIN v = QueueFields /\ v.gen = u.gen
        /\ v.msgs = [u.msgs EXCEPT ![c0] = Tail(m)]
    BY <2>4, Zenon DEF QueueOK, QueueFields
  <2> HIDE DEF v, u
  <2>6. /\ DOMAIN v.msgs = Classes /\ v.msgs[c0] = Tail(m)
        /\ \A c \in Classes : c # c0 => v.msgs[c] = u.msgs[c]
    BY <2>2, <2>4, <2>5, Zenon DEF QueueOK
  <2>7. Tail(m) \in Seq(For(q, c0)) /\ \A x \in Range(m) : x = Head(m) \/ x \in Range(Tail(m))
    BY <2>2, TailHolds, Zenon
  <2>8. QueueOK(q, v, generation)
    BY <2>4, <2>5, <2>6, <2>7, Zenon DEF QueueOK
  <2>9. \A p \in Contents(u) \ Contents(v) : p \in written
    <3>1. \A c \in Classes : \A p \in Range(u.msgs[c]) : p \in Range(v.msgs[c]) \/ p \in written
      BY <2>1, <2>6, <2>7, Zenon DEF u
    <3> QED BY <3>1, Zenon DEF Contents
  <2>10. Kept(queues, V, written)
    BY <2>2, <2>9, ChangeKeeps, Zenon DEF u
  <2>11. StoreOK(CleanGrants, CleanLeases, V, deposited, generation, now)
    BY <2>2, <2>5, <2>8, <1>1, QueueChanges, Zenon DEF u
  <2> QED BY <2>3, <2>10, <2>11, Zenon
<1> QED BY <1>2, <1>3, Zenon

LEMMA AckStep ==
  ASSUME IInv, NEW s \in Subs, Acknowledge(s)
  PROVE  IInv' /\ Kept(queues, queues', written)
<1> DEFINE woken == IF s.class # "Gc1" /\ HeadMatches(s) THEN Wake(streams[s].gen, {s.class})
                                                         ELSE streams
           to == IF s.class = "Gc1" THEN "check" ELSE "peek"
           S == [woken EXCEPT ![s].pc = to, ![s].head = <<>>]
<1>1. StoreOK(CleanGrants, CleanLeases, CleanQueues, deposited, generation, now)
  BY Cleaned, Zenon
<1>2. streams[s].pc = "ack" /\ streams[s].pc # "idle"
  BY DEF Acknowledge
<1>3. queues' = Dequeued(s) \/ queues' = CleanQueues
  BY Zenon DEF Acknowledge
<1>4. StoreOK(CleanGrants, CleanLeases, queues', deposited, generation, now)
  BY <1>1, <1>2, <1>3, AckQueues, Zenon
<1>5. Kept(queues, queues', written)
  BY <1>2, <1>3, AckQueues, CleanKeeps, Zenon
<1>6. streams' = S \/ streams' = [streams EXCEPT ![s] = Idle]
  BY Zenon DEF Acknowledge
<1>7. StreamsOK(streams, written)
  BY Zenon DEF IInv
<1>8. StreamsOK(woken, written) /\ woken[s].pc = streams[s].pc
  <2>1. CASE woken = streams
    <3> HIDE DEF woken
    <3> QED BY <2>1, <1>7, Zenon
  <2>2. CASE woken = Wake(streams[s].gen, {s.class})
    <3> HIDE DEF woken
    <3>1. /\ StreamsOK(Wake(streams[s].gen, {s.class}), written)
          /\ Wake(streams[s].gen, {s.class})[s].pc = streams[s].pc
      BY <1>7, WakeMovesNone
    <3> QED BY <3>1, <2>2, Zenon
  <2> QED BY <2>1, <2>2, Zenon
<1>9. StreamsOK(S, written)
  <2>1. woken[s] # Idle /\ to \in {"check", "peek"}
    BY <1>2, <1>8 DEF Idle
  <2> HIDE DEF woken, to
  <2>2. DOMAIN woken = Subs /\ DOMAIN woken[s] = StreamFields
    BY <2>1, <1>8, Zenon DEF StreamsOK, StreamOK
  <2>3. /\ DOMAIN S = Subs /\ \A r \in Subs : r # s => S[r] = woken[r]
        /\ DOMAIN S[s] = StreamFields /\ S[s].pc = to
    BY <2>2, Zenon DEF StreamFields
  <2> HIDE DEF S
  <2>4. StreamOK(s, S[s], written)
    BY <2>1, <2>3 DEF StreamOK
  <2> QED BY <2>3, <2>4, <1>8, Zenon DEF StreamsOK
<1> HIDE DEF S
<1>10. StreamsOK([streams EXCEPT ![s] = Idle], written)
  BY <1>7, IdleIsOK, StreamMoves, Zenon
<1>11. StreamsOK(streams', written)
  BY <1>6, <1>9, <1>10, Zenon
<1> QED BY <1>4, <1>5, <1>11, Zenon DEF IInv, Acknowledge, history

-----------------------------------------------------------------------------
(* Time, cleanup and restart *)

LEMMA TickStep ==
  ASSUME IInv, Tick
  PROVE  IInv' /\ Kept(queues, queues', written)
<1>1. /\ now' = now + 1 /\ UNCHANGED <<grants, leases, queues, streams, generation, deposited, written>>
  BY Zenon DEF Tick, store, history
<1>2. now' \in Nat /\ now \in Nat
  BY <1>1 DEF IInv
<1>3. ASSUME NEW l, NEW p \in Pushes, Known(l, p, now) PROVE Known(l, p, now')
  <2>1. p.expiry \in Nat
    BY RelayAssumption, Zenon
  <2>2. p.expiry > now' => p.expiry > now
    BY <1>1, <1>2, <2>1
  <2> QED BY <2>2, <1>3, Zenon DEF Known
<1>4. StoreOK(grants, leases, queues, deposited, generation, now')
  BY <1>3, Zenon DEF IInv, StoreOK, DepositOK
<1> QED BY <1>1, <1>2, <1>4, SameKeeps, Zenon DEF IInv

LEMMA CleanupStep ==
  ASSUME IInv, Cleanup
  PROVE  IInv' /\ Kept(queues, queues', written)
  BY Cleaned, CleanKeeps, Zenon DEF IInv, Cleanup, history

LEMMA RebootStep ==
  ASSUME IInv, Reboot
  PROVE  IInv' /\ Kept(queues, queues', written)
<1>1. StoreOK(grants', leases', queues', deposited, generation, now)
  <2>1. DOMAIN grants' = {} /\ DOMAIN leases' = {} /\ DOMAIN queues' = {}
    BY Zenon DEF Reboot
  <2> QED BY <2>1, Zenon DEF IInv, StoreOK, DepositOK
<1>2. StreamsOK(streams', written)
  BY IdleIsOK, Zenon DEF Reboot, StreamsOK
<1>3. Kept(queues, queues', written)
  BY Zenon DEF Reboot, Kept
<1> QED BY <1>1, <1>2, <1>3, Zenon DEF IInv, Reboot, history

-----------------------------------------------------------------------------
(* Theorems *)

LEMMA InitHolds == ASSUME Init PROVE IInv
<1>1. generation \in Nat /\ now \in Nat
  BY DEF Init
<1>2. StoreOK(grants, leases, queues, deposited, generation, now)
  BY Zenon DEF Init, StoreOK
<1>3. StreamsOK(streams, written)
  BY IdleIsOK, Zenon DEF Init, StreamsOK
<1> QED BY <1>1, <1>2, <1>3, Zenon DEF IInv

\* Every step keeps the invariant, and lets nothing unwritten leave a queue.
LEMMA StepHolds ==
  ASSUME IInv, [Next]_vars
  PROVE  IInv' /\ Kept(queues, queues', written)
<1>1. CASE UNCHANGED vars
  BY <1>1, SameKeeps, Zenon DEF IInv, vars
<1>2. ASSUME NEW q \in Queues, Owner(q) PROVE IInv' /\ Kept(queues, queues', written)
  BY <1>2, GrantStep, DynamicStep, RenewStep, RotateStep, RevokeStep, Zenon DEF Owner
<1>3. ASSUME Create PROVE IInv' /\ Kept(queues, queues', written)
  BY <1>3, CreateStep, Zenon DEF Create
<1>4. ASSUME NEW s \in Subs, Pump(s) PROVE IInv' /\ Kept(queues, queues', written)
  BY <1>4, PeekStep, WriteStep, WaitStep, RecheckStep, AckStep, Zenon DEF Pump
<1> QED BY <1>1, <1>2, <1>3, <1>4, PushStep, SubscribeStep, DropStep, CleanupStep, TickStep,
           RebootStep, Zenon DEF Next

\* IInv is an inductive invariant of the store and its streams.
THEOREM StoreInvariant == Spec => []IInv
<1>1. Init => IInv
  BY InitHolds, Zenon
<1>2. IInv /\ [Next]_vars => IInv'
  BY StepHolds, Zenon
<1> QED BY <1>1, <1>2, PTL DEF Spec

\* Every lease owns a queue and every queue belongs to a lease, through create,
\* revoke, expiry and restart: the expects of queues.rs cannot fail.
THEOREM LeaseQueuePairs == Spec => []LeaseOwnsQueue
<1>1. IInv => LeaseOwnsQueue
  BY Zenon DEF IInv, StoreOK, LeaseOwnsQueue
<1> QED BY <1>1, StoreInvariant, PTL

\* purge_replay may skip its walk while the cached earliest expiry is ahead, and
\* still no record outlives its request in a store that was just cleaned.
THEOREM PurgeOnTime == Spec => []PurgedOnTime
<1>1. IInv => PurgedOnTime
  <2> SUFFICES ASSUME IInv, NEW q \in DOMAIN CleanLeases, NEW r \in CleanLeases[q].replay
               PROVE  r.expiry > now
    BY Zenon DEF PurgedOnTime
  <2>1. q \in DOMAIN leases /\ CleanLeases[q] = PurgeReplay(leases[q])
    BY Zenon DEF CleanLeases
  <2>2. LeaseOK(leases[q]) /\ now \in Nat
    BY <2>1, Zenon DEF IInv, StoreOK
  <2>3. PurgeReplay(leases[q]).replay = {x \in leases[q].replay : x.expiry > now}
    BY <2>2, PurgeIsExact, Zenon
  <2> QED BY <2>1, <2>3, Zenon
<1> QED BY <1>1, StoreInvariant, PTL

\* A lost answer is safe to retry: authenticate_push answers Duplicate until the
\* deposit expires or the lease is rotated, whatever the owner, the other
\* senders and the subscribers do in between.
THEOREM RetryAnswered == Spec => []RetryIsDuplicate
<1>1. IInv => RetryIsDuplicate
  <2> SUFFICES ASSUME IInv, NEW d \in deposited,
                      d.push.queue \in DOMAIN CleanQueues, CleanQueues[d.push.queue].gen = d.gen,
                      CleanLeases[d.push.queue].epoch = d.push.epoch, d.push.expiry > now
               PROVE  PushOutcome(d.push) = "Duplicate"
    BY Zenon DEF RetryIsDuplicate
  <2> DEFINE p == d.push
             l == CleanLeases[p.queue]
  <2>1. p.queue \in DOMAIN CleanLeases /\ Known(l, p, now)
    BY Cleaned, Zenon DEF StoreOK, DepositOK
  <2>2. p.caps = l.caps /\ p.expiry <= l.expiry /\ RecordOf(p) \in l.replay
    BY <2>1, Zenon DEF Known
  <2>3. /\ RecordOf(p).epoch = p.epoch /\ RecordOf(p).op = "Push" /\ RecordOf(p).nonce = p.nonce
        /\ RecordOf(p).binding = Binding(p)
    BY Zenon DEF RecordOf, Entry
  <2>4. RecordOf(p) \in Recorded(l, "Push", p.nonce)
    BY <2>2, <2>3, Zenon DEF Recorded
  <2> QED BY <2>1, <2>2, <2>3, <2>4, Zenon DEF PushOutcome
<1> QED BY <1>1, StoreInvariant, PTL

\* No message leaves a queue that lives on before it was written to a
\* subscriber, however many streams peek, write and acknowledge at once.
THEOREM NothingLost == Spec => NoSilentLoss
<1>1. IInv /\ [Next]_vars => [Kept(queues, queues', written)]_vars
  BY StepHolds, Zenon
<1>2. [Kept(queues, queues', written)]_vars =>
        [\A q \in DOMAIN queues \cap DOMAIN queues' :
           queues[q].gen = queues'[q].gen =>
             \A p \in Contents(queues[q]) \ Contents(queues'[q]) : p \in written]_vars
  BY Zenon DEF Kept
<1> QED BY <1>1, <1>2, StoreInvariant, PTL DEF Spec, NoSilentLoss

\* A deposit enters one incarnation of its queue at most once, whatever a sender
\* retries: not before it expires (it is a duplicate), not after a rotation (its
\* epoch is over), not after it expires.
THEOREM DepositEntersOnce == Spec => EnqueuedOnce
<1>1. ASSUME IInv, RetryIsDuplicate, NEW p \in Pushes, Push(p)
      PROVE  [gen |-> CleanQueues[p.queue].gen, push |-> p] \notin deposited
  <2> DEFINE d == [gen |-> CleanQueues[p.queue].gen, push |-> p]
  <2>1. d.push = p /\ d.gen = CleanQueues[p.queue].gen
    BY Zenon
  <2>2. Current(p)
    BY <1>1, AcceptedIsCurrent, Zenon
  <2>3. p.queue \in DOMAIN CleanQueues
    BY <2>2, <1>1, Cleaned, Zenon DEF StoreOK, Current
  <2>4. PushOutcome(p) # "Duplicate"
    BY <1>1 DEF Push
  <2> HIDE DEF d
  <2>5. d \notin deposited
    BY <2>1, <2>2, <2>3, <2>4, <1>1, Zenon DEF RetryIsDuplicate, Current
  <2> QED BY <2>5, Zenon DEF d
<1>2. IInv /\ RetryIsDuplicate /\ [Next]_vars =>
        [\A p \in Pushes : Push(p) /\ p.len > 0
           => [gen |-> CleanQueues[p.queue].gen, push |-> p] \notin deposited]_vars
  BY <1>1, Zenon
<1> QED BY <1>2, StoreInvariant, RetryAnswered, PTL DEF Spec, EnqueuedOnce

-----------------------------------------------------------------------------
(* Byte accounts: the counter of each queue and the total of the store are     *)
(* exactly the messages held.                                                  *)

\* A queue whose counter is what its classes hold.
Exact(u) ==
  /\ \A c \in Classes : u.msgs[c] \in Seq(Pushes)
  /\ u.bytes = SumFunctionOnSet([c \in Classes |-> BytesOf(u.msgs[c])], Classes)

\* The bytes that the queues S of U hold.
Bytes(U, S) == SumFunctionOnSet([q \in S |-> U[q].bytes], S)

Accounts(U, t) ==
  /\ IsFiniteSet(DOMAIN U)
  /\ \A q \in DOMAIN U : Exact(U[q])
  /\ t = Bytes(U, DOMAIN U)

AInv == Accounts(queues, total_bytes)

-----------------------------------------------------------------------------
(* Messages and queues *)

\* There are finitely many classes.
LEMMA ClassesFinite == IsFiniteSet(Classes)
<1> DEFINE A == {} \cup {"Gc1"}
           B == A \cup {"Bulk"}
           C == B \cup {"Interactive"}
<1>1. IsFiniteSet(A)
  BY FS_EmptySet, FS_AddElement, Zenon
<1>2. IsFiniteSet(B)
  <2> HIDE DEF A
  <2> QED BY <1>1, FS_AddElement, Zenon
<1>3. IsFiniteSet(C)
  <2> HIDE DEF B
  <2> QED BY <1>2, FS_AddElement, Zenon
<1>4. Classes = C
  BY Zenon DEF Classes
<1> QED BY <1>3, <1>4, Zenon

\* The terms of BytesOf.
Lens(m) == [i \in DOMAIN m |-> m[i].len]

\* The lengths of payloads.
LEMMA LensAreNat ==
  ASSUME NEW m \in Seq(Pushes)
  PROVE  /\ DOMAIN m = 1..Len(m) /\ Len(m) \in Nat /\ IsFiniteSet(1..Len(m))
         /\ \A i \in 1..Len(m) : Lens(m)[i] = m[i].len /\ Lens(m)[i] \in Nat
         /\ BytesOf(m) = SumFunctionOnSet(Lens(m), 1..Len(m))
<1>1. DOMAIN m = 1..Len(m) /\ Len(m) \in Nat /\ 1 \in Int /\ Len(m) \in Int
      /\ \A i \in 1..Len(m) : m[i] \in Pushes
  OBVIOUS
<1>2. IsFiniteSet(1..Len(m))
  BY <1>1, FS_Interval, Zenon
<1>3. \A i \in 1..Len(m) : Lens(m)[i] = m[i].len /\ Lens(m)[i] \in Nat
  BY <1>1, RelayAssumption, Zenon DEF Lens
<1>4. BytesOf(m) = SumFunctionOnSet(Lens(m), DOMAIN Lens(m)) /\ DOMAIN Lens(m) = DOMAIN m
  BY Zenon DEF BytesOf, SumFunction, Lens
<1> QED BY <1>1, <1>2, <1>3, <1>4, Zenon

\* What a queue holds is a number of bytes.
LEMMA BytesNat ==
  ASSUME NEW m \in Seq(Pushes)
  PROVE  BytesOf(m) \in Nat
<1>1. /\ IsFiniteSet(1..Len(m)) /\ \A i \in 1..Len(m) : Lens(m)[i] \in Nat
      /\ BytesOf(m) = SumFunctionOnSet(Lens(m), 1..Len(m))
  BY LensAreNat, Zenon
<1> QED BY <1>1, SumNat

\* The bytes of a queue that a payload joined.
LEMMA BytesAppend ==
  ASSUME NEW m \in Seq(Pushes), NEW p \in Pushes
  PROVE  Append(m, p) \in Seq(Pushes) /\ BytesOf(Append(m, p)) = BytesOf(m) + p.len
<1> DEFINE k == Append(m, p)
           n == Len(m)
<1>1. /\ k \in Seq(Pushes) /\ Len(k) = n + 1 /\ n \in Nat /\ 1..(n + 1) = 1..n \cup {n + 1}
      /\ n + 1 \notin 1..n /\ k[n + 1] = p /\ \A i \in 1..n : k[i] = m[i]
  OBVIOUS
<1> HIDE DEF k, n
<1>2. /\ BytesOf(m) = SumFunctionOnSet(Lens(m), 1..n) /\ IsFiniteSet(1..n)
      /\ \A i \in 1..n : Lens(m)[i] = m[i].len /\ Lens(m)[i] \in Nat
  BY LensAreNat, Zenon DEF n
<1>3. /\ BytesOf(k) = SumFunctionOnSet(Lens(k), 1..n \cup {n + 1})
      /\ \A i \in 1..n \cup {n + 1} : Lens(k)[i] = k[i].len /\ Lens(k)[i] \in Nat
  BY <1>1, LensAreNat, Zenon
<1>4. SumFunctionOnSet(Lens(k), 1..n \cup {n + 1}) = Lens(k)[n + 1] + SumFunctionOnSet(Lens(k), 1..n)
  BY <1>1, <1>2, <1>3, SumAdd, Zenon
<1>5. SumFunctionOnSet(Lens(m), 1..n) = SumFunctionOnSet(Lens(k), 1..n)
  <2>1. \A i \in 1..n : Lens(m)[i] = Lens(k)[i]
    BY <1>1, <1>2, <1>3, Zenon
  <2> QED BY <2>1, <1>2, SumSame, Zenon
<1>6. Lens(k)[n + 1] = p.len /\ p.len \in Nat /\ BytesOf(m) \in Nat
  BY <1>1, <1>3, BytesNat, RelayAssumption, Zenon
<1>7. BytesOf(k) = BytesOf(m) + p.len
  BY <1>2, <1>3, <1>4, <1>5, <1>6
<1> QED BY <1>1, <1>7, Zenon DEF k

\* The bytes of a queue whose first payload left.
LEMMA BytesTail ==
  ASSUME NEW m \in Seq(Pushes), m # <<>>
  PROVE  Tail(m) \in Seq(Pushes) /\ BytesOf(m) = Head(m).len + BytesOf(Tail(m))
<1> DEFINE k == Tail(m)
           n == Len(m) - 1
<1>1. /\ k \in Seq(Pushes) /\ Len(k) = n /\ n \in Nat /\ Len(m) = n + 1
      /\ m[1] = Head(m) /\ 1 \in 1..(n + 1) /\ \A i \in 1..n : k[i] = m[i + 1] /\ i + 1 \in 1..(n + 1)
  OBVIOUS
<1> HIDE DEF k, n
<1>2. /\ BytesOf(m) = SumFunctionOnSet(Lens(m), 1..(n + 1))
      /\ \A i \in 1..(n + 1) : Lens(m)[i] = m[i].len /\ Lens(m)[i] \in Nat
  BY <1>1, LensAreNat, Zenon
<1>3. /\ BytesOf(k) = SumFunctionOnSet(Lens(k), 1..n)
      /\ \A i \in 1..n : Lens(k)[i] = k[i].len
  BY <1>1, LensAreNat, Zenon
<1>4. \A i \in 1..n : Lens(k)[i] = Lens(m)[i + 1]
  BY <1>1, <1>2, <1>3, Zenon
<1>5. SumFunctionOnSet(Lens(m), 1..(n + 1)) = Lens(m)[1] + SumFunctionOnSet(Lens(k), 1..n)
  BY <1>1, <1>2, <1>4, SumShift, Zenon
<1>6. Lens(m)[1] = Head(m).len
  BY <1>1, <1>2, Zenon
<1>7. BytesOf(m) = Head(m).len + BytesOf(k)
  BY <1>2, <1>3, <1>5, <1>6, Zenon
<1> QED BY <1>1, <1>7, Zenon DEF k

\* The terms of a queue.
LEMMA ExactNat ==
  ASSUME NEW u, Exact(u)
  PROVE  u.bytes \in Nat /\ \A c \in Classes : BytesOf(u.msgs[c]) \in Nat
<1> DEFINE f == [c \in Classes |-> BytesOf(u.msgs[c])]
<1>1. \A c \in Classes : BytesOf(u.msgs[c]) \in Nat
  BY BytesNat, Zenon DEF Exact
<1>2. \A c \in Classes : f[c] \in Nat
  BY <1>1, Zenon
<1>3. u.bytes = SumFunctionOnSet(f, Classes)
  BY Zenon DEF Exact
<1> HIDE DEF f
<1> QED BY <1>1, <1>2, <1>3, ClassesFinite, SumNat, Zenon

\* One class of a queue changes, and the counter by as much.
LEMMA ExactChange ==
  ASSUME NEW u, Exact(u), NEW v, NEW b \in Classes, v.msgs[b] \in Seq(Pushes),
         \A c \in Classes : c # b => v.msgs[c] = u.msgs[c],
         v.bytes = u.bytes - BytesOf(u.msgs[b]) + BytesOf(v.msgs[b])
  PROVE  Exact(v)
<1> DEFINE f == [c \in Classes |-> BytesOf(u.msgs[c])]
           g == [c \in Classes |-> BytesOf(v.msgs[c])]
<1>1. \A c \in Classes : v.msgs[c] \in Seq(Pushes) /\ BytesOf(v.msgs[c]) \in Nat
                         /\ BytesOf(u.msgs[c]) \in Nat
  BY BytesNat, Zenon DEF Exact
<1>2. /\ \A c \in Classes : f[c] \in Nat /\ g[c] \in Nat
      /\ \A c \in Classes : c # b => g[c] = f[c]
      /\ f[b] = BytesOf(u.msgs[b]) /\ g[b] = BytesOf(v.msgs[b])
  BY <1>1, Zenon
<1>3. u.bytes = SumFunctionOnSet(f, Classes)
  BY Zenon DEF Exact
<1> HIDE DEF f, g
<1>4. SumFunctionOnSet(g, Classes) = SumFunctionOnSet(f, Classes) - f[b] + g[b]
  BY <1>2, ClassesFinite, SumChange
<1>5. v.bytes = SumFunctionOnSet(g, Classes)
  BY <1>2, <1>3, <1>4, Zenon
<1> QED BY <1>1, <1>5, Zenon DEF Exact, g

-----------------------------------------------------------------------------
(* The store *)

\* Bytes as the sum of any function that gives the counters.
LEMMA BytesSum ==
  ASSUME NEW U, NEW S, IsFiniteSet(S), NEW f, \A q \in S : f[q] = U[q].bytes
  PROVE  Bytes(U, S) = SumFunctionOnSet(f, S)
<1> DEFINE g == [q \in S |-> U[q].bytes]
<1>1. \A q \in S : g[q] = f[q]
  BY Zenon
<1>2. Bytes(U, S) = SumFunctionOnSet(g, S)
  BY Zenon DEF Bytes
<1> HIDE DEF g
<1> QED BY <1>1, <1>2, SumSame, Zenon

\* The queues of S leave with what they hold.
LEMMA AccountsLeave ==
  ASSUME NEW U, NEW t, Accounts(U, t), NEW S \in SUBSET DOMAIN U
  PROVE  /\ Bytes(U, S) \in Nat /\ t \in Nat /\ t - Bytes(U, S) \in Nat
         /\ Accounts(Restrict(U, DOMAIN U \ S), t - Bytes(U, S))
<1> DEFINE D == DOMAIN U
           R == D \ S
           V == Restrict(U, R)
           f == [q \in D |-> U[q].bytes]
<1>1. IsFiniteSet(D) /\ IsFiniteSet(S) /\ IsFiniteSet(R)
  BY FS_Subset, FS_Difference, Zenon DEF Accounts
<1>2. \A q \in D : f[q] = U[q].bytes /\ f[q] \in Nat
  BY ExactNat, Zenon DEF Accounts
<1>3. DOMAIN V = R /\ \A q \in R : V[q] = U[q] /\ f[q] = V[q].bytes
  BY Zenon DEF Restrict
<1>4. t = Bytes(U, D)
  BY Zenon DEF Accounts
<1> HIDE DEF f, V
<1>5. /\ Bytes(U, D) = SumFunctionOnSet(f, D) /\ Bytes(U, S) = SumFunctionOnSet(f, S)
      /\ Bytes(V, R) = SumFunctionOnSet(f, R)
  <2>1. (\A q \in D : f[q] = U[q].bytes) /\ (\A q \in S : f[q] = U[q].bytes)
    BY <1>2, Zenon
  <2>2. \A q \in R : f[q] = V[q].bytes
    BY <1>3, Zenon
  <2> HIDE DEF D, R
  <2> QED BY <2>1, <2>2, <1>1, BytesSum, Zenon
<1>6. SumFunctionOnSet(f, D) = SumFunctionOnSet(f, S) + SumFunctionOnSet(f, R)
  BY <1>1, <1>2, SumSplit
<1>7. SumFunctionOnSet(f, S) \in Nat /\ SumFunctionOnSet(f, R) \in Nat
  <2>1. (\A q \in S : f[q] \in Nat) /\ (\A q \in R : f[q] \in Nat)
    BY <1>2, Zenon
  <2> QED BY <2>1, <1>1, SumNat, Zenon
<1>8. Bytes(U, S) \in Nat /\ t \in Nat /\ t - Bytes(U, S) = Bytes(V, R) /\ Bytes(V, R) \in Nat
  BY <1>4, <1>5, <1>6, <1>7
<1>9. \A q \in R : Exact(V[q])
  BY <1>3, Zenon DEF Accounts
<1> QED BY <1>1, <1>3, <1>8, <1>9, Zenon DEF Accounts, V

\* The accounts are sums of natural numbers.
LEMMA AccountsNat ==
  ASSUME NEW U, NEW t, Accounts(U, t)
  PROVE  t \in Nat
<1>1. {} \in SUBSET DOMAIN U
  BY Zenon
<1> QED BY <1>1, AccountsLeave, Zenon

\* A new queue holds nothing.
LEMMA AccountsArrive ==
  ASSUME NEW U, NEW t, Accounts(U, t), NEW q, q \notin DOMAIN U, NEW u, Exact(u), u.bytes = 0
  PROVE  Accounts(Insert(U, q, u), t)
<1> DEFINE D == DOMAIN U
           E == D \cup {q}
           V == Insert(U, q, u)
           f == [r \in E |-> V[r].bytes]
<1>1. DOMAIN V = E /\ V[q] = u /\ \A r \in D : V[r] = U[r]
  BY Zenon DEF Insert
<1> HIDE DEF V
<1>2. IsFiniteSet(D) /\ IsFiniteSet(E)
  BY FS_AddElement, Zenon DEF Accounts
<1>3. \A r \in E : Exact(V[r])
  BY <1>1, Zenon DEF Accounts
<1>4. /\ \A r \in E : f[r] = V[r].bytes /\ f[r] \in Nat
      /\ \A r \in D : f[r] = U[r].bytes
      /\ f[q] = 0
  BY <1>1, <1>3, ExactNat, Zenon
<1> HIDE DEF f
<1>5. Bytes(V, E) = SumFunctionOnSet(f, E) /\ t = SumFunctionOnSet(f, D)
  BY <1>2, <1>4, BytesSum, Zenon DEF Accounts
<1>6. SumFunctionOnSet(f, E) = f[q] + SumFunctionOnSet(f, D)
  BY <1>2, <1>4, SumAdd, Zenon
<1>7. SumFunctionOnSet(f, D) \in Nat
  <2>1. \A r \in D : f[r] \in Nat
    BY <1>4, Zenon
  <2> QED BY <2>1, <1>2, SumNat, Zenon
<1>8. t = Bytes(V, E)
  BY <1>4, <1>5, <1>6, <1>7
<1> QED BY <1>1, <1>2, <1>3, <1>8, Zenon DEF Accounts, V

\* One queue changes, and the total by as much.
LEMMA AccountsChange ==
  ASSUME NEW U, NEW t, Accounts(U, t), NEW q \in DOMAIN U, NEW v, Exact(v)
  PROVE  Accounts([U EXCEPT ![q] = v], t - U[q].bytes + v.bytes)
<1> DEFINE D == DOMAIN U
           V == [U EXCEPT ![q] = v]
           f == [r \in D |-> U[r].bytes]
           g == [r \in D |-> V[r].bytes]
<1>1. DOMAIN V = D /\ V[q] = v /\ \A r \in D : r # q => V[r] = U[r]
  BY Zenon
<1> HIDE DEF V
<1>2. IsFiniteSet(D) /\ \A r \in D : Exact(V[r]) /\ Exact(U[r])
  BY <1>1, Zenon DEF Accounts
<1>3. /\ \A r \in D : f[r] = U[r].bytes /\ g[r] = V[r].bytes
      /\ \A r \in D : f[r] \in Nat /\ g[r] \in Nat
      /\ \A r \in D : r # q => g[r] = f[r]
      /\ f[q] = U[q].bytes /\ g[q] = v.bytes
  BY <1>1, <1>2, ExactNat, Zenon
<1> HIDE DEF f, g
<1>4. t = SumFunctionOnSet(f, D) /\ Bytes(V, D) = SumFunctionOnSet(g, D)
  BY <1>2, <1>3, BytesSum, Zenon DEF Accounts
<1>5. SumFunctionOnSet(g, D) = SumFunctionOnSet(f, D) - f[q] + g[q]
  BY <1>2, <1>3, SumChange
<1>6. t - U[q].bytes + v.bytes = Bytes(V, D)
  BY <1>3, <1>4, <1>5, Zenon
<1> QED BY <1>1, <1>2, <1>6, Zenon DEF Accounts, V

\* cleanup_expired takes from the total what the expired queues held; the
\* saturating subtraction never saturates.
LEMMA CleanAccounts ==
  ASSUME IInv, AInv
  PROVE  Accounts(CleanQueues, CleanTotal)
<1> DEFINE S == Expired \cap DOMAIN queues
<1>1. DOMAIN queues \ Expired = DOMAIN queues \ S /\ S \in SUBSET DOMAIN queues
  BY Zenon
<1>2. /\ Bytes(queues, S) \in Nat /\ total_bytes \in Nat /\ total_bytes - Bytes(queues, S) \in Nat
      /\ Accounts(Restrict(queues, DOMAIN queues \ S), total_bytes - Bytes(queues, S))
  BY <1>1, AccountsLeave, Zenon DEF AInv
<1>3. CleanTotal = IF Bytes(queues, S) > total_bytes THEN 0 ELSE total_bytes - Bytes(queues, S)
  BY Zenon DEF CleanTotal, Held, Bytes
<1>4. ~(Bytes(queues, S) > total_bytes)
  BY <1>2
<1> QED BY <1>1, <1>2, <1>3, <1>4, Zenon DEF CleanQueues

-----------------------------------------------------------------------------
(* The steps *)

\* A new queue is empty and charges nothing.
LEMMA CreateAccounts ==
  ASSUME IInv, AInv, NEW g, NEW expiry, NEW caps, CreateLease(g, expiry, caps)
  PROVE  AInv'
<1> DEFINE q == CleanGrants[g].queue
           u == [bytes |-> 0, msgs |-> [c \in Classes |-> <<>>], gen |-> generation + 1]
           f == [c \in Classes |-> BytesOf(u.msgs[c])]
<1>1. /\ queues' = Insert(CleanQueues, q, u) /\ total_bytes' = CleanTotal
      /\ q \notin DOMAIN CleanQueues
  BY Zenon DEF CreateLease
<1>2. BytesOf(<<>>) = 0 /\ <<>> \in Seq(Pushes)
  <2>1. <<>> \in Seq(Pushes) /\ Len(<<>>) = 0 /\ 1..0 = {}
    OBVIOUS
  <2> QED BY <2>1, LensAreNat, SumEmpty, Zenon
<1>3. u.bytes = 0 /\ \A c \in Classes : u.msgs[c] = <<>>
  BY Zenon
<1> HIDE DEF u
<1>4. \A c \in Classes : f[c] = 0
  BY <1>2, <1>3, Zenon
<1>5. SumFunctionOnSet(f, Classes) = 0
  <2> HIDE DEF f
  <2> QED BY <1>4, ClassesFinite, SumZero, Zenon
<1>6. Exact(u)
  BY <1>2, <1>3, <1>5, Zenon DEF Exact
<1> QED BY <1>1, <1>3, <1>6, CleanAccounts, AccountsArrive, Zenon DEF AInv

\* A revoked queue takes its own share from the accounts.
LEMMA RevokeAccounts ==
  ASSUME IInv, AInv, NEW q, NEW caps, NEW expiry, Revoke(q, caps, expiry)
  PROVE  AInv'
<1> DEFINE S == {q}
           f == [r \in {} \cup {q} |-> CleanQueues[r].bytes]
<1>1. DOMAIN CleanLeases = DOMAIN CleanQueues
  BY Cleaned, Zenon DEF StoreOK
<1>2. /\ q \in DOMAIN CleanQueues /\ queues' = Restrict(CleanQueues, DOMAIN CleanQueues \ {q})
      /\ total_bytes' = CleanTotal - CleanQueues[q].bytes
  BY <1>1, Zenon DEF Revoke
<1>3. Accounts(CleanQueues, CleanTotal)
  BY CleanAccounts, Zenon
<1>4. Bytes(CleanQueues, {q}) = CleanQueues[q].bytes
  <2>1. CleanQueues[q].bytes \in Nat /\ f[q] = CleanQueues[q].bytes
    BY <1>2, <1>3, ExactNat, Zenon DEF Accounts
  <2>2. \A r \in {} \cup {q} : f[r] \in Nat
    BY <2>1, Zenon
  <2> HIDE DEF f
  <2>3. SumFunctionOnSet(f, {} \cup {q}) = f[q] + SumFunctionOnSet(f, {})
    BY <2>2, FS_EmptySet, SumAdd, Zenon
  <2>4. SumFunctionOnSet(f, {} \cup {q}) = CleanQueues[q].bytes
    BY <2>1, <2>3, SumEmpty
  <2>5. {q} = {} \cup {q}
    BY Zenon
  <2> QED BY <2>4, <2>5, Zenon DEF Bytes, f
<1>5. {q} \in SUBSET DOMAIN CleanQueues
  BY <1>2, Zenon
<1> QED BY <1>2, <1>3, <1>4, <1>5, AccountsLeave, Zenon DEF AInv

\* A deposit charges its class and the relay with its length.
LEMMA PushAccounts ==
  ASSUME IInv, AInv, NEW p \in Pushes, Push(p)
  PROVE  AInv'
<1> DEFINE q == p.queue
           b == p.class
           u == CleanQueues[q]
           v == [u EXCEPT !.bytes = @ + p.len, !.msgs[b] = Append(@, p)]
<1>1. q \in DOMAIN CleanQueues
  BY AcceptedIsCurrent, Cleaned, Zenon DEF Current, StoreOK
<1>2. b \in Classes /\ p.len \in Nat
  BY RelayAssumption, Zenon
<1>3. Accounts(CleanQueues, CleanTotal)
  BY CleanAccounts, Zenon
<1>4. CASE p.len = 0
  BY <1>3, <1>4, Zenon DEF Push, AInv
<1>5. CASE p.len # 0
  <2>1. queues' = [CleanQueues EXCEPT ![q] = v] /\ total_bytes' = CleanTotal + p.len
    BY <1>5, Zenon DEF Push
  <2>2. Exact(u) /\ DOMAIN u = QueueFields /\ DOMAIN u.msgs = Classes
    BY <1>1, <1>3, Cleaned, Zenon DEF Accounts, StoreOK, QueueOK
  <2>3. v.bytes = u.bytes + p.len /\ v.msgs = [u.msgs EXCEPT ![b] = Append(u.msgs[b], p)]
    BY <2>2, Zenon DEF QueueFields
  <2> HIDE DEF v, u
  <2>4. v.msgs[b] = Append(u.msgs[b], p) /\ \A c \in Classes : c # b => v.msgs[c] = u.msgs[c]
    BY <2>2, <2>3, <1>2, Zenon
  <2>5. u.msgs[b] \in Seq(Pushes) /\ u.bytes \in Nat /\ BytesOf(u.msgs[b]) \in Nat
    BY <2>2, <1>2, ExactNat, Zenon DEF Exact
  <2>6. v.msgs[b] \in Seq(Pushes) /\ BytesOf(v.msgs[b]) = BytesOf(u.msgs[b]) + p.len
    BY <2>4, <2>5, BytesAppend, Zenon
  <2>7. v.bytes = u.bytes - BytesOf(u.msgs[b]) + BytesOf(v.msgs[b])
    BY <2>3, <2>5, <2>6, <1>2
  <2>8. Exact(v)
    BY <2>2, <2>4, <2>6, <2>7, <1>2, ExactChange, Zenon
  <2>9. Accounts([CleanQueues EXCEPT ![q] = v], CleanTotal - u.bytes + v.bytes)
    BY <2>8, <1>1, <1>3, AccountsChange, Zenon DEF u
  <2>10. CleanTotal \in Nat
    BY <1>3, AccountsNat, Zenon
  <2>11. CleanTotal - u.bytes + v.bytes = CleanTotal + p.len
    BY <2>3, <2>5, <2>10, <1>2
  <2> QED BY <2>1, <2>9, <2>11, Zenon DEF AInv
<1> QED BY <1>4, <1>5, Zenon

\* An acknowledgement gives back the length of what it removed.
LEMMA AckAccounts ==
  ASSUME IInv, AInv, NEW s \in Subs, Acknowledge(s)
  PROVE  AInv'
<1>1. Accounts(CleanQueues, CleanTotal)
  BY CleanAccounts, Zenon
<1>2. CleanTotal \in Nat
  BY <1>1, AccountsNat, Zenon
<1>3. CASE AckValid(s) /\ HeadMatches(s)
  <2> DEFINE q == s.queue
             b == s.class
             u == CleanQueues[q]
             m == u.msgs[b]
             v == [u EXCEPT !.bytes = @ - FirstOf(s)[1].len, !.msgs[b] = Tail(@)]
  <2>1. queues' = [CleanQueues EXCEPT ![q] = v] /\ total_bytes' = CleanTotal - FirstOf(s)[1].len
    BY <1>3, Zenon DEF Acknowledge, Dequeued, Freed
  <2>2. q \in DOMAIN CleanQueues /\ b \in Classes /\ m # <<>> /\ FirstOf(s) = <<Head(m)>>
    BY <1>3, PeekIsHead, Zenon DEF HeadMatches
  <2>3. Exact(u) /\ DOMAIN u = QueueFields /\ DOMAIN u.msgs = Classes
    BY <1>1, <2>2, Cleaned, Zenon DEF Accounts, StoreOK, QueueOK
  <2>4. v.bytes = u.bytes - FirstOf(s)[1].len /\ v.msgs = [u.msgs EXCEPT ![b] = Tail(m)]
    BY <2>3, Zenon DEF QueueFields
  <2>5. m \in Seq(Pushes) /\ u.bytes \in Nat /\ BytesOf(m) \in Nat
    BY <2>2, <2>3, ExactNat, Zenon DEF Exact
  <2> HIDE DEF v, m
  <2>6. v.msgs[b] = Tail(m) /\ \A c \in Classes : c # b => v.msgs[c] = u.msgs[c]
    BY <2>2, <2>3, <2>4, Zenon
  <2>7. Tail(m) \in Seq(Pushes) /\ BytesOf(m) = Head(m).len + BytesOf(Tail(m))
    BY <2>2, <2>5, BytesTail, Zenon
  <2>8. FirstOf(s)[1] = Head(m) /\ Head(m) \in Pushes
    BY <2>2, <2>5
  <2>9. BytesOf(Tail(m)) \in Nat /\ Head(m).len \in Nat
    BY <2>7, <2>8, BytesNat, RelayAssumption, Zenon
  <2>10. v.bytes = u.bytes - BytesOf(m) + BytesOf(Tail(m))
    BY <2>4, <2>5, <2>7, <2>8, <2>9
  <2>11. Exact(v)
    <3> HIDE DEF u
    <3>1. v.msgs[b] \in Seq(Pushes) /\ v.bytes = u.bytes - BytesOf(u.msgs[b]) + BytesOf(v.msgs[b])
      BY <2>6, <2>7, <2>10, Zenon DEF m
    <3> QED BY <3>1, <2>2, <2>3, <2>6, ExactChange, Zenon
  <2> HIDE DEF u
  <2>12. Accounts([CleanQueues EXCEPT ![q] = v], CleanTotal - u.bytes + v.bytes)
    BY <2>2, <2>11, <1>1, AccountsChange, Zenon DEF u
  <2>13. CleanTotal - u.bytes + v.bytes = CleanTotal - FirstOf(s)[1].len
    BY <2>4, <2>5, <2>8, <2>9, <1>2
  <2> QED BY <2>1, <2>12, <2>13, Zenon DEF AInv
<1>4. CASE ~(AckValid(s) /\ HeadMatches(s))
  <2>1. queues' = CleanQueues /\ total_bytes' = CleanTotal - 0
    BY <1>4, Zenon DEF Acknowledge, Dequeued, Freed
  <2>2. CleanTotal - 0 = CleanTotal
    BY <1>2
  <2> QED BY <2>1, <2>2, <1>1, Zenon DEF AInv
<1> QED BY <1>3, <1>4, Zenon

\* Steps that leave the store, or the store as the cleanup leaves it.
LEMMA CleanedAccounts ==
  ASSUME IInv, AInv,
         \/ queues' = CleanQueues /\ total_bytes' = CleanTotal
         \/ UNCHANGED <<queues, total_bytes>>
  PROVE  AInv'
  BY CleanAccounts, Zenon DEF AInv

\* A store without queues charges nothing.
LEMMA NoAccounts ==
  ASSUME NEW U, DOMAIN U = {}
  PROVE  Accounts(U, 0)
<1>1. Bytes(U, {}) = 0
  BY SumEmpty, Zenon DEF Bytes
<1> QED BY <1>1, FS_EmptySet, Zenon DEF Accounts

\* Every step keeps the accounts exact.
LEMMA StepAccounts ==
  ASSUME IInv, AInv, [Next]_vars
  PROVE  AInv'
<1>1. CASE UNCHANGED vars
  BY <1>1, CleanedAccounts, Zenon DEF vars
<1>2. ASSUME NEW q \in Queues, Owner(q) PROVE AInv'
  <2>1. ASSUME NEW bound \in Bounds, IssueGrant(q, FirstEpoch, bound) PROVE AInv'
    BY <2>1, CleanedAccounts, Zenon DEF IssueGrant
  <2>2. ASSUME NEW a, NEW caps, NEW n, NEW e, DynamicGrant(a, caps, q, FirstEpoch, n, e)
        PROVE  AInv'
    BY <2>2, CleanedAccounts, Zenon DEF DynamicGrant
  <2>3. ASSUME NEW caps, NEW n, NEW e, Renew(q, caps, n, e) PROVE AInv'
    BY <2>3, CleanedAccounts, Zenon DEF Renew
  <2>4. ASSUME NEW caps, NEW new, NEW e, Rotate(q, caps, new, e) PROVE AInv'
    BY <2>4, CleanedAccounts, Zenon DEF Rotate
  <2> QED BY <1>2, <2>1, <2>2, <2>3, <2>4, RevokeAccounts, Zenon DEF Owner
<1>3. ASSUME Create PROVE AInv'
  BY <1>3, CreateAccounts, Zenon DEF Create
<1>4. ASSUME NEW s \in Subs, Pump(s) PROVE AInv'
  <2>1. ASSUME NEW x, StreamStep(s, x) PROVE AInv'
    BY <2>1, CleanedAccounts, Zenon DEF StreamStep
  <2>2. CASE Gc1Check(s) \/ Gc1Peek(s) \/ Gc2Peek(s) \/ Gc2Recheck(s)
    BY <2>1, <2>2, Zenon DEF Gc1Check, Gc1Peek, Gc2Peek, Gc2Recheck
  <2>3. CASE Write(s) \/ Gc2Wait(s)
    BY <2>3, CleanedAccounts, Zenon DEF Write, Gc2Wait, store
  <2> QED BY <1>4, <2>2, <2>3, AckAccounts, Zenon DEF Pump
<1>5. ASSUME NEW s \in Subs, Subscribe(s) \/ Drop(s) PROVE AInv'
  BY <1>5, CleanedAccounts, Zenon DEF Subscribe, Drop, store
<1>6. ASSUME Cleanup \/ Tick PROVE AInv'
  BY <1>6, CleanedAccounts, Zenon DEF Cleanup, Tick, store
<1>7. ASSUME Reboot PROVE AInv'
  <2>1. DOMAIN queues' = {} /\ total_bytes' = 0
    BY <1>7, Zenon DEF Reboot
  <2> QED BY <2>1, NoAccounts, Zenon DEF AInv
<1> QED BY <1>1, <1>2, <1>3, <1>4, <1>5, <1>6, <1>7, PushAccounts, Zenon DEF Next

\* The byte counters of every queue and of the store are exactly the messages
\* held: a deposit, an acknowledgment, a revocation and an expiry each change the
\* queue and the total by the same bytes, and no subtraction saturates.
THEOREM AccountsExact == Spec => []Accounting
<1>1. Init => AInv
  <2> SUFFICES ASSUME Init PROVE AInv
    BY Zenon
  <2>1. DOMAIN queues = {} /\ total_bytes = 0
    BY Zenon DEF Init
  <2> QED BY <2>1, NoAccounts, Zenon DEF AInv
<1>2. IInv /\ AInv /\ [Next]_vars => AInv'
  BY StepAccounts, Zenon
<1>3. IInv /\ AInv => Accounting
  <2> SUFFICES ASSUME IInv, AInv PROVE Accounting
    BY Zenon
  <2>1. DOMAIN leases = DOMAIN queues
    BY Zenon DEF IInv, StoreOK
  <2>2. ASSUME NEW q \in DOMAIN queues
        PROVE  queues[q].bytes = SumFunction([c \in Classes |-> BytesOf(queues[q].msgs[c])])
    <3> DEFINE f == [c \in Classes |-> BytesOf(queues[q].msgs[c])]
    <3>1. DOMAIN f = Classes
      BY Zenon
    <3>2. queues[q].bytes = SumFunctionOnSet(f, Classes)
      BY Zenon DEF AInv, Accounts, Exact
    <3> QED BY <3>1, <3>2, Zenon DEF SumFunction
  <2>3. total_bytes = Held(DOMAIN queues)
    BY Zenon DEF AInv, Accounts, Bytes, Held
  <2> QED BY <2>1, <2>2, <2>3, Zenon DEF Accounting
<1> QED BY <1>1, <1>2, <1>3, StoreInvariant, PTL DEF Spec
=============================================================================
