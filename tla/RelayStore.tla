------------------------------ MODULE RelayStore ------------------------------
(***************************************************************************)
(* The relay's RAM store of admission grants, leases, replay records and     *)
(* message queues (crates/node/src/queues.rs, queues/gc2.rs), and the        *)
(* subscriber streams that drain it (node/relay_service.rs, gc2/service.rs). *)
(*                                                                           *)
(* Every store method runs under one mutex, so it is one action, and begins  *)
(* with cleanup_expired.  A stream holds the mutex for each of its steps     *)
(* only, so the queue may change between its peek, its write and its         *)
(* acknowledgment.  Message authentication codes are symbolic: a request     *)
(* carries the number of the capability set it was made under.               *)
(***************************************************************************)
EXTENDS Integers, Sequences, FiniteSets, Functions, FiniteSetsExt

CONSTANTS
  Queues,         \* queue identifiers
  CapSets,        \* capability sets an owner may install (naturals)
  GrantIds,       \* grant identifiers
  Pushes,         \* deposits: [queue, epoch, caps, nonce, expiry, len, class]; len 0 is cover
  Subs,           \* subscriptions: [queue, epoch, caps, nonce, expiry, class]
  Nonces,         \* nonces of dynamic grant and renewal requests
  LeaseTimes,     \* expiries asked for a lease
  Bounds,         \* deadlines of temporary grants; 0 for an ordinary grant
  MAX_GRANTS, MAX_QUEUES, MAX_REPLAY, MAX_SUBS, MAX_TOTAL,
  MAX_CELLS, MAX_BYTES, GRANT_LIFETIME, MAX_LEASE, RATE, MINUTE, SKEW,
  FirstEpoch, MaxEpoch,   \* bounds: epochs of a lease
  MaxGen,                 \* bound: queues created
  MaxTime                 \* bound: last tick of the clock

Classes == {"Gc1", "Bulk", "Interactive"}

ASSUME RelayAssumption ==
  /\ \A n \in {MAX_GRANTS, MAX_QUEUES, MAX_REPLAY, MAX_SUBS, MAX_TOTAL, MAX_CELLS,
               MAX_BYTES, GRANT_LIFETIME, MAX_LEASE, RATE} : n \in Nat \ {0}
  /\ MINUTE \in Nat /\ SKEW \in Nat /\ CapSets \subseteq Nat
  /\ FirstEpoch \in Nat /\ MaxEpoch \in Nat /\ LeaseTimes \subseteq Nat \ {0}
  /\ \A p \in Pushes : p.len \in Nat
  /\ \A p \in Pushes \cup Subs :
       p.epoch \in Nat /\ p.expiry \in Nat \ {0} /\ p.class \in Classes

\* The sender draws a random nonce for each deposit it prepares: no two deposits
\* to one class of a queue share theirs.
ASSUME NonceAssumption ==
  \A p, r \in Pushes : p.queue = r.queue /\ p.class = r.class /\ p.nonce = r.nonce => p = r

VARIABLES
  grants,       \* GrantId -> [queue, epoch, expiry, consumed, bound]
  leases,       \* Queue -> LeaseRecord
  queues,       \* Queue -> [bytes, msgs : class -> Seq(Pushes), gen]
  total_bytes,  \* QueueStore::total_bytes
  streams,      \* Subs -> stream state
  generation,   \* queues created so far; names each queue incarnation
  now,
  deposited,    \* history: deposits enqueued, with the incarnation of their queue
  written       \* history: deposits written to a subscriber

vars == <<grants, leases, queues, total_bytes, streams, generation, now, deposited, written>>
store == <<grants, leases, queues, total_bytes>>
history == <<deposited, written>>

None == 0     \* Option::None for expiries; every real expiry is positive
Idle == [pc |-> "idle"]

Init ==
  /\ grants = [g \in {} |-> 0]
  /\ leases = [q \in {} |-> 0]
  /\ queues = [q \in {} |-> 0]
  /\ total_bytes = 0
  /\ streams = [s \in Subs |-> Idle]
  /\ generation = 0
  /\ now = 1
  /\ deposited = {}
  /\ written = {}

-----------------------------------------------------------------------------
(* cleanup_expired *)

Earliest(replay) == IF replay = {} THEN None ELSE Min({r.expiry : r \in replay})

\* Mutant: a record is dropped one tick before it expires.
Bug_PurgeEarly(lease) ==
  LET live == {r \in lease.replay : r.expiry > now + 1}
  IN  [lease EXCEPT !.replay = live, !.next_replay_expiry = Earliest(live)]

\* purge_replay skips the walk while the cached earliest expiry is ahead.
PurgeReplay(lease) ==
  IF lease.next_replay_expiry = None \/ lease.next_replay_expiry > now
    THEN lease
    ELSE LET live == {r \in lease.replay : r.expiry > now}
         IN  [lease EXCEPT !.replay = live, !.next_replay_expiry = Earliest(live)]

Expired == {q \in DOMAIN leases : leases[q].expiry <= now}
CleanGrants == Restrict(grants, {g \in DOMAIN grants : grants[g].expiry > now})
CleanLeases == [q \in DOMAIN leases \ Expired |-> PurgeReplay(leases[q])]
CleanQueues == Restrict(queues, DOMAIN queues \ Expired)

\* The bytes that the queues of S hold.
Held(S) == SumFunctionOnSet([q \in S |-> queues[q].bytes], S)

\* Mutant: an expired queue keeps its share of the total.
Bug_CleanTotalKeeps == total_bytes

\* remove_queue subtracts, saturating, what each removed queue held.
CleanTotal ==
  LET held == Held(Expired \cap DOMAIN queues)
  IN  IF held > total_bytes THEN 0 ELSE total_bytes - held

\* Every method that reads or refuses leaves the store cleaned and no more.
Cleanup ==
  /\ grants' = CleanGrants /\ leases' = CleanLeases
  /\ queues' = CleanQueues /\ total_bytes' = CleanTotal
  /\ UNCHANGED <<streams, generation, now, history>>

ValidExpiry(expiry, horizon) == expiry + SKEW > now /\ expiry <= now + horizon

-----------------------------------------------------------------------------
(* Replay records *)

Recorded(lease, op, nonce) ==
  {r \in lease.replay : r.epoch = lease.epoch /\ r.op = op /\ r.nonce = nonce}
ReplayCount(lease, op) == Cardinality({r \in lease.replay : r.op = op})

\* Mutant: the cached earliest expiry follows the newest record.
Bug_RecordReplayLatest(lease, op, nonce, expiry, binding) ==
  [lease EXCEPT
     !.replay = @ \cup {[epoch |-> lease.epoch, op |-> op, nonce |-> nonce,
                         expiry |-> expiry, binding |-> binding]},
     !.next_replay_expiry = expiry]

RecordReplay(lease, op, nonce, expiry, binding) ==
  [lease EXCEPT
     !.replay = @ \cup {[epoch |-> lease.epoch, op |-> op, nonce |-> nonce,
                         expiry |-> expiry, binding |-> binding]},
     !.next_replay_expiry = IF @ = None \/ expiry < @ THEN expiry ELSE @]

-----------------------------------------------------------------------------
(* Grants and leases *)

\* The map f with v at the key k (HashMap::insert).
Insert(f, k, v) == [x \in DOMAIN f \cup {k} |-> IF x = k THEN v ELSE f[x]]

HasGrantRoom == Cardinality(DOMAIN CleanGrants) < MAX_GRANTS /\ GrantIds # DOMAIN CleanGrants

\* issue_grant_with_bound; the identifier is random and unused.
AddGrant(q, epoch, bound) ==
  LET id == CHOOSE g \in GrantIds : g \notin DOMAIN CleanGrants
      grant == [queue |-> q, epoch |-> epoch, expiry |-> now + GRANT_LIFETIME,
                consumed |-> FALSE, bound |-> bound]
  IN  Insert(CleanGrants, id, grant)

IssueGrant(q, epoch, bound) ==
  /\ bound # None => bound > now /\ bound <= now + MAX_LEASE
  /\ HasGrantRoom
  /\ grants' = AddGrant(q, epoch, bound)
  /\ leases' = CleanLeases /\ queues' = CleanQueues /\ total_bytes' = CleanTotal
  /\ UNCHANGED <<streams, generation, now, history>>

WithinBound(bound, expiry) == bound # None => expiry <= bound

\* create_lease; the replay of an accepted create only reads (Cleanup).
CreateLease(g, expiry, caps) ==
  /\ g \in DOMAIN CleanGrants
  /\ generation < MaxGen
  /\ ValidExpiry(expiry, MAX_LEASE)
  /\ ~CleanGrants[g].consumed
  /\ WithinBound(CleanGrants[g].bound, expiry)
  /\ CleanGrants[g].queue \notin DOMAIN CleanLeases
  /\ CleanGrants[g].queue \notin DOMAIN CleanQueues
  /\ Cardinality(DOMAIN CleanQueues) < MAX_QUEUES
  /\ LET grant == CleanGrants[g]
         record == [epoch |-> grant.epoch, op |-> "Create", nonce |-> g,
                    expiry |-> expiry, binding |-> {}]
         lease == [epoch |-> grant.epoch, expiry |-> expiry, caps |-> caps,
                   replay |-> {record}, next_replay_expiry |-> expiry,
                   dynamic_grants |-> <<>>, bound |-> grant.bound]
         queue == [bytes |-> 0, msgs |-> [c \in Classes |-> <<>>], gen |-> generation + 1]
     IN  /\ leases' = Insert(CleanLeases, grant.queue, lease)
         /\ queues' = Insert(CleanQueues, grant.queue, queue)
         /\ grants' = [CleanGrants EXCEPT ![g].consumed = TRUE]
  /\ generation' = generation + 1
  /\ total_bytes' = CleanTotal
  /\ UNCHANGED <<streams, now, history>>

\* issue_dynamic_grant: the nonce and a place in the rate window are spent
\* before issue_grant, which may still find the grant table full.
DynamicGrant(authority, caps, q, epoch, nonce, expiry) ==
  /\ authority \in DOMAIN CleanLeases
  /\ LET lease == CleanLeases[authority]
         recent == SelectSeq(lease.dynamic_grants, LAMBDA t : t + MINUTE > now)
         kept == [lease EXCEPT !.dynamic_grants = recent]
         spent == RecordReplay([kept EXCEPT !.dynamic_grants = Append(recent, now)],
                               "Grant", nonce, expiry, {})
         refused == Len(recent) >= RATE \/ ReplayCount(lease, "Grant") >= MAX_REPLAY
     IN  /\ lease.bound = None
         /\ caps = lease.caps
         /\ q # authority
         /\ ValidExpiry(expiry, GRANT_LIFETIME)
         /\ Recorded(lease, "Grant", nonce) = {}
         /\ leases' = [CleanLeases EXCEPT ![authority] = IF refused THEN kept ELSE spent]
         /\ grants' = IF ~refused /\ HasGrantRoom THEN AddGrant(q, epoch, None) ELSE CleanGrants
  /\ queues' = CleanQueues /\ total_bytes' = CleanTotal
  /\ UNCHANGED <<streams, generation, now, history>>

\* renew: the expiry must move forward.
Renew(q, caps, nonce, expiry) ==
  /\ q \in DOMAIN CleanLeases
  /\ LET lease == CleanLeases[q]
     IN  /\ caps = lease.caps
         /\ ValidExpiry(expiry, MAX_LEASE)
         /\ expiry > lease.expiry
         /\ WithinBound(lease.bound, expiry)
         /\ Recorded(lease, "Renew", nonce) = {}
         /\ ReplayCount(lease, "Renew") < MAX_REPLAY
         /\ leases' = [CleanLeases EXCEPT
              ![q] = [RecordReplay(lease, "Renew", nonce, expiry, {}) EXCEPT !.expiry = expiry]]
  /\ grants' = CleanGrants /\ queues' = CleanQueues /\ total_bytes' = CleanTotal
  /\ UNCHANGED <<streams, generation, now, history>>

\* The change notification of the classes of a queue: a receiver that has not
\* yet looked at its queue since is ready.
Wake(gen, classes) ==
  [s \in Subs |-> IF streams[s].pc # "idle" /\ streams[s].gen = gen /\ s.class \in classes
                  THEN [streams[s] EXCEPT !.changed = TRUE]
                  ELSE streams[s]]

\* rotate: messages stay, replay records go, the expiry may also come forward.
Rotate(q, caps, new_caps, expiry) ==
  /\ q \in DOMAIN CleanLeases
  /\ LET lease == CleanLeases[q]
     IN  /\ lease.epoch < MaxEpoch
         /\ caps = lease.caps /\ new_caps # caps
         /\ ValidExpiry(expiry, MAX_LEASE)
         /\ WithinBound(lease.bound, expiry)
         /\ leases' = [CleanLeases EXCEPT
              ![q] = [lease EXCEPT !.caps = new_caps, !.epoch = @ + 1, !.expiry = expiry,
                                   !.replay = {}, !.next_replay_expiry = None]]
         /\ streams' = Wake(CleanQueues[q].gen, {"Bulk", "Interactive"})
  /\ grants' = CleanGrants /\ queues' = CleanQueues /\ total_bytes' = CleanTotal
  /\ UNCHANGED <<generation, now, history>>

Revoke(q, caps, expiry) ==
  /\ q \in DOMAIN CleanLeases
  /\ caps = CleanLeases[q].caps
  /\ ValidExpiry(expiry, MAX_LEASE)
  /\ leases' = Restrict(CleanLeases, DOMAIN CleanLeases \ {q})
  /\ queues' = Restrict(CleanQueues, DOMAIN CleanQueues \ {q})
  /\ total_bytes' = CleanTotal - CleanQueues[q].bytes
  /\ grants' = CleanGrants
  /\ UNCHANGED <<streams, generation, now, history>>

-----------------------------------------------------------------------------
(* Deposits *)

QueueLen(queue) == MapThenSumSet(LAMBDA c : Len(queue.msgs[c]), Classes)

\* GC/2 records the exact request bytes beside the nonce.
Binding(p) == IF p.class = "Gc1" THEN {} ELSE {p}

Fits(p, queue) ==
  /\ CleanTotal + p.len <= MAX_TOTAL
  /\ QueueLen(queue) < MAX_CELLS
  /\ queue.bytes + p.len <= MAX_BYTES

\* authenticate_push and authenticate_push_gc2: what the relay answers.
PushOutcome(p) ==
  IF ~(/\ p.queue \in DOMAIN CleanLeases
       /\ p.caps = CleanLeases[p.queue].caps /\ p.epoch = CleanLeases[p.queue].epoch
       /\ p.expiry > now /\ p.expiry <= CleanLeases[p.queue].expiry)
    THEN "Unauthorized"
  ELSE LET lease == CleanLeases[p.queue]
           seen == Recorded(lease, "Push", p.nonce)
       IN  IF seen # {}
             THEN IF \E r \in seen : r.binding = Binding(p) THEN "Duplicate" ELSE "Replay"
           ELSE IF p.len > 0 /\ ~Fits(p, CleanQueues[p.queue]) THEN "Full"
           ELSE IF ReplayCount(lease, "Push") >= MAX_REPLAY THEN "Full"
           ELSE IF p.len = 0 THEN "Cover" ELSE "Enqueued"

\* Mutant: a deposit does not notify the subscribers of its class.
Bug_NotifiedNone(p, gen) == streams

Notified(p, gen) == IF p.class = "Gc1" THEN streams ELSE Wake(gen, {p.class})

\* The accepting half; a refused or repeated push is Cleanup.
Push(p) ==
  /\ PushOutcome(p) \in {"Cover", "Enqueued"}
  /\ LET q == p.queue
         queue == CleanQueues[q]
     IN  /\ leases' = [CleanLeases EXCEPT
              ![q] = RecordReplay(@, "Push", p.nonce, p.expiry, Binding(p))]
         /\ IF p.len = 0
              THEN UNCHANGED <<streams, deposited>> /\ queues' = CleanQueues /\ total_bytes' = CleanTotal
              ELSE /\ queues' = [CleanQueues EXCEPT ![q] =
                        [queue EXCEPT !.bytes = @ + p.len, !.msgs[p.class] = Append(@, p)]]
                   /\ total_bytes' = CleanTotal + p.len
                   /\ deposited' = deposited \cup {[gen |-> queue.gen, push |-> p]}
                   /\ streams' = Notified(p, queue.gen)
  /\ grants' = CleanGrants
  /\ UNCHANGED <<generation, now, written>>

-----------------------------------------------------------------------------
(* Subscriber streams.  s.class "Gc1" polls the queue each slot; the other     *)
(* classes hold an AuthenticatedSubscription and wait for its notification.    *)

Subscribe(s) ==
  /\ streams[s].pc = "idle"
  /\ s.queue \in DOMAIN CleanLeases
  /\ LET lease == CleanLeases[s.queue]
     IN  /\ s.caps = lease.caps /\ s.epoch = lease.epoch
         /\ s.expiry > now /\ s.expiry <= lease.expiry
         /\ Recorded(lease, "Subscribe", s.nonce) = {}
         /\ ReplayCount(lease, "Subscribe") < MAX_SUBS
         /\ leases' = [CleanLeases EXCEPT
              ![s.queue] = RecordReplay(@, "Subscribe", s.nonce, s.expiry, {})]
  /\ streams' = [streams EXCEPT ![s] =
       [pc |-> IF s.class = "Gc1" THEN "check" ELSE "peek",
        gen |-> CleanQueues[s.queue].gen, changed |-> FALSE, head |-> <<>>]]
  /\ grants' = CleanGrants /\ queues' = CleanQueues /\ total_bytes' = CleanTotal
  /\ UNCHANGED <<generation, now, history>>

\* subscription_valid: epoch and expiry, but not the incarnation of the queue.
SubscriptionValid(s) ==
  /\ s.queue \in DOMAIN CleanLeases
  /\ CleanLeases[s.queue].epoch = s.epoch
  /\ s.expiry > now /\ s.expiry <= CleanLeases[s.queue].expiry

\* validate_gc2_subscription
HandleValid(s) == SubscriptionValid(s) /\ CleanQueues[s.queue].gen = streams[s].gen

\* The front of the stream's queue, as a sequence of at most one message.
FirstOf(s) ==
  LET held == IF s.queue \in DOMAIN CleanQueues THEN CleanQueues[s.queue].msgs[s.class] ELSE <<>>
  IN  IF held = <<>> THEN <<>> ELSE <<Head(held)>>

\* The store is only cleaned; stream s moves on.
StreamStep(s, next) ==
  /\ streams' = [streams EXCEPT ![s] = next]
  /\ grants' = CleanGrants /\ leases' = CleanLeases
  /\ queues' = CleanQueues /\ total_bytes' = CleanTotal
  /\ UNCHANGED <<generation, now, history>>

At(s, pc) == [streams[s] EXCEPT !.pc = pc]

Gc1Check(s) ==
  /\ streams[s].pc = "check"
  /\ StreamStep(s, IF SubscriptionValid(s) THEN At(s, "peek") ELSE Idle)

\* An empty queue sends cover, or nothing, and waits for the next slot.
Gc1Peek(s) ==
  /\ streams[s].pc = "peek" /\ s.class = "Gc1"
  /\ StreamStep(s, IF FirstOf(s) = <<>> THEN At(s, "check")
                   ELSE [At(s, "send") EXCEPT !.head = FirstOf(s)])

Gc2Peek(s) ==
  /\ streams[s].pc = "peek" /\ s.class # "Gc1"
  /\ StreamStep(s, IF ~HandleValid(s) THEN Idle
                   ELSE IF FirstOf(s) = <<>> THEN At(s, "wait")
                   ELSE [At(s, "send") EXCEPT !.head = FirstOf(s)])

\* The transport takes the cell; no lock is held.
Write(s) ==
  /\ streams[s].pc = "send"
  /\ written' = written \cup {streams[s].head[1]}
  /\ streams' = [streams EXCEPT ![s] = At(s, "ack")]
  /\ UNCHANGED <<store, generation, now, deposited>>

QueueGone(s) == \A q \in DOMAIN queues : queues[q].gen # streams[s].gen

\* handle.changed() while idle: a change, or the queue was removed.
Gc2Wait(s) ==
  /\ streams[s].pc = "wait"
  /\ streams[s].changed \/ QueueGone(s)
  /\ streams' = [streams EXCEPT ![s] =
       IF streams[s].changed THEN [At(s, "peek") EXCEPT !.changed = FALSE] ELSE Idle]
  /\ UNCHANGED <<store, generation, now, history>>

\* A change while the write is blocked revalidates the handle.
Gc2Recheck(s) ==
  /\ streams[s].pc = "send" /\ s.class # "Gc1"
  /\ streams[s].changed \/ QueueGone(s)
  /\ StreamStep(s, IF streams[s].changed /\ HandleValid(s)
                   THEN [streams[s] EXCEPT !.changed = FALSE] ELSE Idle)

\* Mutant: the head is dequeued whatever its nonce.
Bug_HeadMatches(s) == FirstOf(s) # <<>>

HeadMatches(s) == FirstOf(s) # <<>> /\ FirstOf(s)[1].nonce = streams[s].head[1].nonce

\* acknowledge and acknowledge_gc2 remove the matching head only.
Dequeued(s) ==
  IF ~HeadMatches(s) THEN CleanQueues
  ELSE [CleanQueues EXCEPT ![s.queue] =
          [CleanQueues[s.queue] EXCEPT !.bytes = @ - FirstOf(s)[1].len, !.msgs[s.class] = Tail(@)]]

Freed(s) == IF HeadMatches(s) THEN FirstOf(s)[1].len ELSE 0

AckValid(s) == s.class = "Gc1" \/ HandleValid(s)

Acknowledge(s) ==
  /\ streams[s].pc = "ack"
  /\ queues' = IF AckValid(s) THEN Dequeued(s) ELSE CleanQueues
  /\ total_bytes' = CleanTotal - (IF AckValid(s) THEN Freed(s) ELSE 0)
  /\ LET woken == IF s.class # "Gc1" /\ HeadMatches(s) THEN Wake(streams[s].gen, {s.class})
                                                     ELSE streams
     IN  streams' = IF ~AckValid(s) THEN [streams EXCEPT ![s] = Idle]
                    ELSE [woken EXCEPT ![s].pc = IF s.class = "Gc1" THEN "check" ELSE "peek",
                                       ![s].head = <<>>]
  /\ grants' = CleanGrants /\ leases' = CleanLeases
  /\ UNCHANGED <<generation, now, history>>

\* Disconnection, stream reset, or the deadline of the subscription.
Drop(s) ==
  /\ streams[s].pc # "idle"
  /\ streams' = [streams EXCEPT ![s] = Idle]
  /\ UNCHANGED <<store, generation, now, history>>

Tick ==
  /\ now < MaxTime
  /\ now' = now + 1
  /\ UNCHANGED <<store, streams, generation, history>>

\* The store lives in memory: a restarted relay has no grant, lease or message.
Reboot ==
  /\ grants' = [g \in {} |-> 0] /\ leases' = [q \in {} |-> 0] /\ queues' = [q \in {} |-> 0]
  /\ total_bytes' = 0
  /\ streams' = [s \in Subs |-> Idle]
  /\ UNCHANGED <<generation, now, history>>

-----------------------------------------------------------------------------

Owner(q) ==
  \/ \E bound \in Bounds : IssueGrant(q, FirstEpoch, bound)
  \/ \E a \in Queues, caps \in CapSets, n \in Nonces, e \in LeaseTimes :
       DynamicGrant(a, caps, q, FirstEpoch, n, e)
  \/ \E caps \in CapSets, n \in Nonces, e \in LeaseTimes : Renew(q, caps, n, e)
  \/ \E caps, new \in CapSets, e \in LeaseTimes : Rotate(q, caps, new, e)
  \/ \E caps \in CapSets, e \in LeaseTimes : Revoke(q, caps, e)

Create == \E g \in GrantIds, e \in LeaseTimes, caps \in CapSets : CreateLease(g, e, caps)

Pump(s) ==
  Gc1Check(s) \/ Gc1Peek(s) \/ Gc2Peek(s) \/ Write(s) \/ Gc2Wait(s) \/ Gc2Recheck(s) \/ Acknowledge(s)

Next ==
  \/ \E q \in Queues : Owner(q)
  \/ Create
  \/ \E p \in Pushes : Push(p)
  \/ \E s \in Subs : Subscribe(s) \/ Pump(s) \/ Drop(s)
  \/ Cleanup \/ Tick \/ Reboot

Spec == Init /\ [][Next]_vars

\* A stream task that can step does: slots recur, an emission happens with
\* positive probability, and the subscriber grants transport credit.
FairSpec == Spec /\ \A s \in Subs : WF_vars(Pump(s))

-----------------------------------------------------------------------------
(* Properties *)

BytesOf(msgs) == SumFunction([i \in DOMAIN msgs |-> msgs[i].len])
Contents(queue) == UNION {Range(queue.msgs[c]) : c \in Classes}

\* The state has its shape: counters never go below zero, every replay record
\* belongs to a live kind of operation, streams are at one of their steps.
TypeOK ==
  /\ DOMAIN grants \subseteq GrantIds
  /\ DOMAIN leases \subseteq Queues
  /\ total_bytes \in Nat /\ generation \in 0..MaxGen /\ now \in 1..MaxTime
  /\ \A q \in DOMAIN queues : queues[q].bytes \in Nat /\ queues[q].gen \in 1..generation
  /\ \A q \in DOMAIN leases : leases[q].epoch \in FirstEpoch..MaxEpoch /\ leases[q].caps \in CapSets
  /\ \A s \in Subs : streams[s].pc \in {"idle", "check", "peek", "send", "ack", "wait"}
  /\ written \subseteq Pushes

\* "every lease owns a queue" (the expects of queues.rs), and the byte counters
\* of each queue and of the store are exactly the messages held, through
\* expiry, revocation, rotation, deposit and acknowledgment.
Accounting ==
  /\ DOMAIN leases = DOMAIN queues
  /\ \A q \in DOMAIN queues :
       queues[q].bytes = SumFunction([c \in Classes |-> BytesOf(queues[q].msgs[c])])
  /\ total_bytes = Held(DOMAIN queues)

\* A sender whose deposit was enqueued and whose answer was lost may retry until
\* the deposit expires: in the same lease epoch the retry is answered Duplicate,
\* whether the message is still queued, was delivered, or the queue is full.
RetryIsDuplicate ==
  \A d \in deposited :
    LET q == d.push.queue
    IN  (/\ q \in DOMAIN CleanQueues /\ CleanQueues[q].gen = d.gen
         /\ CleanLeases[q].epoch = d.push.epoch /\ d.push.expiry > now)
        => PushOutcome(d.push) = "Duplicate"

\* cleanup_expired leaves no expired replay record behind the cached earliest
\* expiry, so only unexpired requests count against a lease's replay capacity.
PurgedOnTime == \A q \in DOMAIN CleanLeases : \A r \in CleanLeases[q].replay : r.expiry > now

\* While its queue lives, a message leaves it only after it was written to a
\* subscriber, whatever streams overlap: a late acknowledgment takes no other.
NoSilentLoss ==
  [][\A q \in DOMAIN queues \cap DOMAIN queues' :
       queues[q].gen = queues'[q].gen =>
         \A p \in Contents(queues[q]) \ Contents(queues'[q]) : p \in written]_vars

\* A message waiting in a queue with an attached subscriber of its class is
\* written, unless the stream or the queue ends: no notification is lost.
SubscriberIsServed ==
  \A s \in Subs : \A p \in {d \in Pushes : d.class = s.class} :
    (/\ streams[s].pc # "idle" /\ s.queue \in DOMAIN queues
     /\ queues[s.queue].gen = streams[s].gen /\ p \in Range(queues[s.queue].msgs[s.class]))
    ~> (p \in written \/ streams[s].pc = "idle" \/ QueueGone(s))

=============================================================================
